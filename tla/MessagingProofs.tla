--------------------------- MODULE MessagingProofs ---------------------------
(* What holds of Messaging for every set of sends. *)
EXTENDS Messaging, TLAPS

(* Case split of a step by the action that takes it. *)
LEMMA StepCases ==
  ASSUME Next
  PROVE  \/ \E k \in Sends :
              \/ \E n \in Daemons : Start(k, n)
              \/ UseCached(k) \/ Dial(k) \/ Connect(k) \/ DialFails(k)
              \/ Register(k) \/ Write(k) \/ ConnectionGone(k) \/ GetAck(k)
              \/ GetError(k) \/ AckTimesOut(k) \/ MarkOffline(k)
              \/ AcceptCheck(k) \/ AcceptKeep(k) \/ AcceptRefuse(k)
              \/ ReadText(k) \/ StoreText(k) \/ AckText(k)
              \/ \E n \in Daemons : LoseConnection(k, n) \/ Notice(k, n)
         \/ \E n \in Daemons : (\E ok \in BOOLEAN : Unpair(n, ok)) \/ SaveConfig(n) \/ Restart(n)
  BY DEF Next, Sending, AcceptTask, Handling

(* A send has a sender once it has started and a connection once it has    *)
(* made or found one; the connection a send uses or a daemon registers was *)
(* made by the send it is named after; streams are written while the send  *)
(* waits, answered after they were written, and acknowledged after they    *)
(* were recorded.                                                          *)
Wiring ==
  /\ \A k \in Sends : pc[k] = "idle" <=> sender[k] = None
  /\ \A k \in Sends : pc[k] \in {"idle", "started", "dialing"} => via[k] = None
  /\ \A k \in Sends : pc[k] \in Holding => via[k] # None
  /\ \A k \in Sends : pc[k] = "dialed" => via[k] = k
  /\ \A k \in Sends : via[k] # None => via[via[k]] = via[k]
  /\ \A n \in Daemons : registry[n] # None => via[registry[n]] = registry[n]
  /\ \A k \in Sends : accept[k] # "none" => via[k] = k
  /\ \A k \in Sends : stream[k] # "none" =>
       via[k] # None /\ pc[k] \in {"waiting", "failed"} \cup Ended
  /\ \A k \in Sends : reply[k] # "none" => stream[k] # "none"
  /\ \A k \in Sends : stream[k] \in {"stored", "answered"} => k \in stored
  /\ \A k \in stored : stream[k] \in {"stored", "answered", "dropped"}
  /\ \A k \in Sends : reply[k] = "ack" \/ pc[k] = "sent" => k \in stored

MInv == TypeOK /\ Wiring

-----------------------------------------------------------------------------
(* Every step keeps the types and the wiring. *)
LEMMA MStep ==
  ASSUME MInv, [Next]_vars
  PROVE  MInv'
  <1> USE NoneAssumption, BoundAssumption
      DEF hitVars, MInv, TypeOK, Wiring, Holding, Ended, Daemons, Other, Acceptor
  <1>1. CASE UNCHANGED vars
    BY <1>1 DEF vars
  <1>2. ASSUME NEW k \in Sends, NEW n \in Daemons, Start(k, n) PROVE MInv'
    BY <1>2 DEF Start
  <1>3. ASSUME NEW k \in Sends, UseCached(k) PROVE MInv'
    <2>1. sender[k] \in Daemons
      BY <1>3 DEF UseCached
    <2>2. registry[sender[k]] \in Sends /\ via[registry[sender[k]]] = registry[sender[k]]
      BY <1>3, <2>1 DEF UseCached, Cached
    <2>3. TypeOK'
      BY <1>3, <2>2 DEF UseCached
    <2>4. \A j \in Sends : via[j] # None => via'[j] = via[j]
      BY <1>3 DEF UseCached
    <2>5. via'[k] = registry[sender[k]] /\ via'[via'[k]] = via'[k]
      BY <1>3, <2>2, <2>4 DEF UseCached
    <2>6. \A j \in Sends : via'[j] # None => via'[via'[j]] = via'[j]
      <3> TAKE j \in Sends
      <3>1. CASE j = k
        BY <2>5, <3>1
      <3>2. CASE j # k
        <4>1. via'[j] = via[j]
          BY <1>3, <3>2 DEF UseCached
        <4> QED
          BY <2>4, <4>1
      <3> QED
        BY <3>1, <3>2
    <2>7. \A n \in Daemons : registry'[n] # None => via'[registry'[n]] = registry'[n]
      BY <1>3, <2>4 DEF UseCached
    <2>8. \A j \in Sends : accept'[j] # "none" => via'[j] = j
      BY <1>3, <2>4 DEF UseCached
    <2>9. Wiring'
      <3>1. /\ \A j \in Sends : pc'[j] = "idle" <=> sender'[j] = None
            /\ \A j \in Sends : pc'[j] \in {"idle", "started", "dialing"} => via'[j] = None
            /\ \A j \in Sends : pc'[j] \in Holding => via'[j] # None
            /\ \A j \in Sends : pc'[j] = "dialed" => via'[j] = j
        BY <1>3, <2>2 DEF UseCached
      <3>2. /\ \A j \in Sends : stream'[j] # "none" =>
                 via'[j] # None /\ pc'[j] \in {"waiting", "failed"} \cup Ended
            /\ \A j \in Sends : reply'[j] # "none" => stream'[j] # "none"
            /\ \A j \in Sends : stream'[j] \in {"stored", "answered"} => j \in stored'
            /\ \A j \in stored' : stream'[j] \in {"stored", "answered", "dropped"}
            /\ \A j \in Sends : reply'[j] = "ack" \/ pc'[j] = "sent" => j \in stored'
        BY <1>3, <2>2 DEF UseCached
      <3> QED
        BY <2>6, <2>7, <2>8, <3>1, <3>2
    <2> QED
      BY <2>3, <2>9
  <1>4. ASSUME NEW k \in Sends, Dial(k) PROVE MInv'
    BY <1>4 DEF Dial
  <1>5. ASSUME NEW k \in Sends, Connect(k) PROVE MInv'
    BY <1>5 DEF Connect
  <1>6. ASSUME NEW k \in Sends, DialFails(k) PROVE MInv'
    BY <1>6 DEF DialFails
  <1>7. ASSUME NEW k \in Sends, Register(k) PROVE MInv'
    <2>1. sender[k] \in Daemons /\ via[k] = k
      BY <1>7 DEF Register
    <2>2. \A n \in Daemons : registry'[n] = IF n = sender[k] THEN k ELSE registry[n]
      BY <1>7, <2>1 DEF Register
    <2> QED
      BY <1>7, <2>1, <2>2 DEF Register
  <1>8. ASSUME NEW k \in Sends, Write(k) PROVE MInv'
    BY <1>8 DEF Write
  <1>9. ASSUME NEW k \in Sends, ConnectionGone(k) PROVE MInv'
    BY <1>9 DEF ConnectionGone
  <1>10. ASSUME NEW k \in Sends, GetAck(k) PROVE MInv'
    BY <1>10 DEF GetAck, Accepting
  <1>11. ASSUME NEW k \in Sends, GetError(k) PROVE MInv'
    BY <1>11 DEF GetError
  <1>12. ASSUME NEW k \in Sends, AckTimesOut(k) PROVE MInv'
    BY <1>12 DEF AckTimesOut
  <1>13. ASSUME NEW k \in Sends, MarkOffline(k) PROVE MInv'
    BY <1>13 DEF MarkOffline, AfterFailure
  <1>14. ASSUME NEW k \in Sends, AcceptCheck(k) PROVE MInv'
    BY <1>14 DEF AcceptCheck
  <1>15. ASSUME NEW k \in Sends, AcceptKeep(k) PROVE MInv'
    BY <1>15 DEF AcceptKeep
  <1>16. ASSUME NEW k \in Sends, AcceptRefuse(k) PROVE MInv'
    BY <1>16 DEF AcceptRefuse, Leaves
  <1>17. ASSUME NEW k \in Sends, ReadText(k) PROVE MInv'
    BY <1>17 DEF ReadText
  <1>18. ASSUME NEW k \in Sends, StoreText(k) PROVE MInv'
    BY <1>18 DEF StoreText
  <1>19. ASSUME NEW k \in Sends, AckText(k) PROVE MInv'
    BY <1>19 DEF AckText, Recorded
  <1>20. ASSUME NEW k \in Sends, NEW n \in Daemons, LoseConnection(k, n) PROVE MInv'
    <2>1. TypeOK'
      BY <1>20 DEF LoseConnection, Leaves, Hit
    <2>2. Wiring'
      BY <1>20 DEF LoseConnection, Leaves, Hit
    <2> QED
      BY <2>1, <2>2
  <1>21. ASSUME NEW n \in Daemons, NEW ok \in BOOLEAN, Unpair(n, ok) PROVE MInv'
    <2>1. /\ filed' \in [Daemons -> BOOLEAN] /\ barred' \subseteq Sends
      <3>1. CASE ok
        <4>1. /\ filed' = [filed EXCEPT ![n] = FALSE]
              /\ barred' = barred \cup {k \in Sends : sender[k] # n /\ stream[k] = "none"}
          BY <1>21, <3>1 DEF Unpair
        <4>2. filed' \in [Daemons -> BOOLEAN]
          BY <4>1
        <4>3. barred' \subseteq Sends
          BY <4>1
        <4> QED
          BY <4>2, <4>3
      <3>2. CASE ~ok
        BY <1>21, <3>2 DEF Unpair
      <3> QED
        BY <3>1, <3>2
    <2>3. TypeOK'
      BY <1>21, <2>1 DEF Unpair, Hit
    <2>2. Wiring'
      BY <1>21 DEF Unpair, Hit
    <2> QED
      BY <2>2, <2>3
  <1>22. ASSUME NEW k \in Sends, NEW n \in Daemons, Notice(k, n) PROVE MInv'
    <2>1. TypeOK'
      BY <1>22 DEF Notice, Leaves
    <2>2. Wiring'
      BY <1>22 DEF Notice, Leaves
    <2> QED
      BY <2>1, <2>2
  <1>23. ASSUME NEW n \in Daemons, Restart(n) PROVE MInv'
    <2>1. TypeOK'
      BY <1>23 DEF Restart, Hit
    <2>2. Wiring'
      BY <1>23 DEF Restart, Hit
    <2> QED
      BY <2>1, <2>2
  <1>24. ASSUME NEW n \in Daemons, SaveConfig(n) PROVE MInv'
    BY <1>24 DEF SaveConfig
  <1> HIDE DEF hitVars, MInv, TypeOK, Wiring, Holding, Ended, Daemons, Other, Acceptor
  <1> QED
    BY <1>1, <1>2, <1>3, <1>4, <1>5, <1>6, <1>7, <1>8, <1>9, <1>10, <1>11,
       <1>12, <1>13, <1>14, <1>15, <1>16, <1>17, <1>18, <1>19, <1>20, <1>21,
       <1>22, <1>23, <1>24, StepCases

LEMMA MInit == Init => MInv
  <1> SUFFICES ASSUME Init PROVE MInv
    OBVIOUS
  <1>1. 0 \in 0 .. MaxHits
    BY BoundAssumption
  <1>2. TypeOK
    BY <1>1 DEF Init, TypeOK, Daemons
  <1>3. Wiring
    BY NoneAssumption DEF Init, Wiring, Holding, Ended, Daemons
  <1> QED
    BY <1>2, <1>3 DEF MInv

LEMMA MAlways == Safety => []MInv
  <1>1. MInv /\ [Next]_vars => MInv'
    BY MStep
  <1> QED
    BY <1>1, MInit, PTL DEF Safety

(* The connection registry, the sends and their streams keep their types,  *)
(* and what is stored is what has been read and recorded.                  *)
THEOREM TypeCorrect == Safety => []TypeOK
  <1>1. MInv => TypeOK
    BY DEF MInv
  <1> QED
    BY <1>1, MAlways, PTL

(* A message that send_text reports as sent has been recorded by the peer, *)
(* for any number of concurrent sends on both daemons and any order of     *)
(* dials, tie-breaks, losses, time-outs and unpairings.                    *)
THEOREM SentStored == Safety => []SentMeansStored
  <1>1. MInv => SentMeansStored
    BY DEF MInv, Wiring, SentMeansStored
  <1> QED
    BY <1>1, MAlways, PTL

-----------------------------------------------------------------------------
(* Unpairing is an excuse for every send, and a send of the lower id that  *)
(* dialed for itself and has no excuse has not failed, and as long as it   *)
(* is at work both daemons have its connection.                            *)
Undisturbed(k) == sender[k] = Low /\ via[k] = k /\ ~excused[k]

LowerInv ==
  /\ (\A n \in Daemons : trusted[n] /\ filed[n]) \/ (\A k \in Sends : excused[k])
  /\ \A k \in Sends : Undisturbed(k) =>
       /\ reply[k] # "error" /\ pc[k] \notin {"failed", "notsent"}
       /\ pc[k] \in Holding => ends[k] = Daemons

(* A send that dialed for itself and is at work has its connection, unless *)
(* somebody closed it.                                                     *)
LEMMA OwnDialOpen ==
  ASSUME NEW k \in Sends, Undisturbed(k), ends[k] = Daemons, pc[k] \in Holding
  PROVE  Held(k) /\ Open(via[k], sender[k]) /\ HasReader(k)
  BY DEF Undisturbed, Open, Held, HasReader, Daemons

(* Every step keeps it. *)
LEMMA LowerStep ==
  ASSUME MInv, LowerInv, [Next]_vars
  PROVE  LowerInv'
  <1> USE NoneAssumption, DaemonAssumption
      DEF hitVars, MInv, TypeOK, Wiring, LowerInv, Undisturbed, Holding, Ended, Daemons
  <1>1. CASE UNCHANGED vars
    BY <1>1 DEF vars
  <1>2. ASSUME NEW k \in Sends, NEW n \in Daemons, Start(k, n) PROVE LowerInv'
    BY <1>2 DEF Start
  <1>3. ASSUME NEW k \in Sends, UseCached(k) PROVE LowerInv'
    BY <1>3 DEF UseCached, Cached
  <1>4. ASSUME NEW k \in Sends, Dial(k) PROVE LowerInv'
    BY <1>4 DEF Dial
  <1>5. ASSUME NEW k \in Sends, Connect(k) PROVE LowerInv'
    BY <1>5 DEF Connect
  <1>6. ASSUME NEW k \in Sends, DialFails(k) PROVE LowerInv'
    BY <1>6 DEF DialFails
  <1>7. ASSUME NEW k \in Sends, Register(k) PROVE LowerInv'
    BY <1>7 DEF Register
  <1>8. ASSUME NEW k \in Sends, Write(k) PROVE LowerInv'
    BY <1>8 DEF Write
  <1>9. ASSUME NEW k \in Sends, ConnectionGone(k) PROVE LowerInv'
    BY <1>9, OwnDialOpen DEF ConnectionGone
  <1>10. ASSUME NEW k \in Sends, GetAck(k) PROVE LowerInv'
    BY <1>10 DEF GetAck
  <1>11. ASSUME NEW k \in Sends, GetError(k) PROVE LowerInv'
    BY <1>11 DEF GetError
  <1>12. ASSUME NEW k \in Sends, AckTimesOut(k) PROVE LowerInv'
    BY <1>12, OwnDialOpen DEF AckTimesOut
  <1>13. ASSUME NEW k \in Sends, MarkOffline(k) PROVE LowerInv'
    BY <1>13 DEF MarkOffline, AfterFailure
  <1>14. ASSUME NEW k \in Sends, AcceptCheck(k) PROVE LowerInv'
    BY <1>14 DEF AcceptCheck
  <1>15. ASSUME NEW k \in Sends, AcceptKeep(k) PROVE LowerInv'
    BY <1>15 DEF AcceptKeep
  <1>16. ASSUME NEW k \in Sends, AcceptRefuse(k) PROVE LowerInv'
    BY <1>16 DEF AcceptRefuse, KeepInbound, Leaves
  <1>17. ASSUME NEW k \in Sends, ReadText(k) PROVE LowerInv'
    BY <1>17 DEF ReadText, MayText, Other
  <1>18. ASSUME NEW k \in Sends, StoreText(k) PROVE LowerInv'
    BY <1>18 DEF StoreText
  <1>19. ASSUME NEW k \in Sends, AckText(k) PROVE LowerInv'
    BY <1>19 DEF AckText, Recorded
  <1>20. ASSUME NEW k \in Sends, NEW n \in Daemons, LoseConnection(k, n) PROVE LowerInv'
    BY <1>20 DEF LoseConnection, Leaves
  <1>21. ASSUME NEW n \in Daemons, NEW ok \in BOOLEAN, Unpair(n, ok) PROVE LowerInv'
    BY <1>21 DEF Unpair
  <1>22. ASSUME NEW k \in Sends, NEW n \in Daemons, Notice(k, n) PROVE LowerInv'
    BY <1>22, OwnDialOpen DEF Notice, Leaves, Open, Other
  <1>23. ASSUME NEW n \in Daemons, Restart(n) PROVE LowerInv'
    BY <1>23 DEF Restart
  <1>24. ASSUME NEW n \in Daemons, SaveConfig(n) PROVE LowerInv'
    BY <1>24 DEF SaveConfig
  <1> QED
    BY <1>1, <1>2, <1>3, <1>4, <1>5, <1>6, <1>7, <1>8, <1>9, <1>10, <1>11, <1>12,
       <1>13, <1>14, <1>15, <1>16, <1>17, <1>18, <1>19, <1>20, <1>21, <1>22, <1>23, <1>24, StepCases

LEMMA LowerAlways == Safety => []LowerInv
  <1>1. Init => LowerInv
    BY NoneAssumption DEF Init, LowerInv, Undisturbed, Daemons
  <1>2. MInv /\ LowerInv /\ [Next]_vars => LowerInv'
    BY LowerStep
  <1> QED
    BY <1>1, <1>2, MAlways, PTL DEF Safety

(* The tie-break between simultaneous dials never costs the side it        *)
(* prefers a message: whatever the higher id dials, accepts and closes     *)
(* meanwhile, a send of the lower id over its own dial fails only if a     *)
(* loss, a late answer or an unpairing hit it.                             *)
THEOREM LowerDial == Safety => []LowerDialSucceeds
  <1>1. LowerInv => LowerDialSucceeds
    BY DEF LowerInv, Undisturbed, LowerDialSucceeds
  <1> QED
    BY <1>1, LowerAlways, PTL
-----------------------------------------------------------------------------
(* The receiver of a barred send no longer trusts its sender, whichever of *)
(* the two that will be.                                                   *)
BarredInv ==
  /\ \A k \in barred : stream[k] \notin {"authorized", "stored", "answered"} /\ k \notin stored
  /\ \A k \in barred : sender[k] # None =>
       ~trusted[Other(sender[k])] /\ ~filed[Other(sender[k])]
  /\ \A k \in barred : sender[k] = None => \E n \in Daemons : ~trusted[n] /\ ~filed[n]

LEMMA BarredStep ==
  ASSUME MInv, BarredInv, [Next]_vars
  PROVE  BarredInv'
  <1> USE NoneAssumption, DaemonAssumption
      DEF hitVars, MInv, TypeOK, Wiring, BarredInv, Other, Daemons
  <1>1. CASE UNCHANGED vars
    BY <1>1 DEF vars
  <1>2. ASSUME NEW k \in Sends, NEW n \in Daemons, Start(k, n) PROVE BarredInv'
    BY <1>2 DEF Start
  <1>3. ASSUME NEW k \in Sends, UseCached(k) PROVE BarredInv'
    BY <1>3 DEF UseCached
  <1>4. ASSUME NEW k \in Sends, Dial(k) PROVE BarredInv'
    BY <1>4 DEF Dial
  <1>5. ASSUME NEW k \in Sends, Connect(k) PROVE BarredInv'
    BY <1>5 DEF Connect
  <1>6. ASSUME NEW k \in Sends, DialFails(k) PROVE BarredInv'
    BY <1>6 DEF DialFails
  <1>7. ASSUME NEW k \in Sends, Register(k) PROVE BarredInv'
    BY <1>7 DEF Register
  <1>8. ASSUME NEW k \in Sends, Write(k) PROVE BarredInv'
    BY <1>8 DEF Write
  <1>9. ASSUME NEW k \in Sends, ConnectionGone(k) PROVE BarredInv'
    BY <1>9 DEF ConnectionGone
  <1>10. ASSUME NEW k \in Sends, GetAck(k) PROVE BarredInv'
    BY <1>10 DEF GetAck
  <1>11. ASSUME NEW k \in Sends, GetError(k) PROVE BarredInv'
    BY <1>11 DEF GetError
  <1>12. ASSUME NEW k \in Sends, AckTimesOut(k) PROVE BarredInv'
    BY <1>12 DEF AckTimesOut
  <1>13. ASSUME NEW k \in Sends, MarkOffline(k) PROVE BarredInv'
    BY <1>13 DEF MarkOffline, AfterFailure
  <1>14. ASSUME NEW k \in Sends, AcceptCheck(k) PROVE BarredInv'
    BY <1>14 DEF AcceptCheck
  <1>15. ASSUME NEW k \in Sends, AcceptKeep(k) PROVE BarredInv'
    BY <1>15 DEF AcceptKeep
  <1>16. ASSUME NEW k \in Sends, AcceptRefuse(k) PROVE BarredInv'
    BY <1>16 DEF AcceptRefuse
  <1>17. ASSUME NEW k \in Sends, ReadText(k) PROVE BarredInv'
    BY <1>17 DEF ReadText, MayText
  <1>18. ASSUME NEW k \in Sends, StoreText(k) PROVE BarredInv'
    BY <1>18 DEF StoreText
  <1>19. ASSUME NEW k \in Sends, AckText(k) PROVE BarredInv'
    BY <1>19 DEF AckText, Recorded
  <1>20. ASSUME NEW k \in Sends, NEW n \in Daemons, LoseConnection(k, n) PROVE BarredInv'
    BY <1>20 DEF LoseConnection
  <1>21. ASSUME NEW n \in Daemons, NEW ok \in BOOLEAN, Unpair(n, ok) PROVE BarredInv'
    BY <1>21 DEF Unpair
  <1>22. ASSUME NEW k \in Sends, NEW n \in Daemons, Notice(k, n) PROVE BarredInv'
    BY <1>22 DEF Notice
  <1>23. ASSUME NEW n \in Daemons, Restart(n) PROVE BarredInv'
    BY <1>23 DEF Restart
  <1>24. ASSUME NEW n \in Daemons, SaveConfig(n) PROVE BarredInv'
    BY <1>24 DEF SaveConfig
  <1> QED
    BY <1>1, <1>2, <1>3, <1>4, <1>5, <1>6, <1>7, <1>8, <1>9, <1>10, <1>11,
       <1>12, <1>13, <1>14, <1>15, <1>16, <1>17, <1>18, <1>19, <1>20, <1>21,
       <1>22, <1>23, <1>24, StepCases

LEMMA BarredAlways == Safety => []BarredInv
  <1>1. Init => BarredInv
    BY DEF Init, BarredInv
  <1>2. MInv /\ BarredInv /\ [Next]_vars => BarredInv'
    BY BarredStep
  <1> QED
    BY <1>1, <1>2, MAlways, PTL DEF Safety

(* After an unpairing the receiver records nothing that had not been on    *)
(* its way: no connection that was accepted, cached or dialed before, and  *)
(* no restart, lets a later text through.                                  *)
THEOREM RevokedNotStored == Safety => []RevokedNeverStored
  <1>1. BarredInv => RevokedNeverStored
    BY DEF BarredInv, RevokedNeverStored
  <1> QED
    BY <1>1, BarredAlways, PTL

-----------------------------------------------------------------------------
(* Messaging is a Delivery: most steps are of no concern to it.            *)

(* What a sender is told changes only for the sends whose place changes.   *)
LEMMA ToldIs ==
  /\ Told = [k \in Sends |-> Told[k]]
  /\ \A k \in Sends :
       /\ pc[k] = "idle" => Told[k] = "nothing"
       /\ pc[k] = "sent" => Told[k] = "sent"
       /\ pc[k] = "notsent" => Told[k] = "failed"
       /\ pc[k] = "lost" => Told[k] = "forgotten"
       /\ pc[k] \notin {"idle", "sent", "notsent", "lost"} => Told[k] = "sending"
  BY DEF Told

LEMMA ToldMoves ==
  ASSUME TypeOK, NEW k \in Sends, NEW x, pc' = [pc EXCEPT ![k] = x]
  PROVE  /\ Told' = [j \in Sends |-> IF j = k THEN Told'[k] ELSE Told[j]]
         /\ x = "sent" => Told'[k] = "sent"
         /\ x = "notsent" => Told'[k] = "failed"
         /\ x \notin {"idle", "sent", "notsent", "lost"} => Told'[k] = "sending"
  BY DEF Told, TypeOK

LEMMA DeliveryStep ==
  ASSUME MInv, BarredInv, [Next]_vars
  PROVE  [D!Next]_<<Told, stored, barred>>
  <1> USE DEF MInv, hitVars
  <1>1. CASE UNCHANGED vars
    BY <1>1 DEF vars, Told
  <1>2. ASSUME NEW k \in Sends, NEW n \in Daemons, Start(k, n) PROVE D!Begin(k)
    <2>1. pc[k] = "idle" /\ pc' = [pc EXCEPT ![k] = "started"] /\ UNCHANGED <<stored, barred>>
      BY <1>2 DEF Start
    <2>2. Told[k] = "nothing" /\ Told'[k] = "sending"
      <3>1. Told[k] = "nothing"
        BY <2>1, ToldIs
      <3>2. Told'[k] = "sending"
        BY <2>1 DEF Told, TypeOK
      <3> QED
        BY <3>1, <3>2
    <2>3. Told' = [j \in Sends |-> IF j = k THEN Told'[k] ELSE Told[j]]
      BY <2>1, ToldMoves
    <2>4. Told' = [Told EXCEPT ![k] = "sending"]
      BY <2>2, <2>3, ToldIs
    <2> QED
      BY <2>1, <2>2, <2>4 DEF D!Begin
  <1>3. ASSUME NEW k \in Sends,
               \/ UseCached(k) \/ Dial(k) \/ Connect(k) \/ DialFails(k) \/ Register(k)
               \/ Write(k) \/ ConnectionGone(k) \/ GetError(k) \/ AckTimesOut(k)
        PROVE  UNCHANGED <<Told, stored, barred>>
    <2> DEFINE Busy == {"started", "dialing", "failed"} \cup Holding
    <2>1. /\ pc[k] \in Busy /\ UNCHANGED <<stored, barred>>
          /\ \E x \in Busy : pc' = [pc EXCEPT ![k] = x]
      BY <1>3 DEF Holding, UseCached, Dial, Connect, DialFails, Register, Write,
                  ConnectionGone, GetError, AckTimesOut
    <2>2. Told[k] = "sending" /\ Told'[k] = "sending"
      BY <2>1, ToldIs, ToldMoves DEF Holding
    <2>3. Told' = [j \in Sends |-> IF j = k THEN Told'[k] ELSE Told[j]]
      BY <2>1, ToldMoves
    <2>4. Told' = Told
      BY <2>2, <2>3, ToldIs
    <2> QED
      BY <2>1, <2>4
  <1>4. ASSUME NEW k \in Sends, GetAck(k) PROVE D!Tell(k, "sent")
    <2>1. /\ pc[k] = "waiting" /\ reply[k] = "ack" /\ UNCHANGED <<stored, barred>>
          /\ pc' = [pc EXCEPT ![k] = "sent"]
      BY <1>4 DEF GetAck, Accepting
    <2>2. Told[k] = "sending" /\ Told'[k] = "sent" /\ k \in stored
      BY <2>1, ToldIs, ToldMoves DEF Wiring
    <2>3. Told' = [j \in Sends |-> IF j = k THEN Told'[k] ELSE Told[j]]
      BY <2>1, ToldMoves
    <2>4. Told' = [Told EXCEPT ![k] = "sent"]
      BY <2>2, <2>3, ToldIs
    <2> QED
      BY <2>1, <2>2, <2>4 DEF D!Tell
  <1>5. ASSUME NEW k \in Sends, MarkOffline(k) PROVE D!Tell(k, "failed")
    <2>1. /\ pc[k] = "failed" /\ pc' = [pc EXCEPT ![k] = "notsent"]
          /\ UNCHANGED <<stored, barred>>
      BY <1>5 DEF MarkOffline
    <2>2. Told[k] = "sending" /\ Told'[k] = "failed"
      BY <2>1, ToldIs, ToldMoves
    <2>3. Told' = [j \in Sends |-> IF j = k THEN Told'[k] ELSE Told[j]]
      BY <2>1, ToldMoves
    <2>4. Told' = [Told EXCEPT ![k] = "failed"]
      BY <2>2, <2>3, ToldIs
    <2> QED
      BY <2>1, <2>2, <2>4 DEF D!Tell
  <1>6. ASSUME NEW k \in Sends,
               \/ AcceptCheck(k) \/ AcceptKeep(k) \/ AcceptRefuse(k) \/ ReadText(k) \/ AckText(k)
               \/ \E n \in Daemons : LoseConnection(k, n) \/ Notice(k, n)
        PROVE  UNCHANGED <<Told, stored, barred>>
    BY <1>6 DEF Told, AcceptCheck, AcceptKeep, AcceptRefuse, ReadText, AckText,
                LoseConnection, Notice
  <1>7. ASSUME NEW k \in Sends, StoreText(k) PROVE D!Record(k)
    <2>1. /\ stream[k] = "authorized" /\ stored' = stored \cup {k}
          /\ UNCHANGED <<pc, barred>>
      BY <1>7 DEF StoreText
    <2>2. k \notin stored \cup barred
      BY <2>1 DEF Wiring, BarredInv
    <2>3. pc[k] \in {"waiting", "failed"} \cup Ended
      BY <2>1 DEF Wiring
    <2>4. Told[k] # "nothing"
      BY <2>3, ToldIs DEF Ended
    <2>5. UNCHANGED Told
      BY <2>1 DEF Told
    <2> QED
      BY <2>1, <2>2, <2>4, <2>5 DEF D!Record
  <1>8. ASSUME NEW n \in Daemons, NEW ok \in BOOLEAN, Unpair(n, ok)
        PROVE  \E K \in SUBSET Sends : D!Revoke(K)
    <2> DEFINE K == {k \in Sends : ok /\ sender[k] # n /\ stream[k] = "none"}
    <2>1. barred' = barred \cup K /\ UNCHANGED <<pc, stored>>
      BY <1>8 DEF Unpair
    <2>2. K \cap stored = {}
      BY DEF Wiring
    <2>3. UNCHANGED Told
      BY <2>1 DEF Told
    <2> QED
      BY <2>1, <2>2, <2>3 DEF D!Revoke
  <1>9. ASSUME NEW n \in Daemons, Restart(n)
        PROVE  \E K \in SUBSET Sends : D!Forget(K)
    <2> DEFINE K == {k \in Sends : sender[k] = n /\ pc[k] \notin Ended}
    <2>1. /\ pc' = [k \in Sends |-> IF k \in K THEN "lost" ELSE pc[k]]
          /\ UNCHANGED <<stored, barred>>
      BY <1>9 DEF Restart
    <2>2. \A k \in K : pc[k] \notin {"idle", "sent", "notsent", "lost"}
      BY NoneAssumption DEF Wiring, Ended, Daemons
    <2>3. \A k \in K : Told[k] = "sending"
      BY <2>2, ToldIs
    <2> HIDE DEF K
    <2>4. Told' = [k \in Sends |-> IF k \in K THEN "forgotten" ELSE Told[k]]
      BY <2>1 DEF Told
    <2> QED
      BY <2>1, <2>3, <2>4 DEF D!Forget, K
  <1>10. ASSUME NEW n \in Daemons, SaveConfig(n)
         PROVE  UNCHANGED <<Told, stored, barred>>
    BY <1>10 DEF SaveConfig, Told
  <1> QED
    BY <1>1, <1>2, <1>3, <1>4, <1>5, <1>6, <1>7, <1>8, <1>9, <1>10, StepCases DEF D!Next

(* Two daemons that send each other texts are a Delivery: for any number   *)
(* of sends, connections, losses, unpairings and restarts, what a sender   *)
(* has been told is final, and sent is told only of what was recorded.     *)
THEOREM MessagingImplementsDelivery == Safety => ImplementsDelivery
  <1>1. Init => D!Init
    BY DEF Init, D!Init, Told
  <1>2. MInv /\ BarredInv /\ [Next]_vars => [D!Next]_<<Told, stored, barred>>
    BY DeliveryStep
  <1> QED
    BY <1>1, <1>2, MAlways, BarredAlways, PTL
    DEF Safety, ImplementsDelivery, D!Spec, D!vars

(* What was told of a send that is over is never told otherwise. *)
ToldForGood ==
  [][\A k \in Sends : Told[k] \in {"sent", "failed", "forgotten"} => Told'[k] = Told[k]]_vars

(* A sender is told once: an acknowledgement that comes after the time-out *)
(* does not make "sent" of "failed", and no loss, unpairing or restart     *)
(* takes "sent" back.                                                      *)
THEOREM ToldIsFinal == Safety => ToldForGood
  <1> DEFINE F == \A k \in Sends :
                    Told[k] \in {"sent", "failed", "forgotten"} => Told'[k] = Told[k]
  <1>1. Told = [k \in Sends |-> Told[k]]
    BY DEF Told
  <1>2. ASSUME D!Next PROVE F
    <2>1. ASSUME NEW k \in Sends, D!Begin(k) PROVE F
      BY <1>1, <2>1 DEF D!Begin
    <2>2. ASSUME NEW k \in Sends, D!Record(k) PROVE F
      BY <2>2 DEF D!Record
    <2>3. ASSUME NEW k \in Sends, NEW o, D!Tell(k, o) PROVE F
      BY <1>1, <2>3 DEF D!Tell
    <2>4. ASSUME NEW K, D!Forget(K) PROVE F
      BY <2>4 DEF D!Forget
    <2>5. ASSUME NEW K, D!Revoke(K) PROVE F
      BY <2>5 DEF D!Revoke
    <2> QED
      BY <1>2, <2>1, <2>2, <2>3, <2>4, <2>5 DEF D!Next
  <1>3. MInv /\ BarredInv /\ [Next]_vars => [F]_vars
    BY <1>2, DeliveryStep
  <1> QED
    BY <1>3, MAlways, BarredAlways, PTL DEF Safety, ToldForGood

-----------------------------------------------------------------------------
(* A connection that is still to be registered by a daemon is used there   *)
(* by nobody but the send that dialed it, so that what mark_offline has    *)
(* taken out of the registry does not come back.                           *)
Unregistered(j, n) ==
  IF sender[j] = n THEN pc[j] = "dialed" ELSE accept[j] \in {"none", "trusted"}

OnceInv ==
  /\ \A k \in Sends : (pc[k] = "notsent" /\ via[k] # None) => registry[sender[k]] # via[k]
  /\ \A n \in Daemons, j \in Sends : registry[n] = j => ~Unregistered(j, n)
  /\ \A j, k \in Sends : (via[k] = j /\ k # j) => ~Unregistered(j, sender[k])

LEMMA OnceStep ==
  ASSUME MInv, OnceInv, [Next]_vars
  PROVE  OnceInv'
  <1> USE NoneAssumption, DaemonAssumption
      DEF hitVars, MInv, TypeOK, Wiring, OnceInv, Unregistered, Other, Daemons, Holding, Ended
  <1>1. CASE UNCHANGED vars
    BY <1>1 DEF vars
  <1>2. ASSUME NEW k \in Sends, NEW n \in Daemons, Start(k, n) PROVE OnceInv'
    BY <1>2 DEF Start
  <1>3. ASSUME NEW k \in Sends, UseCached(k) PROVE OnceInv'
    BY <1>3 DEF UseCached, Cached
  <1>4. ASSUME NEW k \in Sends, Dial(k) PROVE OnceInv'
    BY <1>4 DEF Dial
  <1>5. ASSUME NEW k \in Sends, Connect(k) PROVE OnceInv'
    BY <1>5 DEF Connect
  <1>6. ASSUME NEW k \in Sends, DialFails(k) PROVE OnceInv'
    BY <1>6 DEF DialFails
  <1>7. ASSUME NEW k \in Sends, Register(k) PROVE OnceInv'
    BY <1>7 DEF Register
  <1>8. ASSUME NEW k \in Sends, Write(k) PROVE OnceInv'
    BY <1>8 DEF Write
  <1>9. ASSUME NEW k \in Sends, ConnectionGone(k) PROVE OnceInv'
    BY <1>9 DEF ConnectionGone
  <1>10. ASSUME NEW k \in Sends, GetAck(k) PROVE OnceInv'
    BY <1>10 DEF GetAck
  <1>11. ASSUME NEW k \in Sends, GetError(k) PROVE OnceInv'
    BY <1>11 DEF GetError
  <1>12. ASSUME NEW k \in Sends, AckTimesOut(k) PROVE OnceInv'
    BY <1>12 DEF AckTimesOut
  <1>13. ASSUME NEW k \in Sends, MarkOffline(k) PROVE OnceInv'
    BY <1>13 DEF MarkOffline, AfterFailure
  <1>14. ASSUME NEW k \in Sends, AcceptCheck(k) PROVE OnceInv'
    BY <1>14 DEF AcceptCheck
  <1>15. ASSUME NEW k \in Sends, AcceptKeep(k) PROVE OnceInv'
    BY <1>15 DEF AcceptKeep, Acceptor
  <1>16. ASSUME NEW k \in Sends, AcceptRefuse(k) PROVE OnceInv'
    BY <1>16 DEF AcceptRefuse
  <1>17. ASSUME NEW k \in Sends, ReadText(k) PROVE OnceInv'
    BY <1>17 DEF ReadText
  <1>18. ASSUME NEW k \in Sends, StoreText(k) PROVE OnceInv'
    BY <1>18 DEF StoreText
  <1>19. ASSUME NEW k \in Sends, AckText(k) PROVE OnceInv'
    BY <1>19 DEF AckText, Recorded
  <1>20. ASSUME NEW k \in Sends, NEW n \in Daemons, LoseConnection(k, n) PROVE OnceInv'
    BY <1>20 DEF LoseConnection
  <1>21. ASSUME NEW n \in Daemons, NEW ok \in BOOLEAN, Unpair(n, ok) PROVE OnceInv'
    BY <1>21 DEF Unpair
  <1>22. ASSUME NEW k \in Sends, NEW n \in Daemons, Notice(k, n) PROVE OnceInv'
    BY <1>22 DEF Notice
  <1>23. ASSUME NEW n \in Daemons, Restart(n) PROVE OnceInv'
    BY <1>23 DEF Restart
  <1>24. ASSUME NEW n \in Daemons, SaveConfig(n) PROVE OnceInv'
    BY <1>24 DEF SaveConfig
  <1> QED
    BY <1>1, <1>2, <1>3, <1>4, <1>5, <1>6, <1>7, <1>8, <1>9, <1>10, <1>11,
       <1>12, <1>13, <1>14, <1>15, <1>16, <1>17, <1>18, <1>19, <1>20, <1>21,
       <1>22, <1>23, <1>24, StepCases

LEMMA OnceAlways == Safety => []OnceInv
  <1>1. Init => OnceInv
    BY NoneAssumption DEF Init, OnceInv, Daemons
  <1>2. MInv /\ OnceInv /\ [Next]_vars => OnceInv'
    BY OnceStep
  <1> QED
    BY <1>1, <1>2, MAlways, PTL DEF Safety

(* A send that failed has taken its connection out of use on its daemon    *)
(* for good.                                                               *)
THEOREM FailedStaysOut == Safety => FailedNotReused
  <1> DEFINE A == \A j, k \in Sends :
                    (pc[j] = "notsent" /\ sender[j] = sender[k] /\ via'[k] # via[k])
                      => via'[k] # via[j]
  <1>1. ASSUME MInv, OnceInv, Next PROVE A
    <2> SUFFICES ASSUME NEW j \in Sends, NEW k \in Sends, pc[j] = "notsent",
                        sender[j] = sender[k], via'[k] # via[k]
                 PROVE  via'[k] # via[j]
      OBVIOUS
    <2>1. UseCached(k) \/ Connect(k)
      BY <1>1, StepCases
      DEF MInv, TypeOK, hitVars, Start, UseCached, Dial, Connect, DialFails, Register,
          Write, ConnectionGone, GetAck, GetError, AckTimesOut, MarkOffline, AcceptCheck,
          AcceptKeep, AcceptRefuse, ReadText, StoreText, AckText, LoseConnection, Notice,
          Unpair, SaveConfig, Restart
    <2>2. CASE UseCached(k)
      <3>1. via'[k] = registry[sender[k]] /\ via'[k] # None
        BY <1>1, <2>2, NoneAssumption DEF MInv, TypeOK, UseCached, Cached
      <3> QED
        BY <1>1, <3>1 DEF OnceInv
    <2>3. CASE Connect(k)
      <3>1. via'[k] = k /\ via[k] = None /\ k # None
        BY <1>1, <2>3, NoneAssumption DEF MInv, TypeOK, Wiring, Connect
      <3> QED
        BY <1>1, <3>1 DEF MInv, Wiring
    <2> QED
      BY <2>1, <2>2, <2>3
  <1>2. MInv /\ OnceInv /\ [Next]_vars => [A]_vars
    BY <1>1
  <1> QED
    BY <1>2, MAlways, OnceAlways, PTL DEF Safety, FailedNotReused
=============================================================================

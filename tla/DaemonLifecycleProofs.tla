----------------------- MODULE DaemonLifecycleProofs -----------------------
(* What holds of DaemonLifecycle for every set of processes and commands.  *)
EXTENDS DaemonLifecycle, FiniteSetTheorems, TLAPS

(* A command counts its tries from the start of a daemon on; it calls a    *)
(* daemon that has bound.                                                  *)
CommandInv ==
  /\ \A c \in Commands :
       command[c] \in {"idle", "checking", "stopping", "trying", "spawning"} => tries[c] = 0
  /\ \A c \in Commands : command[c] = "retrying" => tries[c] < MaxTries
  /\ \A c \in Commands :
       kind[c] \in Stoppers /\ command[c] \in {"calling", "waiting"} => tries[c] = 0
  /\ \A c \in Commands : command[c] = "waiting" => kind[c] \in Stoppers
  /\ \A c \in Commands : call[c] # "none" => link[c] # None
  /\ \A c \in Commands : command[c] = "calling" => link[c] # None
  /\ \A c \in Commands : command[c] \in {"idle", "checking", "stopping"} => link[c] = None
  /\ \A c \in Commands :
       link[c] # None => daemon[link[c]] \in Owning \cup Accepting \cup {"gone"}

(* Once stop has found its daemon unreachable it stays so: only binding    *)
(* makes a daemon reachable, and that one has bound before.                *)
StopInv ==
  \A c \in Commands :
    (/\ kind[c] \in Stoppers
     /\ command[c] \in {"trying", "spawning", "retrying", "done"}
     /\ link[c] # None) =>
      ~(path = link[c] /\ Listening(link[c]))

Calm == told = {} /\ crashes = 0

(* Before any ending no socket file is stale, so that no probe fails.      *)
CalmInv ==
  Calm =>
    /\ ~stolen
    /\ path # None => Listening(path)
    /\ \A d \in Daemons : daemon[d] \notin {"removing", "closing", "unlinked"}
    /\ \A d \in Daemons : daemon[d] = "probing" => path # None

LInv == TypeOK /\ CommandInv /\ SoleOwner /\ StopInv /\ CalmInv

-----------------------------------------------------------------------------
(* Case split of a step by the action that takes it. *)
LEMMA StepCases ==
  ASSUME Next
  PROVE  \/ Login
         \/ \E d \in Daemons :
              \/ Look(d) \/ Probe(d) \/ Remove(d) \/ Bind(d) \/ Protect(d)
              \/ Interrupt(d) \/ Close(d) \/ Unlink(d) \/ Exit(d) \/ Crash(d)
         \/ \E c \in Commands :
              \/ Begin(c) \/ Check(c) \/ TryStop(c) \/ Try(c) \/ Spawn(c)
              \/ SpawnFails(c) \/ Retry(c) \/ WriteCall(c) \/ Handle(c)
              \/ Respond(c) \/ GetAnswer(c) \/ Wait(c) \/ WaitTimesOut(c)
  BY DEF Next, DaemonStep, Served, CommandStep

LEMMA LStep ==
  ASSUME LInv, [Next]_vars
  PROVE  LInv'
  <1> USE NoneAssumption, BoundAssumption DEF socketVars, daemonVars, commandVars
  <1>a. TypeOK /\ CommandInv /\ SoleOwner /\ StopInv /\ CalmInv
    BY DEF LInv
  <1>1. CASE UNCHANGED vars
    BY <1>a, <1>1 DEF vars, LInv, TypeOK, CommandInv, SoleOwner, StopInv, CalmInv, Calm, Listening
  <1>2. ASSUME Login PROVE LInv'
    <2> USE <1>a, <1>2 DEF Login, Launch, Goes
    <2>1. TypeOK'
      BY DEF TypeOK, Kinds, Starting, Owning, Accepting, Ended
    <2>2. CommandInv'
      BY DEF CommandInv, TypeOK, Kinds, Stoppers, Starting, Owning, Accepting, Ended, Listening
    <2>3. SoleOwner'
      BY DEF SoleOwner, TypeOK, Owning, Accepting, Listening
    <2>4. StopInv'
      BY DEF StopInv, CommandInv, TypeOK, Kinds, Stoppers, Owning, Accepting, Listening
    <2>5. CalmInv'
      BY DEF CalmInv, Calm, TypeOK, Owning, Accepting, Listening
    <2> QED
      BY <2>1, <2>2, <2>3, <2>4, <2>5 DEF LInv
  <1>3. ASSUME NEW d \in Daemons, Look(d) PROVE LInv'
    <2> USE <1>a, <1>3 DEF Look, Goes
    <2>1. TypeOK'
      BY DEF TypeOK, Kinds, Starting, Owning, Accepting, Ended
    <2>2. CommandInv'
      BY DEF CommandInv, TypeOK, Kinds, Stoppers, Starting, Owning, Accepting, Ended, Listening
    <2>3. SoleOwner'
      BY DEF SoleOwner, TypeOK, Owning, Accepting, Listening
    <2>4. StopInv'
      BY DEF StopInv, CommandInv, TypeOK, Kinds, Stoppers, Owning, Accepting, Listening
    <2>5. CalmInv'
      BY DEF CalmInv, Calm, TypeOK, Owning, Accepting, Listening
    <2> QED
      BY <2>1, <2>2, <2>3, <2>4, <2>5 DEF LInv
  <1>4. ASSUME NEW d \in Daemons, Probe(d) PROVE LInv'
    <2> USE <1>a, <1>4 DEF Probe, Answers, Reachable, Goes
    <2>1. TypeOK'
      BY DEF TypeOK, Kinds, Starting, Owning, Accepting, Ended
    <2>2. CommandInv'
      BY DEF CommandInv, TypeOK, Kinds, Stoppers, Starting, Owning, Accepting, Ended, Listening
    <2>3. SoleOwner'
      BY DEF SoleOwner, TypeOK, Owning, Accepting, Listening
    <2>4. StopInv'
      BY DEF StopInv, CommandInv, TypeOK, Kinds, Stoppers, Owning, Accepting, Listening
    <2>5. CalmInv'
      BY DEF CalmInv, Calm, TypeOK, Owning, Accepting, Listening
    <2> QED
      BY <2>1, <2>2, <2>3, <2>4, <2>5 DEF LInv
  <1>5. ASSUME NEW d \in Daemons, Remove(d) PROVE LInv'
    <2> USE <1>a, <1>5 DEF Remove, Reachable, Goes
    <2>1. TypeOK'
      BY DEF TypeOK, Kinds, Starting, Owning, Accepting, Ended
    <2>2. CommandInv'
      BY DEF CommandInv, TypeOK, Kinds, Stoppers, Starting, Owning, Accepting, Ended, Listening
    <2>3. SoleOwner'
      <3> SUFFICES ASSUME ~stolen', NEW e \in Daemons, daemon'[e] \in Owning
                   PROVE  FALSE
        BY DEF SoleOwner
      <3>1. daemon[e] \in Owning
        BY DEF TypeOK, Owning
      <3>2. path = e
        BY <3>1 DEF SoleOwner
      <3> QED
        BY <3>1, <3>2 DEF Listening
    <2>4. StopInv'
      BY DEF StopInv, CommandInv, TypeOK, Kinds, Stoppers, Owning, Accepting, Listening
    <2>5. CalmInv'
      BY DEF CalmInv, Calm, TypeOK, Owning, Accepting, Listening
    <2> QED
      BY <2>1, <2>2, <2>3, <2>4, <2>5 DEF LInv
  <1>6. ASSUME NEW d \in Daemons, Bind(d) PROVE LInv'
    <2> USE <1>a, <1>6 DEF Bind, MayBind, Goes
    <2>1. TypeOK'
      BY DEF TypeOK, Kinds, Starting, Owning, Accepting, Ended
    <2>2. CommandInv'
      BY DEF CommandInv, TypeOK, Kinds, Stoppers, Starting, Owning, Accepting, Ended, Listening
    <2>3. SoleOwner'
      BY DEF SoleOwner, TypeOK, Owning, Accepting, Listening
    <2>4. StopInv'
      BY DEF StopInv, CommandInv, TypeOK, Kinds, Stoppers, Owning, Accepting, Listening
    <2>5. CalmInv'
      BY DEF CalmInv, Calm, TypeOK, Owning, Accepting, Listening
    <2> QED
      BY <2>1, <2>2, <2>3, <2>4, <2>5 DEF LInv
  <1>7. ASSUME NEW d \in Daemons, Protect(d) PROVE LInv'
    <2> USE <1>a, <1>7 DEF Protect, Goes
    <2>1. TypeOK'
      BY DEF TypeOK, Kinds, Starting, Owning, Accepting, Ended
    <2>2. CommandInv'
      BY DEF CommandInv, TypeOK, Kinds, Stoppers, Starting, Owning, Accepting, Ended, Listening
    <2>3. SoleOwner'
      BY DEF SoleOwner, TypeOK, Owning, Accepting, Listening
    <2>4. StopInv'
      BY DEF StopInv, CommandInv, TypeOK, Kinds, Stoppers, Owning, Accepting, Listening
    <2>5. CalmInv'
      BY DEF CalmInv, Calm, TypeOK, Owning, Accepting, Listening
    <2> QED
      BY <2>1, <2>2, <2>3, <2>4, <2>5 DEF LInv
  <1>8. ASSUME NEW d \in Daemons, Interrupt(d) PROVE LInv'
    <2> USE <1>a, <1>8 DEF Interrupt
    <2>1. TypeOK'
      BY DEF TypeOK, Kinds, Starting, Owning, Accepting, Ended
    <2>2. CommandInv'
      BY DEF CommandInv, TypeOK, Kinds, Stoppers, Starting, Owning, Accepting, Ended, Listening
    <2>3. SoleOwner'
      BY DEF SoleOwner, TypeOK, Owning, Accepting, Listening
    <2>4. StopInv'
      BY DEF StopInv, CommandInv, TypeOK, Kinds, Stoppers, Owning, Accepting, Listening
    <2>5. CalmInv'
      BY DEF CalmInv, Calm, TypeOK, Owning, Accepting, Listening
    <2> QED
      BY <2>1, <2>2, <2>3, <2>4, <2>5 DEF LInv
  <1>9. ASSUME NEW d \in Daemons, Close(d) PROVE LInv'
    <2> USE <1>a, <1>9 DEF Close, Goes
    <2>1. TypeOK'
      BY DEF TypeOK, Kinds, Starting, Owning, Accepting, Ended
    <2>2. CommandInv'
      BY DEF CommandInv, TypeOK, Kinds, Stoppers, Starting, Owning, Accepting, Ended, Listening
    <2>3. SoleOwner'
      BY DEF SoleOwner, TypeOK, Owning, Accepting, Listening
    <2>4. StopInv'
      BY DEF StopInv, CommandInv, TypeOK, Kinds, Stoppers, Owning, Accepting, Listening
    <2>5. CalmInv'
      BY DEF CalmInv, Calm, TypeOK, Owning, Accepting, Listening
    <2> QED
      BY <2>1, <2>2, <2>3, <2>4, <2>5 DEF LInv
  <1>10. ASSUME NEW d \in Daemons, Unlink(d) PROVE LInv'
    <2> USE <1>a, <1>10 DEF Unlink, Goes
    <2>1. TypeOK'
      BY DEF TypeOK, Kinds, Starting, Owning, Accepting, Ended
    <2>2. CommandInv'
      BY DEF CommandInv, TypeOK, Kinds, Stoppers, Starting, Owning, Accepting, Ended, Listening
    <2>3. SoleOwner'
      BY DEF SoleOwner, TypeOK, Owning, Accepting, Listening
    <2>4. StopInv'
      BY DEF StopInv, CommandInv, TypeOK, Kinds, Stoppers, Owning, Accepting, Listening
    <2>5. CalmInv'
      BY DEF CalmInv, Calm, TypeOK, Owning, Accepting, Listening
    <2> QED
      BY <2>1, <2>2, <2>3, <2>4, <2>5 DEF LInv
  <1>11. ASSUME NEW d \in Daemons, Exit(d) PROVE LInv'
    <2> USE <1>a, <1>11 DEF Exit, Goes
    <2>1. TypeOK'
      BY DEF TypeOK, Kinds, Starting, Owning, Accepting, Ended
    <2>2. CommandInv'
      BY DEF CommandInv, TypeOK, Kinds, Stoppers, Starting, Owning, Accepting, Ended, Listening
    <2>3. SoleOwner'
      BY DEF SoleOwner, TypeOK, Owning, Accepting, Listening
    <2>4. StopInv'
      BY DEF StopInv, CommandInv, TypeOK, Kinds, Stoppers, Owning, Accepting, Listening
    <2>5. CalmInv'
      BY DEF CalmInv, Calm, TypeOK, Owning, Accepting, Listening
    <2> QED
      BY <2>1, <2>2, <2>3, <2>4, <2>5 DEF LInv
  <1>12. ASSUME NEW d \in Daemons, Crash(d) PROVE LInv'
    <2> USE <1>a, <1>12 DEF Crash, Goes
    <2>1. TypeOK'
      BY DEF TypeOK, Kinds, Starting, Owning, Accepting, Ended
    <2>2. CommandInv'
      BY DEF CommandInv, TypeOK, Kinds, Stoppers, Starting, Owning, Accepting, Ended, Listening
    <2>3. SoleOwner'
      BY DEF SoleOwner, TypeOK, Owning, Accepting, Listening
    <2>4. StopInv'
      BY DEF StopInv, CommandInv, TypeOK, Kinds, Stoppers, Owning, Accepting, Listening
    <2>5. CalmInv'
      BY DEF CalmInv, Calm, TypeOK, Owning, Accepting, Listening
    <2> QED
      BY <2>1, <2>2, <2>3, <2>4, <2>5 DEF LInv
  <1>13. ASSUME NEW c \in Commands, Begin(c) PROVE LInv'
    <2> USE <1>a, <1>13 DEF Begin, Proceeds
    <2>1. TypeOK'
      BY DEF TypeOK, Kinds, Starting, Owning, Accepting, Ended
    <2>2. CommandInv'
      BY DEF CommandInv, TypeOK, Kinds, Stoppers, Starting, Owning, Accepting, Ended, Listening
    <2>3. SoleOwner'
      BY DEF SoleOwner, TypeOK, Owning, Accepting, Listening
    <2>4. StopInv'
      BY DEF StopInv, CommandInv, TypeOK, Kinds, Stoppers, Owning, Accepting, Listening
    <2>5. CalmInv'
      BY DEF CalmInv, Calm, TypeOK, Owning, Accepting, Listening
    <2> QED
      BY <2>1, <2>2, <2>3, <2>4, <2>5 DEF LInv
  <1>14. ASSUME NEW c \in Commands, Check(c) PROVE LInv'
    <2> USE <1>a, <1>14 DEF Check, Proceeds
    <2>1. TypeOK'
      BY DEF TypeOK, Kinds, Starting, Owning, Accepting, Ended
    <2>2. CommandInv'
      BY DEF CommandInv, TypeOK, Kinds, Stoppers, Starting, Owning, Accepting, Ended, Listening
    <2>3. SoleOwner'
      BY DEF SoleOwner, TypeOK, Owning, Accepting, Listening
    <2>4. StopInv'
      BY DEF StopInv, CommandInv, TypeOK, Kinds, Stoppers, Owning, Accepting, Listening
    <2>5. CalmInv'
      BY DEF CalmInv, Calm, TypeOK, Owning, Accepting, Listening
    <2> QED
      BY <2>1, <2>2, <2>3, <2>4, <2>5 DEF LInv
  <1>15. ASSUME NEW c \in Commands, TryStop(c) PROVE LInv'
    <2> USE <1>a, <1>15 DEF TryStop, AfterStop, Reachable, Proceeds
    <2>1. TypeOK'
      BY DEF TypeOK, Kinds, Starting, Owning, Accepting, Ended
    <2>2. CommandInv'
      BY DEF CommandInv, TypeOK, Kinds, Stoppers, Starting, Owning, Accepting, Ended, Listening
    <2>3. SoleOwner'
      BY DEF SoleOwner, TypeOK, Owning, Accepting, Listening
    <2>4. StopInv'
      BY DEF StopInv, CommandInv, TypeOK, Kinds, Stoppers, Owning, Accepting, Listening
    <2>5. CalmInv'
      BY DEF CalmInv, Calm, TypeOK, Owning, Accepting, Listening
    <2> QED
      BY <2>1, <2>2, <2>3, <2>4, <2>5 DEF LInv
  <1>16. ASSUME NEW c \in Commands, Try(c) PROVE LInv'
    <2> USE <1>a, <1>16 DEF Try, Found, Reachable, Proceeds
    <2>1. TypeOK'
      BY DEF TypeOK, Kinds, Starting, Owning, Accepting, Ended
    <2>2. CommandInv'
      BY DEF CommandInv, TypeOK, Kinds, Stoppers, Starting, Owning, Accepting, Ended, Listening
    <2>3. SoleOwner'
      BY DEF SoleOwner, TypeOK, Owning, Accepting, Listening
    <2>4. StopInv'
      BY DEF StopInv, CommandInv, TypeOK, Kinds, Stoppers, Owning, Accepting, Listening
    <2>5. CalmInv'
      BY DEF CalmInv, Calm, TypeOK, Owning, Accepting, Listening
    <2> QED
      BY <2>1, <2>2, <2>3, <2>4, <2>5 DEF LInv
  <1>17. ASSUME NEW c \in Commands, Spawn(c) PROVE LInv'
    <2> USE <1>a, <1>17 DEF Spawn, Launch, Goes, Proceeds
    <2>1. TypeOK'
      BY DEF TypeOK, Kinds, Starting, Owning, Accepting, Ended
    <2>2. CommandInv'
      BY DEF CommandInv, TypeOK, Kinds, Stoppers, Starting, Owning, Accepting, Ended, Listening
    <2>3. SoleOwner'
      BY DEF SoleOwner, TypeOK, Owning, Accepting, Listening
    <2>4. StopInv'
      BY DEF StopInv, CommandInv, TypeOK, Kinds, Stoppers, Owning, Accepting, Listening
    <2>5. CalmInv'
      BY DEF CalmInv, Calm, TypeOK, Owning, Accepting, Listening
    <2> QED
      BY <2>1, <2>2, <2>3, <2>4, <2>5 DEF LInv
  <1>18. ASSUME NEW c \in Commands, SpawnFails(c) PROVE LInv'
    <2> USE <1>a, <1>18 DEF SpawnFails, Proceeds
    <2>1. TypeOK'
      BY DEF TypeOK, Kinds, Starting, Owning, Accepting, Ended
    <2>2. CommandInv'
      BY DEF CommandInv, TypeOK, Kinds, Stoppers, Starting, Owning, Accepting, Ended, Listening
    <2>3. SoleOwner'
      BY DEF SoleOwner, TypeOK, Owning, Accepting, Listening
    <2>4. StopInv'
      BY DEF StopInv, CommandInv, TypeOK, Kinds, Stoppers, Owning, Accepting, Listening
    <2>5. CalmInv'
      BY DEF CalmInv, Calm, TypeOK, Owning, Accepting, Listening
    <2> QED
      BY <2>1, <2>2, <2>3, <2>4, <2>5 DEF LInv
  <1>19. ASSUME NEW c \in Commands, Retry(c) PROVE LInv'
    <2> USE <1>a, <1>19 DEF Retry, Found, LastTry, Reachable, Proceeds
    <2>1. TypeOK'
      <3>1. tries[c] + 1 \in 0 .. MaxTries
        BY DEF TypeOK, CommandInv
      <3>2. tries' \in [Commands -> 0 .. MaxTries]
        BY <3>1 DEF TypeOK
      <3>3. command' \in [Commands -> {"idle", "checking", "stopping", "trying", "spawning",
                                       "retrying", "calling", "waiting"} \cup Ended]
        BY DEF TypeOK, Ended
      <3>4. link' \in [Commands -> Daemons \cup {None}]
        BY DEF TypeOK
      <3> QED
        BY <3>2, <3>3, <3>4 DEF TypeOK
    <2>2. CommandInv'
      BY DEF CommandInv, TypeOK, Kinds, Stoppers, Starting, Owning, Accepting, Ended, Listening
    <2>3. SoleOwner'
      BY DEF SoleOwner, TypeOK, Owning, Accepting, Listening
    <2>4. StopInv'
      BY DEF StopInv, CommandInv, TypeOK, Kinds, Stoppers, Owning, Accepting, Listening
    <2>5. CalmInv'
      BY DEF CalmInv, Calm, TypeOK, Owning, Accepting, Listening
    <2> QED
      BY <2>1, <2>2, <2>3, <2>4, <2>5 DEF LInv
  <1>20. ASSUME NEW c \in Commands, WriteCall(c) PROVE LInv'
    <2> USE <1>a, <1>20 DEF WriteCall, Returned, Proceeds
    <2>1. TypeOK'
      BY DEF TypeOK, Kinds, Starting, Owning, Accepting, Ended
    <2>2. CommandInv'
      BY DEF CommandInv, TypeOK, Kinds, Stoppers, Starting, Owning, Accepting, Ended, Listening
    <2>3. SoleOwner'
      BY DEF SoleOwner, TypeOK, Owning, Accepting, Listening
    <2>4. StopInv'
      BY DEF StopInv, CommandInv, TypeOK, Kinds, Stoppers, Owning, Accepting, Listening
    <2>5. CalmInv'
      BY DEF CalmInv, Calm, TypeOK, Owning, Accepting, Listening
    <2> QED
      BY <2>1, <2>2, <2>3, <2>4, <2>5 DEF LInv
  <1>21. ASSUME NEW c \in Commands, Handle(c) PROVE LInv'
    <2> USE <1>a, <1>21 DEF Handle
    <2>1. TypeOK'
      <3>1. link[c] \in Daemons
        BY DEF TypeOK, CommandInv
      <3>2. told' \subseteq Daemons
        BY <3>1 DEF TypeOK
      <3> QED
        BY <3>2 DEF TypeOK
    <2>2. CommandInv'
      BY DEF CommandInv, TypeOK, Kinds, Stoppers, Starting, Owning, Accepting, Ended, Listening
    <2>3. SoleOwner'
      BY DEF SoleOwner, TypeOK, Owning, Accepting, Listening
    <2>4. StopInv'
      BY DEF StopInv, CommandInv, TypeOK, Kinds, Stoppers, Owning, Accepting, Listening
    <2>5. CalmInv'
      BY DEF CalmInv, Calm, TypeOK, Owning, Accepting, Listening
    <2> QED
      BY <2>1, <2>2, <2>3, <2>4, <2>5 DEF LInv
  <1>22. ASSUME NEW c \in Commands, Respond(c) PROVE LInv'
    <2> USE <1>a, <1>22 DEF Respond
    <2>1. TypeOK'
      BY DEF TypeOK, Kinds, Starting, Owning, Accepting, Ended
    <2>2. CommandInv'
      BY DEF CommandInv, TypeOK, Kinds, Stoppers, Starting, Owning, Accepting, Ended, Listening
    <2>3. SoleOwner'
      BY DEF SoleOwner, TypeOK, Owning, Accepting, Listening
    <2>4. StopInv'
      BY DEF StopInv, CommandInv, TypeOK, Kinds, Stoppers, Owning, Accepting, Listening
    <2>5. CalmInv'
      BY DEF CalmInv, Calm, TypeOK, Owning, Accepting, Listening
    <2> QED
      BY <2>1, <2>2, <2>3, <2>4, <2>5 DEF LInv
  <1>23. ASSUME NEW c \in Commands, GetAnswer(c) PROVE LInv'
    <2> USE <1>a, <1>23 DEF GetAnswer, Returned, Proceeds
    <2>1. TypeOK'
      BY DEF TypeOK, Kinds, Starting, Owning, Accepting, Ended
    <2>2. CommandInv'
      BY DEF CommandInv, TypeOK, Kinds, Stoppers, Starting, Owning, Accepting, Ended, Listening
    <2>3. SoleOwner'
      BY DEF SoleOwner, TypeOK, Owning, Accepting, Listening
    <2>4. StopInv'
      BY DEF StopInv, CommandInv, TypeOK, Kinds, Stoppers, Owning, Accepting, Listening
    <2>5. CalmInv'
      BY DEF CalmInv, Calm, TypeOK, Owning, Accepting, Listening
    <2> QED
      BY <2>1, <2>2, <2>3, <2>4, <2>5 DEF LInv
  <1>24. ASSUME NEW c \in Commands, Wait(c) PROVE LInv'
    <2> USE <1>a, <1>24 DEF Wait, AfterStop, Unreachable, Reachable, Proceeds
    <2>1. TypeOK'
      BY DEF TypeOK, Kinds, Starting, Owning, Accepting, Ended
    <2>2. CommandInv'
      BY DEF CommandInv, TypeOK, Kinds, Stoppers, Starting, Owning, Accepting, Ended, Listening
    <2>3. SoleOwner'
      BY DEF SoleOwner, TypeOK, Owning, Accepting, Listening
    <2>4. StopInv'
      BY DEF StopInv, CommandInv, TypeOK, Kinds, Stoppers, Owning, Accepting, Listening
    <2>5. CalmInv'
      BY DEF CalmInv, Calm, TypeOK, Owning, Accepting, Listening
    <2> QED
      BY <2>1, <2>2, <2>3, <2>4, <2>5 DEF LInv
  <1>25. ASSUME NEW c \in Commands, WaitTimesOut(c) PROVE LInv'
    <2> USE <1>a, <1>25 DEF WaitTimesOut, Impatient, Proceeds
    <2>1. TypeOK'
      BY DEF TypeOK, Kinds, Starting, Owning, Accepting, Ended
    <2>2. CommandInv'
      BY DEF CommandInv, TypeOK, Kinds, Stoppers, Starting, Owning, Accepting, Ended, Listening
    <2>3. SoleOwner'
      BY DEF SoleOwner, TypeOK, Owning, Accepting, Listening
    <2>4. StopInv'
      BY DEF StopInv, CommandInv, TypeOK, Kinds, Stoppers, Owning, Accepting, Listening
    <2>5. CalmInv'
      BY DEF CalmInv, Calm, TypeOK, Owning, Accepting, Listening
    <2> QED
      BY <2>1, <2>2, <2>3, <2>4, <2>5 DEF LInv
  <1> QED
    BY StepCases, <1>1, <1>2, <1>3, <1>4, <1>5, <1>6, <1>7, <1>8, <1>9,
       <1>10, <1>11, <1>12, <1>13, <1>14, <1>15, <1>16, <1>17, <1>18, <1>19,
       <1>20, <1>21, <1>22, <1>23, <1>24, <1>25

LEMMA LInit ==
  ASSUME Init
  PROVE  LInv
  <1> USE BoundAssumption DEF Init, Owning
  <1>1. TypeOK
    <2>1. /\ 0 \in 0 .. MaxTries
          /\ 0 \in 0 .. MaxLogins
          /\ 0 \in 0 .. MaxCrashes
      OBVIOUS
    <2>2. tries \in [Commands -> 0 .. MaxTries]
      BY <2>1
    <2> QED
      BY <2>1, <2>2 DEF TypeOK
  <1>2. CommandInv
    BY DEF CommandInv
  <1>3. SoleOwner /\ StopInv /\ CalmInv
    <2>1. CalmInv
      BY DEF CalmInv
    <2>2. SoleOwner
      BY DEF SoleOwner
    <2> QED
      BY <2>1, <2>2 DEF StopInv
  <1> QED
    BY <1>1, <1>2, <1>3 DEF LInv

THEOREM Invariance == Safety => []LInv
  BY LInit, LStep, PTL DEF Safety

-----------------------------------------------------------------------------
(* Every variable keeps its type; in particular no command tries more      *)
(* often than the loops of daemon_conn.rs and daemon.rs allow.             *)
THEOREM TypeCorrect == Safety => []TypeOK
  <1>1. LInv => TypeOK
    BY DEF LInv
  <1> QED
    BY <1>1, Invariance, PTL

(* Whatever starts, stops and crashes there are: as long as bind has not   *)
(* removed the file of a living daemon, each daemon that has bound is the  *)
(* one the socket file leads to, so there is at most one.                  *)
THEOREM OneOwner == Safety => []SoleOwner
  <1>1. LInv => SoleOwner
    BY DEF LInv
  <1> QED
    BY <1>1, Invariance, PTL

(* Any number of commands and logins may start daemons at once: before any *)
(* daemon ends, bind removes no living daemon's file.                      *)
THEOREM StartersAgree == Safety => []FirstStartersAgree
  <1>1. LInv => FirstStartersAgree
    <2> SUFFICES ASSUME LInv, Endings = 0 PROVE ~stolen
      BY DEF FirstStartersAgree
    <2>1. told \subseteq Daemons /\ crashes \in Nat
      BY BoundAssumption DEF LInv, TypeOK
    <2>2. IsFiniteSet(told) /\ Cardinality(told) \in Nat
      BY <2>1, FiniteAssumption, FS_Subset, FS_CardinalityType
    <2>3. Cardinality(told) = 0 /\ crashes = 0
      BY <2>1, <2>2 DEF Endings
    <2>4. told = {}
      BY <2>2, <2>3, FS_EmptySet
    <2> QED
      BY <2>3, <2>4 DEF LInv, CalmInv, Calm
  <1> QED
    BY <1>1, Invariance, PTL

(* A stop or restart that succeeded never leaves the daemon it has called  *)
(* within reach.                                                           *)
THEOREM StopLasts == Safety => []StoppedStaysStopped
  <1>1. LInv => StoppedStaysStopped
    BY DEF LInv, StopInv, StoppedStaysStopped
  <1> QED
    BY <1>1, Invariance, PTL
=============================================================================

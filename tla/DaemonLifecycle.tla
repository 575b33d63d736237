--------------------------- MODULE DaemonLifecycle ---------------------------
(***************************************************************************)
(* Daemons of one user and the commands that start, use and stop them:     *)
(* binding the socket (crates/lcp-ipc/src/unix.rs), main of lanclipd,      *)
(* daemon_conn.rs and commands/daemon.rs of lcp-cli, and one call over IPC *)
(* (client.rs and server.rs of lcp-ipc).                                   *)
(*                                                                         *)
(* A socket is known by the daemon that bound it; path is what the socket  *)
(* file refers to.  Connecting succeeds at once if it is the socket of a   *)
(* living process and fails at once if not, as on a local socket.          *)
(***************************************************************************)
EXTENDS Naturals, FiniteSets

CONSTANTS
  Daemons,     \* bound: processes, each started at most once
  Commands,    \* runs of lcp
  None,
  MaxTries,    \* attempts to connect after a start (30)
  MaxLogins,   \* bound: daemons started by launchd
  MaxCrashes   \* bound: crashes of daemons

ASSUME NoneAssumption == None \notin Daemons
ASSUME FiniteAssumption == IsFiniteSet(Daemons)
ASSUME BoundAssumption ==
  MaxTries \in Nat \ {0} /\ MaxLogins \in Nat /\ MaxCrashes \in Nat

VARIABLES
  path,      \* the daemon whose socket the file is, or None
  daemon,    \* where each daemon is in main
  told,      \* daemons told to shut down
  command,   \* where each command is
  kind,      \* what it is to do
  link,      \* the daemon it has called
  call,      \* how far that call is
  tries,     \* its attempts since it started a daemon
  logins, crashes,
  stolen     \* the socket file of a living daemon has been removed by another

socketVars == <<path, stolen>>
daemonVars == <<daemon, told, logins, crashes>>
commandVars == <<command, kind, link, call, tries>>
vars == <<socketVars, daemonVars, commandVars>>

Kinds == {"use", "start", "stop", "restart"}
Stoppers == {"stop", "restart"}
Starting == {"launched", "probing", "removing", "binding"}
Owning == {"bound", "serving", "closing"}
Accepting == {"serving", "closing", "unlinked"}
Ended == {"done", "failed"}

TypeOK ==
  /\ path \in Daemons \cup {None}
  /\ daemon \in [Daemons -> {"absent", "gone"} \cup Starting \cup Owning \cup Accepting]
  /\ told \subseteq Daemons
  /\ command \in [Commands -> {"idle", "checking", "stopping", "trying", "spawning",
                               "retrying", "calling", "waiting"} \cup Ended]
  /\ kind \in [Commands -> Kinds]
  /\ link \in [Commands -> Daemons \cup {None}]
  /\ call \in [Commands -> {"none", "sent", "handled", "answered"}]
  /\ tries \in [Commands -> 0 .. MaxTries]
  /\ logins \in 0 .. MaxLogins /\ crashes \in 0 .. MaxCrashes
  /\ stolen \in BOOLEAN

Init ==
  /\ path = None /\ stolen = FALSE
  /\ daemon = [d \in Daemons |-> "absent"] /\ told = {}
  /\ logins = 0 /\ crashes = 0
  /\ command = [c \in Commands |-> "idle"]
  /\ kind \in [Commands -> Kinds]
  /\ link = [c \in Commands |-> None]
  /\ call = [c \in Commands |-> "none"]
  /\ tries = [c \in Commands |-> 0]

Listening(d) == daemon[d] \in Owning \cup Accepting

(* Connecting to the socket file succeeds. *)
Reachable == path # None /\ Listening(path)

Endings == Cardinality(told) + crashes

-----------------------------------------------------------------------------
(* Daemons.                                                                *)

(* The mutants take any socket file for a daemon, or only one that serves. *)
Answers_Exists == path # None
Answers_Serving == path # None /\ daemon[path] \in Accepting

(* The probe of bind connects. *)
Answers == Reachable

(* The mutant binds over whatever is there. *)
MayBind_Always == TRUE

MayBind == path = None

Goes(d, there) == daemon' = [daemon EXCEPT ![d] = there]

(* A process starts. *)
Launch == \E d \in Daemons : daemon[d] = "absent" /\ Goes(d, "launched")

(* launchd starts a daemon at login, and again when one has ended. *)
Login ==
  /\ logins < MaxLogins
  /\ logins' = logins + 1
  /\ Launch
  /\ UNCHANGED <<socketVars, told, crashes, commandVars>>

(* bind: is there a socket file? *)
Look(d) ==
  /\ daemon[d] = "launched"
  /\ Goes(d, IF path = None THEN "binding" ELSE "probing")
  /\ UNCHANGED <<socketVars, told, logins, crashes, commandVars>>

(* bind: connect to it.  If that succeeds a daemon is running already. *)
Probe(d) ==
  /\ daemon[d] = "probing"
  /\ Goes(d, IF Answers THEN "gone" ELSE "removing")
  /\ UNCHANGED <<socketVars, told, logins, crashes, commandVars>>

(* bind: remove the file, which fails if it is not there any more. *)
Remove(d) ==
  /\ daemon[d] = "removing"
  /\ Goes(d, IF path = None THEN "gone" ELSE "binding")
  /\ path' = None
  /\ stolen' = (stolen \/ Reachable)
  /\ UNCHANGED <<told, logins, crashes, commandVars>>

(* UnixListener::bind, which fails if there is a file by now. *)
Bind(d) ==
  /\ daemon[d] = "binding"
  /\ IF MayBind THEN path' = d /\ Goes(d, "bound")
     ELSE Goes(d, "gone") /\ UNCHANGED path
  /\ UNCHANGED <<stolen, told, logins, crashes, commandVars>>

(* bind: set the permissions of the file, which must be there; serve. *)
Protect(d) ==
  /\ daemon[d] = "bound"
  /\ Goes(d, IF path = None THEN "gone" ELSE "serving")
  /\ UNCHANGED <<socketVars, told, logins, crashes, commandVars>>

(* Ctrl-C. *)
Interrupt(d) ==
  /\ daemon[d] = "serving"
  /\ d \notin told
  /\ told' = told \cup {d}
  /\ UNCHANGED <<socketVars, daemon, logins, crashes, commandVars>>

(* main: the select ends; the endpoint is closed while the accept loop     *)
(* still runs.                                                             *)
Close(d) ==
  /\ daemon[d] = "serving"
  /\ d \in told
  /\ Goes(d, "closing")
  /\ UNCHANGED <<socketVars, told, logins, crashes, commandVars>>

(* main: remove the socket file, whosever it is. *)
Unlink(d) ==
  /\ daemon[d] = "closing"
  /\ Goes(d, "unlinked")
  /\ path' = None
  /\ UNCHANGED <<stolen, told, logins, crashes, commandVars>>

Exit(d) ==
  /\ daemon[d] = "unlinked"
  /\ Goes(d, "gone")
  /\ UNCHANGED <<socketVars, told, logins, crashes, commandVars>>

(* The process ends anywhere, at its start also by an error; its socket    *)
(* file stays.                                                             *)
Crash(d) ==
  /\ daemon[d] \notin {"absent", "gone"}
  /\ crashes < MaxCrashes
  /\ crashes' = crashes + 1
  /\ Goes(d, "gone")
  /\ UNCHANGED <<socketVars, told, logins, commandVars>>

-----------------------------------------------------------------------------
(* Commands.                                                               *)

Proceeds(c, there) == command' = [command EXCEPT ![c] = there]

(* What follows a stop that succeeded: restart goes on with start. *)
AfterStop(c) == IF kind[c] = "restart" THEN "trying" ELSE "done"

Begin(c) ==
  /\ command[c] = "idle"
  /\ \/ kind[c] = "restart" /\ Proceeds(c, "checking")
     \/ kind[c] = "stop" /\ Proceeds(c, "stopping")
     \/ kind[c] \in {"use", "start"} /\ Proceeds(c, "trying")
  /\ UNCHANGED <<socketVars, daemonVars, kind, link, call, tries>>

(* restart: stop only what is running. *)
Check(c) ==
  /\ command[c] = "checking"
  /\ Proceeds(c, IF Reachable THEN "stopping" ELSE "trying")
  /\ UNCHANGED <<socketVars, daemonVars, kind, link, call, tries>>

(* stop: connect, to call SHUTDOWN. *)
TryStop(c) ==
  /\ command[c] = "stopping"
  /\ IF Reachable
     THEN Proceeds(c, "calling") /\ link' = [link EXCEPT ![c] = path]
     ELSE Proceeds(c, AfterStop(c)) /\ UNCHANGED link
  /\ UNCHANGED <<socketVars, daemonVars, kind, call, tries>>

(* A daemon has been found: start is over, other commands call it. *)
Found(c) ==
  IF kind[c] = "use"
  THEN Proceeds(c, "calling") /\ link' = [link EXCEPT ![c] = path]
  ELSE Proceeds(c, "done") /\ UNCHANGED link

(* connect_or_autostart, start: first try. *)
Try(c) ==
  /\ command[c] = "trying"
  /\ IF Reachable THEN Found(c) ELSE Proceeds(c, "spawning") /\ UNCHANGED link
  /\ UNCHANGED <<socketVars, daemonVars, kind, call, tries>>

Spawn(c) ==
  /\ command[c] = "spawning"
  /\ Launch
  /\ Proceeds(c, "retrying")
  /\ UNCHANGED <<socketVars, told, logins, crashes, kind, link, call, tries>>

SpawnFails(c) ==
  /\ command[c] = "spawning"
  /\ Proceeds(c, "failed")
  /\ UNCHANGED <<socketVars, daemonVars, kind, link, call, tries>>

(* The mutant tries once more than the code. *)
LastTry_Late(c) == tries[c] = MaxTries

LastTry(c) == tries[c] + 1 = MaxTries

(* One round of the loop after a start. *)
Retry(c) ==
  /\ command[c] = "retrying"
  /\ tries' = [tries EXCEPT ![c] = @ + 1]
  /\ IF Reachable THEN Found(c)
     ELSE /\ Proceeds(c, IF LastTry(c) THEN "failed" ELSE "retrying")
          /\ UNCHANGED link
  /\ UNCHANGED <<socketVars, daemonVars, kind, call>>

(* A call has returned, with or without an answer: stop goes on to wait in *)
(* any case.                                                               *)
Returned(c, answered) ==
  IF kind[c] \in Stoppers THEN "waiting"
  ELSE IF answered THEN "done" ELSE "failed"

(* IpcClient::call writes the request; a connection that has been closed   *)
(* makes the writer end and the call return.                               *)
WriteCall(c) ==
  /\ command[c] = "calling" /\ call[c] = "none"
  /\ IF Listening(link[c])
     THEN call' = [call EXCEPT ![c] = "sent"] /\ UNCHANGED command
     ELSE Proceeds(c, Returned(c, FALSE)) /\ UNCHANGED call
  /\ UNCHANGED <<socketVars, daemonVars, kind, link, tries>>

(* handle_connection reads and handles the request; SHUTDOWN notifies main. *)
Handle(c) ==
  /\ call[c] = "sent"
  /\ daemon[link[c]] \in Accepting
  /\ call' = [call EXCEPT ![c] = "handled"]
  /\ told' = IF kind[c] \in Stoppers THEN told \cup {link[c]} ELSE told
  /\ UNCHANGED <<socketVars, daemon, logins, crashes, command, kind, link, tries>>

(* handle_connection writes the response. *)
Respond(c) ==
  /\ call[c] = "handled"
  /\ daemon[link[c]] \in Accepting
  /\ call' = [call EXCEPT ![c] = "answered"]
  /\ UNCHANGED <<socketVars, daemonVars, command, kind, link, tries>>

(* The reader of the client hands the response to the call. *)
GetAnswer(c) ==
  /\ command[c] = "calling" /\ call[c] = "answered"
  /\ Proceeds(c, Returned(c, TRUE))
  /\ UNCHANGED <<socketVars, daemonVars, kind, link, call, tries>>

(* The mutant takes the daemon's word for it. *)
Unreachable_Always == TRUE

Unreachable == ~Reachable

(* wait_until_unreachable. *)
Wait(c) ==
  /\ command[c] = "waiting"
  /\ Unreachable
  /\ Proceeds(c, AfterStop(c))
  /\ UNCHANGED <<socketVars, daemonVars, kind, link, call, tries>>

(* The mutant waits as long as it takes. *)
Impatient_Never(c) == FALSE

Impatient(c) == command[c] = "waiting"

WaitTimesOut(c) ==
  /\ Impatient(c)
  /\ Proceeds(c, "failed")
  /\ UNCHANGED <<socketVars, daemonVars, kind, link, call, tries>>

-----------------------------------------------------------------------------
DaemonStep(d) ==
  \/ Look(d) \/ Probe(d) \/ Remove(d) \/ Bind(d) \/ Protect(d)
  \/ Close(d) \/ Unlink(d) \/ Exit(d)

Served(c) == Handle(c) \/ Respond(c)

CommandStep(c) ==
  \/ Check(c) \/ TryStop(c) \/ Try(c) \/ Spawn(c) \/ SpawnFails(c) \/ Retry(c)
  \/ WriteCall(c) \/ GetAnswer(c) \/ Wait(c) \/ WaitTimesOut(c)

Next ==
  \/ Login
  \/ \E d \in Daemons : Interrupt(d) \/ Crash(d) \/ DaemonStep(d)
  \/ \E c \in Commands : Begin(c) \/ Served(c) \/ CommandStep(c)

(* Every process that can go on does; nobody has to log in, to run a       *)
(* command, or to interrupt a daemon.                                      *)
Fairness ==
  /\ \A d \in Daemons : WF_vars(DaemonStep(d))
  /\ \A c \in Commands : WF_vars(Served(c)) /\ WF_vars(CommandStep(c))

Safety == Init /\ [][Next]_vars
Spec == Safety /\ Fairness

-----------------------------------------------------------------------------
(* Properties.                                                             *)

(* As long as no daemon has removed the file of a living one, every daemon *)
(* that has bound can be reached: the removal by path at a shutdown never  *)
(* hits another daemon, and there are never two.                           *)
SoleOwner ==
  ~stolen => \A d \in Daemons : daemon[d] \in Owning => path = d

(* However many commands and logins start daemons at once, as long as none *)
(* has ended the first that binds is the one they all find.                *)
FirstStartersAgree ==
  Endings = 0 => ~stolen

(* A stop or restart that succeeded leaves the daemon it has called        *)
(* unreachable for good; restart never reports the old daemon.             *)
StoppedStaysStopped ==
  \A c \in Commands :
    (kind[c] \in Stoppers /\ command[c] = "done" /\ link[c] # None) =>
      ~(path = link[c] /\ Listening(link[c]))

(* A start succeeds: whatever socket file is left over, and whoever else   *)
(* starts, a daemon becomes reachable after one has been launched, unless  *)
(* another is still ending then, or one ends meanwhile.                    *)
StartsSucceed ==
  \A n \in 0 .. Cardinality(Daemons) + MaxCrashes :
    (/\ Endings = n
     /\ \A d \in told : daemon[d] = "gone"
     /\ \E d \in Daemons : daemon[d] = "launched")
    ~> (Reachable \/ Endings # n)

(* The daemon has ended after reading the request and before answering:    *)
(* the reader of the client ends, and with it no call.                     *)
Hung(c) ==
  call[c] \in {"sent", "handled"} /\ daemon[link[c]] = "gone"

(* Every command ends, unless the daemon ends during its call. *)
CommandsEnd ==
  \A c \in Commands : command[c] # "idle" ~> command[c] \in Ended \/ Hung(c)

(* "daemon closed the connection" (ClientError::Disconnected): a call      *)
(* returns even if the daemon ends.                                        *)
CallsReturn ==
  \A c \in Commands : command[c] = "calling" ~> command[c] # "calling"

(* "A socket is considered stale only after an actual connect attempt      *)
(* fails -- never removed just because the path exists, since a live       *)
(* daemon might own it" (bind): the file of a living daemon is not         *)
(* removed by another that starts.                                         *)
LiveSocketKept == ~stolen
=============================================================================

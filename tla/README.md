# A verification of lanclip

lanclip pairs two computers of a person (or of two people) and sends texts
between them. Each computer runs a daemon, `lanclipd`; the command `lcp` talks
to its own daemon over a local socket (IPC), and daemons talk to each other
over QUIC (the Iroh library). This directory holds TLA+ models of the parts
whose behaviour is hard to test, TLC configurations that check them on small
instances, and TLAPS proofs of what holds for every instance.

## The system

All of a daemon's state is one `AppState` behind one read-write lock
(`crates/lcp-core/src/state.rs`). Every operation takes the lock for short
critical sections and releases it around network I/O, human answers and
timers. That is where the difficulty lies: each operation is several critical
sections, tasks run concurrently on a multi-threaded runtime, two daemons and
two humans take part, connections get lost and daemons stop.

| Component | State it keeps | Operations | Interacts with |
|---|---|---|---|
| Pairing (`pairing.rs`, pairing methods of `main.rs`) | `active_invites` with attempt counters, `pending_pairings` with the sender for the human's answer, `trusted_peers` | `create_invite`, `cancel_invite`, `join_pairing`, `handle_pair_request`, `run_confirmation_exchange`, `finish_pairing`, `confirm_pairing`, `reject_pairing` | the other daemon over one QUIC stream; two humans over IPC; the configuration file |
| Messaging and connection registry (`transport.rs`, `connection.rs`) | one cached connection per peer | `send_text`, `accept` with the tie-break, `handle_text`, `unpair` | the other daemon; the conversation store; trust |
| Conversation store (`conversation.rs`) | bounded history per peer, dedup cache, receive sequence, latest-incoming indexes | `record_incoming`, `record_outgoing`, `update_outgoing_status`, `set_history_limit`, readers | `handle_text`, `send_text`, configuration changes |
| Trusted peers and aliases (`peers.rs`) | the list of `TrustedPeer` | add, rename, remove, resolve by id, alias or prefix | pairing, every command that names a peer |
| Configuration store (`config.rs`) | the file, the copy in memory | load, atomic save, set, reset | all that changes trust or settings |
| Identity (`identity.rs`) | the key in the credential store | look for the key, store a new one | daemon start, other starts |
| IPC (`lcp-ipc`) | per connection: pending calls, event queue | framed calls, responses, events | CLI and daemon |
| Daemon life cycle (`unix.rs`, `main.rs`, `daemon.rs`, `daemon_conn.rs`) | the socket file, the processes | bind, serve, shut down, start, stop, restart, autostart on connect | CLI |
| CLI pairing commands (`invite.rs`, `pair.rs`) | a loop over broadcast events | print, ask, confirm or reject | daemon over IPC |
| Wire and IPC limits, tickets (`lcp-protocol`) | none | length prefixes, limits, ticket encoding | all of the above |
| Other CLI commands, picker, clipboard, autostart, diagnostics, Windows pipes | none or the operating system's | I/O and formatting | - |

What is hard in each, and what makes it correct:

* **Pairing.** Concurrent requests on one ticket, an answer that races its
  timeout, independent timers on the two sides, a connection dropped before
  the last confirm has been read, a failed save, a restart. Correct: trust
  exists only where both humans said yes in one session; the two sides never
  come out with opposite answers; undisturbed consent pairs both; the attempt
  limit holds; a finished invite is dead; exchanges end and clean up.
* **Messaging.** Simultaneous dials, a cached connection that has just closed,
  a late acknowledgement, unpairing in the middle of a text. Correct: a
  message shown as sent has been recorded; the tie-break does not cost the
  side it prefers a message; an unpaired peer's later texts are not recorded; a
  connection that has failed is not picked up again; every send settles.
* **Pairing commands.** Events of all sessions reach every command, in the
  order of the daemon, while their humans are slow; answers may be late, double
  or to nobody; either side may end at any moment. Correct: no request is
  missed; a report is true; nobody is paired who did not say yes; a command does
  not wait for an outcome that was announced.
* **Conversation store.** Trimming, a limit that changes under a history,
  repeated ids, statuses written long after their record. Correct: indexes
  and statuses stay with the right message; the dedup window has the length
  of the cache.
* **Peers, configuration and identity.** Memory against file, two records of
  one endpoint, ambiguous names; processes that read the file and the key, and
  may write both, before they know whether another daemon runs. Correct: a name
  reaches the endpoint it was shown for; an unpairing lasts; the file is the
  memory that was reported; a daemon has the identity its peers trust.
* **IPC and life cycle.** Calls against a daemon that stops, two daemons that
  race for the socket.

## Modules

| Module | Models | Kind |
|---|---|---|
| `MutualTrust` | what pairing promises: two sides announce, endings must agree with what was announced | abstract specification |
| `Pairing` | invites, both tasks of every pairing session, answers, network, restarts | detailed specification, implements `MutualTrust` |
| `MCPairing` | instances of `Pairing` | TLC |
| `PairingProofs` | theorems about `Pairing` | TLAPS |
| `PairingCommands` | the invite and pair commands over the events of one daemon's sessions | detailed specification |
| `MCPairingCommands`, `PairingCommandsProofs` | instances, theorems | TLC, TLAPS |
| `Delivery` | what sending a text promises: what is told is final, sent means recorded, nothing revoked is recorded | abstract specification |
| `Messaging` | sends, accepting connections, handling texts, unpair, losses, restarts, half-open connections | detailed specification, implements `Delivery` |
| `MCMessaging`, `MessagingProofs` | instances, theorems | TLC, TLAPS |
| `Conversations` | the message store of one daemon | detailed specification |
| `MCConversations`, `ConversationsProofs` | instances, theorems | TLC, TLAPS |
| `DaemonLifecycle` | the socket file, starting, stopping and ending daemons, commands that start, call and stop them | detailed specification |
| `MCDaemonLifecycle`, `DaemonLifecycleProofs` | instances, theorems | TLC, TLAPS |
| `AddressBook` | what the trusted peers promise: a name means one endpoint, a change is on the disk at once or not at all, a removal lasts | abstract specification |
| `Profile` | trusted peers with their aliases, the configuration in memory and on disk, the identity, over restarts and starts that overlap | detailed specification, implements `AddressBook` |
| `MCProfile`, `ProfileProofs` | instances, theorems | TLC, TLAPS |

### Pairing

A session is one run of `join_pairing` together with the `handle_pair_request`
it causes. Each session has two *ends*, `<<"inviter", s>>` and
`<<"joiner", s>>`; `pc`, `pending`, `vote`, `sent`, `arrived` and `verdict`
are functions of the end, because both ends run the same
`run_confirmation_exchange` and `finish_pairing`. An action is the code
between two awaits:

| Action | Code |
|---|---|
| `CreateInvite`, `CancelInvites`, `ExpireInvite` | the IPC methods; `expires_at` passing |
| `Join` | `join_pairing` up to the written request |
| `Admit`, `Refuse` | the write-locked check of the invite |
| `OpenPending`, `Reply`, `ReplyFails` | the pending entry; the `PairDecision`; the early return of `?` |
| `Accepted`, `JoinFails` | the joiner reading the decision; every error after the request |
| `Answer` | `confirm_pairing`, `reject_pairing` |
| `Decide`, `DecideFails` | the answer or its timeout, and the `PairConfirm` that follows |
| `Receive`, `ReceiveFails`, `ReceiveTimesOut` | reading the other `PairConfirm` |
| `FinishDelivered`, `FinishUnacked` | `wait_for_confirm_delivery` and `finish_pairing`, with a save that may fail |
| `Deliver`, `LoseConnection`, `Restart` | the network; a daemon that stops and starts again |

Clocks are abstracted: a timer may fire whenever what it guards has not
arrived. That contains every real schedule. `disturbed[s]` records that a
timer, a loss or a restart hit the session, so that properties can say what
holds if none did. The verification string, which humans compare, and the
encoding of tickets are outside the model; so is a human who confirms without
comparing.

### PairingCommands

Several commands of one user talk to one daemon. `Pairing` shows what happens
between two daemons; here a session is what its own daemon lets the commands
see of it, and any run of the exchange allowed by `Pairing` is a run of
`Request`, `Decide`, `Finish` and `ReplyFails`. A pair command has one session,
which bears its name; an invite command causes sessions through its ticket.

| Action | Code |
|---|---|
| `Subscribe`, `CreateInvite`, `Join`, `OpenFails` | the calls of `invite.rs` and `pair.rs` in their order (`FirstCall`) and their IPC methods |
| `AnswerPrompt`, `Resolve` | the prompt and the call it leads to; `resolve_pairing_decision` taking the sender |
| `ReadEvent`, `NoMoreEvents` | one turn of the `next_event` loop; its end when the daemon has gone |
| `Request`, `ReplyFails`, `Decide`, `Finish` | the moments at which `pairing.rs` touches the table, the invite or `broadcast_event` |
| `Interrupt`, `DaemonGoes`, `CallFails` | Ctrl+C; the daemon ending; a call that finds it gone |

`queue[c]` holds what `broadcast_event` has pushed and the command has not read:
the server's channel, the socket and the client's channel, which keep the order
and have no bound. `pending[s]` is `taken` when the entry exists without its
sender: an answer after that is an error, an answer before that counts, also
when the exchange has stopped listening. An invite command cares for the events
of every session (`Concerns`), so several may prompt for one request and one may
report what another's ticket led to; `ReportsAreReal` says how much of that is
still true.

### Messaging

A send is one `send_text` call. It dials at most once, so the connection it
dials has its name. `registry[n]` is the cached connection of daemon `n`.
`ends[c]` are the daemons for which connection `c` has not ended: a close, a
loss or a restart ends it for one daemon, and the other learns of it later
(`Notice`), until when its end is half open and `close_reason()` there is still
empty (`Open`). A daemon that dialed also needs a handle, since Iroh closes a
connection with its last one. `Whole(c)` says that data still passes.
`HasReader` says that streams are read only on the side that runs the accept
loop. What arrived before a connection closed may still be read.

`Restart` ends a daemon's tasks, registry and connections; its trust comes back
from the file (`filed`). `Unpair` ends trust in memory whether or not its save
succeeds, and in the file only if it does; a later save of anything
(`SaveConfig`) writes what is in memory. Only an unpairing that was reported
done bars texts: after one whose save failed a restart brings the trust back, as
`Profile` shows too. `excused[k]` marks sends hit by a loss, a time-out with an
answer possible, an unpairing or a restart; `barred` are the sends that had not
been written when their receiver reported the unpairing. The displayed peer
status is not a variable: it is `online` exactly while a connection is
registered, `mark_online`, `mark_offline` and `close_and_forget` changing both
together. The tie-break keeps any cached connection, also one that the peer
dialed itself, and so spares the dials of the lower id only. Ping changes
nothing and is left out.

`Delivery` leaves all this out. Its `told` is what the message in the sender's
history says (`Told` reads it off `pc`; a restart loses it), `recorded` is
`stored` and `revoked` is `barred`. It records which promises are absent, too:
a text whose sender was told "failed" may have been recorded, and may still be.

### Conversations

One daemon's store with the texts that arrive, `send_text` calls that record
first and settle later, and changes of the history limit. The ids of
outgoing messages are new (UUID v4). `handle_text` takes an incoming id as the
peer sent it, so it may be one that the peer has used before, or that of a
message sent to it: `RecordIncoming` takes both. `log`, the list of all accepted
ids, is what properties compare with; its length is `next_receive_sequence`.
The readers return the message that `find` comes upon, and the properties look
at its direction and its sequence, not at its id. With such ids the readers may
return an outgoing message or the older of two with one id. `record_incoming`
takes the `message_id` as it comes (`transport.rs:261`) and `find` looks at ids
alone (`conversation.rs:206`, `217`), although the comment at
`conversation.rs:202` says "Outgoing messages are never returned". So what is claimed of them, beyond when they have an
answer, is claimed of a peer that makes a fresh id for each text, as `send_text`
does (`OwnIds`), whatever the other peers do.

### Profile

What one daemon keeps between its runs. `book` and `limit` are the
configuration in memory, `file` is `config.json`, `applied` the history limit
the conversation store works with, `secret` the key in the credential store.
Pairing, renaming, unpairing, setting and resetting each hold the write lock
from the change to the answer, so each is one action with a parameter that says
whether its save succeeds; `Stop` may come between any two.

A start is not one action. `main` loads the configuration and the identity
before it binds the socket, which is where it learns that another daemon runs;
until then any number of processes, and a running daemon, act on the file and on
the credential store. Process `n` goes through the stages below with what it has
read, `config[n]` and `mine[n]`:

| Action | Code |
|---|---|
| `Begin` | `load_or_create` of the configuration: whether there is a file, and reading it |
| `CreateFile` | saving the defaults when there was none |
| `GetSecret` | `get_secret`; without a key the start goes on only if no peer is trusted |
| `StoreKey` | `set_secret` of a new key |
| `Bind` | binding the socket: the daemon, with what the process has in its hands |
| `GiveUp` | every way to end before that |

Each of these writes on what it read earlier, without looking again.
`overtaken` becomes true when a start does so after another process has changed
what it read. `RevokedStaysOut`, `IdentityMatchesPeers` and `SavedIsMemory` hold
in every other behaviour, with starts that overlap harmlessly included. The
names and `ImplementsAddressBook` need no such exception.

The exception is not idle. `TrustedUnderOneIdentity`, which is
`IdentityMatchesPeers` without it, fails: of two first starts both find no key
(`GetSecret` twice), one stores its key and becomes the daemon (`StoreKey`,
`Bind`), the other stores another over it (`StoreKey`) and ends as the socket is
taken (`GiveUp`). The daemon pairs under its key; the next start loads the other
(`Begin`, `GetSecret`, `Stop`, `Bind`), and the daemon has an identity that its
peer never agreed to trust, which `identity.rs:57` says cannot come about.
TLC finds these steps in the instance of `profile` when
`TrustedUnderOneIdentity` is put in the place of its invariants.

A save replaces the whole file by a rename or leaves it alone. A `Peer` also
carries the key under which it was paired, which the code does not store: it is
what `IdentityMatchesPeers` compares. Texts are elements of a set, and what the
code does with them (folding case, cutting to 28 characters, appending a number,
being a prefix of an endpoint id) is given by constants, so that display names
that are cut to the same alias, aliases that differ in case and aliases that
look like endpoint ids all occur. Control characters in display names are left
out, and so are edits of `config.json` by hand.

`Without` says of `Vec::retain` what it leaves, the n-th record of those kept
in their order, rather than how it walks the vector; that makes it a definition
one can prove about.

`AddressBook` knows no records, texts, keys or limits: `known` and `safe` are the
sets of pairs of a name and an endpoint in memory and on disk (`Entries`; names
are aliases up to case), `removed` is `revoked`, `read` what the starts under way
have read (`InHands`). Two records of one endpoint may bear one name, which is
why a rename may add a name and take none away (`old`).

### DaemonLifecycle

Processes, the socket file and commands of one user on Unix. `path` is the
daemon whose socket the file refers to: the file is removed by its path and
survives the process that bound it, which is all the difficulty. `daemon[d]`
goes through `bind` (`Look`, `Probe`, `Remove`, `Bind`, `Protect`, one action
per system call) and `main` (`Close`, `Unlink`, `Exit`); a daemon that closes
still accepts connections until it exits. `command[c]` goes through `start`,
`stop`, `restart` or `connect_or_autostart` followed by a call (`use`);
`call[c]` is how far its one IPC call is. A request in `sent` or `handled` when
the daemon ends is never answered, and no action of the client ends the call:
that is what the code does, and `Hung` names it. `Login` stands for launchd,
which starts the daemon at login and again when it has ended (`KeepAlive`). The
delays between tries are not modelled: the loop may run out before a daemon
comes up. Here starts race for the socket; what they do to the file and the
key before that is in `Profile`.

## Runs

Passing runs check the invariants and properties of the table below.

| Run | Instance | What it shows |
|---|---|---|
| `pairing_session` | one session, two restarts, weak fairness | consent, agreement of outcomes, undisturbed consent pairs, exchanges end, `Pairing` implements `MutualTrust` |
| `pairing_tickets` | three joiners, one ticket, limit two, undisturbed; the third stops after its request | types, the attempt limit under racing requests, a finished invite admits nobody |
| `pairing_commands` | two invite commands, one pair command, two requests, three of these five taking part, weak fairness | no request missed, true reports, pairing only on a yes, the first answer counts, commands end |
| `conversations` | two peers, three ids of theirs and the echoed ids of two sends, cache of two, limits one and two, four texts | the readers of the latest messages, dedup window, statuses |
| `profile` | two endpoints under one display name, three pairings, two processes that start and a third after a race, two limits, two new aliases | an alias reaches its peer; unless a start was overtaken, unpairing lasts, the identity is the one peers know and the file is the memory; the limit in force is the configured one; `Profile` implements `AddressBook` |
| `lifecycle` | two processes, two commands of any kind, one login, interruptions, one crash, weak fairness | one owner of the socket file, starts succeed over stale files, stops last, commands end unless their call hangs |
| `messaging` | two sends on either daemon, one loss, unpairing or restart, and the restart that undoes an unpairing that was not saved, weak fairness | sent means stored; the tie-break spares the lower id; a revoked peer's later texts are not recorded; failed connections are not reused; every send settles; `Messaging` implements `Delivery` |

The remaining runs each show one statement of the documentation or of a
comment that the code does not keep (the findings of `PROJECT.json` quote them):

| Run | Statement that fails |
|---|---|
| `pairing_reuse` | an invite is single-use: two sessions admitted before either finishes both pair |
| `conversations_global` | the latest message of any peer is found: the global index dangles when its conversation is trimmed |
| `lifecycle_hang` | a call returns when the daemon closes the connection: a call whose request was read does not |
| `lifecycle_stale` | a live socket is never removed: two daemons that start over a stale one may remove each other's |
| `messaging_unread` | a written text is read: over a cached inbound connection it is not, since the dialing side does not accept streams |

### Bounds

Two sessions on one ticket are the smallest instance of a race between requests;
with a limit of two the third request is the one too many. One session suffices
for consent, timers and restarts since a session touches no other session's ends
(and `Consent` is proved for any number of them). `pairing_tickets` follows
behaviours until the first disturbance (`Calm`), the disturbances being covered
by `pairing_session`, and does not follow the third session past the check of
its invite (`ThirdStops`): all that it can do is what the first two do. What
holds for any number of sessions, with every disturbance, is proved. Three of
the parts of `PairingCommands` at a time (`ThreeParts`) make two commands
prompting for one request, a request at the prompt for another, and a pair
command beside an invite; the queues need no bound, a session announcing itself
and its end once. Two sends make a pair of simultaneous dials, a reuse of a
cached connection and a failure that clears the other's registration; one loss,
unpairing or restart meets them at any moment. `MaxHits` is two, the second only
to bring back trust whose end was not saved (`AgainUnsaved`). A dedup cache of
two with four acceptances wraps; limits one and two let a change trim more than
one message, and let a peer's two messages of one id be held together once the
cache has forgotten the first.
Three pairings fill a name and its first number, so that the third is numbered
again, and repeat an endpoint; two starts are a restart, a race of two first
starts, or a start beside a running daemon. The overlaps and what comes of a
start that was overtaken are followed up to the first pairing (`OverlapsEarly`),
behaviours without through all three; what is proved knows no such bound. A
third process starts after the other two raced (`ThirdAfterRace`) and loads what
the race has left. `LastSuffix` stands for 999 and exceeds `MaxPairings`, so
that numbers never run out, as in the code with fewer than a thousand peers of
one name. Two processes race for the socket, or one outlives a crash of the
other, while two commands start and stop them; `lifecycle_stale` needs a third,
and what holds for any number is proved.
Deadlock is not checked: users need not act, and a behaviour in which all
sessions and sends are over really stops.

### Fairness

`Pairing!Fairness`, `Messaging!Fairness`, `PairingCommands!Fairness` and
`DaemonLifecycle!Fairness` are weak fairness of each task of the daemons and, in
the last two, of each command that has begun: every await in them is bounded by
a timer (`tokio::time::timeout`) or ends when the peer goes away, and the
runtime is multi-threaded. Nothing is assumed of humans, of launchd, of the
network or of the invites' clock. Accepting and reading are fair only while the
connection is open. Two awaits have no timer. The answer to an IPC call is an
action of its own (`GetAnswer`), which an answer alone enables. `open_bi` of a
send (`transport.rs:371`) is part of the step that writes: it waits only while
as many streams of the connection are open as QUIC allows. The first unread one
to time out takes the connection out of the registry, so no later send uses it;
but sends that all took it before that, more of them than that number, would
wait for as long as it stays open. The two sends of the model are too few for
that, and `SendsSettle` does not speak of it.

## Proofs

`PairingProofs`, for any number of sessions, invites, joiners and restarts:

* `TypeCorrect`, the types, including that no counter passes `MaxAttempts`.
* `Consent` (`MutualConsent`) and `NoSplit` (`NoSplitVerdict`). Neither is
  inductive: trust is committed long after the answers it rests on. `EndsInv`
  ties the program counter of each end to what it has announced and to its
  verdict; `ConsentInv` says that a yes that was announced was voted and that
  an end settled as paired has seen two announced yeses, and that whatever is
  trusted or on disk goes back to such a session.
* `ConsentPairs` (`UndisturbedConsentPairs`): `SessionInv` says, of a session
  that nothing disturbed, that its connection is closed only once the joiner
  has finished, that by then the joiner's yes has arrived or the inviter needs
  it no more, and that an inviter that said yes fails only on a joiner that did
  not. `VerdictInv` says that a verdict is there exactly when the exchange is
  over.
* `PairingImplementsMutualTrust`: initial states map to initial states and
  every step to `Say`, to `End` or to a stutter. A restart ends several
  sessions at once, hence the sets of ends in `MutualTrust!End`.
* `SettledIsFinal`, which no run checks: it follows from the refinement step,
  since every step of `MutualTrust` leaves announcements and endings alone.
* `AttemptLimit` (`AttemptsBounded`): `CountInv` says that the sessions
  admitted on an invite are no more than its counter. It is proved from the
  library's theorems on finite sets.
* `FinishedInviteIsDead` (`FinishedInviteAdmitsNoMore`), an action property
  from the invariant that an invite is not active once a session on it has
  finished: invites are never created twice.

`MessagingProofs`, for any number of sends:

* `TypeCorrect` and `SentStored` (`SentMeansStored`). The invariant `Wiring`
  adds where a send may be when it has a connection, a written stream or an
  answer, and that an acknowledgement on its way is of a recorded text.
* `RevokedNotStored` (`RevokedNeverStored`): the property is about a text that
  was not written when an unpairing was reported done; `BarredInv` follows it
  through the write and the look-up, which finds trust gone in memory, and gone
  in the file too, so that no restart brings it back.
* `MessagingImplementsDelivery`: every step maps to `Begin`, `Record`, `Tell`,
  `Forget`, `Revoke` or a stutter, from `Wiring` and `BarredInv`.
* `ToldIsFinal`, from the same step: `Delivery` tells, and forgets, only what
  is still being sent.
* `FailedStaysOut` (`FailedNotReused`) from `OnceInv`: a connection that a
  daemon has still to register is used there only by the send that dialed it,
  so that what `mark_offline` removed does not come back.
* `LowerDial` (`LowerDialSucceeds`) from `LowerInv`: unless excused, a send of
  the lower id over its own dial is on a connection that is up and has no
  error to read. A refusal closes only connections dialed by the higher id;
  trust is complete unless every send is excused.

`DaemonLifecycleProofs`, for any number of processes and commands, from one
inductive invariant `LInv`:

* `TypeCorrect`, including that no command tries more often than its loop allows.
* `OneOwner` (`SoleOwner`): as long as `bind` has not removed a living daemon's
  file, every daemon that has bound owns the file. It is inductive with the
  types: binding needs that there is no file, hence no other owner, and a
  shutdown removes the file of the one owner, itself.
* `StartersAgree` (`FirstStartersAgree`): `CalmInv` says that before any ending
  no file is stale, so no probe fails and nobody gets to remove anything.
* `StopLasts` (`StoppedStaysStopped`): `StopInv` carries the fact from the wait
  through the rest of a restart; `CommandInv` says that a daemon that was called
  has bound before, and so does not bind again.

`PairingCommandsProofs`, for any number of commands and sessions, from the
inductive invariant `PInv`:

* `TypeCorrect`, the types of the queues, the table and the commands.
* `Heard` (`RequestHeard`) from `HeardInv`, and from `CommandInv`, by which a
  command that may have a ticket has subscribed and stays a subscriber until it
  is over. A queue loses its head only to its command, which then asks, and an
  answer is recorded.
* `TrueReports` (`ReportsAreReal`): `EventInv` says that an update in a queue
  was announced by a session that ended so, and outcomes never change.
* `PairedOnYes` (`PairedWasConfirmed`): `SessionInv` says that every vote
  is the answer of some command's human and that only a yes brings agreement.
* `FirstCounts` (`FirstAnswerCounts`), from the part of `TypeOK` that says that
  an entry which still has its sender has no vote.

`ConversationsProofs`, for any number of peers, ids and sends, any capacity, any
limits and any ids that peers choose, from the inductive invariant `CInv`. The
lemmas describe what the sequence operators return: `Youngest` gives a suffix
(`YoungestSuffix`), `IndexOf` the first element with the id or 0 (`IndexOfFinds`),
`Updated` changes one status.

* `HistoryInv` ties each held message to where it comes from (`Traced`: an
  incoming one is the acceptance of its sequence, which bears its id; an outgoing
  one shows the outcome of its call), says that an incoming message that bears
  the id of a call comes after that call's own message (`Apart`) and that
  sequences grow along a history (`Ordered`). Trimming from the front keeps all
  three.
* `StatusSettles` (`StatusFollowsCall`): an echo can only follow the message
  whose id it bears, so the first match of a settling call is its own message, or
  that message has been trimmed.
* `Dedup` (`DedupWindow`): `WindowInv` says that the cache is the last
  `Capacity` entries of the list of all acceptances (`WindowMoves`: evicting
  from the cache or from the whole list leaves the same window), so what it
  does not hold lies further back (`OutsideWindow`).
* `NewestFound` (`LatestForIsNewest`): `LatestInv` says that the index of a peer
  is the id of the newest incoming message held, if one is held, and that of
  no held message otherwise (`Indexed`, `Newest`). So the reader has an answer
  exactly then. If the peer's ids are all different and its own, only one held
  message bears that id (`OneAcceptance`), and it is the newest.
* `LastFound` (`LatestGlobalIsLast`): the global index is the last acceptance
  (`GlobalInv`); if its peer's ids are fresh, a message found under it is that
  acceptance.
* `TypeCorrect`, with the queue and the set of the cache holding the same
  entries, each once, no more than the capacity; it follows from `WindowInv` and
  the library's theorems on finite sets.

`ProfileProofs`, for any endpoints, texts and limits and any number of pairings
and of processes that start. The types (`TypeInv`: with them, the length of the
file's book, a key and a file while the daemon runs, no peers in memory while it
does not) are the base of the others; `StageInv`, a part of them, says what a
process has read at each stage. What the operators return comes first: `MinIsLeast` and `ResolveIs` for the look-up, `WithoutIs` for
`remove_trusted_peer` (what is left is the records of the others, each once and
in order; the ranks of a finite set of numbers run from 1 to its cardinality),
and `UniqueAliasIsFree`: if no number gave a free alias, every number would be
held by a record of its own, and there are more numbers than records
(`SomeNumberFree`, from `NumberAssumption` and the library's pigeonhole theorem).

* `AliasFinds` (`AliasFindsPeer`) from `NameInv`: in memory and in the file, two
  records with one alias up to case are of one endpoint. The file, and what the
  starts under way have read of it, count, since a start brings it back.
* `RevokedOut` (`RevokedStaysOut`), which is inductive with the types (`ClearInv`).
* `Identity` (`IdentityMatchesPeers`) from `KeyInv`: memory and file are of the
  key generated last, and the running daemon has that key. A process stores a
  key only when it has read an empty book, so as long as that is still the book
  on the disk and nothing runs, a new key disagrees with no record; a process
  that binds with any other key has been overtaken.
* `SavedMemory` (`SavedIsMemory`), `LimitForce` (`LimitInForce`), `TypeCorrect`.
  The first and the two before it have the exception of `overtaken`.
* `ProfileImplementsAddressBook`: every step maps to a step of `AddressBook` or
  a stutter: `Begin` to `Read`, `CreateFile` to `Clear`, `Bind` to `Start`,
  `GiveUp` to `Fail`, and what concerns the key alone to nothing. It needs the
  types, and `UniqueAliasIsFree` for `Add`.
* `NamesStay`, from that refinement and `NameInv`: no one step gives a name of
  one endpoint to another.

The assumptions are those the modules name: the inviter is not one of the
joiners, tickets and joiners are total functions of the sessions, the sessions
are finite, the two daemons differ, there are finitely many processes, an id
that a peer makes is not one that this daemon makes (`FreshAssumption`: both are
UUIDs made at random; an id that a peer repeats or echoes is not one it makes),
"no id" is no id, "no file" is no content of a file, the default limit is a limit. Of texts:
`TextAssumption` says that a display name cut to 28 characters, with a number or
without, is a valid alias (`validate_alias` allows 32, and a dash and three
digits make four); `NumberAssumption` that different numbers make different
aliases and that there are more numbers than pairings, which is where the UUID
that `unique_alias` falls back on is left out. TLC evaluates them on every run.

Only model-checked: liveness (`ExchangesEnd`, `SendsSettle`, `PairEnds`,
`InviteEnds`, `StartsSucceed`, `CommandsEnd`), which rests on fairness and
ENABLED and is out of the prover's reach. Every invariant, action property and
refinement that a passing run checks is proved.

## Not modelled

Terminal and clipboard I/O, the picker, output, diagnostics and autostart keep
no state of their own or only the operating system's. Windows named pipes and
their access control are the operating system's. Limits on sizes (frames of
IPC and wire, texts, the time to live of an invite) are left out: sizes are data
that nothing here depends on, except that a response too large for a frame ends
its call like a daemon that dies (`Hung`). An invite that expires is announced
by no event, so that its command waits on; `ExpireInvite` is in `Pairing` and
`InviteEnds` claims nothing of it. The timeout of a connection
attempt (500 ms) is left out, since connecting to a local socket does not wait.
Two daemons bound at once, which `lifecycle_stale` shows to be possible, are left
out of `Profile`. So is a second `lanclipd` that serves the peer protocol under
the same identity (`main.rs:731`) until its bind of the socket fails. QUIC, the credential store
and the file system are modelled by how the code uses them.

## Plan

`Limits`: length prefixes, text limits, time to live, the range of the history
limit as pure operators against reference definitions. A theorem that a session
of `Pairing`, as its own daemon sees it, is a session of `PairingCommands`: so
far that is argued, not checked.

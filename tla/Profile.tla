------------------------------- MODULE Profile -------------------------------
(***************************************************************************)
(* What one daemon keeps between its runs: the trusted peers with their    *)
(* aliases (crates/lcp-core/src/peers.rs), the configuration in memory and *)
(* in config.json (config.rs), the identity in the credential store        *)
(* (identity.rs), and the operations of crates/lanclipd/src/main.rs that   *)
(* change them.  Every operation is one critical section of the state      *)
(* lock; its save may fail, and the daemon may stop between any two.       *)
(* Several processes may start at a time, and while a daemon runs: each    *)
(* reads the configuration and the key before it learns, by binding the    *)
(* socket, whether it is the one daemon.                                   *)
(*                                                                         *)
(* A text (alias, display name, identifier typed by the user) is an        *)
(* element of Texts; what the code does with texts is given by the         *)
(* constants Fold, Short, Numbered and StartsWith.                         *)
(***************************************************************************)
EXTENDS Naturals, SequencesExt

CONSTANTS
  Ids,          \* endpoint ids of other daemons
  Texts,        \* texts
  Valid,        \* texts short enough for an alias (1 to 32 characters)
  Names,        \* display names that peers announce
  NewAliases,   \* aliases that the user asks for in a rename
  Fold,         \* Fold[t]: t with its ASCII letters in one case
  Short,        \* Short[t]: t trimmed and cut to 28 characters, "Peer" if empty
  Numbered,     \* Numbered[<<t, n>>]: t followed by a dash and n
  StartsWith,   \* pairs <<t, id>>: endpoint id id starts with text t
  LastSuffix,   \* the largest n that unique_alias tries (999)
  Limits,       \* values of history.limit_per_peer
  DefaultLimit, \* its default
  Missing,      \* there is no config.json
  MaxPairings,  \* bound: pairings in one behaviour
  MaxStarts     \* bound: processes started in one behaviour

ASSUME TextAssumption ==
  /\ Valid \subseteq Texts /\ Names \subseteq Texts /\ NewAliases \subseteq Texts
  /\ Fold \in [Texts -> Texts]
  /\ Short \in [Names -> Valid]
  /\ Numbered \in [Range(Short) \X (2 .. LastSuffix) -> Valid]
  /\ StartsWith \subseteq Texts \X Ids
(* Different numbers make different aliases, and there are enough of them  *)
(* for every pairing, so that unique_alias never falls back on a UUID.     *)
ASSUME NumberAssumption ==
  /\ \A t \in Range(Short), m, n \in 2 .. LastSuffix :
       Fold[Numbered[<<t, m>>]] = Fold[Numbered[<<t, n>>]] => m = n
  /\ MaxPairings \in Nat /\ LastSuffix \in Nat /\ MaxPairings < LastSuffix
ASSUME LimitAssumption == DefaultLimit \in Limits
ASSUME StartAssumption == MaxStarts \in Nat

VARIABLES
  running,   \* the daemon runs
  book,      \* config.trusted_peers in memory, in order
  limit,     \* config.history.limit_per_peer in memory
  applied,   \* the limit the conversation store works with
  file,      \* config.json, or Missing
  secret,    \* the key in the credential store, 0 if there is none
  key,       \* the identity of the running daemon
  minted,    \* the key generated last; process n makes key n
  revoked,   \* ids whose unpairing was reported done, not paired since
  saved,     \* the last save succeeded
  refused,   \* a change of the limit has been reported as failed since the
             \* limit was last put in force
  pairings,  \* pairings so far
  starts,    \* processes started so far; the n-th is n
  stage,     \* stage[n]: how far process n has come
  config,    \* config[n]: the configuration it has loaded
  mine,      \* mine[n]: the key it has loaded or made
  overtaken  \* a start went on with what it had read after another process
             \* had changed it

vars == <<running, book, limit, applied, file, secret, key, minted, revoked,
          saved, refused, pairings, starts, stage, config, mine, overtaken>>

(* What starting and ending processes keep for themselves, and what the    *)
(* operations of the running daemon leave alone.                           *)
startVars == <<starts, stage, config, mine, overtaken>>

Starters == 1 .. MaxStarts

Peer == [id : Ids, alias : Valid, key : Starters]
Stored == [book : Seq(Peer), limit : Limits]
(* No file is not a file with some content. *)
ASSUME MissingAssumption == Missing \notin Stored

(* The stages of a process before it has bound the socket. *)
Underway == {"creating", "loaded", "absent", "ready"}

Holds(b) == {b[i].id : i \in DOMAIN b}

TypeOK ==
  /\ running \in BOOLEAN
  /\ book \in Seq(Peer) /\ Len(book) <= pairings
  /\ limit \in Limits /\ applied \in Limits
  /\ file = Missing \/ file \in Stored
  /\ minted \in 0 .. starts /\ secret \in {0, minted} /\ key \in 0 .. starts
  /\ revoked \subseteq Ids
  /\ saved \in BOOLEAN /\ refused \in BOOLEAN
  /\ pairings \in 0 .. MaxPairings /\ starts \in 0 .. MaxStarts
  /\ stage \in [Starters -> Underway \cup {"none", "over"}]
  /\ config \in [Starters -> Stored] /\ mine \in [Starters -> 0 .. starts]
  /\ overtaken \in BOOLEAN

Defaults == [book |-> <<>>, limit |-> DefaultLimit]

Init ==
  /\ running = FALSE
  /\ book = <<>> /\ limit = DefaultLimit /\ applied = DefaultLimit
  /\ file = Missing
  /\ secret = 0 /\ key = 0 /\ minted = 0
  /\ revoked = {} /\ saved = TRUE /\ refused = FALSE
  /\ pairings = 0 /\ starts = 0
  /\ stage = [n \in Starters |-> "none"]
  /\ config = [n \in Starters |-> Defaults] /\ mine = [n \in Starters |-> 0]
  /\ overtaken = FALSE

-----------------------------------------------------------------------------
(* Names.                                                                  *)

(* eq_ignore_ascii_case *)
SameText(t, u) == Fold[t] = Fold[u]

(* The mutant compares the aliases as they are written. *)
Free_Exact(t) == \A i \in DOMAIN book : book[i].alias # t

(* find_alias_case_insensitive finds nothing. *)
Free(t) == \A i \in DOMAIN book : ~SameText(book[i].alias, t)

(* The mutant takes the display name as it comes. *)
Base_Whole(name) == name

Base(name) == Short[name]

(* The mutant tries one number only. *)
UniqueAlias_Once(name) ==
  IF Free(Base(name)) THEN Base(name) ELSE Numbered[<<Base(name), 2>>]

(* unique_alias: the name, or the name with the first number that is free. *)
UniqueAlias(name) ==
  IF Free(Base(name)) THEN Base(name)
  ELSE LET n == CHOOSE n \in 2 .. LastSuffix :
                  /\ Free(Numbered[<<Base(name), n>>])
                  /\ \A m \in 2 .. n - 1 : ~Free(Numbered[<<Base(name), m>>])
       IN Numbered[<<Base(name), n>>]

(* resolve_identifier: the first peer with this alias, otherwise the only  *)
(* record whose endpoint id starts with the text.  The result is the set   *)
(* of the index found; it is empty for NotFound and for Ambiguous.         *)
Resolve(t) ==
  LET named == {i \in DOMAIN book : t \in Texts /\ SameText(book[i].alias, t)}
      prefixed == {i \in DOMAIN book : t = book[i].id \/ <<t, book[i].id>> \in StartsWith}
  IN CASE named # {} -> {Min(named)}
       [] named = {} /\ Cardinality(prefixed) = 1 -> prefixed
       [] OTHER -> {}

-----------------------------------------------------------------------------
(* Starting and stopping.                                                  *)

(* The trusted peers on the disk. *)
Trusted == IF file = Missing THEN <<>> ELSE file.book

(* A process has come to its next stage. *)
Reach(n, s) == stage' = [stage EXCEPT ![n] = s]

(* main, Config::load_or_create: the file is read if there is one. *)
Begin(n) ==
  /\ n = starts + 1 /\ n <= MaxStarts
  /\ starts' = n
  /\ \/ file # Missing /\ Reach(n, "loaded") /\ config' = [config EXCEPT ![n] = file]
     \/ file = Missing /\ Reach(n, "creating") /\ UNCHANGED config
  /\ UNCHANGED <<running, book, limit, applied, file, secret, key, minted, revoked,
                 saved, refused, pairings, mine, overtaken>>

(* If there was none, the defaults are saved, over whatever another        *)
(* process has saved since.                                                *)
CreateFile(n) ==
  /\ stage[n] = "creating"
  /\ Reach(n, "loaded")
  /\ file' = Defaults
  /\ overtaken' = (overtaken \/ file \notin {Missing, Defaults})
  /\ UNCHANGED <<running, book, limit, applied, secret, key, minted, revoked,
                 saved, refused, pairings, starts, config, mine>>

(* The mutant makes a key whatever the configuration says. *)
MayMint_Always(n) == TRUE

(* identity::load_or_create: a missing secret is replaced only if no peer  *)
(* is trusted.                                                             *)
MayMint(n) == config[n].book = <<>>

(* get_secret: the key, or none. *)
GetSecret(n) ==
  /\ stage[n] = "loaded"
  /\ \/ secret # 0 /\ Reach(n, "ready") /\ mine' = [mine EXCEPT ![n] = secret]
     \/ secret = 0 /\ MayMint(n) /\ Reach(n, "absent") /\ UNCHANGED mine
  /\ UNCHANGED <<running, book, limit, applied, file, secret, key, minted, revoked,
                 saved, refused, pairings, starts, config, overtaken>>

(* set_secret of a new key, over whatever key another process has stored   *)
(* since.                                                                  *)
StoreKey(n) ==
  /\ stage[n] = "absent"
  /\ Reach(n, "ready")
  /\ minted' = n
  /\ secret' = n
  /\ mine' = [mine EXCEPT ![n] = n]
  /\ overtaken' = (overtaken \/ running \/ config[n].book # Trusted)
  /\ UNCHANGED <<running, book, limit, applied, file, key, revoked,
                 saved, refused, pairings, starts, config>>

(* The process binds the socket and is the daemon, with the configuration  *)
(* and the key it has in its hands.                                        *)
Bind(n) ==
  /\ stage[n] = "ready"
  /\ ~running
  /\ running' = TRUE
  /\ book' = config[n].book
  /\ limit' = config[n].limit
  /\ applied' = config[n].limit
  /\ key' = mine[n]
  /\ saved' = TRUE
  /\ refused' = FALSE
  /\ overtaken' = (overtaken \/ config[n] # file \/ mine[n] # minted)
  /\ Reach(n, "over")
  /\ config' = [config EXCEPT ![n] = Defaults]
  /\ mine' = [mine EXCEPT ![n] = 0]
  /\ UNCHANGED <<file, secret, minted, revoked, pairings, starts>>

(* The process ends before that: the configuration cannot be read or       *)
(* saved, the key is missing while peers are trusted, the credential store *)
(* fails, a daemon has the socket, or it is killed.                        *)
GiveUp(n) ==
  /\ stage[n] \in Underway
  /\ Reach(n, "over")
  /\ config' = [config EXCEPT ![n] = Defaults]
  /\ mine' = [mine EXCEPT ![n] = 0]
  /\ UNCHANGED <<running, book, limit, applied, file, secret, key, minted, revoked,
                 saved, refused, pairings, starts, overtaken>>

(* Shutdown or crash. *)
Stop ==
  /\ running
  /\ running' = FALSE
  /\ book' = <<>>
  /\ limit' = DefaultLimit
  /\ applied' = DefaultLimit
  /\ key' = 0
  /\ saved' = TRUE
  /\ refused' = FALSE
  /\ UNCHANGED <<file, secret, minted, revoked, pairings, startVars>>

(* Somebody removes the entry from the credential store. *)
LoseSecret ==
  /\ secret # 0
  /\ secret' = 0
  /\ UNCHANGED <<running, book, limit, applied, file, key, minted, revoked,
                 saved, refused, pairings, startVars>>

-----------------------------------------------------------------------------
(* Operations of the running daemon.                                       *)

(* The mutant writes the configuration as it was before the change. *)
Image_Early(b, l) == [book |-> book, limit |-> limit]

(* What a save of the changed configuration writes. *)
Image(b, l) == [book |-> b, limit |-> l]

(* Config::save after the change: the whole file is replaced by a rename,  *)
(* or stays as it was.                                                     *)
Save(ok) ==
  /\ saved' = ok
  /\ file' = IF ok THEN Image(book', limit') ELSE file

(* finish_pairing with both sides confirmed.  A failing save is logged. *)
Pair(id, name, ok) ==
  /\ running
  /\ pairings < MaxPairings
  /\ pairings' = pairings + 1
  /\ book' = Append(book, [id |-> id, alias |-> UniqueAlias(name), key |-> key])
  /\ revoked' = revoked \ {id}
  /\ UNCHANGED limit
  /\ Save(ok)
  /\ UNCHANGED <<running, applied, secret, key, minted, refused, startVars>>

(* RENAME_PEER: the first record of the endpoint gets the alias, unless    *)
(* another endpoint has it.                                                *)
Rename(t, alias, ok) ==
  /\ running
  /\ alias \in Valid
  /\ \E i \in Resolve(t) :
       LET first == SelectInSeq(book, LAMBDA r : r.id = book[i].id)
       IN /\ \A j \in DOMAIN book :
               book[j].id # book[i].id => ~SameText(book[j].alias, alias)
          /\ book' = [book EXCEPT ![first].alias = alias]
  /\ UNCHANGED limit
  /\ Save(ok)
  /\ UNCHANGED <<running, applied, secret, key, minted, revoked, refused, pairings, startVars>>

(* The mutant removes the first record only. *)
Without_First(id) == RemoveFirstMatch(book, LAMBDA r : r.id = id)

(* remove_trusted_peer: every record of the endpoint goes, and the others  *)
(* keep their order: the n-th of them is the one with n of them up to it.  *)
Without(id) ==
  LET kept == {i \in DOMAIN book : book[i].id # id}
      nth(n) == CHOOSE i \in kept : Cardinality(kept \cap 1 .. i) = n
  IN [n \in 1 .. Cardinality(kept) |-> book[nth(n)]]

(* UNPAIR_PEER: trust is gone at once; the answer is an error if the file  *)
(* could not be written.                                                   *)
Unpair(t, ok) ==
  /\ running
  /\ \E i \in Resolve(t) :
       /\ book' = Without(book[i].id)
       /\ revoked' = IF ok THEN revoked \cup {book[i].id} ELSE revoked
  /\ UNCHANGED limit
  /\ Save(ok)
  /\ UNCHANGED <<running, applied, secret, key, minted, refused, pairings, startVars>>

(* SET_CONFIG history.limit_per_peer: in force only if it was saved, but   *)
(* changed in the configuration in any case.                               *)
SetLimit(l, ok) ==
  /\ running
  /\ limit' = l
  /\ applied' = IF ok THEN l ELSE applied
  /\ refused' = ~ok
  /\ UNCHANGED book
  /\ Save(ok)
  /\ UNCHANGED <<running, secret, key, minted, revoked, pairings, startVars>>

(* SET_CONFIG of another key: the whole configuration is saved. *)
SetOther(ok) ==
  /\ running
  /\ UNCHANGED <<book, limit>>
  /\ Save(ok)
  /\ UNCHANGED <<running, applied, secret, key, minted, revoked, refused, pairings, startVars>>

(* The mutant leaves the store with the limit it had. *)
ResetApplied_Not == applied

ResetApplied == DefaultLimit

(* RESET_CONFIG keeps the peers; its limit is in force before the save. *)
Reset(ok) ==
  /\ running
  /\ limit' = DefaultLimit
  /\ applied' = ResetApplied
  /\ refused' = FALSE
  /\ UNCHANGED book
  /\ Save(ok)
  /\ UNCHANGED <<running, secret, key, minted, revoked, pairings, startVars>>

-----------------------------------------------------------------------------
Operation(ok) ==
  \/ \E id \in Ids, name \in Names : Pair(id, name, ok)
  \/ \E t \in Texts \cup Ids, a \in NewAliases : Rename(t, a, ok)
  \/ \E t \in Texts \cup Ids : Unpair(t, ok)
  \/ \E l \in Limits : SetLimit(l, ok)
  \/ SetOther(ok)
  \/ Reset(ok)

Next ==
  \/ \E n \in Starters :
       Begin(n) \/ CreateFile(n) \/ GetSecret(n) \/ StoreKey(n) \/ Bind(n) \/ GiveUp(n)
  \/ Stop \/ LoseSecret
  \/ \E ok \in BOOLEAN : Operation(ok)

Spec == Init /\ [][Next]_vars

-----------------------------------------------------------------------------
(* Properties.                                                             *)

(* Naming a peer by the alias the daemon shows for it reaches that peer    *)
(* and no other: texts are sent to, and trust is revoked from, the         *)
(* endpoint meant, through pairings under the same display name, renames,  *)
(* re-pairings and restarts.                                               *)
AliasFindsPeer ==
  \A i \in DOMAIN book :
    \E j \in Resolve(book[i].alias) : book[j].id = book[i].id

(* An unpairing that was reported done lasts: no failed or later save and  *)
(* no restart brings the trust back without a new pairing, unless a start  *)
(* went on with a configuration it had read before.                        *)
RevokedStaysOut ==
  overtaken \/ (Holds(book) \cup Holds(Trusted)) \cap revoked = {}

(* The trusted peers are an AddressBook: names are those of the aliases up  *)
(* to case, the disk is config.json.                                       *)
Entries(b) == {<<Fold[b[i].alias], b[i].id>> : i \in DOMAIN b}

InHands == {Entries(config[n].book) : n \in {m \in Starters : stage[m] \in Underway}}

A == INSTANCE AddressBook WITH
       Names <- Texts, up <- running, known <- Entries(book), safe <- Entries(Trusted),
       removed <- revoked, read <- InHands

(* Every operation changes one name or one endpoint and takes no name from *)
(* another endpoint, all of it is written or nothing, a start brings back  *)
(* what it found written, and a removal is reported done only when it is.  *)
ImplementsAddressBook == A!Spec

(* "Fails rather than silently minting a new, unrelated identity that      *)
(* those peers never agreed to trust" (the doc comment of                  *)
(* identity::load_or_create): the running daemon has the identity under    *)
(* which every peer it trusts was paired.                                  *)
TrustedUnderOneIdentity ==
  running => \A i \in DOMAIN book : book[i].key = key

(* That is so through restarts, lost secrets, failed saves and starts that *)
(* overlap, unless one of these stored a key or went on with one after     *)
(* what it had read was changed.  (Without the exception it fails: two     *)
(* first starts find no key, one becomes the daemon, the other stores its  *)
(* own key over the daemon's, and the next start loads that one.)          *)
IdentityMatchesPeers == overtaken \/ TrustedUnderOneIdentity

(* After a save that succeeded, a crash loses nothing of what was          *)
(* reported: every operation writes what it has changed before it answers, *)
(* and no start that fails spoils it, unless it was overtaken.             *)
SavedIsMemory ==
  overtaken \/ ((running /\ saved) => file = [book |-> book, limit |-> limit])

(* The history limit that is configured is the one in force, unless a      *)
(* change of it was reported as failed.                                    *)
LimitInForce == applied = limit \/ refused
=============================================================================

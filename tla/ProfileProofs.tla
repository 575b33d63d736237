---------------------------- MODULE ProfileProofs ----------------------------
(* What holds of Profile for every set of endpoints, names and aliases and *)
(* for any number of pairings and starts.                                  *)
EXTENDS Profile, FiniteSetTheorems, SequenceTheorems, TLAPS

-----------------------------------------------------------------------------
(* Numbers.                                                                *)

(* Min is the least element. *)
LEMMA MinIsLeast ==
  ASSUME NEW I \in SUBSET Nat, I # {}
  PROVE  Min(I) \in I /\ \A y \in I : Min(I) =< y
  <1>1. PICK x \in I : \A y \in I : ~(<<y, x>> \in OpToRel(<, Nat))
    BY NatLessThanWellFounded, WFMin
  <1>2. ASSUME NEW y \in I, y < x
        PROVE  <<y, x>> \in OpToRel(<, Nat)
    BY <1>2 DEF OpToRel
  <1>3. \A y \in I : ~(y < x)
    BY <1>1, <1>2
  <1>4. \A y \in I : x =< y
    BY <1>3
  <1> QED
    BY <1>4 DEF Min

(* The intervals from 1 and from 2 have as many elements as one expects.   *)
LEMMA CountTo ==
  ASSUME NEW N \in Nat
  PROVE  /\ IsFiniteSet(1 .. N) /\ Cardinality(1 .. N) = N
         /\ IsFiniteSet(2 .. N) /\ (N # 0 => Cardinality(2 .. N) = N - 1)
  <1>1. IsFiniteSet(1 .. N) /\ Cardinality(1 .. N) = IF 1 > N THEN 0 ELSE N - 1 + 1
    BY FS_Interval
  <1>2. IsFiniteSet(2 .. N) /\ Cardinality(2 .. N) = IF 2 > N THEN 0 ELSE N - 2 + 1
    BY FS_Interval
  <1> QED
    BY <1>1, <1>2

(* How many elements of K there are up to i. *)
Rank(K, i) == Cardinality(K \cap 1 .. i)

LEMMA RankGrows ==
  ASSUME NEW N \in Nat, NEW K \in SUBSET (1 .. N)
  PROVE  /\ IsFiniteSet(K) /\ Cardinality(K) \in 0 .. N
         /\ \A i \in K : Rank(K, i) \in 1 .. Cardinality(K)
         /\ \A i, j \in K : i < j => Rank(K, i) < Rank(K, j)
  <1>1. IsFiniteSet(1 .. N) /\ Cardinality(1 .. N) = N
    BY CountTo
  <1>2. IsFiniteSet(K) /\ Cardinality(K) \in 0 .. N
    <2>1. IsFiniteSet(K) /\ Cardinality(K) <= N
      BY <1>1, FS_Subset
    <2>2. Cardinality(K) \in Nat
      BY <2>1, FS_CardinalityType
    <2> QED
      BY <2>1, <2>2
  <1>3. ASSUME NEW i \in K
        PROVE  Rank(K, i) \in 1 .. Cardinality(K)
    <2>1. /\ IsFiniteSet(K \cap 1 .. i)
          /\ Cardinality(K \cap 1 .. i) <= Cardinality(K)
      BY <1>2, FS_Subset
    <2>2. i \in K \cap 1 .. i
      OBVIOUS
    <2>3. Cardinality(K \cap 1 .. i) \in Nat /\ Cardinality(K \cap 1 .. i) # 0
      BY <2>1, <2>2, FS_EmptySet, FS_CardinalityType
    <2> QED
      BY <1>2, <2>1, <2>3 DEF Rank
  <1>4. ASSUME NEW i \in K, NEW j \in K, i < j
        PROVE  Rank(K, i) < Rank(K, j)
    <2>1. K \cap 1 .. i \in SUBSET (K \cap 1 .. j)
      BY <1>4
    <2>2. j \in K \cap 1 .. j /\ j \notin K \cap 1 .. i
      BY <1>4
    <2>3. /\ Rank(K, i) <= Rank(K, j)
          /\ Rank(K, i) # Rank(K, j)
      <3>1. IsFiniteSet(K \cap 1 .. j)
        BY <1>2, FS_Subset
      <3> QED
        BY <2>1, <2>2, <3>1, FS_Subset DEF Rank
    <2>4. Rank(K, i) \in Nat /\ Rank(K, j) \in Nat
      BY <1>2, <1>3
    <2> QED
      BY <2>3, <2>4
  <1> QED
    BY <1>2, <1>3, <1>4

(* There is an n-th element. *)
LEMMA RankOnto ==
  ASSUME NEW N \in Nat, NEW K \in SUBSET (1 .. N), NEW n \in 1 .. Cardinality(K)
  PROVE  \E i \in K : Rank(K, i) = n
  <1> DEFINE rank == [i \in K |-> Rank(K, i)]
             C == Cardinality(K)
  <1>1. /\ IsFiniteSet(K) /\ C \in Nat
        /\ \A i \in K : Rank(K, i) \in 1 .. C
        /\ \A i, j \in K : i < j => Rank(K, i) < Rank(K, j)
    BY RankGrows
  <1>2. ASSUME NEW i \in K, NEW j \in K, Rank(K, i) = Rank(K, j)
        PROVE  i = j
    <2>1. Rank(K, i) \in Nat /\ Rank(K, j) \in Nat /\ i \in Nat /\ j \in Nat
      BY <1>1
    <2>2. ~(i < j) /\ ~(j < i)
      BY <1>1, <1>2, <2>1
    <2> QED
      BY <2>1, <2>2
  <1>3. rank \in [K -> 1 .. C] /\ \A i, j \in K : rank[i] = rank[j] => i = j
    BY <1>1, <1>2
  <1>4. rank \in Injection(K, 1 .. C)
    <2>1. DOMAIN rank = K
      OBVIOUS
    <2> HIDE DEF rank
    <2> QED
      BY <1>3, <2>1 DEF Injection, IsInjective
  <1>5. IsFiniteSet(1 .. C) /\ Cardinality(1 .. C) = C
    BY <1>1, CountTo
  <1>6. rank \in Surjection(K, 1 .. C)
    BY <1>4, <1>5, FS_Injection
  <1>7. \E i \in K : rank[i] = n
    BY <1>6 DEF Surjection
  <1> QED
    BY <1>7

-----------------------------------------------------------------------------
(* The operators on the address book.                                      *)

(* t is s without the records of id: the others, each once, in their order. *)
Thinned(t, s, id) ==
  \E at \in [1 .. Len(t) -> 1 .. Len(s)] :
    /\ \A n \in 1 .. Len(t) : t[n] = s[at[n]] /\ s[at[n]].id # id
    /\ \A m, n \in 1 .. Len(t) : m < n => at[m] < at[n]
    /\ \A i \in 1 .. Len(s) : s[i].id # id => \E n \in 1 .. Len(t) : at[n] = i

LEMMA WithoutIs ==
  ASSUME book \in Seq(Peer), NEW id
  PROVE  /\ Without(id) \in Seq(Peer) /\ Len(Without(id)) <= Len(book)
         /\ Thinned(Without(id), book, id)
  <1> DEFINE kept == {i \in 1 .. Len(book) : book[i].id # id}
             C == Cardinality(kept)
             at == [n \in 1 .. C |-> CHOOSE i \in kept : Rank(kept, i) = n]
  <1>1. Len(book) \in Nat /\ DOMAIN book = 1 .. Len(book)
    OBVIOUS
  <1>2. Without(id) = [n \in 1 .. C |-> book[at[n]]]
    BY <1>1 DEF Without, Rank
  <1>3. /\ C \in 0 .. Len(book)
        /\ \A i \in kept : Rank(kept, i) \in 1 .. C
        /\ \A i, j \in kept : i < j => Rank(kept, i) < Rank(kept, j)
    <2>1. kept \in SUBSET (1 .. Len(book))
      OBVIOUS
    <2> HIDE DEF kept
    <2> QED
      BY <1>1, <2>1, RankGrows
  <1>4. \A n \in 1 .. C : \E i \in kept : Rank(kept, i) = n
    <2>1. kept \in SUBSET (1 .. Len(book))
      OBVIOUS
    <2> HIDE DEF kept
    <2> QED
      BY <1>1, <2>1, RankOnto
  <1>5. \A n \in 1 .. C : at[n] \in kept /\ Rank(kept, at[n]) = n
    <2> SUFFICES ASSUME NEW n \in 1 .. C
                 PROVE  at[n] \in kept /\ Rank(kept, at[n]) = n
      OBVIOUS
    <2>1. at[n] = CHOOSE i \in kept : Rank(kept, i) = n
      OBVIOUS
    <2>2. \E i \in kept : Rank(kept, i) = n
      BY <1>4
    <2> HIDE DEF at, kept
    <2> QED
      BY <2>1, <2>2
  <1>6. /\ at = [n \in 1 .. C |-> CHOOSE i \in kept : Rank(kept, i) = n]
        /\ C = Cardinality(kept)
    OBVIOUS
  <1>7. kept \subseteq 1 .. Len(book) /\ \A i \in kept : book[i].id # id
    OBVIOUS
  <1>8. \A i \in 1 .. Len(book) : book[i].id # id => i \in kept
    OBVIOUS
  <1> HIDE DEF at, kept, C
  <1>9. C \in Nat /\ Len(book) \in Nat /\ C <= Len(book)
    BY <1>1, <1>3
  <1>10. \A n \in 1 .. C : at[n] \in 1 .. Len(book)
    BY <1>5, <1>7
  <1>11. /\ Without(id) \in Seq(Peer) /\ Len(Without(id)) = C
         /\ \A n \in 1 .. C : Without(id)[n] = book[at[n]]
    <2>1. \A n \in 1 .. C : book[at[n]] \in Peer
      BY <1>10
    <2> QED
      BY <1>2, <1>9, <2>1
  <1>12. \A m, n \in 1 .. C : m < n => at[m] < at[n]
    <2> SUFFICES ASSUME NEW m \in 1 .. C, NEW n \in 1 .. C, m < n
                 PROVE  at[m] < at[n]
      OBVIOUS
    <2>1. at[m] \in Nat /\ at[n] \in Nat /\ m \in Nat /\ n \in Nat
      BY <1>9, <1>10
    <2>2. Rank(kept, at[m]) = m /\ Rank(kept, at[n]) = n
      BY <1>5
    <2>3. ~(at[n] < at[m]) /\ at[m] # at[n]
      BY <1>3, <1>5, <2>2
    <2> QED
      BY <2>1, <2>3
  <1>13. \A i \in kept : \E n \in 1 .. C : at[n] = i
    <2> SUFFICES ASSUME NEW i \in kept
                 PROVE  at[Rank(kept, i)] = i
      BY <1>3
    <2> DEFINE j == at[Rank(kept, i)]
    <2>1. j \in kept /\ Rank(kept, j) = Rank(kept, i)
      BY <1>3, <1>5
    <2>2. i \in Nat /\ j \in Nat /\ Rank(kept, i) \in Nat
      <3>1. Rank(kept, i) \in 1 .. C
        BY <1>3
      <3>2. i \in 1 .. Len(book) /\ j \in 1 .. Len(book)
        BY <1>7, <2>1
      <3> HIDE DEF j
      <3> QED
        BY <1>9, <3>1, <3>2
    <2>3. ~(i < j) /\ ~(j < i)
      BY <1>3, <2>1, <2>2
    <2> QED
      BY <2>2, <2>3
  <1>14. at \in [1 .. C -> 1 .. Len(book)]
    BY <1>5, <1>6, <1>7
  <1>15. Thinned(Without(id), book, id)
    <2>1. \A n \in 1 .. C : Without(id)[n] = book[at[n]] /\ book[at[n]].id # id
      BY <1>5, <1>7, <1>11
    <2>2. \A i \in 1 .. Len(book) : book[i].id # id => \E n \in 1 .. C : at[n] = i
      BY <1>8, <1>13
    <2> QED
      BY <1>11, <1>12, <1>14, <2>1, <2>2 DEF Thinned
  <1> QED
    BY <1>9, <1>11, <1>15

(* The first record of the endpoint with id id. *)
First(id) == SelectInSeq(book, LAMBDA r : r.id = id)

LEMMA FirstIs ==
  ASSUME book \in Seq(Peer), NEW i \in 1 .. Len(book)
  PROVE  /\ First(book[i].id) \in 1 .. Len(book)
         /\ book[First(book[i].id)].id = book[i].id
  <1> DEFINE I == {j \in 1 .. Len(book) : book[j].id = book[i].id}
  <1>1. First(book[i].id) = IF I # {} THEN Min(I) ELSE 0
    BY DEF First, SelectInSeq
  <1>2. I \in SUBSET Nat /\ I # {}
    OBVIOUS
  <1>3. First(book[i].id) \in I
    <2> HIDE DEF I
    <2> QED
      BY <1>1, <1>2, MinIsLeast
  <1> QED
    BY <1>3

(* What is resolved is a record; an alias resolves to a record with it.    *)
LEMMA ResolveIs ==
  ASSUME book \in Seq(Peer), NEW t
  PROVE  /\ Resolve(t) \subseteq 1 .. Len(book)
         /\ \A i \in 1 .. Len(book) :
              t \in Texts /\ SameText(book[i].alias, t)
                => \E j \in Resolve(t) : SameText(book[j].alias, t)
  <1> DEFINE named == {i \in 1 .. Len(book) : t \in Texts /\ SameText(book[i].alias, t)}
             prefixed == {i \in 1 .. Len(book) :
                            t = book[i].id \/ <<t, book[i].id>> \in StartsWith}
  <1>1. DOMAIN book = 1 .. Len(book) /\ Len(book) \in Nat
    OBVIOUS
  <1>2. Resolve(t) = CASE named # {} -> {Min(named)}
                       [] named = {} /\ Cardinality(prefixed) = 1 -> prefixed
                       [] OTHER -> {}
    BY <1>1 DEF Resolve
  <1>3. named \in SUBSET Nat /\ prefixed \subseteq 1 .. Len(book)
    OBVIOUS
  <1>4. /\ named \subseteq 1 .. Len(book)
        /\ \A i \in named : SameText(book[i].alias, t)
        /\ \A i \in 1 .. Len(book) :
             t \in Texts /\ SameText(book[i].alias, t) => i \in named
    OBVIOUS
  <1> HIDE DEF named, prefixed
  <1>5. CASE named # {}
    <2>1. Resolve(t) = {Min(named)}
      BY <1>2, <1>5
    <2>2. Min(named) \in named
      BY <1>3, <1>5, MinIsLeast
    <2> QED
      BY <1>4, <2>1, <2>2
  <1>6. CASE named = {}
    <2>1. Resolve(t) \subseteq prefixed
      BY <1>2, <1>6
    <2> QED
      BY <1>3, <1>4, <1>6, <2>1
  <1> QED
    BY <1>5, <1>6

(* Among more numbers than there are records one gives a free alias.       *)
LEMMA SomeNumberFree ==
  ASSUME book \in Seq(Peer), Len(book) < MaxPairings, NEW name \in Names
  PROVE  \E n \in 2 .. LastSuffix : Free(Numbered[<<Base(name), n>>])
  <1> DEFINE num(n) == Numbered[<<Base(name), n>>]
             holder == [n \in 2 .. LastSuffix |->
                          CHOOSE i \in 1 .. Len(book) : SameText(book[i].alias, num(n))]
  <1>1. /\ Len(book) \in Nat /\ DOMAIN book = 1 .. Len(book)
        /\ MaxPairings \in Nat /\ LastSuffix \in Nat /\ MaxPairings < LastSuffix
    BY NumberAssumption
  <1>2. SUFFICES ASSUME \A n \in 2 .. LastSuffix : ~Free(num(n))
                 PROVE  FALSE
    OBVIOUS
  <1>3. \A n \in 2 .. LastSuffix : \E i \in 1 .. Len(book) : SameText(book[i].alias, num(n))
    BY <1>1, <1>2 DEF Free
  <1>4. \A n \in 2 .. LastSuffix :
          /\ holder[n] \in 1 .. Len(book)
          /\ Fold[book[holder[n]].alias] = Fold[num(n)]
    <2> SUFFICES ASSUME NEW n \in 2 .. LastSuffix
                 PROVE  holder[n] \in 1 .. Len(book) /\ SameText(book[holder[n]].alias, num(n))
      BY DEF SameText
    <2>1. holder[n] = CHOOSE i \in 1 .. Len(book) : SameText(book[i].alias, num(n))
      OBVIOUS
    <2>2. \E i \in 1 .. Len(book) : SameText(book[i].alias, num(n))
      BY <1>3
    <2> HIDE DEF holder, num
    <2> QED
      BY <2>1, <2>2
  <1>5. holder \in [2 .. LastSuffix -> 1 .. Len(book)]
    BY <1>4
  <1>6. /\ IsFiniteSet(2 .. LastSuffix) /\ IsFiniteSet(1 .. Len(book))
        /\ Cardinality(1 .. Len(book)) < Cardinality(2 .. LastSuffix)
    <2>1. /\ IsFiniteSet(2 .. LastSuffix)
          /\ LastSuffix # 0 => Cardinality(2 .. LastSuffix) = LastSuffix - 1
      BY <1>1, CountTo
    <2>2. IsFiniteSet(1 .. Len(book)) /\ Cardinality(1 .. Len(book)) = Len(book)
      BY <1>1, CountTo
    <2> QED
      BY <1>1, <2>1, <2>2
  <1>7. PICK m \in 2 .. LastSuffix, n \in 2 .. LastSuffix : m # n /\ holder[m] = holder[n]
    <2> HIDE DEF holder
    <2> QED
      BY <1>5, <1>6, FS_PigeonHole
  <1>8. Fold[num(m)] = Fold[num(n)]
    <2> HIDE DEF holder, num
    <2> QED
      BY <1>4, <1>7
  <1>9. Base(name) \in Range(Short)
    BY TextAssumption DEF Base, Range
  <1> QED
    BY <1>7, <1>8, <1>9, NumberAssumption

(* A new record never takes the name of another. *)
LEMMA UniqueAliasIsFree ==
  ASSUME book \in Seq(Peer), Len(book) < MaxPairings, NEW name \in Names
  PROVE  UniqueAlias(name) \in Valid /\ Free(UniqueAlias(name))
  <1> DEFINE free(n) == Free(Numbered[<<Base(name), n>>])
             least(n) == free(n) /\ \A m \in 2 .. n - 1 : ~free(m)
             F == {n \in 2 .. LastSuffix : free(n)}
  <1>1. Base(name) \in Valid /\ Base(name) \in Range(Short)
    BY TextAssumption DEF Base, Range
  <1>2. CASE Free(Base(name))
    BY <1>1, <1>2 DEF UniqueAlias
  <1>3. CASE ~Free(Base(name))
    <2>1. F \in SUBSET Nat /\ F # {}
      <3>1. \E n \in 2 .. LastSuffix : free(n)
        BY SomeNumberFree
      <3> QED
        BY <3>1
    <2>2. Min(F) \in F /\ \A y \in F : Min(F) =< y
      <3> HIDE DEF F
      <3> QED
        BY <2>1, MinIsLeast
    <2>3. LastSuffix \in Nat
      BY NumberAssumption
    <2>4. Min(F) \in 2 .. LastSuffix /\ least(Min(F))
      <3> SUFFICES ASSUME NEW m \in 2 .. Min(F) - 1
                   PROVE  ~free(m)
        BY <2>2
      <3>1. Min(F) \in 2 .. LastSuffix
        BY <2>2
      <3>2. m \in 2 .. LastSuffix /\ m < Min(F)
        BY <2>3, <3>1
      <3>3. m \notin F
        <4> HIDE DEF F
        <4> QED
          BY <2>2, <3>1, <3>2
      <3> QED
        BY <3>2, <3>3
    <2> DEFINE n == CHOOSE n \in 2 .. LastSuffix : least(n)
    <2>5. UniqueAlias(name) = Numbered[<<Base(name), n>>]
      BY <1>3 DEF UniqueAlias
    <2>6. n \in 2 .. LastSuffix /\ free(n)
      BY <2>4
    <2>7. Numbered[<<Base(name), n>>] \in Valid
      <3> HIDE DEF n
      <3> QED
        BY <1>1, <2>6, TextAssumption
    <2> QED
      BY <2>5, <2>6, <2>7
  <1> QED
    BY <1>2, <1>3

-----------------------------------------------------------------------------
(* What the actions do.                                                    *)

(* Case split of a step by the action that takes it. *)
LEMMA StepCases ==
  ASSUME Next
  PROVE  \/ \E n \in Starters :
              Begin(n) \/ CreateFile(n) \/ GetSecret(n) \/ StoreKey(n) \/ Bind(n) \/ GiveUp(n)
         \/ Stop \/ LoseSecret
         \/ \E ok \in BOOLEAN :
              \/ \E id \in Ids, name \in Names : Pair(id, name, ok)
              \/ \E t \in Texts \cup Ids, a \in NewAliases : Rename(t, a, ok)
              \/ \E t \in Texts \cup Ids : Unpair(t, ok)
              \/ \E l \in Limits : SetLimit(l, ok)
              \/ SetOther(ok) \/ Reset(ok)
  BY DEF Next, Operation

FileOK(f) == f = Missing \/ f \in Stored

(* A configuration is its book and its limit. *)
LEMMA StoredIs ==
  ASSUME NEW r \in Stored
  PROVE  /\ r.book \in Seq(Peer) /\ r.limit \in Limits
         /\ r = [book |-> r.book, limit |-> r.limit]
         /\ r # Missing
  BY MissingAssumption DEF Stored

LEMMA DefaultsAre ==
  Defaults \in Stored /\ Defaults.book = <<>> /\ Defaults # Missing
  <1>1. Defaults \in Stored /\ Defaults.book = <<>>
    BY LimitAssumption, EmptySeq DEF Defaults, Stored
  <1> QED
    BY <1>1, StoredIs

(* What is read is what is trusted on the disk. *)
LEMMA TrustedIs ==
  ASSUME FileOK(file)
  PROVE  /\ Trusted \in Seq(Peer)
         /\ file = Missing => Trusted = <<>>
         /\ file # Missing => file \in Stored /\ Trusted = file.book
  BY StoredIs, EmptySeq DEF Trusted, FileOK

(* A save writes the memory or nothing. *)
LEMMA SaveWrites ==
  ASSUME FileOK(file), book' \in Seq(Peer), limit' \in Limits,
         NEW ok \in BOOLEAN, Save(ok)
  PROVE  /\ saved' = ok
         /\ FileOK(file')
         /\ file # Missing => file' # Missing
         /\ ok => file' = [book |-> book', limit |-> limit'] /\ Trusted' = book'
         /\ ~ok => file' = file /\ Trusted' = Trusted
  <1>1. CASE ok = TRUE
    <2>1. saved' = ok /\ file' = [book |-> book', limit |-> limit']
      BY <1>1 DEF Save, Image
    <2>2. file' \in Stored /\ file'.book = book'
      BY <2>1 DEF Stored
    <2>3. file' # Missing
      BY <2>2, StoredIs
    <2>4. Trusted' = book'
      BY <2>2, <2>3 DEF Trusted
    <2> QED
      BY <1>1, <2>1, <2>2, <2>3, <2>4 DEF FileOK
  <1>2. CASE ok = FALSE
    <2>1. saved' = ok /\ file' = file
      BY <1>2 DEF Save
    <2> QED
      BY <1>2, <2>1 DEF Trusted, FileOK
  <1> QED
    BY <1>1, <1>2

(* The steps by which a process starts, up to the one that binds the       *)
(* socket, leave the running daemon alone, and all but one the disk.       *)
LEMMA StartingIs ==
  ASSUME NEW n \in Starters,
         Begin(n) \/ CreateFile(n) \/ GetSecret(n) \/ StoreKey(n) \/ GiveUp(n)
  PROVE  /\ UNCHANGED <<running, book, limit, applied, key, revoked, saved, refused, pairings>>
         /\ overtaken => overtaken'
         /\ ~CreateFile(n) => file' = file /\ Trusted' = Trusted
         /\ ~StoreKey(n) => minted' = minted
  <1>1. CASE Begin(n)
    BY <1>1 DEF Begin, Trusted
  <1>2. CASE CreateFile(n)
    BY <1>2 DEF CreateFile
  <1>3. CASE GetSecret(n)
    BY <1>3 DEF GetSecret, Trusted
  <1>4. CASE StoreKey(n)
    BY <1>4 DEF StoreKey, Trusted
  <1>5. CASE GiveUp(n)
    BY <1>5 DEF GiveUp, Trusted
  <1> QED
    BY <1>1, <1>2, <1>3, <1>4, <1>5

(* A file that a start creates trusts nobody, and is the one that was read *)
(* unless the start was overtaken.                                         *)
LEMMA CreateFileIs ==
  ASSUME NEW n \in Starters, CreateFile(n)
  PROVE  /\ file' = Defaults /\ Trusted' = <<>>
         /\ ~overtaken' => file \in {Missing, Defaults}
  <1>1. file' = Defaults /\ (~overtaken' => file \in {Missing, Defaults})
    BY DEF CreateFile
  <1>2. Trusted' = <<>>
    BY <1>1, DefaultsAre DEF Trusted
  <1> QED
    BY <1>1, <1>2

(* A process becomes the daemon with what it has read, which is what is    *)
(* there unless the start was overtaken.                                   *)
LEMMA BindIs ==
  ASSUME config \in [Starters -> Stored], NEW n \in Starters, Bind(n)
  PROVE  /\ ~running /\ running'
         /\ book' = config[n].book /\ limit' = config[n].limit /\ key' = mine[n]
         /\ Trusted' = Trusted
         /\ overtaken => overtaken'
         /\ ~overtaken' => /\ file = [book |-> book', limit |-> limit']
                           /\ Trusted = book' /\ mine[n] = minted
         /\ UNCHANGED <<file, minted, secret, revoked, pairings, starts>>
  <1>1. /\ ~running /\ running'
        /\ book' = config[n].book /\ limit' = config[n].limit /\ key' = mine[n]
        /\ overtaken' = (overtaken \/ config[n] # file \/ mine[n] # minted)
        /\ UNCHANGED <<file, minted, secret, revoked, pairings, starts>>
    BY DEF Bind
  <1>2. config[n] \in Stored
    OBVIOUS
  <1>3. config[n] = [book |-> config[n].book, limit |-> config[n].limit] /\ config[n] # Missing
    BY <1>2, StoredIs
  <1>4. Trusted' = Trusted
    BY <1>1 DEF Trusted
  <1>5. file = config[n] => Trusted = config[n].book
    BY <1>3 DEF Trusted
  <1> QED
    BY <1>1, <1>3, <1>4, <1>5

(* A pairing adds a record with a name that was free. *)
LEMMA PairAdds ==
  ASSUME book \in Seq(Peer), Len(book) <= pairings, pairings \in Nat,
         key \in Starters,
         NEW id \in Ids, NEW name \in Names, NEW ok, Pair(id, name, ok)
  PROVE  /\ book' \in Seq(Peer) /\ Len(book') = Len(book) + 1
         /\ \A i \in 1 .. Len(book) : book'[i] = book[i]
         /\ book'[Len(book) + 1].id = id
         /\ book'[Len(book) + 1].key = key
         /\ Free(book'[Len(book) + 1].alias)
  <1> DEFINE r == [id |-> id, alias |-> UniqueAlias(name), key |-> key]
  <1>1. Len(book) \in Nat /\ MaxPairings \in Nat
    BY NumberAssumption
  <1>2. Len(book) < MaxPairings
    BY <1>1 DEF Pair
  <1>3. UniqueAlias(name) \in Valid /\ Free(UniqueAlias(name))
    BY <1>2, UniqueAliasIsFree
  <1>4. r \in Peer /\ r.id = id /\ r.key = key /\ Free(r.alias)
    BY <1>3 DEF Peer
  <1>5. book' = Append(book, r)
    BY DEF Pair
  <1> HIDE DEF r
  <1> QED
    BY <1>4, <1>5, AppendProperties

(* A rename changes the alias of one record, to one that no other endpoint *)
(* has.                                                                    *)
Renamed(c, b) ==
  \E i \in 1 .. Len(b) :
    /\ \A j \in 1 .. Len(b) : j # i => c[j] = b[j]
    /\ c[i].id = b[i].id /\ c[i].key = b[i].key
    /\ \A j \in 1 .. Len(b) : b[j].id # b[i].id => ~SameText(b[j].alias, c[i].alias)

LEMMA RenameChanges ==
  ASSUME book \in Seq(Peer), NEW t, NEW a, NEW ok, Rename(t, a, ok)
  PROVE  book' \in Seq(Peer) /\ Len(book') = Len(book) /\ Renamed(book', book)
  <1>1. PICK k \in Resolve(t) :
          /\ \A j \in DOMAIN book :
               book[j].id # book[k].id => ~SameText(book[j].alias, a)
          /\ book' = [book EXCEPT ![First(book[k].id)].alias = a]
    BY DEF Rename, First
  <1> DEFINE i == First(book[k].id)
  <1>2. k \in 1 .. Len(book) /\ DOMAIN book = 1 .. Len(book)
    BY ResolveIs
  <1>3. i \in 1 .. Len(book) /\ book[i].id = book[k].id
    BY <1>2, FirstIs
  <1> DEFINE r == [book[i] EXCEPT !.alias = a]
  <1>4. book[i] \in Peer /\ a \in Valid
    BY <1>3 DEF Rename
  <1>5. r \in Peer /\ r.id = book[i].id /\ r.key = book[i].key /\ r.alias = a
    BY <1>4 DEF Peer
  <1>6. book' = [book EXCEPT ![i] = r]
    BY <1>1
  <1> HIDE DEF i, r
  <1>7. /\ book' \in Seq(Peer) /\ Len(book') = Len(book) /\ book'[i] = r
        /\ \A j \in 1 .. Len(book) : j # i => book'[j] = book[j]
    BY <1>3, <1>5, <1>6, ExceptSeq
  <1> QED
    BY <1>1, <1>2, <1>3, <1>5, <1>7 DEF Renamed

(* An unpairing leaves no record of the endpoint and adds none. *)
LEMMA UnpairRemoves ==
  ASSUME book \in Seq(Peer), NEW t, NEW ok, Unpair(t, ok)
  PROVE  /\ book' \in Seq(Peer) /\ Len(book') <= Len(book)
         /\ \E id \in Ids : /\ Thinned(book', book, id)
                            /\ \E i \in 1 .. Len(book) : book[i].id = id
                            /\ revoked' = IF ok THEN revoked \cup {id} ELSE revoked
  <1>1. PICK i \in Resolve(t) :
          /\ book' = Without(book[i].id)
          /\ revoked' = IF ok THEN revoked \cup {book[i].id} ELSE revoked
    BY DEF Unpair
  <1>2. i \in 1 .. Len(book) /\ book[i] \in Peer
    BY ResolveIs
  <1>3. book[i].id \in Ids
    BY <1>2 DEF Peer
  <1> QED
    BY <1>1, <1>2, <1>3, WithoutIs

(* In particular, every record left is a record there was. *)
LEMMA ThinnedFrom ==
  ASSUME NEW s \in Seq(Peer), NEW t \in Seq(Peer), NEW id, Thinned(t, s, id)
  PROVE  \A n \in 1 .. Len(t) : \E i \in 1 .. Len(s) : t[n] = s[i] /\ s[i].id # id
  BY DEF Thinned

-----------------------------------------------------------------------------
(* Types.                                                                  *)

(* What a process that starts has in its hands. *)
StageInv ==
  \A n \in Starters :
    /\ stage[n] # "none" => n <= starts
    /\ stage[n] \in {"none", "creating"} => config[n] = Defaults
    /\ stage[n] \in {"loaded", "absent", "ready"} => file # Missing
    /\ stage[n] = "absent" => config[n].book = <<>>
    /\ stage[n] = "ready" => mine[n] # 0
    /\ Len(config[n].book) <= pairings

(* The types, with what they rest on: a book on the disk, or read from it, *)
(* is no longer than there were pairings, a running daemon has a key and a *)
(* file, and one that does not run has no peers in memory.                 *)
TypeInv ==
  /\ TypeOK
  /\ Len(Trusted) <= pairings
  /\ running => key # 0 /\ file # Missing
  /\ running \/ book = <<>>
  /\ StageInv

(* What of it most steps need. *)
LEMMA TypeGives ==
  ASSUME TypeInv
  PROVE  /\ FileOK(file) /\ book \in Seq(Peer) /\ Len(book) <= pairings /\ Len(book) \in Nat
         /\ Trusted \in Seq(Peer) /\ Len(Trusted) <= pairings
         /\ limit \in Limits /\ applied \in Limits
         /\ pairings \in 0 .. MaxPairings /\ pairings \in Nat /\ MaxPairings \in Nat
         /\ starts \in 0 .. MaxStarts /\ starts \in Nat /\ MaxStarts \in Nat
         /\ revoked \subseteq Ids /\ refused \in BOOLEAN
         /\ running => key \in Starters /\ file # Missing
         /\ config \in [Starters -> Stored]
  <1>1. FileOK(file) /\ MaxPairings \in Nat /\ MaxStarts \in Nat
    BY NumberAssumption, StartAssumption DEF TypeInv, TypeOK, FileOK
  <1>2. Trusted \in Seq(Peer)
    BY <1>1, TrustedIs
  <1>3. running => key \in Starters
    BY <1>1 DEF TypeInv, TypeOK, Starters
  <1> QED
    BY <1>1, <1>2, <1>3 DEF TypeInv, TypeOK

(* A change of book and limit with its save keeps the types. *)
LEMMA ChangeKeepsTypes ==
  ASSUME TypeInv, NEW ok \in BOOLEAN, Save(ok), running,
         book' \in Seq(Peer), Len(book') <= pairings', limit' \in Limits,
         applied' \in Limits, revoked' \subseteq Ids, refused' \in BOOLEAN,
         pairings' \in 0 .. MaxPairings, pairings <= pairings',
         UNCHANGED <<running, secret, key, minted, startVars>>
  PROVE  TypeInv'
  <1>0. /\ FileOK(file) /\ Trusted \in Seq(Peer) /\ Len(Trusted) <= pairings
        /\ pairings \in Nat /\ pairings' \in Nat
        /\ config \in [Starters -> Stored]
    BY TypeGives
  <1>1. /\ saved' \in BOOLEAN /\ FileOK(file') /\ (file # Missing => file' # Missing)
        /\ Trusted' = book' \/ Trusted' = Trusted
    BY <1>0, SaveWrites
  <1>2. Len(Trusted') <= pairings'
    <2>1. Len(Trusted) \in Nat
      BY <1>0
    <2> QED
      BY <1>0, <1>1, <2>1
  <1>3. UNCHANGED <<starts, stage, config, mine, overtaken>>
    BY DEF startVars
  <1>4. StageInv'
    <2> SUFFICES ASSUME NEW n \in Starters
                 PROVE  /\ stage[n] # "none" => n <= starts
                        /\ stage[n] \in {"none", "creating"} => config[n] = Defaults
                        /\ stage[n] \in {"loaded", "absent", "ready"} => file' # Missing
                        /\ stage[n] = "absent" => config[n].book = <<>>
                        /\ stage[n] = "ready" => mine[n] # 0
                        /\ Len(config[n].book) <= pairings'
      BY <1>3 DEF StageInv
    <2>1. Len(config[n].book) \in Nat
      <3>1. config[n].book \in Seq(Peer)
        BY <1>0, StoredIs
      <3> QED
        BY <3>1
    <2>2. Len(config[n].book) <= pairings'
      BY <1>0, <2>1 DEF TypeInv, StageInv
    <2> QED
      BY <1>1, <2>2 DEF TypeInv, StageInv
  <1>5. TypeOK'
    BY <1>1, <1>3 DEF TypeInv, TypeOK, FileOK
  <1> QED
    BY <1>1, <1>2, <1>4, <1>5 DEF TypeInv

LEMMA TypeInitial == Init => TypeInv
  <1> SUFFICES ASSUME Init
               PROVE  TypeInv
    OBVIOUS
  <1>1. book \in Seq(Peer) /\ Len(book) <= pairings
    BY EmptySeq DEF Init
  <1>2. /\ starts \in 0 .. MaxStarts /\ pairings \in 0 .. MaxPairings
        /\ minted \in 0 .. starts /\ secret \in {0, minted} /\ key \in 0 .. starts
    BY NumberAssumption, StartAssumption DEF Init
  <1>3. /\ running \in BOOLEAN /\ saved \in BOOLEAN /\ refused \in BOOLEAN
        /\ limit \in Limits /\ applied \in Limits
        /\ revoked \subseteq Ids /\ file = Missing /\ ~running /\ book = <<>>
    BY LimitAssumption DEF Init
  <1>4. /\ stage = [n \in Starters |-> "none"] /\ config = [n \in Starters |-> Defaults]
        /\ mine = [n \in Starters |-> 0] /\ starts = 0 /\ overtaken = FALSE /\ pairings = 0
    BY DEF Init
  <1>5. /\ stage \in [Starters -> Underway \cup {"none", "over"}]
        /\ config \in [Starters -> Stored] /\ mine \in [Starters -> 0 .. starts]
        /\ overtaken \in BOOLEAN
    <2>1. 0 \in 0 .. starts
      BY <1>4
    <2> QED
      BY <1>4, <2>1, DefaultsAre
  <1>6. StageInv
    BY <1>4, DefaultsAre DEF StageInv
  <1>7. Len(Trusted) <= pairings
    BY <1>3, <1>4 DEF Trusted
  <1> QED
    BY <1>1, <1>2, <1>3, <1>5, <1>6, <1>7 DEF TypeInv, TypeOK

(* A process takes a stage with a configuration and a key. *)
LEMMA StageStep ==
  ASSUME TypeInv, NEW n \in Starters, n <= starts', starts \in 0 .. starts',
         NEW s \in Underway \cup {"over"}, Reach(n, s),
         NEW c \in Stored, config' = [config EXCEPT ![n] = c], Len(c.book) <= pairings,
         NEW k \in 0 .. starts', mine' = [mine EXCEPT ![n] = k],
         s = "creating" => c = Defaults,
         s \in {"loaded", "absent", "ready"} => file' # Missing,
         s = "absent" => c.book = <<>>,
         s = "ready" => k # 0,
         file # Missing => file' # Missing,
         starts' \in Nat,
         pairings' = pairings
  PROVE  /\ stage' \in [Starters -> Underway \cup {"none", "over"}]
         /\ config' \in [Starters -> Stored] /\ mine' \in [Starters -> 0 .. starts']
         /\ StageInv'
  <1>1. /\ stage \in [Starters -> Underway \cup {"none", "over"}]
        /\ config \in [Starters -> Stored] /\ mine \in [Starters -> 0 .. starts]
        /\ StageInv /\ starts \in Nat
    BY StartAssumption DEF TypeInv, TypeOK
  <1>2. /\ stage'[n] = s /\ config'[n] = c /\ mine'[n] = k
        /\ \A m \in Starters : m # n =>
             stage'[m] = stage[m] /\ config'[m] = config[m] /\ mine'[m] = mine[m]
    BY <1>1 DEF Reach
  <1>3. /\ stage' \in [Starters -> Underway \cup {"none", "over"}]
        /\ config' \in [Starters -> Stored]
    BY <1>1 DEF Reach
  <1>4. mine' \in [Starters -> 0 .. starts']
    BY <1>1
  <1>5. ASSUME NEW m \in Starters
        PROVE  /\ stage'[m] # "none" => m <= starts'
               /\ stage'[m] \in {"none", "creating"} => config'[m] = Defaults
               /\ stage'[m] \in {"loaded", "absent", "ready"} => file' # Missing
               /\ stage'[m] = "absent" => config'[m].book = <<>>
               /\ stage'[m] = "ready" => mine'[m] # 0
               /\ Len(config'[m].book) <= pairings'
    <2>1. CASE m = n
      BY <1>2, <2>1 DEF Underway
    <2>2. CASE m # n
      <3>1. /\ stage[m] # "none" => m <= starts
            /\ stage[m] \in {"none", "creating"} => config[m] = Defaults
            /\ stage[m] \in {"loaded", "absent", "ready"} => file # Missing
            /\ stage[m] = "absent" => config[m].book = <<>>
            /\ stage[m] = "ready" => mine[m] # 0
            /\ Len(config[m].book) <= pairings
        BY <1>1 DEF StageInv
      <3>2. m \in Nat
        BY DEF Starters
      <3>3. m <= starts => m <= starts'
        BY <1>1, <3>2
      <3> QED
        BY <1>2, <2>2, <3>1, <3>3
    <2> QED
      BY <2>1, <2>2
  <1>6. StageInv'
    BY <1>5 DEF StageInv
  <1> QED
    BY <1>3, <1>4, <1>6

LEMMA TypeStep == TypeInv /\ [Next]_vars => TypeInv'
  <1> SUFFICES ASSUME TypeInv, [Next]_vars
               PROVE  TypeInv'
    OBVIOUS
  <1>0. /\ FileOK(file) /\ book \in Seq(Peer) /\ Len(book) <= pairings
        /\ limit \in Limits /\ applied \in Limits
        /\ pairings \in 0 .. MaxPairings /\ pairings \in Nat /\ MaxPairings \in Nat
        /\ starts \in 0 .. MaxStarts /\ starts \in Nat /\ MaxStarts \in Nat
        /\ revoked \subseteq Ids /\ refused \in BOOLEAN
        /\ Trusted \in Seq(Peer) /\ Len(Trusted) <= pairings
        /\ running => key \in Starters
    BY TypeGives
  <1> DEFINE Whole == /\ running \in BOOLEAN /\ book \in Seq(Peer) /\ Len(book) <= pairings
                      /\ limit \in Limits /\ applied \in Limits /\ FileOK(file)
                      /\ minted \in 0 .. starts /\ secret \in {0, minted} /\ key \in 0 .. starts
                      /\ revoked \subseteq Ids /\ saved \in BOOLEAN /\ refused \in BOOLEAN
                      /\ pairings \in 0 .. MaxPairings /\ starts \in 0 .. MaxStarts
                      /\ overtaken \in BOOLEAN /\ Len(Trusted) <= pairings
                      /\ running => key # 0 /\ file # Missing
                      /\ running \/ book = <<>>
  <1>a. Whole
    BY <1>0 DEF TypeInv, TypeOK, FileOK
  <1>b. Whole' /\ stage' \in [Starters -> Underway \cup {"none", "over"}]
               /\ config' \in [Starters -> Stored] /\ mine' \in [Starters -> 0 .. starts']
               /\ StageInv' => TypeInv'
    BY DEF TypeInv, TypeOK, FileOK
  <1>c. /\ stage \in [Starters -> Underway \cup {"none", "over"}]
        /\ config \in [Starters -> Stored] /\ mine \in [Starters -> 0 .. starts]
        /\ \A n \in Starters : config[n].book \in Seq(Peer)
        /\ StageInv
    BY StoredIs DEF TypeInv, TypeOK
  <1>1. ASSUME NEW n \in Starters, Begin(n)
        PROVE  TypeInv'
    <2> DEFINE c == IF file = Missing THEN config[n] ELSE file
               s == IF file = Missing THEN "creating" ELSE "loaded"
    <2>1. /\ n = starts + 1 /\ n <= MaxStarts /\ starts' = n
          /\ stage[n] = "none" /\ config[n] = Defaults
      <3>1. n = starts + 1 /\ n <= MaxStarts /\ starts' = n
        BY <1>1 DEF Begin
      <3>2. stage[n] = "none"
        BY <1>0, <1>c, <3>1 DEF StageInv
      <3> QED
        BY <1>c, <3>1, <3>2 DEF StageInv
    <2>2. /\ Reach(n, s) /\ config' = [config EXCEPT ![n] = c]
          /\ UNCHANGED <<running, book, limit, applied, file, secret, key, minted, revoked,
                         saved, refused, pairings, mine, overtaken>>
      <3>1. config = [config EXCEPT ![n] = config[n]]
        BY <1>c
      <3> QED
        BY <1>1, <3>1 DEF Begin
    <2>3. mine' = [mine EXCEPT ![n] = mine[n]] /\ mine[n] \in 0 .. starts'
      BY <1>0, <1>c, <2>1, <2>2
    <2>4. /\ c \in Stored /\ Len(c.book) <= pairings
          /\ s = "creating" => c = Defaults
          /\ s \in {"loaded", "absent", "ready"} => file' # Missing
          /\ s \in {"creating", "loaded"}
      BY <1>0, <1>c, <2>1, <2>2, TrustedIs, DefaultsAre DEF StageInv
    <2>5. /\ starts' \in Nat /\ starts \in 0 .. starts' /\ n <= starts' /\ starts' \in 0 .. MaxStarts
          /\ starts <= starts'
      BY <1>0, <2>1
    <2>6. Whole'
      <3>1. minted' \in 0 .. starts' /\ key' \in 0 .. starts'
        BY <1>0, <1>a, <2>2, <2>5
      <3>2. Trusted' = Trusted
        BY <2>2 DEF Trusted
      <3> QED
        BY <1>a, <2>2, <2>5, <3>1, <3>2 DEF FileOK
    <2> HIDE DEF c, s
    <2>7. /\ stage' \in [Starters -> Underway \cup {"none", "over"}]
          /\ config' \in [Starters -> Stored] /\ mine' \in [Starters -> 0 .. starts']
          /\ StageInv'
      BY <2>2, <2>3, <2>4, <2>5, StageStep DEF Underway
    <2> QED
      BY <1>b, <2>6, <2>7
  <1>2. ASSUME NEW n \in Starters,
               CreateFile(n) \/ GetSecret(n) \/ StoreKey(n) \/ GiveUp(n)
        PROVE  TypeInv'
    <2> DEFINE c == config'[n]
               s == stage'[n]
               k == mine'[n]
    <2>0. /\ stage[n] \in Underway /\ n <= starts /\ starts' = starts /\ n \in Nat
          /\ Len(config[n].book) <= pairings /\ config[n] \in Stored
          /\ mine[n] \in 0 .. starts
      <3>1. stage[n] \in Underway /\ starts' = starts
        BY <1>2 DEF CreateFile, GetSecret, StoreKey, GiveUp, Underway
      <3>2. stage[n] # "none"
        BY <3>1 DEF Underway
      <3> QED
        BY <1>c, <3>1, <3>2 DEF StageInv, Starters
    <2>1. /\ Reach(n, s) /\ config' = [config EXCEPT ![n] = c] /\ mine' = [mine EXCEPT ![n] = k]
          /\ s \in Underway \cup {"over"} /\ s # "creating"
          /\ c \in {config[n], Defaults} /\ k \in {0, n, secret, mine[n]}
      <3>0. /\ config = [config EXCEPT ![n] = config[n]] /\ mine = [mine EXCEPT ![n] = mine[n]]
        BY <1>c
      <3>1. CASE CreateFile(n)
        BY <1>c, <3>0, <3>1 DEF CreateFile, Reach, Underway
      <3>2. CASE GetSecret(n)
        BY <1>c, <3>0, <3>2 DEF GetSecret, Reach, Underway
      <3>3. CASE StoreKey(n)
        BY <1>c, <3>0, <3>3 DEF StoreKey, Reach, Underway
      <3>4. CASE GiveUp(n)
        BY <1>c, <3>0, <3>4 DEF GiveUp, Reach, Underway
      <3> QED
        BY <1>2, <3>1, <3>2, <3>3, <3>4
    <2>2. /\ s = "absent" => c.book = <<>>
          /\ s = "ready" => k # 0
          /\ s \in {"loaded", "absent", "ready"} => file' # Missing
          /\ file # Missing => file' # Missing
      <3>1. CASE CreateFile(n)
        BY <1>c, <3>1, DefaultsAre DEF CreateFile, Reach
      <3>2. CASE GetSecret(n)
        BY <1>c, <3>2 DEF GetSecret, Reach, MayMint, StageInv
      <3>3. CASE StoreKey(n)
        BY <1>c, <2>0, <3>3 DEF StoreKey, Reach, StageInv, Starters
      <3>4. CASE GiveUp(n)
        BY <1>c, <3>4 DEF GiveUp, Reach
      <3> QED
        BY <1>2, <3>1, <3>2, <3>3, <3>4
    <2>3. Whole'
      <3>1. CASE CreateFile(n)
        <4>1. file' = Defaults /\ Trusted' = <<>> /\ FileOK(file') /\ file' # Missing
          BY <3>1, CreateFileIs, DefaultsAre DEF FileOK
        <4>2. Len(<<>>) = 0
          OBVIOUS
        <4> QED
          BY <1>0, <1>a, <3>1, <4>1, <4>2 DEF CreateFile
      <3>2. CASE GetSecret(n) \/ GiveUp(n)
        <4>1. UNCHANGED <<running, book, limit, applied, file, secret, key, minted, revoked,
                          saved, refused, pairings, starts, overtaken>>
          BY <3>2 DEF GetSecret, GiveUp
        <4> QED
          BY <1>a, <4>1 DEF Trusted, FileOK
      <3>3. CASE StoreKey(n)
        <4>1. /\ UNCHANGED <<running, book, limit, applied, file, key, revoked,
                             saved, refused, pairings, starts>>
              /\ secret' = n /\ minted' = n
              /\ overtaken' \in BOOLEAN
          BY <1>a, <3>3 DEF StoreKey
        <4>2. n \in 0 .. starts
          BY <1>0, <2>0
        <4> QED
          BY <1>a, <4>1, <4>2 DEF Trusted, FileOK
      <3> QED
        BY <1>2, <3>1, <3>2, <3>3
    <2>4. /\ n <= starts' /\ starts \in 0 .. starts' /\ starts' \in Nat /\ pairings' = pairings
          /\ k \in 0 .. starts' /\ c \in Stored /\ Len(c.book) <= pairings
      <3>1. pairings' = pairings
        BY <1>2 DEF CreateFile, GetSecret, StoreKey, GiveUp
      <3>2. n \in 0 .. starts /\ secret \in 0 .. starts /\ 0 \in 0 .. starts
        BY <1>0, <1>a, <2>0
      <3>3. k \in 0 .. starts
        BY <2>0, <2>1, <3>2
      <3>4. Defaults \in Stored /\ Len(Defaults.book) <= pairings
        BY <1>0, DefaultsAre
      <3> HIDE DEF c, k, s
      <3> QED
        BY <1>0, <2>0, <2>1, <3>1, <3>3, <3>4
    <2> HIDE DEF c, s, k
    <2>5. /\ stage' \in [Starters -> Underway \cup {"none", "over"}]
          /\ config' \in [Starters -> Stored] /\ mine' \in [Starters -> 0 .. starts']
          /\ StageInv'
      BY <2>1, <2>2, <2>4, StageStep
    <2> QED
      BY <1>b, <2>3, <2>5
  <1>3. ASSUME NEW n \in Starters, Bind(n)
        PROVE  TypeInv'
    <2>1. /\ Reach(n, "over") /\ config' = [config EXCEPT ![n] = Defaults]
          /\ mine' = [mine EXCEPT ![n] = 0] /\ stage[n] = "ready"
          /\ running' = TRUE /\ book' = config[n].book
          /\ limit' = config[n].limit /\ applied' = config[n].limit
          /\ key' = mine[n] /\ saved' = TRUE /\ refused' = FALSE /\ overtaken' \in BOOLEAN
          /\ UNCHANGED <<file, secret, minted, revoked, pairings, starts>>
      BY <1>a, <1>3 DEF Bind
    <2>2. /\ config[n] \in Stored /\ config[n].book \in Seq(Peer) /\ config[n].limit \in Limits
          /\ Len(config[n].book) <= pairings /\ mine[n] # 0 /\ mine[n] \in 0 .. starts
          /\ file # Missing /\ n <= starts
      <3>1. config[n] \in Stored
        BY <1>c
      <3> QED
        BY <1>c, <2>1, <3>1, StoredIs DEF StageInv
    <2>3. Whole'
      BY <1>a, <2>1, <2>2 DEF Trusted, FileOK
    <2>4. /\ stage' \in [Starters -> Underway \cup {"none", "over"}]
          /\ config' \in [Starters -> Stored] /\ mine' \in [Starters -> 0 .. starts']
          /\ StageInv'
      <3>1. /\ n <= starts' /\ starts \in 0 .. starts' /\ 0 \in 0 .. starts' /\ starts' \in Nat
            /\ pairings' = pairings /\ file' = file
        BY <1>0, <2>1, <2>2
      <3>2. Defaults \in Stored /\ Len(Defaults.book) <= pairings
        BY <1>0, DefaultsAre
      <3> DEFINE s == "over"
                 c == Defaults
                 k == 0
      <3>3. /\ s \in Underway \cup {"over"} /\ Reach(n, s)
            /\ s # "creating" /\ s \notin {"loaded", "absent", "ready"} /\ s # "absent" /\ s # "ready"
        BY <2>1
      <3>4. config' = [config EXCEPT ![n] = c] /\ mine' = [mine EXCEPT ![n] = k]
        BY <2>1
      <3>5. c \in Stored /\ Len(c.book) <= pairings /\ k \in 0 .. starts'
        BY <3>1, <3>2
      <3> HIDE DEF s, c, k
      <3> QED
        BY <2>2, <3>1, <3>3, <3>4, <3>5, StageStep
    <2> QED
      BY <1>b, <2>3, <2>4
  <1>4. CASE Stop \/ LoseSecret \/ UNCHANGED vars
    <2>1. UNCHANGED <<file, minted, revoked, pairings, starts, stage, config, mine, overtaken>>
      BY <1>4 DEF Stop, LoseSecret, vars, startVars
    <2>2. Whole'
      <3>1. Trusted' = Trusted
        BY <2>1 DEF Trusted
      <3>2. CASE Stop
        <4>1. <<>> \in Seq(Peer) /\ Len(<<>>) = 0
          BY EmptySeq
        <4>2. /\ running' = FALSE /\ book' = <<>> /\ limit' = DefaultLimit
              /\ applied' = DefaultLimit /\ key' = 0 /\ saved' = TRUE /\ refused' = FALSE
              /\ secret' = secret
          BY <3>2 DEF Stop
        <4>3. 0 \in 0 .. starts /\ Len(<<>>) <= pairings
          BY <1>0, <4>1
        <4> QED
          BY <1>a, <2>1, <3>1, <4>1, <4>2, <4>3, LimitAssumption DEF FileOK
      <3>3. CASE LoseSecret
        BY <1>a, <2>1, <3>1, <3>3 DEF LoseSecret, FileOK
      <3>4. CASE UNCHANGED vars
        BY <1>a, <2>1, <3>1, <3>4 DEF vars, FileOK
      <3> QED
        BY <1>4, <3>2, <3>3, <3>4
    <2>3. StageInv'
      BY <1>c, <2>1 DEF StageInv
    <2> QED
      BY <1>b, <1>c, <2>1, <2>2, <2>3
  <1>5. ASSUME NEW ok \in BOOLEAN, NEW id \in Ids, NEW name \in Names, Pair(id, name, ok)
        PROVE  TypeInv'
    <2>1. key \in Starters
      BY <1>0, <1>5 DEF Pair
    <2>2. book' \in Seq(Peer) /\ Len(book') = Len(book) + 1
      BY <1>0, <1>5, <2>1, PairAdds
    <2>3. pairings' = pairings + 1 /\ pairings < MaxPairings
      BY <1>5 DEF Pair
    <2>4. /\ running /\ Save(ok) /\ limit' \in Limits /\ applied' \in Limits
          /\ revoked' \subseteq Ids /\ refused' \in BOOLEAN
          /\ UNCHANGED <<running, secret, key, minted, startVars>>
      BY <1>0, <1>5 DEF Pair
    <2>5. /\ pairings' \in 0 .. MaxPairings /\ pairings <= pairings'
          /\ Len(book') <= pairings'
      BY <1>0, <2>2, <2>3
    <2> QED
      BY <2>2, <2>4, <2>5, ChangeKeepsTypes
  <1>6. ASSUME NEW ok \in BOOLEAN, NEW t, NEW a, Rename(t, a, ok)
        PROVE  TypeInv'
    <2>1. book' \in Seq(Peer) /\ Len(book') = Len(book)
      BY <1>0, <1>6, RenameChanges
    <2>2. /\ running /\ Save(ok) /\ pairings' = pairings
          /\ UNCHANGED <<running, secret, key, minted, startVars, limit, applied, revoked, refused>>
      BY <1>6 DEF Rename
    <2> QED
      BY <1>0, <2>1, <2>2, ChangeKeepsTypes
  <1>7. ASSUME NEW ok \in BOOLEAN, NEW t, Unpair(t, ok)
        PROVE  TypeInv'
    <2>1. book' \in Seq(Peer) /\ Len(book') <= Len(book) /\ revoked' \subseteq Ids
      BY <1>0, <1>7, UnpairRemoves
    <2>2. pairings' = pairings /\ Len(book') <= pairings'
      BY <1>0, <1>7, <2>1 DEF Unpair
    <2> QED
      BY <1>0, <1>7, <2>1, <2>2, ChangeKeepsTypes DEF Unpair
  <1>8. ASSUME NEW ok \in BOOLEAN, NEW l \in Limits, SetLimit(l, ok)
        PROVE  TypeInv'
    BY <1>0, <1>8, ChangeKeepsTypes DEF SetLimit
  <1>9. ASSUME NEW ok \in BOOLEAN, SetOther(ok)
        PROVE  TypeInv'
    BY <1>0, <1>9, ChangeKeepsTypes DEF SetOther
  <1>10. ASSUME NEW ok \in BOOLEAN, Reset(ok)
         PROVE  TypeInv'
    <2>1. /\ running /\ Save(ok) /\ book' = book /\ pairings' = pairings
          /\ limit' \in Limits /\ applied' \in Limits /\ refused' \in BOOLEAN
          /\ UNCHANGED <<running, secret, key, minted, startVars, revoked>>
      BY <1>10, LimitAssumption DEF Reset, ResetApplied
    <2> QED
      BY <1>0, <2>1, ChangeKeepsTypes
  <1> QED
    BY <1>1, <1>2, <1>3, <1>4, <1>5, <1>6, <1>7, <1>8, <1>9, <1>10, StepCases

(* The variables of a daemon and of its starts keep their types over every *)
(* operation, start and stop, and there is a key while it runs: the        *)
(* inductive part that the other theorems rest on.                         *)
THEOREM TypeInvariant == Spec => []TypeInv
  BY TypeInitial, TypeStep, PTL DEF Spec

(* The variables of a daemon keep their types: every alias is valid, every *)
(* key a key that was minted, and there are no more records than pairings. *)
THEOREM TypeCorrect == Spec => []TypeOK
  <1>1. TypeInv => TypeOK
    BY DEF TypeInv
  <1> QED
    BY <1>1, TypeInvariant, PTL

-----------------------------------------------------------------------------
(* The file and the limit.                                                 *)

(* After a save that succeeded config.json is the configuration in memory: *)
(* every operation writes what it has changed before it answers, and a     *)
(* start that is not overtaken neither writes over it nor goes on with     *)
(* another.                                                                *)
THEOREM SavedMemory == Spec => []SavedIsMemory
  <1>1. Init => SavedIsMemory
    BY DEF Init, SavedIsMemory
  <1>2. TypeInv /\ SavedIsMemory /\ [Next]_vars => SavedIsMemory'
    <2> SUFFICES ASSUME TypeInv, SavedIsMemory, [Next]_vars
                 PROVE  SavedIsMemory'
      OBVIOUS
    <2>0. /\ running => file # Missing
          /\ config \in [Starters -> Stored]
      BY TypeGives
    <2>1. ASSUME NEW n \in Starters,
                 Begin(n) \/ CreateFile(n) \/ GetSecret(n) \/ StoreKey(n) \/ GiveUp(n)
          PROVE  SavedIsMemory'
      <3>1. /\ UNCHANGED <<running, book, limit, saved>>
            /\ overtaken => overtaken'
            /\ ~CreateFile(n) => file' = file
        BY <2>1, StartingIs
      <3>2. CASE CreateFile(n)
        <4>1. file' = Defaults /\ (~overtaken' => file \in {Missing, Defaults})
          BY <3>2, CreateFileIs
        <4> QED
          BY <2>0, <3>1, <4>1 DEF SavedIsMemory
      <3>3. CASE ~CreateFile(n)
        BY <3>1, <3>3 DEF SavedIsMemory
      <3> QED
        BY <3>2, <3>3
    <2>2. ASSUME NEW n \in Starters, Bind(n)
          PROVE  SavedIsMemory'
      <3>1. /\ file' = file
            /\ ~overtaken' => file = [book |-> book', limit |-> limit']
        BY <2>0, <2>2, BindIs
      <3> QED
        BY <3>1 DEF SavedIsMemory
    <2>3. CASE LoseSecret \/ UNCHANGED vars
      BY <2>3 DEF LoseSecret, startVars, vars, SavedIsMemory
    <2>4. CASE Stop
      BY <2>4 DEF Stop, SavedIsMemory

    <2>5. ASSUME NEW ok \in BOOLEAN, Save(ok)
          PROVE  SavedIsMemory'
      <3>1. saved' = ok /\ (ok => file' = [book |-> book', limit |-> limit'])
        BY <2>5 DEF Save, Image
      <3> QED
        BY <3>1 DEF SavedIsMemory
    <2>6. ASSUME NEW ok \in BOOLEAN,
                 \/ \E id \in Ids, name \in Names : Pair(id, name, ok)
                 \/ \E t \in Texts \cup Ids, a \in NewAliases : Rename(t, a, ok)
                 \/ \E t \in Texts \cup Ids : Unpair(t, ok)
                 \/ \E l \in Limits : SetLimit(l, ok)
                 \/ SetOther(ok) \/ Reset(ok)
          PROVE  Save(ok)
      BY <2>6 DEF Pair, Rename, Unpair, SetLimit, SetOther, Reset
    <2> QED
      BY <2>1, <2>2, <2>3, <2>4, <2>5, <2>6, StepCases
  <1> QED
    BY <1>1, <1>2, TypeInvariant, PTL DEF Spec


(* The conversation store works with the configured history limit, unless  *)
(* a SET_CONFIG of it was answered with an error.                          *)
THEOREM LimitForce == Spec => []LimitInForce
  <1>1. Init => LimitInForce
    BY DEF Init, LimitInForce
  <1>2. TypeInv /\ LimitInForce /\ [Next]_vars => LimitInForce'
    <2> SUFFICES ASSUME TypeInv, LimitInForce, [Next]_vars
                 PROVE  LimitInForce'
      OBVIOUS
    <2>1. ASSUME NEW n \in Starters,
                 \/ Begin(n) \/ CreateFile(n) \/ GetSecret(n) \/ StoreKey(n) \/ GiveUp(n)
                 \/ Bind(n)
          PROVE  LimitInForce'
      <3>1. CASE Bind(n)
        BY <3>1 DEF Bind, LimitInForce
      <3>2. CASE ~Bind(n)
        BY <2>1, <3>2, StartingIs DEF LimitInForce
      <3> QED
        BY <3>1, <3>2
    <2>2. CASE Stop \/ LoseSecret \/ UNCHANGED vars
      BY <2>2 DEF Stop, LoseSecret, vars, LimitInForce
    <2>3. ASSUME NEW ok \in BOOLEAN,
                 \/ \E id \in Ids, name \in Names : Pair(id, name, ok)
                 \/ \E t \in Texts \cup Ids, a \in NewAliases : Rename(t, a, ok)
                 \/ \E t \in Texts \cup Ids : Unpair(t, ok)
                 \/ SetOther(ok)
          PROVE  LimitInForce'
      BY <2>3 DEF Pair, Rename, Unpair, SetOther, LimitInForce
    <2>4. ASSUME NEW ok \in BOOLEAN, NEW l \in Limits, SetLimit(l, ok)
          PROVE  LimitInForce'
      BY <2>4 DEF SetLimit, LimitInForce
    <2>5. ASSUME NEW ok \in BOOLEAN, Reset(ok)
          PROVE  LimitInForce'
      BY <2>5 DEF Reset, ResetApplied, LimitInForce
    <2> QED
      BY <2>1, <2>2, <2>3, <2>4, <2>5, StepCases
  <1> QED
    BY <1>1, <1>2, TypeInvariant, PTL DEF Spec

-----------------------------------------------------------------------------
(* Revoked peers.                                                          *)

(* No record of b is of a revoked endpoint. *)
Clear(b, R) == \A i \in 1 .. Len(b) : b[i].id \notin R

LEMMA ClearIs ==
  ASSUME NEW b \in Seq(Peer), NEW R
  PROVE  Clear(b, R) <=> Holds(b) \cap R = {}
  BY DEF Clear, Holds

ClearInv == overtaken \/ (Clear(book, revoked) /\ Clear(Trusted, revoked))

(* A save keeps ClearInv if the change does. *)
LEMMA ChangeKeepsClear ==
  ASSUME TypeInv, NEW ok \in BOOLEAN, Save(ok), UNCHANGED startVars,
         book' \in Seq(Peer), limit' \in Limits,
         overtaken \/ Clear(book', revoked'),
         ~ok => overtaken \/ Clear(Trusted, revoked')
  PROVE  ClearInv'
  <1>1. FileOK(file) /\ overtaken' = overtaken
    BY TypeGives DEF startVars
  <1>2. (ok => Trusted' = book') /\ (~ok => Trusted' = Trusted)
    BY <1>1, SaveWrites
  <1> QED
    BY <1>1, <1>2 DEF ClearInv

LEMMA ClearStep == TypeInv /\ ClearInv /\ [Next]_vars => ClearInv'
  <1> SUFFICES ASSUME TypeInv, ClearInv, [Next]_vars
               PROVE  ClearInv'
    OBVIOUS
  <1>0. /\ FileOK(file) /\ book \in Seq(Peer) /\ limit \in Limits
        /\ Len(book) <= pairings /\ pairings \in Nat /\ Len(book) \in Nat
        /\ Trusted \in Seq(Peer) /\ config \in [Starters -> Stored]
        /\ running => key \in Starters
    BY TypeGives
  <1>1. ASSUME NEW n \in Starters,
               Begin(n) \/ CreateFile(n) \/ GetSecret(n) \/ StoreKey(n) \/ GiveUp(n)
        PROVE  ClearInv'
    <2>1. /\ UNCHANGED <<book, revoked>> /\ (overtaken => overtaken')
          /\ ~CreateFile(n) => Trusted' = Trusted
      BY <1>1, StartingIs
    <2>2. CreateFile(n) => Trusted' = <<>>
      BY CreateFileIs
    <2>3. Clear(<<>>, revoked)
      BY DEF Clear
    <2> QED
      BY <2>1, <2>2, <2>3 DEF ClearInv
  <1>2. ASSUME NEW n \in Starters, Bind(n)
        PROVE  ClearInv'
    <2>1. /\ overtaken => overtaken'
          /\ ~overtaken' => Trusted = book'
          /\ Trusted' = Trusted /\ revoked' = revoked
      BY <1>0, <1>2, BindIs
    <2> QED
      BY <2>1 DEF ClearInv
  <1>3. CASE Stop
    <2>1. book' = <<>> /\ UNCHANGED <<file, revoked, overtaken>>
      BY <1>3 DEF Stop, startVars
    <2>2. Clear(<<>>, revoked) /\ Trusted' = Trusted
      BY <2>1 DEF Clear, Trusted
    <2> QED
      BY <2>1, <2>2 DEF ClearInv
  <1>4. CASE LoseSecret \/ UNCHANGED vars
    <2>1. UNCHANGED <<book, file, revoked, overtaken>>
      BY <1>4 DEF LoseSecret, startVars, vars
    <2> QED
      BY <2>1 DEF ClearInv, Trusted

  <1>5. ASSUME NEW ok \in BOOLEAN, NEW id \in Ids, NEW name \in Names, Pair(id, name, ok)
        PROVE  ClearInv'
    <2>1. key \in Starters
      BY <1>0, <1>5 DEF Pair
    <2>2. /\ book' \in Seq(Peer) /\ Len(book') = Len(book) + 1
          /\ \A i \in 1 .. Len(book) : book'[i] = book[i]
          /\ book'[Len(book) + 1].id = id
      BY <1>0, <1>5, <2>1, PairAdds
    <2>3. revoked' = revoked \ {id} /\ Save(ok) /\ limit' = limit /\ UNCHANGED startVars
      BY <1>5 DEF Pair
    <2>4. ASSUME Clear(book, revoked)
          PROVE  Clear(book', revoked')
      <3> SUFFICES ASSUME NEW i \in 1 .. Len(book')
                   PROVE  book'[i].id \notin revoked'
        BY DEF Clear
      <3>1. i \in 1 .. Len(book) \/ i = Len(book) + 1
        BY <1>0, <2>2
      <3> QED
        BY <2>2, <2>3, <2>4, <3>1 DEF Clear
    <2>5. Clear(Trusted, revoked) => Clear(Trusted, revoked')
      BY <2>3 DEF Clear
    <2> QED
      BY <1>0, <2>2, <2>3, <2>4, <2>5, ChangeKeepsClear DEF ClearInv
  <1>6. ASSUME NEW ok \in BOOLEAN, NEW t, NEW a, Rename(t, a, ok)
        PROVE  ClearInv'
    <2>1. book' \in Seq(Peer) /\ Len(book') = Len(book) /\ Renamed(book', book)
      BY <1>0, <1>6, RenameChanges
    <2>2. revoked' = revoked /\ Save(ok) /\ limit' = limit /\ UNCHANGED startVars
      BY <1>6 DEF Rename
    <2>3. \A i \in 1 .. Len(book) : book'[i].id = book[i].id
      BY <2>1 DEF Renamed
    <2>4. Clear(book, revoked) => Clear(book', revoked')
      BY <2>1, <2>2, <2>3 DEF Clear
    <2> QED
      BY <1>0, <2>1, <2>2, <2>4, ChangeKeepsClear DEF ClearInv
  <1>7. ASSUME NEW ok \in BOOLEAN, NEW t, Unpair(t, ok)
        PROVE  ClearInv'
    <2>1. book' \in Seq(Peer)
      BY <1>0, <1>7, UnpairRemoves
    <2>2. PICK id \in Ids : /\ Thinned(book', book, id)
                            /\ revoked' = IF ok THEN revoked \cup {id} ELSE revoked
      BY <1>0, <1>7, UnpairRemoves
    <2>3. Save(ok) /\ limit' = limit /\ UNCHANGED startVars
      BY <1>7 DEF Unpair
    <2>4. \A n \in 1 .. Len(book') : \E i \in 1 .. Len(book) : book'[n] = book[i] /\ book[i].id # id
      BY <1>0, <2>1, <2>2, ThinnedFrom
    <2>5. Clear(book, revoked) => Clear(book', revoked')
      BY <2>2, <2>4 DEF Clear
    <2>6. ~ok => revoked' = revoked
      BY <2>2
    <2> QED
      BY <1>0, <2>1, <2>3, <2>5, <2>6, ChangeKeepsClear DEF ClearInv
  <1>8. ASSUME NEW ok \in BOOLEAN,
               (\E l \in Limits : SetLimit(l, ok)) \/ SetOther(ok) \/ Reset(ok)
        PROVE  ClearInv'
    <2>1. /\ Save(ok) /\ book' = book /\ revoked' = revoked /\ limit' \in Limits
          /\ UNCHANGED startVars
      BY <1>0, <1>8, LimitAssumption DEF SetLimit, SetOther, Reset
    <2> QED
      BY <1>0, <2>1, ChangeKeepsClear DEF ClearInv
  <1> QED
    BY <1>1, <1>2, <1>3, <1>4, <1>5, <1>6, <1>7, <1>8, StepCases

(* UNPAIR_PEER that reported success lasts: no record of the endpoint is in *)
(* memory or in config.json until it is paired again, as long as no start  *)
(* goes on with what it has read before the change.                        *)
THEOREM RevokedOut == Spec => []RevokedStaysOut
  <1>1. Init => ClearInv
    BY DEF Init, ClearInv, Clear, Trusted
  <1>2. TypeInv /\ ClearInv => RevokedStaysOut
    <2> SUFFICES ASSUME TypeInv, ClearInv
                 PROVE  RevokedStaysOut
      OBVIOUS
    <2>1. book \in Seq(Peer) /\ Trusted \in Seq(Peer)
      BY TypeGives
    <2> QED
      BY <2>1, ClearIs DEF ClearInv, RevokedStaysOut
  <1> QED
    BY <1>1, <1>2, TypeInvariant, ClearStep, PTL DEF Spec

-----------------------------------------------------------------------------
(* The identity.                                                           *)

(* Every record of b was made under identity k. *)
Under(b, k) == \A i \in 1 .. Len(b) : b[i].key = k

(* Unless a start was overtaken, memory and disk are of the key generated  *)
(* last, and the running daemon has that key.                              *)
KeyInv ==
  \/ overtaken
  \/ /\ Under(book, minted) /\ Under(Trusted, minted)
     /\ running => key = minted

LEMMA ChangeKeepsKey ==
  ASSUME TypeInv, KeyInv, NEW ok \in BOOLEAN, Save(ok), running,
         book' \in Seq(Peer), limit' \in Limits,
         overtaken \/ Under(book', minted),
         UNCHANGED <<running, key, minted, startVars>>
  PROVE  KeyInv'
  <1>1. FileOK(file) /\ overtaken' = overtaken
    BY TypeGives DEF startVars
  <1>2. Trusted' = book' \/ Trusted' = Trusted
    BY <1>1, SaveWrites
  <1> QED
    BY <1>1, <1>2 DEF KeyInv

LEMMA KeyStep == TypeInv /\ KeyInv /\ [Next]_vars => KeyInv'
  <1> SUFFICES ASSUME TypeInv, KeyInv, [Next]_vars
               PROVE  KeyInv'
    OBVIOUS
  <1>0. /\ FileOK(file) /\ book \in Seq(Peer) /\ limit \in Limits
        /\ Len(book) <= pairings /\ pairings \in Nat /\ Len(book) \in Nat
        /\ Trusted \in Seq(Peer) /\ config \in [Starters -> Stored]
        /\ running => key \in Starters
    BY TypeGives
  <1>1. \A k : Under(<<>>, k)
    BY DEF Under
  <1>2. ASSUME NEW n \in Starters,
               Begin(n) \/ CreateFile(n) \/ GetSecret(n) \/ GiveUp(n)
        PROVE  KeyInv'
    <2>1. /\ UNCHANGED <<running, book, key>> /\ (overtaken => overtaken')
          /\ ~CreateFile(n) => Trusted' = Trusted
      BY <1>2, StartingIs
    <2>2. CreateFile(n) => Trusted' = <<>>
      BY CreateFileIs
    <2>3. minted' = minted
      BY <1>2 DEF Begin, CreateFile, GetSecret, GiveUp
    <2> QED
      BY <1>1, <2>1, <2>2, <2>3 DEF KeyInv
  <1>3. ASSUME NEW n \in Starters, StoreKey(n)
        PROVE  KeyInv'
    <2>1. /\ stage[n] = "absent"
          /\ overtaken' = (overtaken \/ running \/ config[n].book # Trusted)
          /\ UNCHANGED <<running, book, file>>
      BY <1>3 DEF StoreKey
    <2>2. config[n].book = <<>> /\ (running \/ book = <<>>)
      BY <2>1 DEF TypeInv, StageInv
    <2>3. Trusted' = Trusted
      BY <2>1 DEF Trusted
    <2>4. ~overtaken' => ~running' /\ book' = <<>> /\ Trusted' = <<>>
      BY <2>1, <2>2, <2>3
    <2> QED
      BY <1>1, <2>4 DEF KeyInv
  <1>4. ASSUME NEW n \in Starters, Bind(n)
        PROVE  KeyInv'
    <2>1. /\ overtaken => overtaken'
          /\ ~overtaken' => Trusted = book' /\ mine[n] = minted
          /\ Trusted' = Trusted /\ minted' = minted /\ key' = mine[n]
      BY <1>0, <1>4, BindIs
    <2> QED
      BY <2>1 DEF KeyInv
  <1>5. CASE Stop
    <2>1. book' = <<>> /\ ~running' /\ UNCHANGED <<file, minted, overtaken>>
      BY <1>5 DEF Stop, startVars
    <2>2. Trusted' = Trusted
      BY <2>1 DEF Trusted
    <2> QED
      BY <1>1, <2>1, <2>2 DEF KeyInv
  <1>6. CASE LoseSecret \/ UNCHANGED vars
    <2>1. UNCHANGED <<running, book, file, key, minted, overtaken>>
      BY <1>6 DEF LoseSecret, startVars, vars
    <2> QED
      BY <2>1 DEF KeyInv, Trusted
  <1>7. ASSUME NEW ok \in BOOLEAN, NEW id \in Ids, NEW name \in Names, Pair(id, name, ok)
        PROVE  KeyInv'
    <2>1. /\ running /\ key \in Starters
          /\ UNCHANGED <<running, key, minted, limit, startVars>> /\ Save(ok)
      BY <1>0, <1>7 DEF Pair
    <2>2. /\ book' \in Seq(Peer) /\ Len(book') = Len(book) + 1
          /\ \A i \in 1 .. Len(book) : book'[i] = book[i]
          /\ book'[Len(book) + 1].key = key
      BY <1>0, <1>7, <2>1, PairAdds
    <2>3. ASSUME Under(book, minted), key = minted
          PROVE  Under(book', minted)
      <3> SUFFICES ASSUME NEW i \in 1 .. Len(book')
                   PROVE  book'[i].key = minted
        BY DEF Under
      <3>1. i \in 1 .. Len(book) \/ i = Len(book) + 1
        BY <1>0, <2>2
      <3> QED
        BY <2>2, <2>3, <3>1 DEF Under
    <2>4. overtaken \/ Under(book', minted)
      BY <2>1, <2>3 DEF KeyInv
    <2> QED
      BY <1>0, <2>1, <2>2, <2>4, ChangeKeepsKey
  <1>8. ASSUME NEW ok \in BOOLEAN, NEW t, NEW a, Rename(t, a, ok)
        PROVE  KeyInv'
    <2>1. book' \in Seq(Peer) /\ Len(book') = Len(book) /\ Renamed(book', book)
      BY <1>0, <1>8, RenameChanges
    <2>2. \A i \in 1 .. Len(book) : book'[i].key = book[i].key
      BY <2>1 DEF Renamed
    <2>3. running /\ Save(ok) /\ limit' = limit /\ UNCHANGED <<running, key, minted, startVars>>
      BY <1>8 DEF Rename
    <2>4. overtaken \/ Under(book', minted)
      BY <2>1, <2>2 DEF KeyInv, Under
    <2> QED
      BY <1>0, <2>1, <2>3, <2>4, ChangeKeepsKey
  <1>9. ASSUME NEW ok \in BOOLEAN, NEW t, Unpair(t, ok)
        PROVE  KeyInv'
    <2>1. book' \in Seq(Peer) /\ \E id \in Ids : Thinned(book', book, id)
      BY <1>0, <1>9, UnpairRemoves
    <2>2. \A n \in 1 .. Len(book') : \E i \in 1 .. Len(book) : book'[n] = book[i]
      BY <1>0, <2>1, ThinnedFrom
    <2>3. running /\ Save(ok) /\ limit' = limit /\ UNCHANGED <<running, key, minted, startVars>>
      BY <1>9 DEF Unpair
    <2>4. overtaken \/ Under(book', minted)
      BY <2>2 DEF KeyInv, Under
    <2> QED
      BY <1>0, <2>1, <2>3, <2>4, ChangeKeepsKey
  <1>10. ASSUME NEW ok \in BOOLEAN,
                (\E l \in Limits : SetLimit(l, ok)) \/ SetOther(ok) \/ Reset(ok)
         PROVE  KeyInv'
    <2>1. /\ running /\ Save(ok) /\ book' = book /\ limit' \in Limits
          /\ UNCHANGED <<running, key, minted, startVars>>
      BY <1>0, <1>10, LimitAssumption DEF SetLimit, SetOther, Reset
    <2> QED
      BY <1>0, <2>1, ChangeKeepsKey DEF KeyInv
  <1> QED
    BY <1>2, <1>3, <1>4, <1>5, <1>6, <1>7, <1>8, <1>9, <1>10, StepCases

(* A running daemon has the identity under which its peers were paired,    *)
(* through restarts, lost secrets and starts that overlap: load_or_create  *)
(* mints a key only when the configuration trusts nobody.  What it takes   *)
(* besides is that no process stores a key, or becomes the daemon, after   *)
(* what it has read was changed, which does come about (see README).       *)
THEOREM Identity == Spec => []IdentityMatchesPeers
  <1>1. Init => KeyInv
    BY DEF Init, KeyInv, Under, Trusted
  <1>2. TypeInv /\ KeyInv => IdentityMatchesPeers
    BY DEF TypeInv, TypeOK, KeyInv, Under, IdentityMatchesPeers, TrustedUnderOneIdentity
  <1> QED
    BY <1>1, <1>2, TypeInvariant, KeyStep, PTL DEF Spec

-----------------------------------------------------------------------------
(* Names.                                                                  *)

(* No two endpoints have aliases that differ in case only. *)
Distinct(b) ==
  \A i, j \in 1 .. Len(b) : SameText(b[i].alias, b[j].alias) => b[i].id = b[j].id

(* That is so in memory, on the disk and in what starts have read of it. *)
NameInv ==
  /\ Distinct(book) /\ Distinct(Trusted)
  /\ \A n \in Starters : Distinct(config[n].book)

LEMMA ChangeKeepsNames ==
  ASSUME TypeInv, NameInv, NEW ok \in BOOLEAN, Save(ok), UNCHANGED startVars,
         book' \in Seq(Peer), limit' \in Limits, Distinct(book')
  PROVE  NameInv'
  <1>1. FileOK(file) /\ config' = config
    BY TypeGives DEF startVars
  <1>2. Trusted' = book' \/ Trusted' = Trusted
    BY <1>1, SaveWrites
  <1> QED
    BY <1>1, <1>2 DEF NameInv

LEMMA NameStep == TypeInv /\ NameInv /\ [Next]_vars => NameInv'
  <1> SUFFICES ASSUME TypeInv, NameInv, [Next]_vars
               PROVE  NameInv'
    OBVIOUS
  <1>0. /\ FileOK(file) /\ book \in Seq(Peer) /\ limit \in Limits
        /\ Len(book) <= pairings /\ pairings \in Nat /\ Len(book) \in Nat
        /\ Trusted \in Seq(Peer) /\ config \in [Starters -> Stored]
        /\ running => key \in Starters
    BY TypeGives
  <1>1. Distinct(<<>>)
    BY DEF Distinct
  <1>2. ASSUME NEW n \in Starters,
               Begin(n) \/ CreateFile(n) \/ GetSecret(n) \/ StoreKey(n) \/ GiveUp(n)
        PROVE  NameInv'
    <2>1. /\ book' = book
          /\ ~CreateFile(n) => Trusted' = Trusted
      BY <1>2, StartingIs
    <2>2. CreateFile(n) => Trusted' = <<>>
      BY CreateFileIs
    <2>3. PICK c \in {config[n], Defaults, file} :
            config' = [config EXCEPT ![n] = c] /\ (c = file => c \in Stored)
      <3>0. config = [config EXCEPT ![n] = config[n]] /\ config[n] \in Stored
        BY <1>0
      <3>1. CASE Begin(n)
        BY <1>0, <3>0, <3>1 DEF Begin, FileOK
      <3>2. CASE CreateFile(n) \/ GetSecret(n) \/ StoreKey(n)
        BY <3>0, <3>2 DEF CreateFile, GetSecret, StoreKey
      <3>3. CASE GiveUp(n)
        BY <3>3, DefaultsAre DEF GiveUp
      <3> QED
        BY <1>2, <3>1, <3>2, <3>3
    <2>4. Distinct(c.book)
      <3>1. CASE c = file
        <4>1. c \in Stored /\ file # Missing
          BY <2>3, <3>1, StoredIs
        <4>2. Trusted = c.book
          BY <3>1, <4>1 DEF Trusted
        <4> QED
          BY <4>2 DEF NameInv
      <3>2. CASE c \in {config[n], Defaults}
        BY <1>1, <3>2, DefaultsAre DEF NameInv
      <3> QED
        BY <2>3, <3>1, <3>2
    <2>5. \A m \in Starters : config'[m] = IF m = n THEN c ELSE config[m]
      BY <1>0, <2>3
    <2>6. ASSUME NEW m \in Starters
          PROVE  Distinct(config'[m].book)
      BY <2>4, <2>5 DEF NameInv
    <2> QED
      BY <1>1, <2>1, <2>2, <2>6 DEF NameInv
  <1>3. ASSUME NEW n \in Starters, Bind(n)
        PROVE  NameInv'
    <2>1. /\ book' = config[n].book /\ Trusted' = Trusted
          /\ config' = [config EXCEPT ![n] = Defaults]
      BY <1>0, <1>3, BindIs DEF Bind
    <2>2. \A m \in Starters : config'[m] = IF m = n THEN Defaults ELSE config[m]
      BY <1>0, <2>1
    <2>3. ASSUME NEW m \in Starters
          PROVE  Distinct(config'[m].book)
      BY <1>1, <2>2, DefaultsAre DEF NameInv
    <2> QED
      BY <2>1, <2>3 DEF NameInv
  <1>4. CASE Stop
    <2>1. book' = <<>> /\ UNCHANGED <<file, config>>
      BY <1>4 DEF Stop, startVars
    <2>2. Trusted' = Trusted
      BY <2>1 DEF Trusted
    <2> QED
      BY <1>1, <2>1, <2>2 DEF NameInv
  <1>5. CASE LoseSecret \/ UNCHANGED vars
    <2>1. UNCHANGED <<book, file, config>>
      BY <1>5 DEF LoseSecret, startVars, vars
    <2> QED
      BY <2>1 DEF NameInv, Trusted
  <1>6. ASSUME NEW ok \in BOOLEAN, NEW id \in Ids, NEW name \in Names, Pair(id, name, ok)
        PROVE  NameInv'
    <2>1. key \in Starters
      BY <1>0, <1>6 DEF Pair
    <2> DEFINE n == Len(book) + 1
    <2>2. /\ book' \in Seq(Peer) /\ Len(book') = n
          /\ \A i \in 1 .. Len(book) : book'[i] = book[i]
          /\ Free(book'[n].alias)
      BY <1>0, <1>6, <2>1, PairAdds
    <2>3. \A i \in 1 .. Len(book) : /\ ~SameText(book'[i].alias, book'[n].alias)
                                    /\ ~SameText(book'[n].alias, book'[i].alias)
      BY <1>0, <2>2 DEF Free, SameText
    <2>4. Distinct(book')
      <3> SUFFICES ASSUME NEW i \in 1 .. Len(book'), NEW j \in 1 .. Len(book'),
                          SameText(book'[i].alias, book'[j].alias)
                   PROVE  book'[i].id = book'[j].id
        BY DEF Distinct
      <3>1. (i \in 1 .. Len(book) \/ i = n) /\ (j \in 1 .. Len(book) \/ j = n)
        BY <1>0, <2>2
      <3>2. CASE i = n \/ j = n
        BY <2>3, <3>1, <3>2
      <3>3. CASE i \in 1 .. Len(book) /\ j \in 1 .. Len(book)
        BY <2>2, <3>3 DEF NameInv, Distinct
      <3> QED
        BY <3>1, <3>2, <3>3
    <2> QED
      BY <1>0, <1>6, <2>2, <2>4, ChangeKeepsNames DEF Pair
  <1>7. ASSUME NEW ok \in BOOLEAN, NEW t, NEW a, Rename(t, a, ok)
        PROVE  NameInv'
    <2>1. book' \in Seq(Peer) /\ Len(book') = Len(book) /\ Renamed(book', book)
      BY <1>0, <1>7, RenameChanges
    <2>2. PICK i \in 1 .. Len(book) :
            /\ \A j \in 1 .. Len(book) : j # i => book'[j] = book[j]
            /\ book'[i].id = book[i].id
            /\ \A j \in 1 .. Len(book) :
                 book[j].id # book[i].id => ~SameText(book[j].alias, book'[i].alias)
      BY <2>1 DEF Renamed
    <2>3. Distinct(book')
      <3> SUFFICES ASSUME NEW j \in 1 .. Len(book), NEW k \in 1 .. Len(book),
                          SameText(book'[j].alias, book'[k].alias)
                   PROVE  book'[j].id = book'[k].id
        BY <2>1 DEF Distinct
      <3>1. CASE j # i /\ k # i
        BY <2>2, <3>1 DEF NameInv, Distinct
      <3>2. CASE j # i /\ k = i
        BY <2>2, <3>2
      <3>3. CASE j = i /\ k # i
        <4>1. SameText(book[k].alias, book'[i].alias)
          BY <2>2, <3>3 DEF SameText
        <4> QED
          BY <2>2, <3>3, <4>1
      <3> QED
        BY <3>1, <3>2, <3>3
    <2> QED
      BY <1>0, <1>7, <2>1, <2>3, ChangeKeepsNames DEF Rename
  <1>8. ASSUME NEW ok \in BOOLEAN, NEW t, Unpair(t, ok)
        PROVE  NameInv'
    <2>1. book' \in Seq(Peer) /\ \E id \in Ids : Thinned(book', book, id)
      BY <1>0, <1>8, UnpairRemoves
    <2>2. \A n \in 1 .. Len(book') : \E i \in 1 .. Len(book) : book'[n] = book[i]
      BY <1>0, <2>1, ThinnedFrom
    <2>3. Distinct(book')
      <3> SUFFICES ASSUME NEW m \in 1 .. Len(book'), NEW n \in 1 .. Len(book'),
                          SameText(book'[m].alias, book'[n].alias)
                   PROVE  book'[m].id = book'[n].id
        BY DEF Distinct
      <3>1. PICK i \in 1 .. Len(book), j \in 1 .. Len(book) :
              book'[m] = book[i] /\ book'[n] = book[j]
        BY <2>2
      <3> QED
        BY <3>1 DEF NameInv, Distinct
    <2> QED
      BY <1>0, <1>8, <2>1, <2>3, ChangeKeepsNames DEF Unpair
  <1>9. ASSUME NEW ok \in BOOLEAN,
               (\E l \in Limits : SetLimit(l, ok)) \/ SetOther(ok) \/ Reset(ok)
        PROVE  NameInv'
    <2>1. Save(ok) /\ book' = book /\ limit' \in Limits /\ UNCHANGED startVars
      BY <1>0, <1>9, LimitAssumption DEF SetLimit, SetOther, Reset
    <2> QED
      BY <1>0, <2>1, ChangeKeepsNames DEF NameInv
  <1> QED
    BY <1>2, <1>3, <1>4, <1>5, <1>6, <1>7, <1>8, <1>9, StepCases

(* The alias that the daemon shows for a peer reaches that peer, whatever  *)
(* it was paired, renamed and re-paired as: resolve_identifier finds the   *)
(* first record with the alias, and all of them are of one endpoint.       *)
THEOREM AliasFinds == Spec => []AliasFindsPeer
  <1>1. Init => NameInv
    BY DEF Init, NameInv, Distinct, Trusted, Defaults
  <1>2. TypeInv /\ NameInv => AliasFindsPeer
    <2> SUFFICES ASSUME TypeInv, NameInv, NEW i \in DOMAIN book
                 PROVE  \E j \in Resolve(book[i].alias) : book[j].id = book[i].id
      BY DEF AliasFindsPeer
    <2>1. book \in Seq(Peer) /\ i \in 1 .. Len(book)
      BY DEF TypeInv, TypeOK
    <2>2. book[i].alias \in Texts
      <3>1. book[i] \in Peer
        BY <2>1
      <3> QED
        BY <3>1, TextAssumption DEF Peer
    <2>3. PICK j \in Resolve(book[i].alias) : SameText(book[j].alias, book[i].alias)
      BY <2>1, <2>2, ResolveIs DEF SameText
    <2>4. j \in 1 .. Len(book)
      BY <2>1, ResolveIs
    <2> QED
      BY <2>1, <2>3, <2>4 DEF NameInv, Distinct
  <1> QED
    BY <1>1, <1>2, TypeInvariant, NameStep, PTL DEF Spec

-----------------------------------------------------------------------------
(* The address book.                                                       *)

Entry(r) == <<Fold[r.alias], r.id>>

LEMMA EntriesAre ==
  ASSUME NEW b \in Seq(Peer)
  PROVE  /\ \A i \in 1 .. Len(b) : Entry(b[i]) \in Entries(b)
         /\ \A e \in Entries(b) : \E i \in 1 .. Len(b) : e = Entry(b[i])
  BY DEF Entries, Entry

LEMMA NoEntries == Entries(<<>>) = {}
  BY DEF Entries

(* A change with its save changes the address book. *)
LEMMA ChangeIsChange ==
  ASSUME TypeInv, NEW ok \in BOOLEAN, Save(ok), running, running' = running,
         UNCHANGED startVars, book' \in Seq(Peer), limit' \in Limits
  PROVE  /\ A!Change(Entries(book'))
         /\ ok => Entries(Trusted)' = Entries(book)'
         /\ ~ok => Entries(Trusted)' = Entries(Trusted)
  <1>1. FileOK(file)
    BY TypeGives
  <1>2. (ok => Trusted' = book') /\ (~ok => Trusted' = Trusted)
    BY <1>1, SaveWrites
  <1>3. InHands' = InHands
    BY DEF InHands, startVars
  <1>4. ok \/ ~ok
    OBVIOUS
  <1> QED
    BY <1>2, <1>3, <1>4 DEF A!Change

(* The books that starts have read are those of the processes underway. *)
LEMMA InHandsAre ==
  /\ \A n \in Starters : stage[n] \in Underway => Entries(config[n].book) \in InHands
  /\ \A k \in InHands : \E n \in Starters :
       stage[n] \in Underway /\ k = Entries(config[n].book)
  /\ \A n \in Starters : stage'[n] \in Underway => Entries(config'[n].book) \in InHands'
  /\ \A k \in InHands' : \E n \in Starters :
       stage'[n] \in Underway /\ k = Entries(config'[n].book)
  BY DEF InHands

(* A process that has read a book and is over leaves the others what they  *)
(* have read.                                                              *)
LEMMA OverDrops ==
  ASSUME TypeInv, NEW n \in Starters, stage[n] \in Underway, Reach(n, "over"),
         config' = [config EXCEPT ![n] = Defaults]
  PROVE  A!Drop(Entries(config[n].book))
  <1> DEFINE k == Entries(config[n].book)
  <1>1. /\ stage'[n] = "over"
        /\ \A m \in Starters : m # n => stage'[m] = stage[m] /\ config'[m] = config[m]
    BY DEF TypeInv, TypeOK, Reach
  <1>2. k \in InHands
    BY InHandsAre
  <1>3. "over" \notin Underway
    BY DEF Underway
  <1>4. ASSUME NEW j \in InHands'
        PROVE  j \in InHands
    <2>1. PICK m \in Starters : stage'[m] \in Underway /\ j = Entries(config'[m].book)
      BY InHandsAre
    <2>2. m # n
      BY <1>1, <1>3, <2>1
    <2> QED
      BY <1>1, <2>1, <2>2, InHandsAre
  <1>5. ASSUME NEW j \in InHands, j # k
        PROVE  j \in InHands'
    <2>1. PICK m \in Starters : stage[m] \in Underway /\ j = Entries(config[m].book)
      BY InHandsAre
    <2>2. m # n
      BY <1>5, <2>1
    <2> QED
      BY <1>1, <2>1, <2>2, InHandsAre
  <1> HIDE DEF k
  <1>6. InHands' = InHands \/ InHands' = InHands \ {k}
    BY <1>2, <1>4, <1>5
  <1> QED
    BY <1>2, <1>6 DEF A!Drop, k

LEMMA RefinementStep ==
  TypeInv /\ [Next]_vars =>
    [A!Next]_<<running, Entries(book), Entries(Trusted), revoked, InHands>>
  <1> DEFINE Step == [A!Next]_<<running, Entries(book), Entries(Trusted), revoked, InHands>>
  <1> SUFFICES ASSUME TypeInv, [Next]_vars
               PROVE  Step
    OBVIOUS
  <1>0. /\ FileOK(file) /\ book \in Seq(Peer) /\ limit \in Limits
        /\ Len(book) <= pairings /\ pairings \in Nat /\ Len(book) \in Nat
        /\ Trusted \in Seq(Peer) /\ config \in [Starters -> Stored]
        /\ starts \in Nat
        /\ running => key \in Starters
    BY TypeGives
  <1>a. stage \in [Starters -> Underway \cup {"none", "over"}] /\ StageInv
    BY DEF TypeInv, TypeOK
  <1>1. ASSUME NEW n \in Starters, Begin(n)
        PROVE  Step
    <2>1. UNCHANGED <<running, book, revoked>> /\ Trusted' = Trusted
      BY <1>1, StartingIs DEF Begin, CreateFile
    <2>2. /\ n = starts + 1 /\ stage'[n] \in Underway
          /\ \A m \in Starters : m # n => stage'[m] = stage[m] /\ config'[m] = config[m]
      BY <1>0, <1>1, <1>a DEF Begin, Reach, Underway
    <2>3. stage[n] \notin Underway /\ config[n] = Defaults
      <3>1. stage[n] = "none"
        BY <1>0, <1>a, <2>2 DEF StageInv
      <3> QED
        BY <1>a, <3>1 DEF StageInv, Underway
    <2>4. config'[n].book = Trusted
      <3>1. CASE file = Missing
        <4>1. config'[n] = Defaults /\ Trusted = <<>>
          BY <1>0, <1>1, <2>3, <3>1 DEF Begin, Trusted
        <4> QED
          BY <4>1, DefaultsAre
      <3>2. CASE file # Missing
        BY <1>0, <1>1, <3>2 DEF Begin, Trusted
      <3> QED
        BY <3>1, <3>2
    <2>5. InHands' = InHands \cup {Entries(Trusted)}
      <3>1. ASSUME NEW j \in InHands'
            PROVE  j \in InHands \cup {Entries(Trusted)}
        <4>1. PICK m \in Starters : stage'[m] \in Underway /\ j = Entries(config'[m].book)
          BY InHandsAre
        <4> QED
          BY <2>2, <2>4, <4>1, InHandsAre
      <3>2. ASSUME NEW j \in InHands
            PROVE  j \in InHands'
        <4>1. PICK m \in Starters : stage[m] \in Underway /\ j = Entries(config[m].book)
          BY InHandsAre
        <4> QED
          BY <2>2, <2>3, <4>1, InHandsAre
      <3>3. Entries(Trusted) \in InHands'
        BY <2>2, <2>4, InHandsAre
      <3> QED
        BY <3>1, <3>2, <3>3
    <2> QED
      BY <2>1, <2>5 DEF A!Read, A!Next
  <1>2. ASSUME NEW n \in Starters, CreateFile(n) \/ GetSecret(n) \/ StoreKey(n)
        PROVE  /\ UNCHANGED <<running, book, revoked>> /\ InHands' = InHands
               /\ stage[n] \in Underway
    <2>1. UNCHANGED <<running, book, revoked>>
      BY <1>2, StartingIs
    <2>2. /\ stage[n] \in Underway /\ config' = config /\ stage'[n] \in Underway
          /\ \A m \in Starters : m # n => stage'[m] = stage[m]
      BY <1>2, <1>a DEF CreateFile, GetSecret, StoreKey, Reach, Underway
    <2>3. \A m \in Starters : stage'[m] \in Underway <=> stage[m] \in Underway
      BY <2>2
    <2>4. InHands' = InHands
      BY <2>2, <2>3 DEF InHands
    <2> QED
      BY <2>1, <2>2, <2>4
  <1>3. ASSUME NEW n \in Starters, CreateFile(n)
        PROVE  Step
    <2>1. /\ UNCHANGED <<running, book, revoked>> /\ InHands' = InHands
          /\ stage[n] \in Underway
      BY <1>2, <1>3
    <2>2. Trusted' = <<>>
      BY <1>3, CreateFileIs
    <2>3. config[n].book = <<>>
      BY <1>3, <1>a, DefaultsAre DEF CreateFile, StageInv
    <2>4. {} \in InHands
      BY <2>1, <2>3, NoEntries, InHandsAre
    <2> QED
      BY <2>1, <2>2, <2>4, NoEntries DEF A!Clear, A!Next
  <1>4. ASSUME NEW n \in Starters, GetSecret(n) \/ StoreKey(n)
        PROVE  Step
    <2>1. file' = file
      BY <1>4 DEF GetSecret, StoreKey
    <2> QED
      BY <1>2, <1>4, <2>1 DEF Trusted
  <1>5. ASSUME NEW n \in Starters, Bind(n)
        PROVE  Step
    <2>1. /\ ~running /\ running' = TRUE /\ book' = config[n].book
          /\ Trusted' = Trusted /\ revoked' = revoked
      BY <1>0, <1>5, BindIs DEF Bind
    <2>2. /\ stage[n] \in Underway /\ Reach(n, "over")
          /\ config' = [config EXCEPT ![n] = Defaults]
      BY <1>5 DEF Bind, Underway
    <2>3. A!Drop(Entries(config[n].book))
      BY <2>2, OverDrops
    <2> QED
      BY <2>1, <2>3 DEF A!Start, A!Next
  <1>6. ASSUME NEW n \in Starters, GiveUp(n)
        PROVE  Step
    <2>1. UNCHANGED <<running, book, revoked, file>>
      BY <1>6 DEF GiveUp
    <2>2. A!Drop(Entries(config[n].book)) /\ Entries(config[n].book) \in InHands
      BY <1>6, OverDrops, InHandsAre DEF GiveUp
    <2> QED
      BY <2>1, <2>2 DEF A!Fail, A!Next, Trusted
  <1>7. CASE Stop
    <2>1. /\ running /\ running' = FALSE /\ book' = <<>>
          /\ UNCHANGED <<file, revoked, stage, config>>
      BY <1>7 DEF Stop, startVars
    <2> QED
      BY <2>1, NoEntries DEF Trusted, InHands, A!Stop, A!Next
  <1>8. CASE LoseSecret \/ UNCHANGED vars
    <2>1. UNCHANGED <<running, book, file, revoked, stage, config>>
      BY <1>8 DEF LoseSecret, startVars, vars
    <2> QED
      BY <2>1 DEF Trusted, InHands
  <1>9. ASSUME NEW ok \in BOOLEAN, NEW id \in Ids, NEW name \in Names, Pair(id, name, ok)
        PROVE  Step
    <2> DEFINE l == Len(book) + 1
               n == Fold[book'[l].alias]
    <2>1. key \in Starters
      BY <1>0, <1>9 DEF Pair
    <2>2. /\ book' \in Seq(Peer) /\ Len(book') = l
          /\ \A i \in 1 .. Len(book) : book'[i] = book[i]
          /\ book'[l].id = id /\ Free(book'[l].alias)
      BY <1>0, <1>9, <2>1, PairAdds
    <2>3. /\ running /\ running' = running /\ limit' = limit /\ Save(ok)
          /\ revoked' = revoked \ {id} /\ UNCHANGED startVars
      BY <1>9 DEF Pair
    <2>4. n \in Texts
      <3>1. book'[l] \in Peer
        BY <1>0, <2>2
      <3> QED
        BY <3>1, TextAssumption DEF Peer
    <2>5. Entries(book') = Entries(book) \cup {<<n, id>>}
      <3>1. ASSUME NEW e \in Entries(book')
            PROVE  e \in Entries(book) \cup {<<n, id>>}
        <4>1. PICK i \in 1 .. l : e = Entry(book'[i])
          BY <2>2, EntriesAre
        <4>2. CASE i = l
          BY <2>2, <4>1, <4>2 DEF Entry
        <4>3. CASE i # l
          <5>1. i \in 1 .. Len(book)
            BY <1>0, <4>3
          <5> QED
            BY <1>0, <2>2, <4>1, <5>1, EntriesAre
        <4> QED
          BY <4>2, <4>3
      <3>2. ASSUME NEW e \in Entries(book)
            PROVE  e \in Entries(book')
        <4>1. PICK i \in 1 .. Len(book) : e = Entry(book[i])
          BY <1>0, EntriesAre
        <4>2. i \in 1 .. Len(book') /\ book'[i] = book[i]
          BY <1>0, <2>2
        <4> QED
          BY <2>2, <4>1, <4>2, EntriesAre
      <3>3. <<n, id>> \in Entries(book')
        <4>1. l \in 1 .. Len(book')
          BY <1>0, <2>2
        <4>2. Entry(book'[l]) \in Entries(book')
          BY <2>2, <4>1, EntriesAre
        <4> QED
          BY <2>2, <4>2 DEF Entry
      <3> QED
        BY <3>1, <3>2, <3>3
    <2>6. \A e \in Entries(book) : e[1] # n
      BY <1>0, <2>2, EntriesAre DEF Free, SameText, Entry
    <2>7. A!Change(Entries(book'))
      BY <1>0, <2>2, <2>3, ChangeIsChange
    <2> HIDE DEF n
    <2>8. A!Add(n, id)
      BY <2>3, <2>5, <2>6, <2>7 DEF A!Add
    <2> QED
      BY <2>4, <2>8 DEF A!Next
  <1>10. ASSUME NEW ok \in BOOLEAN, NEW t, NEW a, Rename(t, a, ok)
        PROVE  Step
    <2>1. book' \in Seq(Peer) /\ Len(book') = Len(book) /\ Renamed(book', book)
      BY <1>0, <1>10, RenameChanges
    <2>2. PICK i \in 1 .. Len(book) :
            /\ \A j \in 1 .. Len(book) : j # i => book'[j] = book[j]
            /\ book'[i].id = book[i].id
            /\ \A j \in 1 .. Len(book) :
                 book[j].id # book[i].id => ~SameText(book[j].alias, book'[i].alias)
      BY <2>1 DEF Renamed
    <2>3. /\ running /\ running' = running /\ limit' = limit /\ Save(ok)
          /\ revoked' = revoked /\ UNCHANGED startVars
      BY <1>10 DEF Rename
    <2> DEFINE e == Entry(book[i])
               n == Fold[book'[i].alias]
    <2>4. n \in Texts
      <3>1. book'[i] \in Peer
        BY <2>1
      <3> QED
        BY <3>1, TextAssumption DEF Peer
    <2>5. e \in Entries(book) /\ e[2] = book[i].id /\ <<n, e[2]>> = Entry(book'[i])
      BY <1>0, <2>2, EntriesAre DEF Entry
    <2>6. \A f \in Entries(book) : f[1] = n => f[2] = e[2]
      BY <1>0, <2>2, <2>5, EntriesAre DEF SameText, Entry
    <2>7. \E old \in {{}, {e}} : Entries(book') = (Entries(book) \ old) \cup {<<n, e[2]>>}
      <3> DEFINE old == IF e \in Entries(book') THEN {} ELSE {e}
      <3>1. ASSUME NEW f \in Entries(book')
            PROVE  f \in (Entries(book) \ old) \cup {Entry(book'[i])}
        <4>1. PICK j \in 1 .. Len(book) : f = Entry(book'[j])
          BY <2>1, EntriesAre
        <4>2. CASE j = i
          BY <4>1, <4>2
        <4>3. CASE j # i
          <5>1. f \in Entries(book)
            BY <1>0, <2>2, <4>1, <4>3, EntriesAre
          <5> QED
            BY <5>1
        <4> QED
          BY <4>2, <4>3
      <3>2. ASSUME NEW f \in Entries(book), f \notin old
            PROVE  f \in Entries(book')
        <4>1. PICK j \in 1 .. Len(book) : f = Entry(book[j])
          BY <1>0, EntriesAre
        <4>2. CASE j = i
          BY <3>2, <4>1, <4>2
        <4>3. CASE j # i
          BY <2>1, <2>2, <4>1, <4>3, EntriesAre
        <4> QED
          BY <4>2, <4>3
      <3>3. Entry(book'[i]) \in Entries(book')
        BY <2>1, EntriesAre
      <3>4. old \in {{}, {e}}
        OBVIOUS
      <3> HIDE DEF old, e, n
      <3>5. Entries(book') = (Entries(book) \ old) \cup {<<n, e[2]>>}
        BY <2>5, <3>1, <3>2, <3>3
      <3> QED
        BY <3>4, <3>5
    <2>8. A!Change(Entries(book'))
      BY <1>0, <2>1, <2>3, ChangeIsChange
    <2> HIDE DEF e, n
    <2>9. A!Rename(e, n)
      BY <2>3, <2>6, <2>7, <2>8 DEF A!Rename
    <2> QED
      BY <2>4, <2>5, <2>9 DEF A!Next
  <1>11. ASSUME NEW ok \in BOOLEAN, NEW t, Unpair(t, ok)
        PROVE  Step
    <2>1. book' \in Seq(Peer)
      BY <1>0, <1>11, UnpairRemoves
    <2>2. PICK id \in Ids : /\ Thinned(book', book, id)
                            /\ \E i \in 1 .. Len(book) : book[i].id = id
                            /\ revoked' = IF ok THEN revoked \cup {id} ELSE revoked
      BY <1>0, <1>11, UnpairRemoves
    <2>3. running /\ running' = running /\ limit' = limit /\ Save(ok) /\ UNCHANGED startVars
      BY <1>11 DEF Unpair
    <2>4. Entries(book') = {e \in Entries(book) : e[2] # id}
      <3>1. ASSUME NEW e \in Entries(book')
            PROVE  e \in Entries(book) /\ e[2] # id
        <4>1. PICK m \in 1 .. Len(book') : e = Entry(book'[m])
          BY <2>1, EntriesAre
        <4>2. PICK i \in 1 .. Len(book) : book'[m] = book[i] /\ book[i].id # id
          BY <1>0, <2>1, <2>2, ThinnedFrom
        <4>3. Entry(book[i]) \in Entries(book)
          BY <1>0, EntriesAre
        <4> QED
          BY <4>1, <4>2, <4>3 DEF Entry
      <3>2. ASSUME NEW e \in Entries(book), e[2] # id
            PROVE  e \in Entries(book')
        <4>1. PICK i \in 1 .. Len(book) : e = Entry(book[i])
          BY <1>0, EntriesAre
        <4>2. book[i].id # id
          BY <3>2, <4>1 DEF Entry
        <4>3. \E m \in 1 .. Len(book') : book'[m] = book[i]
          BY <2>2, <4>2 DEF Thinned
        <4> QED
          BY <2>1, <4>1, <4>3, EntriesAre
      <3> QED
        BY <3>1, <3>2
    <2>5. \E e \in Entries(book) : e[2] = id
      BY <1>0, <2>2, EntriesAre DEF Entry
    <2>6. /\ A!Change(Entries(book'))
          /\ ok => Entries(Trusted)' = Entries(book)'
          /\ ~ok => Entries(Trusted)' = Entries(Trusted)
      BY <1>0, <2>1, <2>3, ChangeIsChange
    <2>7. A!Remove(id)
      BY <2>2, <2>4, <2>5, <2>6 DEF A!Remove
    <2> QED
      BY <2>7 DEF A!Next
  <1>12. ASSUME NEW ok \in BOOLEAN,
                (\E l \in Limits : SetLimit(l, ok)) \/ SetOther(ok) \/ Reset(ok)
         PROVE  Step
    <2>1. /\ running /\ running' = running /\ Save(ok) /\ UNCHANGED startVars
          /\ book' = book /\ limit' \in Limits /\ revoked' = revoked
      BY <1>0, <1>12, LimitAssumption DEF SetLimit, SetOther, Reset
    <2>2. A!Change(Entries(book'))
      BY <1>0, <2>1, ChangeIsChange
    <2> QED
      BY <2>1, <2>2 DEF A!Save, A!Next
  <1> QED
    BY <1>1, <1>3, <1>4, <1>5, <1>6, <1>7, <1>8, <1>9, <1>10, <1>11, <1>12, StepCases

(* The trusted peers of a daemon are an AddressBook: pairings, renames and *)
(* unpairings change one name or one endpoint, in memory and on the disk,  *)
(* or in memory alone, and never give a name of one endpoint to another;   *)
(* what a start brings back was on the disk when it read it.               *)
THEOREM ProfileImplementsAddressBook == Spec => ImplementsAddressBook
  <1>1. Init => A!Init
    <2> SUFFICES ASSUME Init
                 PROVE  A!Init
      OBVIOUS
    <2>1. /\ running = FALSE /\ book = <<>> /\ Trusted = <<>> /\ revoked = {}
          /\ \A n \in Starters : stage[n] \notin Underway
      BY DEF Init, Trusted, Underway
    <2>2. InHands = {}
      BY <2>1 DEF InHands
    <2> QED
      BY <2>1, <2>2, NoEntries DEF A!Init
  <1>2. TypeInv /\ [Next]_vars =>
          [A!Next]_<<running, Entries(book), Entries(Trusted), revoked, InHands>>
    BY RefinementStep
  <1> QED
    BY <1>1, <1>2, TypeInvariant, PTL
    DEF Spec, ImplementsAddressBook, A!Spec, A!vars

(* No operation, start or stop hands a name over: an alias looked up before *)
(* a step and used after it is of the same endpoint or of none.             *)
NameStays ==
  [][\A i \in DOMAIN book, j \in DOMAIN book' :
       SameText(book[i].alias, book'[j].alias) => book[i].id = book'[j].id]_vars

(* The names of the trusted peers pass from one endpoint to another only   *)
(* through a moment at which nobody has them: what the book promises of    *)
(* every change (AddressBook), and names that are of one endpoint each.    *)
THEOREM NamesStay == Spec => NameStays
  <1> DEFINE E == Entries(book)
             Stays == \A e \in E, f \in E' : e[1] = f[1] => e[2] = f[2]
             NS == \A i \in DOMAIN book, j \in DOMAIN book' :
                     SameText(book[i].alias, book'[j].alias) => book[i].id = book'[j].id
  <1>1. ASSUME TypeInv, NameInv
        PROVE  \A e, f \in E : e[1] = f[1] => e[2] = f[2]
    <2>1. book \in Seq(Peer)
      BY <1>1 DEF TypeInv, TypeOK
    <2> QED
      BY <1>1, <2>1 DEF NameInv, Distinct, SameText, Entries
  <1>2. ASSUME TypeInv, NameInv, A!Next
        PROVE  Stays
    <2>1. CASE A!Start
      <3>1. book = <<>>
        BY <1>2, <2>1 DEF A!Start, TypeInv
      <3>2. E = {}
        BY <3>1, NoEntries
      <3> QED
        BY <3>2
    <2>2. CASE A!Stop
      BY <2>2 DEF A!Stop
    <2>3. CASE A!Save
      BY <1>1, <1>2, <2>3 DEF A!Save, A!Change
    <2>4. ASSUME NEW id \in Ids, A!Remove(id) PROVE Stays
      BY <1>1, <1>2, <2>4 DEF A!Remove, A!Change
    <2>5. ASSUME NEW id \in Ids, NEW n \in Texts, A!Add(n, id) PROVE Stays
      BY <1>1, <1>2, <2>5 DEF A!Add, A!Change
    <2>6. ASSUME NEW g \in E, NEW n \in Texts, A!Rename(g, n) PROVE Stays
      BY <1>1, <1>2, <2>6 DEF A!Rename, A!Change
    <2>7. CASE A!Read \/ A!Clear \/ A!Fail
      <3>1. E' = E
        BY <2>7 DEF A!Read, A!Clear, A!Fail
      <3> QED
        BY <1>1, <1>2, <3>1
    <2> QED
      BY <1>2, <2>1, <2>2, <2>3, <2>4, <2>5, <2>6, <2>7 DEF A!Next
  <1>3. ASSUME TypeInv, NameInv, [Next]_vars
        PROVE  Stays
    BY <1>1, <1>2, <1>3, RefinementStep
  <1>4. ASSUME Stays
        PROVE  NS
    <2>1. SUFFICES ASSUME NEW i \in DOMAIN book, NEW j \in DOMAIN book',
                          Fold[book[i].alias] = Fold[book'[j].alias]
                   PROVE  book[i].id = book'[j].id
      BY DEF SameText
    <2>2. /\ <<Fold[book[i].alias], book[i].id>> \in E
          /\ <<Fold[book'[j].alias], book'[j].id>> \in E'
      BY <2>1 DEF Entries
    <2> QED
      BY <1>4, <2>1, <2>2
  <1>5. TypeInv /\ NameInv /\ [Next]_vars => [NS]_vars
    BY <1>3, <1>4
  <1>6. Init => NameInv
    BY DEF Init, NameInv, Distinct, Trusted, Defaults
  <1> QED
    BY <1>5, <1>6, TypeInvariant, NameStep, PTL DEF Spec, NameStays
=============================================================================

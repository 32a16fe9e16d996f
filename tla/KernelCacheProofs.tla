------------------------- MODULE KernelCacheProofs -------------------------
(***************************************************************************)
(* Proofs about KernelCache, for any number of caches, names, entries,     *)
(* documents, files and edits.  The type invariant, the provenance of      *)
(* what is selected and the round trip through the cache directory are     *)
(* consequences of the inductive invariant IInv.                           *)
(***************************************************************************)
EXTENDS KernelCache, TLAPS

-----------------------------------------------------------------------------
(* The inductive invariant. *)

HonestMap(m, g) == \A k \in DOMAIN m : m[k].validated => <<k, m[k].best>> \in g

\* Validated entries are honest wherever they are: in a cache, in a document
\* that is being loaded, and on disk.
Honest ==
    /\ \A c \in Caches : HonestMap(db[c], gated)
    /\ \A c \in Caches : text[c].state = "whole" => HonestMap(text[c].map, gated)
    /\ file.tuning.state = "whole" => HonestMap(file.tuning.map, gated)

\* What was saved is what the files hold, and nobody is about to change them.
SavedOnDisk ==
    saved.state = "whole" =>
        /\ \A c \in Caches : ~Persisting(c)
        /\ file.tuning = Whole(saved.map.db)
        /\ file.binaries = Whole(SerializeBinaries(saved.map.db, saved.map.bins))

\* Only a writer persists, and when it comes to binaries.json the other file
\* holds its database.
TuningWritten ==
    \A c \in Caches :
        /\ Persisting(c) => c \in Writers
        /\ pc[c] \in {"between", "binaries"} => file.tuning = Whole(db[c])

IInv == TypeOK /\ Honest /\ SavedOnDisk /\ TuningWritten

-----------------------------------------------------------------------------
(* Partial maps and documents. *)

\* The empty map is a partial map.
LEMMA EmptyMap ==
    ASSUME NEW D, NEW V
    PROVE  Empty \in Maps(D, V) /\ DOMAIN Empty = {}
<1>1. Empty \in [{} -> V]
  BY DEF Empty
<1>2. {} \in SUBSET D
  OBVIOUS
<1> QED BY <1>1, <1>2 DEF Maps, Empty

\* A partial map is a function on its domain.
LEMMA MapDomain ==
    ASSUME NEW D, NEW V, NEW m \in Maps(D, V)
    PROVE  /\ DOMAIN m \subseteq D
           /\ \A x \in DOMAIN m : m[x] \in V
           /\ m = [x \in DOMAIN m |-> m[x]]
BY DEF Maps

\* A function from a subset of D to V is a partial map.
LEMMA MapIntro ==
    ASSUME NEW D, NEW V, NEW S \in SUBSET D, NEW m \in [S -> V]
    PROVE  m \in Maps(D, V)
BY DEF Maps

\* Put's assignment to a partial map gives a partial map.
LEMMA SetMap ==
    ASSUME NEW D, NEW V, NEW m \in Maps(D, V), NEW k \in D, NEW v \in V
    PROVE  Set(m, k, v) \in Maps(D, V)
<1>1. Set(m, k, v) \in [DOMAIN m \cup {k} -> V]
  BY MapDomain DEF Set
<1>2. DOMAIN m \cup {k} \in SUBSET D
  BY MapDomain
<1> QED BY <1>1, <1>2, MapIntro

\* Dropping keys of a partial map gives a partial map.
LEMMA SubMap ==
    ASSUME NEW D, NEW V, NEW m \in Maps(D, V), NEW S \in SUBSET DOMAIN m
    PROVE  [x \in S |-> m[x]] \in Maps(D, V)
<1>1. [x \in S |-> m[x]] \in [S -> V]
  BY MapDomain
<1>2. S \in SUBSET D
  BY MapDomain
<1> QED BY <1>1, <1>2, MapIntro

\* The kinds of documents.
LEMMA DocCases ==
    ASSUME NEW M, NEW d \in Docs(M)
    PROVE  /\ d.state = "whole" => d.map \in M /\ d = Whole(d.map)
           /\ d.state # "whole" => d \in {Missing, Torn}
BY DEF Docs, Missing, Torn, Whole

\* The three forms of a document are told apart by their state.
LEMMA DocIntro ==
    ASSUME NEW M
    PROVE  /\ Missing \in Docs(M) /\ Missing.state # "whole"
           /\ Torn \in Docs(M) /\ Torn.state # "whole"
           /\ \A m \in M : /\ Whole(m) \in Docs(M)
                           /\ Whole(m).state = "whole" /\ Whole(m).map = m
BY DEF Docs, Missing, Torn, Whole

\* What is written to binaries.json.
LEMMA SerializeType ==
    ASSUME NEW d \in DbMap, NEW b \in BinMap
    PROVE  SerializeBinaries(d, b) \in Maps(Key, Binary)
<1> DEFINE S == {x \in DOMAIN d : FormatKey(x) \in DOMAIN b}
<1>1. S \in SUBSET Key
  BY MapDomain DEF DbMap
<1>2. SerializeBinaries(d, b) \in [S -> Binary]
  BY MapDomain DEF SerializeBinaries, BinMap
<1> QED BY <1>1, <1>2, MapIntro

\* What LoadPersisted makes of binaries.json.
LEMMA ParseType ==
    ASSUME NEW m \in Maps(Key, Binary)
    PROVE  ParseBinaries(Whole(m)) \in BinMap
<1> DEFINE S == {FormatKey(k) : k \in DOMAIN m}
<1>1. S \in SUBSET FormattedKey
  BY MapDomain DEF FormattedKey
<1>2. ASSUME NEW f \in S
      PROVE  m[CHOOSE k \in DOMAIN m : FormatKey(k) = f] \in Binary
  <2>1. (CHOOSE k \in DOMAIN m : FormatKey(k) = f) \in DOMAIN m
    OBVIOUS
  <2> QED BY <2>1, MapDomain
<1>3. ParseBinaries(Whole(m)) \in [S -> Binary]
  BY <1>2 DEF ParseBinaries, Whole
<1> QED BY <1>1, <1>3, MapIntro DEF BinMap

-----------------------------------------------------------------------------
(* Every action preserves the invariant. *)

\* A new cache over an empty directory satisfies the invariant.
LEMMA InitIInv == Init => IInv
<1> SUFFICES ASSUME Init PROVE IInv
  OBVIOUS
<1>1. TypeOK
  BY EmptyMap, DocIntro, KernelCacheAssumption DEF Init, TypeOK, DbMap, BinMap
<1>2. Honest
  BY EmptyMap, DocIntro DEF Init, Honest, HonestMap
<1>3. SavedOnDisk
  BY DocIntro DEF Init, SavedOnDisk
<1>4. TuningWritten
  BY DEF Init, TuningWritten, Persisting
<1> QED BY <1>1, <1>2, <1>3, <1>4 DEF IInv

\* Put (AmdTuningDb::Put) preserves the invariant: a validated entry is gated.
LEMMA PutIInv ==
    ASSUME IInv, NEW c \in Writers, NEW k \in Key, NEW e \in Entries, Put(c, k, e)
    PROVE  IInv'
<1> c \in Caches
  BY DEF Caches
<1>1. TypeOK /\ db[c] \in Maps(Key, Entries)
  BY DEF IInv, TypeOK, DbMap
<1>2. db'[c] = Set(db[c], k, e) /\ \A o \in Caches \ {c} : db'[o] = db[o]
  BY <1>1 DEF Put, TypeOK
<1>3. TypeOK'
  <2>1. edits' \in 0..MaxEdits
    BY <1>1, KernelCacheAssumption DEF Put, Edit, TypeOK
  <2>2. db' \in [Caches -> DbMap]
    BY <1>1, SetMap DEF Put, TypeOK, DbMap
  <2> QED BY <1>1, <2>1, <2>2 DEF Put, TypeOK
<1>4. gated \subseteq gated' /\ (e.validated => <<k, e.best>> \in gated')
  BY DEF Put
<1>5. Honest'
  <2>1. HonestMap(Set(db[c], k, e), gated')
    <3>1. /\ DOMAIN Set(db[c], k, e) = DOMAIN db[c] \cup {k}
          /\ \A x \in DOMAIN db[c] \cup {k} :
                Set(db[c], k, e)[x] = IF x = k THEN e ELSE db[c][x]
      BY DEF Set
    <3>2. HonestMap(db[c], gated)
      BY DEF IInv, Honest
    <3> QED BY <1>4, <3>1, <3>2 DEF HonestMap
  <2>2. \A o \in Caches : HonestMap(db'[o], gated')
    BY <1>2, <1>4, <2>1 DEF IInv, Honest, HonestMap
  <2> QED BY <1>4, <2>2 DEF IInv, Honest, HonestMap, Put
<1>6. SavedOnDisk' /\ TuningWritten'
  BY <1>2 DEF IInv, SavedOnDisk, TuningWritten, Persisting, Put
<1> QED BY <1>3, <1>5, <1>6 DEF IInv

\* LoadTuningCache preserves the invariant: so is every entry of the document.
LEMMA LoadTuningCacheIInv ==
    ASSUME IInv, NEW c \in Writers, NEW d \in TuningDocs, LoadTuningCache(c, d)
    PROVE  IInv'
<1> c \in Caches
  BY DEF Caches
<1>1. TypeOK /\ d \in DbMap
  BY KernelCacheAssumption DEF IInv, DbMap
<1>2. db'[c] = d /\ \A o \in Caches \ {c} : db'[o] = db[o]
  BY <1>1 DEF LoadTuningCache, TypeOK
<1>3. TypeOK'
  <2>1. edits' \in 0..MaxEdits
    BY <1>1, KernelCacheAssumption DEF LoadTuningCache, Edit, TypeOK
  <2> QED BY <1>1, <2>1 DEF LoadTuningCache, TypeOK
<1>4. gated \subseteq gated' /\ HonestMap(d, gated')
  BY DEF LoadTuningCache, HonestMap
<1>5. Honest'
  <2>1. \A o \in Caches : HonestMap(db'[o], gated')
    BY <1>2, <1>4 DEF IInv, Honest, HonestMap
  <2> QED BY <1>4, <2>1 DEF IInv, Honest, HonestMap, LoadTuningCache
<1>6. SavedOnDisk' /\ TuningWritten'
  BY <1>2 DEF IInv, SavedOnDisk, TuningWritten, Persisting, LoadTuningCache
<1> QED BY <1>3, <1>5, <1>6 DEF IInv

\* PutBinary preserves the invariant.
LEMMA PutBinaryIInv ==
    ASSUME IInv, NEW c \in Writers, NEW k \in Key, NEW b \in Binary,
           PutBinary(c, k, b)
    PROVE  IInv'
<1> c \in Caches
  BY DEF Caches
<1>1. TypeOK /\ bins[c] \in Maps(FormattedKey, Binary) /\ FormatKey(k) \in FormattedKey
  BY DEF IInv, TypeOK, BinMap, FormattedKey
<1>2. TypeOK'
  <2>1. edits' \in 0..MaxEdits
    BY <1>1, KernelCacheAssumption DEF PutBinary, Edit, TypeOK
  <2>2. Set(bins[c], FormatKey(k), b) \in BinMap
    BY <1>1, SetMap DEF BinMap
  <2> QED BY <1>1, <2>1, <2>2 DEF PutBinary, TypeOK
<1>3. Honest' /\ SavedOnDisk' /\ TuningWritten'
  BY DEF IInv, Honest, SavedOnDisk, TuningWritten, Persisting, PutBinary
<1> QED BY <1>2, <1>3 DEF IInv

\* A change of a .so file preserves the invariant.
LEMMA BuildIInv ==
    ASSUME IInv, NEW p \in Paths, NEW h \in Hashes \cup {NoFile}, Build(p, h)
    PROVE  IInv'
<1>1. TypeOK'
  BY KernelCacheAssumption DEF IInv, Build, Edit, TypeOK
<1>2. Honest' /\ SavedOnDisk' /\ TuningWritten'
  BY DEF IInv, Honest, SavedOnDisk, TuningWritten, Persisting, Build
<1> QED BY <1>1, <1>2 DEF IInv

\* InvalidateStale preserves the invariant: it only takes entries away.
LEMMA InvalidateStaleIInv ==
    ASSUME IInv, NEW c \in Caches, InvalidateStale(c)
    PROVE  IInv'
<1> DEFINE stale == {f \in DOMAIN bins[c] : IsStale(bins[c][f])}
           kept == {x \in DOMAIN db[c] : FormatKey(x) \notin stale}
<1>1. TypeOK /\ db[c] \in DbMap /\ bins[c] \in BinMap
  BY DEF IInv, TypeOK
<1>2. /\ db' = [db EXCEPT ![c] = [k \in kept |-> db[c][k]]]
      /\ bins' = [bins EXCEPT ![c] = [f \in DOMAIN bins[c] \ stale |-> bins[c][f]]]
      /\ pc[c] = "idle"
      /\ UNCHANGED <<pc, text, file, so, edits, gated, saved>>
  BY DEF InvalidateStale
<1>3. [k \in kept |-> db[c][k]] \in DbMap
  <2>1. kept \in SUBSET DOMAIN db[c]
    OBVIOUS
  <2> QED BY <1>1, <2>1, SubMap DEF DbMap
<1>4. [f \in DOMAIN bins[c] \ stale |-> bins[c][f]] \in BinMap
  <2>1. DOMAIN bins[c] \ stale \in SUBSET DOMAIN bins[c]
    OBVIOUS
  <2> QED BY <1>1, <2>1, SubMap DEF BinMap
<1> HIDE DEF stale
<1>5. TypeOK'
  BY <1>1, <1>2, <1>3, <1>4 DEF TypeOK
<1>6. db'[c] = [k \in kept |-> db[c][k]] /\ \A o \in Caches \ {c} : db'[o] = db[o]
  BY <1>1, <1>2 DEF TypeOK
<1>7. HonestMap(db[c], gated) => HonestMap([k \in kept |-> db[c][k]], gated)
  BY DEF HonestMap
<1>8. Honest'
  <2>1. \A o \in Caches : HonestMap(db'[o], gated)
    BY <1>6, <1>7 DEF IInv, Honest
  <2> QED BY <1>2, <2>1 DEF IInv, Honest
<1>9. SavedOnDisk' /\ TuningWritten'
  BY <1>2, <1>6 DEF IInv, SavedOnDisk, TuningWritten, Persisting
<1> QED BY <1>5, <1>8, <1>9 DEF IInv

\* Every step of Persist preserves the invariant; with one writer, the database
\* that the last step pairs with the binaries is the one on disk.
LEMMA PersistIInv ==
    ASSUME IInv, NEW c \in Writers, Persist(c)
    PROVE  IInv'
<1> c \in Caches
  BY DEF Caches
<1> USE DEF IInv
<1>a. /\ TypeOK
      /\ \A o \in Caches : Persisting(o) => o = c
  BY OneWriter DEF TuningWritten
<1>1. CASE OpenTuning(c)
  <2>1. TypeOK'
    BY <1>1, <1>a, DocIntro DEF OpenTuning, TypeOK
  <2>2. Honest'
    BY <1>1, DocIntro DEF OpenTuning, Honest, TypeOK
  <2>3. SavedOnDisk'
    BY <1>1, DocIntro DEF OpenTuning, SavedOnDisk
  <2>4. TuningWritten'
    BY <1>1, <1>a DEF OpenTuning, TuningWritten, Persisting, TypeOK
  <2> QED BY <2>1, <2>2, <2>3, <2>4
<1>2. CASE WriteTuning(c)
  <2>1. TypeOK'
    BY <1>2, <1>a, DocIntro DEF WriteTuning, TypeOK
  <2>2. file'.tuning = Whole(db[c]) /\ Whole(db[c]).map = db[c]
    BY <1>2, <1>a DEF WriteTuning, TypeOK, Whole
  <2>3. Honest'
    BY <1>2, <2>2 DEF WriteTuning, Honest
  <2>4. SavedOnDisk'
    BY <1>2 DEF WriteTuning, SavedOnDisk, Persisting
  <2>5. TuningWritten'
    BY <1>2, <1>a, <2>2 DEF WriteTuning, TuningWritten, Persisting, TypeOK
  <2> QED BY <2>1, <2>3, <2>4, <2>5
<1>3. CASE OpenBinaries(c)
  <2>1. TypeOK'
    BY <1>3, <1>a, DocIntro DEF OpenBinaries, TypeOK
  <2>2. file'.tuning = file.tuning
    BY <1>3, <1>a DEF OpenBinaries, TypeOK
  <2>3. Honest'
    BY <1>3, <2>2 DEF OpenBinaries, Honest
  <2>4. SavedOnDisk'
    BY <1>3 DEF OpenBinaries, SavedOnDisk, Persisting
  <2>5. TuningWritten'
    BY <1>3, <1>a, <2>2 DEF OpenBinaries, TuningWritten, Persisting, TypeOK
  <2> QED BY <2>1, <2>3, <2>4, <2>5
<1>4. CASE WriteBinaries(c)
  <2>0. db[c] \in DbMap /\ bins[c] \in BinMap
    BY <1>a DEF TypeOK
  <2>1. TypeOK'
    BY <1>4, <1>a, <2>0, DocIntro, SerializeType DEF WriteBinaries, TypeOK
  <2>2. file'.tuning = file.tuning
    BY <1>4, <1>a DEF WriteBinaries, TypeOK
  <2>3. Honest'
    BY <1>4, <2>2 DEF WriteBinaries, Honest
  <2>4. \A o \in Caches : pc'[o] \notin {"tuning", "between", "binaries"}
    BY <1>4, <1>a DEF WriteBinaries, Persisting, TypeOK
  <2>5. SavedOnDisk'
    <3>1. /\ saved'.map.db = db[c] /\ saved'.map.bins = bins[c]
          /\ file'.binaries = Whole(SerializeBinaries(db[c], bins[c]))
      BY <1>4, <1>a DEF WriteBinaries, Whole, TypeOK
    <3>2. file.tuning = Whole(db[c])
      BY <1>4 DEF WriteBinaries, TuningWritten
    <3> QED BY <2>2, <2>4, <3>1, <3>2 DEF SavedOnDisk, Persisting
  <2>6. TuningWritten'
    BY <2>4 DEF TuningWritten, Persisting
  <2> QED BY <2>1, <2>3, <2>5, <2>6
<1>5. CASE PersistFails(c)
  <2>1. TypeOK'
    BY <1>5, <1>a DEF PersistFails, TypeOK
  <2>2. Honest' /\ SavedOnDisk' /\ TuningWritten'
    BY <1>5, <1>a DEF PersistFails, Honest, SavedOnDisk, TuningWritten, Persisting, TypeOK
  <2> QED BY <2>1, <2>2
<1> QED BY <1>1, <1>2, <1>3, <1>4, <1>5 DEF Persist

\* LoadPersisted preserves the invariant: what it installs was on disk.
LEMMA LoadPersistedIInv ==
    ASSUME IInv, NEW c \in Readers, LoadPersisted(c)
    PROVE  IInv'
<1> c \in Caches
  BY DEF Caches
<1> USE DEF IInv
<1>1. CASE ReadTuning(c)
  <2>1. TypeOK'
    BY <1>1 DEF ReadTuning, TypeOK
  <2>2. Honest'
    BY <1>1 DEF ReadTuning, Honest, TypeOK
  <2>3. SavedOnDisk' /\ TuningWritten'
    BY <1>1 DEF ReadTuning, SavedOnDisk, TuningWritten, Persisting, TypeOK
  <2> QED BY <2>1, <2>2, <2>3
<1>2. CASE Load(c)
  <2>0. /\ text[c] \in Docs(DbMap)
        /\ file.binaries \in Docs(Maps(Key, Binary))
        /\ TypeOK
    BY DEF TypeOK
  <2>1. CASE Parses(text[c], file.binaries)
    <3>1. /\ text[c].state = "whole" /\ text[c].map \in DbMap
          /\ ParseBinaries(file.binaries) \in BinMap
      BY <2>0, <2>1, DocCases, ParseType DEF Parses
    <3>2. /\ db' = [db EXCEPT ![c] = text[c].map]
          /\ bins' = [bins EXCEPT ![c] = ParseBinaries(file.binaries)]
          /\ pc[c] = "load"
          /\ pc' = [pc EXCEPT ![c] = "idle"]
          /\ text' = [text EXCEPT ![c] = Missing]
          /\ UNCHANGED <<file, so, edits, gated, saved>>
      BY <1>2, <2>1 DEF Load
    <3>3. TypeOK'
      BY <2>0, <3>1, <3>2, DocIntro DEF TypeOK
    <3>4. Honest'
      BY <2>0, <3>1, <3>2, DocIntro DEF Honest, TypeOK
    <3>5. SavedOnDisk' /\ TuningWritten'
      BY <2>0, <3>2 DEF SavedOnDisk, TuningWritten, Persisting, TypeOK
    <3> QED BY <3>3, <3>4, <3>5
  <2>2. CASE ~Parses(text[c], file.binaries)
    <3>1. TypeOK'
      BY <1>2, <2>0, <2>2, DocIntro DEF Load, TypeOK
    <3>2. Honest'
      BY <1>2, <2>0, <2>2, DocIntro DEF Load, Honest, TypeOK
    <3>3. SavedOnDisk' /\ TuningWritten'
      BY <1>2, <2>0, <2>2 DEF Load, SavedOnDisk, TuningWritten, Persisting, TypeOK
    <3> QED BY <3>1, <3>2, <3>3
  <2> QED BY <2>1, <2>2
<1> QED BY <1>1, <1>2 DEF LoadPersisted

\* The death of a process, wherever it is, preserves the invariant.
LEMMA CrashIInv ==
    ASSUME IInv, NEW c \in Caches, Crash(c)
    PROVE  IInv'
<1> USE DEF IInv
<1>1. TypeOK'
  BY EmptyMap, DocIntro DEF Crash, TypeOK, DbMap, BinMap
<1>2. Honest'
  BY EmptyMap, DocIntro DEF Crash, Honest, HonestMap, TypeOK
<1>3. SavedOnDisk' /\ TuningWritten'
  BY DEF Crash, SavedOnDisk, TuningWritten, Persisting, TypeOK
<1> QED BY <1>1, <1>2, <1>3

\* Every step preserves the invariant.
LEMMA NextIInv == IInv /\ [Next]_vars => IInv'
<1> SUFFICES ASSUME IInv, [Next]_vars PROVE IInv'
  OBVIOUS
<1>1. CASE UNCHANGED vars
  BY <1>1 DEF vars, IInv, TypeOK, Honest, SavedOnDisk, TuningWritten, Persisting
<1>2. ASSUME NEW c \in Writers, NEW k \in Key, NEW e \in Entries, Put(c, k, e)
      PROVE  IInv'
  BY <1>2, PutIInv
<1>3. ASSUME NEW c \in Writers, NEW d \in TuningDocs, LoadTuningCache(c, d)
      PROVE  IInv'
  BY <1>3, LoadTuningCacheIInv
<1>4. ASSUME NEW c \in Writers, NEW k \in Key, NEW b \in Binary, PutBinary(c, k, b)
      PROVE  IInv'
  BY <1>4, PutBinaryIInv
<1>5. ASSUME NEW c \in Writers, Persist(c) PROVE IInv'
  BY <1>5, PersistIInv
<1>6. ASSUME NEW c \in Readers, LoadPersisted(c) PROVE IInv'
  BY <1>6, LoadPersistedIInv
<1>7. ASSUME NEW c \in Caches, InvalidateStale(c) PROVE IInv'
  BY <1>7, InvalidateStaleIInv
<1>8. ASSUME NEW c \in Caches, Crash(c) PROVE IInv'
  BY <1>8, CrashIInv
<1>9. ASSUME NEW p \in Paths, NEW h \in Hashes \cup {NoFile}, Build(p, h) PROVE IInv'
  BY <1>9, BuildIInv
<1> QED BY <1>1, <1>2, <1>3, <1>4, <1>5, <1>6, <1>7, <1>8, <1>9 DEF Next

\* The invariant holds in every reachable state.
LEMMA SpecIInv == Spec => []IInv
BY InitIInv, NextIInv, PTL DEF Spec

-----------------------------------------------------------------------------
(* The theorems. *)

\* Every reachable state is well typed: the maps hold entries and binaries
\* under known keys, whatever was loaded (AmdTuningDb::Parse, ParseBinaries).
THEOREM CacheTypeCorrect == Spec => []TypeOK
<1>1. IInv => TypeOK
  BY DEF IInv
<1> QED BY <1>1, SpecIInv, PTL

\* What Select serves was entered as validated for that very gpu, op and shape.
THEOREM SelectionIsGated == Spec => []SelectionWasGated
<1>1. IInv => SelectionWasGated
  BY DEF IInv, Honest, HonestMap, SelectionWasGated, Selectable
<1> QED BY <1>1, SpecIInv, PTL

\* Persist and LoadPersisted are inverse: until the next Persist starts, the
\* directory loads and gives back the database that was saved together with
\* the binaries of its entries, whatever crashed or was edited since.
THEOREM PersistIsDurable == Spec => []PersistedLoads
<1>1. ASSUME NEW d \in DbMap, NEW b \in BinMap
      PROVE  LET w == Whole(SerializeBinaries(d, b))
                 F == {x \in DOMAIN b : \E k \in DOMAIN d : FormatKey(k) = x}
             IN  /\ Parses(Whole(d), w)
                 /\ ParseBinaries(w) = [f \in F |-> b[f]]
  <2> DEFINE s == SerializeBinaries(d, b)
             S == {x \in DOMAIN d : FormatKey(x) \in DOMAIN b}
             F == {x \in DOMAIN b : \E k \in DOMAIN d : FormatKey(k) = x}
  <2>1. /\ DOMAIN s = S
        /\ \A k \in S : s[k] = b[FormatKey(k)]
    BY DEF SerializeBinaries
  <2>2. Parses(Whole(d), Whole(s))
    BY <2>1 DEF Parses, Whole
  <2>3. {FormatKey(k) : k \in DOMAIN s} = F
    BY <2>1
  <2>4. ASSUME NEW f \in F
        PROVE  s[CHOOSE k \in DOMAIN s : FormatKey(k) = f] = b[f]
    <3>1. \E k \in DOMAIN s : FormatKey(k) = f
      BY <2>1
    <3> DEFINE k0 == CHOOSE k \in DOMAIN s : FormatKey(k) = f
    <3>2. k0 \in DOMAIN s /\ FormatKey(k0) = f
      BY <3>1
    <3> QED BY <2>1, <3>2
  <2>5. ParseBinaries(Whole(s)) = [f \in F |-> b[f]]
    <3>1. ParseBinaries(Whole(s)) =
            [f \in {FormatKey(k) : k \in DOMAIN s} |->
                s[CHOOSE k \in DOMAIN s : FormatKey(k) = f]]
      BY DEF ParseBinaries, Whole
    <3> HIDE DEF s, F
    <3> QED BY <2>3, <2>4, <3>1
  <2> QED BY <2>2, <2>5
<1>2. IInv => PersistedLoads
  <2> SUFFICES ASSUME IInv, saved.state = "whole"
               PROVE  /\ Parses(file.tuning, file.binaries)
                      /\ file.tuning.map = saved.map.db
                      /\ ParseBinaries(file.binaries) =
                            [f \in {x \in DOMAIN saved.map.bins :
                                    \E k \in DOMAIN saved.map.db : FormatKey(k) = x}
                                |-> saved.map.bins[f]]
    BY DEF PersistedLoads
  <2>1. saved.map \in [db : DbMap, bins : BinMap]
    BY DocCases DEF IInv, TypeOK
  <2>2. saved.map.db \in DbMap /\ saved.map.bins \in BinMap
    BY <2>1
  <2>3. /\ file.tuning = Whole(saved.map.db)
        /\ file.binaries = Whole(SerializeBinaries(saved.map.db, saved.map.bins))
    BY DEF IInv, SavedOnDisk
  <2>4. Whole(saved.map.db).map = saved.map.db
    BY DEF Whole
  <2> QED BY <1>1, <2>2, <2>3, <2>4
<1> QED BY <1>2, SpecIInv, PTL

\* The records of binaries.json are installed under the formatted keys of their
\* tuning entries, so a document pair that parses gives a backed cache.
LEMMA ParsedIsBacked ==
    ASSUME NEW t, NEW b, Parses(t, b)
    PROVE  Backed(t.map, ParseBinaries(b))
BY DEF Parses, ParseBinaries, Backed

\* LoadPersisted is all or nothing: a cache whose database changes while it is
\* loading has died, or got the whole database it read together with binaries
\* that all back an entry of it.
THEOREM LoadIsAllOrNothing == Spec => LoadsAllOrNothing
<1> DEFINE A == \A c \in Caches :
                   db'[c] # db[c] /\ pc[c] = "load" =>
                     \/ db'[c] = Empty /\ bins'[c] = Empty
                     \/ db'[c] = text[c].map /\ Backed(db'[c], bins'[c])
<1>1. ASSUME IInv, [Next]_vars PROVE [A]_vars
  <2> SUFFICES ASSUME NEW c \in Caches, db'[c] # db[c], pc[c] = "load"
               PROVE  \/ db'[c] = Empty /\ bins'[c] = Empty
                      \/ db'[c] = text[c].map /\ Backed(db'[c], bins'[c])
    OBVIOUS
  <2>1. db \in [Caches -> DbMap] /\ bins \in [Caches -> BinMap]
    BY <1>1 DEF IInv, TypeOK
  <2>2. Next
    BY <1>1 DEF vars
  <2>3. ASSUME NEW o \in Caches, Crash(o)
        PROVE  db'[c] = Empty /\ bins'[c] = Empty
    BY <2>1, <2>3 DEF Crash
  <2>4. ASSUME NEW o \in Readers, LoadPersisted(o)
        PROVE  db'[c] = text[c].map /\ Backed(db'[c], bins'[c])
    <3>1. Load(o) /\ o \in Caches
      BY <2>4 DEF LoadPersisted, ReadTuning, Caches
    <3>2. Parses(text[o], file.binaries) /\ o = c
      BY <2>1, <3>1 DEF Load
    <3>3. db'[c] = text[c].map /\ bins'[c] = ParseBinaries(file.binaries)
      BY <2>1, <3>1, <3>2 DEF Load
    <3> QED BY <3>2, <3>3, ParsedIsBacked
  <2>5. ASSUME NEW o \in Caches, InvalidateStale(o) PROVE FALSE
    BY <2>1, <2>5 DEF InvalidateStale
  <2>6. ASSUME NEW o \in Writers
        PROVE  /\ \A k \in Key, e \in Entries : ~Put(o, k, e)
               /\ \A d \in TuningDocs : ~LoadTuningCache(o, d)
    BY <2>1 DEF Put, LoadTuningCache, Caches
  <2>7. ASSUME NEW o \in Writers
        PROVE  (\A k \in Key, b \in Binary : ~PutBinary(o, k, b)) /\ ~Persist(o)
    BY DEF PutBinary, Persist, OpenTuning, WriteTuning, OpenBinaries,
           WriteBinaries, PersistFails
  <2>8. \A p \in Paths, h \in Hashes \cup {NoFile} : ~Build(p, h)
    BY DEF Build
  <2> QED BY <2>2, <2>3, <2>4, <2>5, <2>6, <2>7, <2>8 DEF Next
<1> QED BY <1>1, SpecIInv, PTL DEF Spec, LoadsAllOrNothing

\* InvalidateStale forgets a binary exactly if the disk contradicts it (the .so
\* is gone or has another hash), and an entry exactly if its binary is one of
\* those.
THEOREM InvalidationIsExact == Spec => InvalidatesExactly
<1> DEFINE Exact(c) ==
             /\ \A f \in DOMAIN bins[c] :
                   f \in DOMAIN bins'[c] <=>
                       so[bins[c][f].so_path] = bins[c][f].kernel_hash
             /\ \A k \in DOMAIN db[c] :
                   k \notin DOMAIN db'[c] <=>
                       FormatKey(k) \in DOMAIN bins[c] \ DOMAIN bins'[c]
<1>1. ASSUME IInv, NEW c \in Caches, InvalidateStale(c) PROVE Exact(c)
  <2> DEFINE stale == {f \in DOMAIN bins[c] : IsStale(bins[c][f])}
             kept == {x \in DOMAIN db[c] : FormatKey(x) \notin stale}
  <2>1. db \in [Caches -> DbMap] /\ bins \in [Caches -> BinMap] /\ bins[c] \in BinMap
    BY <1>1 DEF IInv, TypeOK
  <2>2. ASSUME NEW f \in DOMAIN bins[c]
        PROVE  f \in stale <=> so[bins[c][f].so_path] # bins[c][f].kernel_hash
    <3>1. bins[c][f] \in Binary
      BY <2>1, MapDomain DEF BinMap
    <3>2. bins[c][f].kernel_hash # NoFile
      BY <3>1, KernelCacheAssumption DEF Binary
    <3> QED BY <3>2 DEF IsStale
  <2>3. /\ db' = [db EXCEPT ![c] = [k \in kept |-> db[c][k]]]
        /\ bins' = [bins EXCEPT ![c] = [f \in DOMAIN bins[c] \ stale |-> bins[c][f]]]
    BY <1>1 DEF InvalidateStale
  <2> HIDE DEF stale
  <2>4. DOMAIN db'[c] = kept /\ DOMAIN bins'[c] = DOMAIN bins[c] \ stale
    BY <2>1, <2>3
  <2>5. stale \subseteq DOMAIN bins[c]
    BY DEF stale
  <2> QED BY <2>2, <2>4, <2>5
<1>2. ASSUME IInv, [Next]_vars
      PROVE  [\A c \in Caches : InvalidateStale(c) => Exact(c)]_vars
  BY <1>1, <1>2
<1> QED BY <1>2, SpecIInv, PTL DEF Spec, InvalidatesExactly
=============================================================================

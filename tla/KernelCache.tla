---------------------------- MODULE KernelCache ----------------------------
(***************************************************************************)
(* The runtime's kernel cache (KernelCache.cpp) over the tuning database   *)
(* (AmdTuningDb.cpp): a map from (gpu, op, shape) to the best tuned        *)
(* configuration, a parallel map from formatted keys to the compiled       *)
(* binaries, and the two files of a cache directory they are persisted in. *)
(* Several caches (the tuner's and the server's processes) may share the   *)
(* directory; a process may die at any point.                              *)
(*                                                                         *)
(* A key is [gpu, op]; op stands for the operator together with its shape. *)
(* A name is a sequence of path segments.  A tuning document is the        *)
(* mapping it parses to (the last entry wins for a repeated key), or it    *)
(* is torn.  A file's content is identified with its 64-bit hash.          *)
(***************************************************************************)
EXTENDS Integers, Sequences

CONSTANTS
    Writers, Readers,  \* the caches that are filled and that load
    Gpus, Ops,         \* the names
    Entries,           \* tuning entries: [best, validated]
    TuningDocs,        \* the tuning documents handed to LoadTuningCache
    Paths, Hashes,     \* .so files and what they may contain
    MaxEdits           \* bound: edits of the caches and of the .so files

VARIABLES
    db,     \* KernelCache::db_ of every cache: entries by key
    bins,   \* KernelCache::binaries_ of every cache: binaries by formatted key
    pc,     \* where a cache is in Persist or LoadPersisted
    text,   \* the content of tuning_db.json that LoadPersisted has read
    file,   \* tuning_db.json and binaries.json in the cache directory
    so,     \* the compiled .so files on disk
    edits,  \* number of edits made
    gated,  \* history: the (key, configuration) pairs ever entered as validated
    saved   \* history: what the last Persist saved, if it ended and none began

vars == <<db, bins, pc, text, file, so, edits, gated, saved>>

Caches == Writers \cup Readers
Key == [gpu : Gpus, op : Ops]
Binary == [so_path : Paths, kernel_hash : Hashes]

\* The empty map, the partial maps, a document that is not there, one that was
\* cut short, a complete one, and the content of a file that does not exist.
Empty == [x \in {} |-> x]
Maps(D, V) == UNION {[S -> V] : S \in SUBSET D}
Missing == [state |-> "missing"]
Torn == [state |-> "torn"]
Whole(m) == [state |-> "whole", map |-> m]
Docs(M) == {Missing, Torn} \cup {Whole(m) : m \in M}
NoFile == "no file"

FormatKey(k) == k.gpu \o k.op

ASSUME KernelCacheAssumption ==
    /\ MaxEdits \in Nat
    /\ Gpus \subseteq Seq(STRING) \ {<<>>}
    /\ Ops \subseteq Seq(STRING)
    /\ NoFile \notin Hashes
    /\ \A e \in Entries : e.validated \in BOOLEAN
    /\ TuningDocs \subseteq Maps(Key, Entries)

\* No two keys in use are formatted alike (a '/' in a name could make them so).
ASSUME FormatKeyInjective ==
    \A k1, k2 \in Key : FormatKey(k1) = FormatKey(k2) => k1 = k2

\* At most one process persists: two that write one file at the same time would
\* mix their bytes, which is not modelled.
ASSUME OneWriter == \A c, d \in Writers : c = d

-----------------------------------------------------------------------------
(* The cache. *)

Set(m, k, v) == [x \in DOMAIN m \cup {k} |-> IF x = k THEN v ELSE m[x]]

\* Select serves an entry only if it is there and validated.
Selectable(c, k) == k \in DOMAIN db[c] /\ db[c][k].validated

Init ==
    /\ db = [c \in Caches |-> Empty]
    /\ bins = [c \in Caches |-> Empty]
    /\ pc = [c \in Caches |-> "idle"]
    /\ text = [c \in Caches |-> Missing]
    /\ file = [tuning |-> Missing, binaries |-> Missing]
    /\ so = [p \in Paths |-> NoFile]
    /\ edits = 0
    /\ gated = {}
    /\ saved = Missing

Edit == edits < MaxEdits /\ edits' = edits + 1

\* Mutant: a new entry inherits the validated flag of the one it replaces.
Put_KeepsFlag(c, k, e) ==
    /\ Edit
    /\ pc[c] = "idle"
    /\ db' = [db EXCEPT ![c] = Set(@, k,
                 [e EXCEPT !.validated = @ \/ Selectable(c, k)])]
    /\ gated' = IF e.validated THEN gated \cup {<<k, e.best>>} ELSE gated
    /\ UNCHANGED <<bins, pc, text, file, so, saved>>

\* AmdTuningDb::Put: an entry replaces the one with its key.  The binary
\* recorded for the key, if any, is kept.
Put(c, k, e) ==
    /\ Edit
    /\ pc[c] = "idle"
    /\ db' = [db EXCEPT ![c] = Set(@, k, e)]
    /\ gated' = IF e.validated THEN gated \cup {<<k, e.best>>} ELSE gated
    /\ UNCHANGED <<bins, pc, text, file, so, saved>>

\* LoadTuningCache of a document that parses: it replaces the database and
\* leaves the binaries alone.  (A malformed document changes nothing.)
LoadTuningCache(c, d) ==
    /\ Edit
    /\ pc[c] = "idle"
    /\ db' = [db EXCEPT ![c] = d]
    /\ gated' = gated \cup
          {<<k, d[k].best>> : k \in {x \in DOMAIN d : d[x].validated}}
    /\ UNCHANGED <<bins, pc, text, file, so, saved>>

\* Mutant: the binaries of all GPUs share one key per op.
PutBinary_AnyGpu(c, k, b) ==
    /\ Edit
    /\ pc[c] = "idle"
    /\ k \in DOMAIN db[c]
    /\ bins' = [bins EXCEPT ![c] = Set(@, k.op, b)]
    /\ UNCHANGED <<db, pc, text, file, so, gated, saved>>

\* A binary is recorded only for a key that has an entry.
PutBinary(c, k, b) ==
    /\ Edit
    /\ pc[c] = "idle"
    /\ k \in DOMAIN db[c]
    /\ bins' = [bins EXCEPT ![c] = Set(@, FormatKey(k), b)]
    /\ UNCHANGED <<db, pc, text, file, so, gated, saved>>

\* The build rewrites or removes a .so file.
Build(p, h) ==
    /\ Edit
    /\ so[p] # h
    /\ so' = [so EXCEPT ![p] = h]
    /\ UNCHANGED <<db, bins, pc, text, file, gated, saved>>

\* HashFile fails, or finds another hash than the recorded one.
IsStale(b) == so[b.so_path] = NoFile \/ so[b.so_path] # b.kernel_hash

\* Mutant: the binary is forgotten, its tuning entry is not.
InvalidateStale_KeepsEntries(c) ==
    LET stale == {f \in DOMAIN bins[c] : IsStale(bins[c][f])}
    IN  /\ pc[c] = "idle"
        /\ stale # {}
        /\ bins' = [bins EXCEPT ![c] = [f \in DOMAIN @ \ stale |-> @[f]]]
        /\ UNCHANGED <<db, pc, text, file, so, edits, gated, saved>>

InvalidateStale(c) ==
    LET stale == {f \in DOMAIN bins[c] : IsStale(bins[c][f])}
    IN  /\ pc[c] = "idle"
        /\ stale # {}
        /\ db' = [db EXCEPT ![c] =
                     [k \in {x \in DOMAIN @ : FormatKey(x) \notin stale} |-> @[k]]]
        /\ bins' = [bins EXCEPT ![c] = [f \in DOMAIN @ \ stale |-> @[f]]]
        /\ UNCHANGED <<pc, text, file, so, edits, gated, saved>>

-----------------------------------------------------------------------------
(* Persist: each of the two files is truncated and then written; either    *)
(* write may fail.                                                         *)

\* Mutant: every recorded binary is written, whether it backs an entry or not.
SerializeBinaries_All(d, b) ==
    [k \in {x \in Key : FormatKey(x) \in DOMAIN b} |-> b[FormatKey(k)]]

\* Only binaries that back an entry of the database are written.
SerializeBinaries(d, b) ==
    [k \in {x \in DOMAIN d : FormatKey(x) \in DOMAIN b} |-> b[FormatKey(k)]]

Persisting(c) == pc[c] \in {"tuning", "between", "binaries"}

OpenTuning(c) ==
    /\ pc[c] = "idle"
    /\ pc' = [pc EXCEPT ![c] = "tuning"]
    /\ file' = [file EXCEPT !.tuning = Torn]
    /\ saved' = Missing
    /\ UNCHANGED <<db, bins, text, so, edits, gated>>

WriteTuning(c) ==
    /\ pc[c] = "tuning"
    /\ pc' = [pc EXCEPT ![c] = "between"]
    /\ file' = [file EXCEPT !.tuning = Whole(db[c])]
    /\ UNCHANGED <<db, bins, text, so, edits, gated, saved>>

OpenBinaries(c) ==
    /\ pc[c] = "between"
    /\ pc' = [pc EXCEPT ![c] = "binaries"]
    /\ file' = [file EXCEPT !.binaries = Torn]
    /\ UNCHANGED <<db, bins, text, so, edits, gated, saved>>

WriteBinaries(c) ==
    /\ pc[c] = "binaries"
    /\ pc' = [pc EXCEPT ![c] = "idle"]
    /\ file' = [file EXCEPT !.binaries = Whole(SerializeBinaries(db[c], bins[c]))]
    /\ saved' = Whole([db |-> db[c], bins |-> bins[c]])
    /\ UNCHANGED <<db, bins, text, so, edits, gated>>

\* A write fails (or a file cannot be opened): Persist returns FALSE.
PersistFails(c) ==
    /\ Persisting(c)
    /\ pc' = [pc EXCEPT ![c] = "idle"]
    /\ UNCHANGED <<db, bins, text, file, so, edits, gated, saved>>

-----------------------------------------------------------------------------
(* LoadPersisted: read both files, parse both into temporaries, commit. *)

\* Mutant: the records are not checked against the tuning entries.
Parses_Unchecked(t, b) == t.state = "whole" /\ b.state = "whole"

\* Both documents parse, and every binary record has a tuning entry.
Parses(t, b) ==
    /\ t.state = "whole"
    /\ b.state = "whole"
    /\ DOMAIN b.map \subseteq DOMAIN t.map

ParseBinaries(b) ==
    [f \in {FormatKey(k) : k \in DOMAIN b.map} |->
        b.map[CHOOSE k \in DOMAIN b.map : FormatKey(k) = f]]

ReadTuning(c) ==
    /\ pc[c] = "idle"
    /\ file.tuning # Missing
    /\ pc' = [pc EXCEPT ![c] = "load"]
    /\ text' = [text EXCEPT ![c] = file.tuning]
    /\ UNCHANGED <<db, bins, file, so, edits, gated, saved>>

\* The rest of LoadPersisted; on an error it leaves the cache as it was.
Load(c) ==
    /\ pc[c] = "load"
    /\ pc' = [pc EXCEPT ![c] = "idle"]
    /\ text' = [text EXCEPT ![c] = Missing]
    /\ IF Parses(text[c], file.binaries)
       THEN /\ db' = [db EXCEPT ![c] = text[c].map]
            /\ bins' = [bins EXCEPT ![c] = ParseBinaries(file.binaries)]
       ELSE UNCHANGED <<db, bins>>
    /\ UNCHANGED <<file, so, edits, gated, saved>>

\* The process of a cache dies, wherever it is, and starts again empty.
Crash(c) ==
    /\ db' = [db EXCEPT ![c] = Empty]
    /\ bins' = [bins EXCEPT ![c] = Empty]
    /\ pc' = [pc EXCEPT ![c] = "idle"]
    /\ text' = [text EXCEPT ![c] = Missing]
    /\ UNCHANGED <<file, so, edits, gated, saved>>

Persist(c) ==
    OpenTuning(c) \/ WriteTuning(c) \/ OpenBinaries(c) \/ WriteBinaries(c)
        \/ PersistFails(c)

LoadPersisted(c) == ReadTuning(c) \/ Load(c)

Next ==
    \/ \E c \in Writers :
          \/ \E k \in Key, e \in Entries : Put(c, k, e)
          \/ \E d \in TuningDocs : LoadTuningCache(c, d)
          \/ \E k \in Key, b \in Binary : PutBinary(c, k, b)
          \/ Persist(c)
    \/ \E c \in Readers : LoadPersisted(c)
    \/ \E c \in Caches : InvalidateStale(c) \/ Crash(c)
    \/ \E p \in Paths, h \in Hashes \cup {NoFile} : Build(p, h)

Spec == Init /\ [][Next]_vars

-----------------------------------------------------------------------------
(* Properties. *)

FormattedKey == {FormatKey(k) : k \in Key}
DbMap == Maps(Key, Entries)
BinMap == Maps(FormattedKey, Binary)

\* Type invariant.
TypeOK ==
    /\ db \in [Caches -> DbMap]
    /\ bins \in [Caches -> BinMap]
    /\ pc \in [Caches -> {"idle", "tuning", "between", "binaries", "load"}]
    /\ text \in [Caches -> Docs(DbMap)]
    /\ file \in [tuning : Docs(DbMap), binaries : Docs(Maps(Key, Binary))]
    /\ so \in [Paths -> Hashes \cup {NoFile}]
    /\ edits \in 0..MaxEdits
    /\ saved \in Docs([db : DbMap, bins : BinMap])

\* "Selection ONLY ever returns a validated:true entry" (KernelCache.h): what a
\* cache serves for a key was entered, by a tuner, as validated for that very
\* gpu, op and shape, through whatever files, restarts and failed writes it
\* came.
SelectionWasGated ==
    \A c \in Caches, k \in Key :
        Selectable(c, k) => <<k, db[c][k].best>> \in gated

\* Persist and LoadPersisted are inverse: once Persist has returned TRUE, and
\* until the next one starts, the directory loads, and it loads the database
\* and the binaries of its entries as they were saved, even if the cache held
\* binaries without an entry.
PersistedLoads ==
    saved.state = "whole" =>
        /\ Parses(file.tuning, file.binaries)
        /\ file.tuning.map = saved.map.db
        /\ ParseBinaries(file.binaries) =
              [f \in {x \in DOMAIN saved.map.bins :
                      \E k \in DOMAIN saved.map.db : FormatKey(k) = x}
                  |-> saved.map.bins[f]]

Backed(d, b) == \A f \in DOMAIN b : \E k \in DOMAIN d : FormatKey(k) = f

\* LoadPersisted is all or nothing (KernelCache.h, "no partial load"): however
\* it overlaps with a Persist of another process, and after whatever crash or
\* failed write, it changes nothing or installs a whole database together with
\* binaries that all back one of its entries.
LoadsAllOrNothing ==
    [][\A c \in Caches :
         db'[c] # db[c] /\ pc[c] = "load" =>
             \/ db'[c] = Empty /\ bins'[c] = Empty
             \/ db'[c] = text[c].map /\ Backed(db'[c], bins'[c])]_vars

\* InvalidateStale leaves no recorded binary that the disk contradicts, and it
\* takes exactly the entries of the stale ones: an entry whose binary is up to
\* date, or that has none, survives.
InvalidatesExactly ==
    [][\A c \in Caches :
         InvalidateStale(c) =>
             /\ \A f \in DOMAIN bins[c] :
                   f \in DOMAIN bins'[c] <=>
                       so[bins[c][f].so_path] = bins[c][f].kernel_hash
             /\ \A k \in DOMAIN db[c] :
                   k \notin DOMAIN db'[c] <=>
                       FormatKey(k) \in DOMAIN bins[c] \ DOMAIN bins'[c]]_vars

\* "a binary must back a real, present tuning entry" (KernelCache.h, of the
\* binaries a cache records).
BinariesBacked == \A c \in Caches : Backed(db[c], bins[c])

=============================================================================

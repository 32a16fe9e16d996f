---------------------------- MODULE TuningCache ----------------------------
(***************************************************************************)
(* The tuning-cache document (contract H, TuningCache.cpp): the strict     *)
(* decoder and the serializer.                                             *)
(*                                                                         *)
(* A JSON value is <<kind, payload>>, of kind "int" (a number with an      *)
(* integral value), "num" (any other number), "str", "bool", "null", "arr" *)
(* (payload a sequence of values) or "obj" (payload a function from keys   *)
(* to values).  A decoder yields the set of what it decoded: one value, or *)
(* none when the first bad field ends the parse with an error.  A          *)
(* configuration is the tuple of its seven fields; the narrowing of a      *)
(* 64-bit field to int is not followed.                                    *)
(***************************************************************************)
EXTENDS Integers, Sequences

kTuningCacheVersion == 1

\* The payload under a key that must be there and have one of the kinds.
Get(obj, key, kinds) ==
    IF key \in DOMAIN obj /\ obj[key][1] \in kinds THEN {obj[key][2]} ELSE {}

GetObject(obj, key) == Get(obj, key, {"obj"})
GetString(obj, key) == Get(obj, key, {"str"})

\* Mutant: a missing integer is read as the variable's initial value.
GetInt_Defaults(obj, key) == IF key \in DOMAIN obj THEN Get(obj, key, {"int"}) ELSE {0}

GetInt(obj, key) == Get(obj, key, {"int"})
GetDouble(obj, key) == Get(obj, key, {"int", "num"})
GetBool(obj, key) == Get(obj, key, {"bool"})

\* The key must be there; null stands for no measured time.
GetNullableTime(obj) ==
    {<<t>> : t \in GetDouble(obj, "time_ms")} \cup {<<>> : t \in Get(obj, "time_ms", {"null"})}

ParseShape(obj) ==
    {[m |-> m, n |-> n, k |-> k, dtype |-> d] :
        m \in GetInt(obj, "M"), n \in GetInt(obj, "N"), k \in GetInt(obj, "K"),
        d \in GetString(obj, "dtype")}

ConfigKeys == <<"block_m", "block_n", "block_k", "num_warps", "vector_width",
                "unroll", "shared_memory_stages">>

ParseConfig(obj) ==
    LET field(i) == GetInt(obj, ConfigKeys[i])
    IN  {<<bm, bn, bk, nw, vw, un, st>> :
            bm \in field(1), bn \in field(2), bk \in field(3), nw \in field(4),
            vw \in field(5), un \in field(6), st \in field(7)}

ParseCorrectness(obj) ==
    {[cosine |-> c, max_rel_err |-> r, pcc |-> p] :
        c \in GetDouble(obj, "cosine"), r \in GetDouble(obj, "max_rel_err"),
        p \in GetDouble(obj, "pcc")}

ParseEntry(obj) ==
    {[gpu |-> g, op |-> o, shape |-> s, best |-> b, scored_by |-> sc, time_ms |-> t,
      validated |-> v, correctness |-> c] :
        g \in GetString(obj, "gpu"), o \in GetString(obj, "op"),
        s \in UNION {ParseShape(x) : x \in GetObject(obj, "shape")},
        b \in UNION {ParseConfig(x) : x \in GetObject(obj, "best")},
        sc \in GetString(obj, "scored_by"), t \in GetNullableTime(obj),
        v \in GetBool(obj, "validated"),
        c \in UNION {ParseCorrectness(x) : x \in GetObject(obj, "correctness")}}

\* All the entries, or none if one of them does not parse.
ParseEntries(arr) ==
    LET parsed(i) == IF arr[i][1] = "obj" THEN ParseEntry(arr[i][2]) ELSE {}
    IN  IF \A i \in DOMAIN arr : parsed(i) # {}
        THEN {[i \in DOMAIN arr |-> CHOOSE e \in parsed(i) : TRUE]} ELSE {}

ParseTuningCache(value) ==
    IF value[1] = "obj" /\ kTuningCacheVersion \in GetInt(value[2], "version")
    THEN UNION {ParseEntries(arr) : arr \in Get(value[2], "entries", {"arr"})} ELSE {}

-----------------------------------------------------------------------------
(* The serializer. *)

ShapeToJson(s) ==
    [M |-> <<"int", s.m>>, N |-> <<"int", s.n>>, K |-> <<"int", s.k>>,
     dtype |-> <<"str", s.dtype>>]

ConfigToJson(c) ==
    [key \in {ConfigKeys[i] : i \in 1..7} |->
        <<"int", c[CHOOSE i \in 1..7 : ConfigKeys[i] = key]>>]

CorrectnessToJson(c) ==
    [cosine |-> <<"num", c.cosine>>, max_rel_err |-> <<"num", c.max_rel_err>>,
     pcc |-> <<"num", c.pcc>>]

EntryToJson(e) ==
    [gpu |-> <<"str", e.gpu>>, op |-> <<"str", e.op>>,
     shape |-> <<"obj", ShapeToJson(e.shape)>>, best |-> <<"obj", ConfigToJson(e.best)>>,
     scored_by |-> <<"str", e.scored_by>>,
     time_ms |-> IF e.time_ms = <<>> THEN <<"null", 0>> ELSE <<"num", e.time_ms[1]>>,
     validated |-> <<"bool", e.validated>>,
     correctness |-> <<"obj", CorrectnessToJson(e.correctness)>>]

SerializeTuningCache(entries) ==
    <<"obj", [version |-> <<"int", kTuningCacheVersion>>,
              entries |-> <<"arr", [i \in DOMAIN entries |->
                                        <<"obj", EntryToJson(entries[i])>>]>>]>>
=============================================================================

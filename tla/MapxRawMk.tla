----------------------------- MODULE MapxRawMk -----------------------------
(***************************************************************************)
(* The multi-key map of wrappers/src/basic_multi_key/mapx_raw/mod.rs.      *)
(*                                                                         *)
(* A key is a sequence of parts.  The map is a tree of maps, one level per *)
(* part: a map of the last level holds values, one of any other level      *)
(* holds maps.  The tree is written as the function from the paths in it:  *)
(* a full path, which is a key, leads to a value, and a shorter one to a   *)
(* map of a lower level, which may be empty.                               *)
(***************************************************************************)
EXTENDS Maps, Sequences, Integers

Seqs == INSTANCE SequencesExt

\* What a path that is too short for a key leads to.
SUBMAP == <<>>

\* Key k begins with the parts of `prefix`.
StartsWith(k, prefix) == Seqs!IsPrefix(prefix, k)

\* The paths of the maps that hold key k.
PathsTo(k) == {SubSeq(k, 1, n) : n \in 1 .. Len(k) - 1}

\* get: the value at the end of the path, as a set of at most one.
MkGet(m, key) == {m[k] : k \in {key} \cap DOMAIN m}

\* insert, of each key of `new` with its value: a map that is missing on the
\* path is created.
MkInsert(m, new) ==
    LET paths == UNION {PathsTo(k) : k \in DOMAIN new}
    IN  [p \in DOMAIN m \cup DOMAIN new \cup paths |->
            IF p \in DOMAIN new THEN new[p] ELSE IF p \in DOMAIN m THEN m[p] ELSE SUBMAP]

\* remove, at each of the paths: of a value, or of all below the path.  The maps
\* on the way to it stay, even when nothing is left in them.  The empty path
\* removes nothing.
MkRemove(m, paths) ==
    MapRemove(m, {p \in DOMAIN m : \E q \in paths \ {<<>>} : StartsWith(p, q)})

\* iter_op: the keys of a tree of the given depth.
MkKeys(m, depth) == {p \in DOMAIN m : Len(p) = depth}

\* iter_op_with_key_prefix
MkKeysUnder(m, depth, prefix) == {k \in MkKeys(m, depth) : StartsWith(k, prefix)}
=============================================================================

-------------------------------- MODULE MapxOrd --------------------------------
(***************************************************************************)
(* Ordered maps: the ranges of MapxRaw on both engines                     *)
(* (core/src/common/engines), and the keys of MapxOrd that are encoded     *)
(* for them (wrappers/src/basic/mapx_ord, wrappers/src/common/ende.rs).    *)
(*                                                                         *)
(* All maps of an area share one ordered store: a row is stored under the  *)
(* prefix of its map followed by its key, both strings of bytes.  What a   *)
(* range yields depends on the bounds an engine makes of those it is given *)
(* and, on RocksDB, on the length of the longest key of all maps.  Values  *)
(* are left out.                                                           *)
(***************************************************************************)
EXTENDS Integers, Sequences

CONSTANTS
    BYTE_MAX,      \* the greatest byte
    PREFIX_SIZE,   \* the length of a prefix
    Maps,          \* the maps of one area, by prefix
    KeyType,       \* map -> "bytes", "unsigned" or "signed"
    ByteKey        \* bound: the keys of maps whose keys are byte strings

Byte  == 0 .. BYTE_MAX
Bytes == Seq(Byte)

ASSUME ByteAssumption == BYTE_MAX \in Nat \ {0}
ASSUME MapsAssumption == /\ PREFIX_SIZE \in Nat
                         /\ Maps \subseteq {m \in Bytes : Len(m) = PREFIX_SIZE}
ASSUME KeyAssumption == ByteKey \subseteq Bytes
ASSUME TypeAssumption == KeyType \in [Maps -> {"bytes", "unsigned", "signed"}]

VARIABLES
    rows,         \* the strings under which there is a row
    max_keylen    \* RocksDB: the length of the longest key so far

vars == <<rows, max_keylen>>

-----------------------------------------------------------------------------
(***************************************************************************)
(* The order of byte strings.                                              *)
(***************************************************************************)
Less(a, b) ==
    \E i \in 1 .. Len(b) :
        /\ i - 1 <= Len(a)
        /\ \A j \in 1 .. i - 1 : a[j] = b[j]
        /\ i = Len(a) + 1 \/ a[i] < b[i]

AtMost(a, b) == a = b \/ Less(a, b)

Least(S)    == {k \in S : \A j \in S : AtMost(k, j)}
Greatest(S) == {k \in S : \A j \in S : AtMost(j, k)}

(***************************************************************************)
(* Encoding of keys; a number has two bytes.                               *)
(***************************************************************************)
B    == BYTE_MAX + 1
WORD == B * B

Ints(type) == IF type = "signed" THEN -(WORD \div 2) .. WORD - WORD \div 2 - 1
              ELSE 0 .. WORD - 1

\* Faulty variant of to_bytes: the low byte comes first.
ToBytesLE(n) == <<n % B, (n % WORD) \div B>>

\* Big-endian, negative numbers in two's complement.
to_bytes(n) == <<(n % WORD) \div B, n % B>>

from_slice(type, k) == CHOOSE n \in Ints(type) : to_bytes(n) = k

Keys(m) == IF KeyType[m] = "bytes" THEN ByteKey ELSE {to_bytes(n) : n \in Ints(KeyType[m])}

-----------------------------------------------------------------------------
(***************************************************************************)
(* Ranges.  An end of a range is included, excluded or open.               *)
(***************************************************************************)
Ends(K) == [kind : {"included", "excluded"}, key : K]
Open    == [kind |-> "open", key |-> <<>>]

HasPrefix(r, m) == Len(r) >= Len(m) /\ SubSeq(r, 1, Len(m)) = m
Strip(r)        == SubSeq(r, PREFIX_SIZE + 1, Len(r))

\* get_upper_bound_value: what no row of map m is greater than.
UpperBound(m) == m \o [i \in 1 .. max_keylen |-> BYTE_MAX]

\* Faulty variant of LowerEnd: the end is included always.
LowerIncluded(m, lo) == IF lo.kind = "open" THEN m ELSE m \o lo.key

\* RocksDB: an iterator begins at its lower end, and ends before its upper end
\* if that is not open; backwards it begins at its upper end or, where that is
\* excluded from it, before it.  It stays in the map it begins in.
LowerEnd(m, lo) == CASE lo.kind = "open"     -> m
                     [] lo.kind = "included" -> m \o lo.key
                     [] lo.kind = "excluded" -> m \o lo.key \o <<0>>
UpperEnd(m, hi) == CASE hi.kind = "open"     -> UpperBound(m)
                     [] hi.kind = "included" -> m \o hi.key \o <<0>>
                     [] hi.kind = "excluded" -> m \o hi.key

RocksForward(m, lo, hi) ==
    {r \in rows : /\ HasPrefix(r, m)
                  /\ AtMost(LowerEnd(m, lo), r)
                  /\ hi.kind # "open" => Less(r, UpperEnd(m, hi))}
RocksBackward(m, lo, hi) ==
    {r \in rows : /\ HasPrefix(r, m)
                  /\ AtMost(r, UpperEnd(m, hi))
                  /\ lo.kind # "open" => AtMost(LowerEnd(m, lo), r)
                  /\ hi.kind # "open" => Less(r, UpperEnd(m, hi))}

\* Sled: all rows of the map are gone through, from either end, and those out
\* of bounds skipped.
SledScan(m, lo, hi) ==
    {r \in rows : /\ HasPrefix(r, m)
                  /\ lo.kind = "included" => AtMost(m \o lo.key, r)
                  /\ lo.kind = "excluded" => Less(m \o lo.key, r)
                  /\ hi.kind = "included" => AtMost(r, m \o hi.key)
                  /\ hi.kind = "excluded" => Less(r, m \o hi.key)}

\* The keys an iterator over a range yields from its front, and from its back.
Front(engine, m, lo, hi) ==
    {Strip(r) : r \in IF engine = "rocks" THEN RocksForward(m, lo, hi)
                      ELSE SledScan(m, lo, hi)}
Back(engine, m, lo, hi) ==
    {Strip(r) : r \in IF engine = "rocks" THEN RocksBackward(m, lo, hi)
                      ELSE SledScan(m, lo, hi)}

\* Each is a set of at most one key.
get_le(engine, m, k) == Greatest(Back(engine, m, Open, [kind |-> "included", key |-> k]))
get_ge(engine, m, k) == Least(Front(engine, m, [kind |-> "included", key |-> k], Open))
first(engine, m)     == Least(Front(engine, m, Open, Open))
last(engine, m)      == Greatest(Back(engine, m, Open, Open))

-----------------------------------------------------------------------------
Init == rows = {} /\ max_keylen = 0

\* Faulty variant of insert: the length of every key is stored.
InsertLastLen(m, k) ==
    /\ rows' = rows \cup {m \o k}
    /\ max_keylen' = Len(k)

insert(m, k) ==
    /\ rows' = rows \cup {m \o k}
    /\ max_keylen' = IF Len(k) > max_keylen THEN Len(k) ELSE max_keylen

remove(m, k) ==
    /\ rows' = rows \ {m \o k}
    /\ UNCHANGED max_keylen

\* The rows an iterator over the whole map yields are removed.
clear(m) ==
    /\ rows' = rows \ {m \o k : k \in Front("rocks", m, Open, Open)}
    /\ UNCHANGED max_keylen

Next == \E m \in Maps : \/ \E k \in Keys(m) : insert(m, k) \/ remove(m, k)
                        \/ clear(m)

Spec == Init /\ [][Next]_vars

-----------------------------------------------------------------------------
\* The keys that map m holds.
Held(m) == {k \in Keys(m) : m \o k \in rows}

\* The bounds of a range as Rust has them, for strings of bytes.
InRange(k, lo, hi) ==
    /\ lo.kind = "included" => AtMost(lo.key, k)
    /\ lo.kind = "excluded" => Less(lo.key, k)
    /\ hi.kind = "included" => AtMost(k, hi.key)
    /\ hi.kind = "excluded" => Less(k, hi.key)

\* Every row is one of a map, and no key is longer than the longest.
TypeOK ==
    /\ max_keylen \in Nat
    /\ \A r \in rows : \E m \in Maps : \E k \in Keys(m) : r = m \o k /\ Len(k) <= max_keylen

\* On both engines a range yields the keys of its map that are in its bounds,
\* from its front and from its back, whatever rows other maps have.
RangeExact ==
    \A engine \in {"rocks", "sled"}, m \in Maps :
        \A lo, hi \in Ends(Keys(m)) \cup {Open} :
            LET keys == {k \in Held(m) : InRange(k, lo, hi)}
            IN  Front(engine, m, lo, hi) = keys /\ Back(engine, m, lo, hi) = keys

\* "For keys that their serialized order keep consistent with their original
\* format" (ende.rs): the neighbours of a number in a map of numbers, and its
\* ends, are those in the order of numbers, as far as all have the same sign.
\* The encoding puts negative numbers behind all others.
SameSign(S) == S \subseteq Nat \/ S \cap Nat = {}

NeighboursBySign ==
    \A engine \in {"rocks", "sled"}, m \in {m \in Maps : KeyType[m] # "bytes"} :
        LET held == {from_slice(KeyType[m], k) : k \in Held(m)}
        IN  \A n \in Ints(KeyType[m]) : SameSign(held \cup {n}) =>
              /\ get_le(engine, m, to_bytes(n))
                   = {to_bytes(j) : j \in {j \in held : j <= n /\ \A i \in held : i <= n => i <= j}}
              /\ get_ge(engine, m, to_bytes(n))
                   = {to_bytes(j) : j \in {j \in held : j >= n /\ \A i \in held : i >= n => i >= j}}
              /\ first(engine, m) = {to_bytes(j) : j \in {j \in held : \A i \in held : j <= i}}
              /\ last(engine, m) = {to_bytes(j) : j \in {j \in held : \A i \in held : i <= j}}
=============================================================================

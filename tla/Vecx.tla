--------------------------------- MODULE Vecx ---------------------------------
(***************************************************************************)
(* The vectors Vecx and VecxRaw (wrappers/src/basic): a map on disk from   *)
(* indices to values, in which an insertion or a removal in the middle     *)
(* moves every element behind it, one call of the map after the other.     *)
(*                                                                         *)
(* One step is one call of the map, with its row and its length (which     *)
(* MapxEngine takes apart).  A process that ends between two steps leaves  *)
(* `rows` as they are.                                                     *)
(***************************************************************************)
EXTENDS Maps, Integers, Sequences, FiniteSets, SequencesExt

CONSTANTS Value,    \* the elements
          MaxLen    \* bound: the greatest length

ASSUME BoundAssumption == MaxLen \in Nat

VARIABLES
    rows,     \* on disk: index -> value
    length,   \* on disk: the length of the map
    asked,    \* {}, or the operation under way, as its caller asked for it
    todo,     \* the calls of the map that it has yet to make
    before,   \* the vector before the current operation
    kept,     \* the elements the current operation is to keep
    typed,    \* the vector is a Vecx; otherwise it is a VecxRaw
    borrow    \* {}, or the mutable reference there is to an element

vars == <<rows, length, asked, todo, before, kept, typed, borrow>>

\* The rows as a sequence, while the indices have no gap.
Elements == [i \in 1 .. Cardinality(DOMAIN rows) |-> rows[i - 1]]

\* The vector a caller has: the one before the operation while that is under way.
Stands == IF todo = <<>> THEN Elements ELSE before

\* An assignment to what get_mut of a Vecx returns, as its caller means it.
ToAssign(i, x) == [op |-> "get_mut", index |-> i, value |-> x]

\* What a caller has asked of the sequence, of whose operations that is none.
OfSeq == {c \in asked : c.op # "get_mut"}

Seqs == INSTANCE VecSeq WITH vec <- Stands, asked <- OfSeq

\* The calls of the map: one row is inserted or removed, or all are removed.
Put(i, x) == [index |-> i, value |-> {x}]
Del(i)    == [index |-> i, value |-> {}]
Wipe      == [index |-> -1, value |-> {}]

Init == /\ rows = EmptyMap /\ length = 0 /\ asked = {} /\ todo = <<>>
        /\ before = <<>> /\ kept = EmptyMap
        /\ typed \in BOOLEAN /\ borrow = {}

(***************************************************************************)
(* Operations begin by reading; a scan sees the rows as they were when it  *)
(* began, whatever is written while it goes on.                            *)
(***************************************************************************)
\* The operation c, which will make the calls s, on a vector whose elements it
\* keeps but for those at the indices I.
BeginCalls(c, s, I) ==
    /\ todo = <<>>
    /\ asked' = {c}
    /\ todo' = s
    /\ before' = Elements
    /\ kept' = [i \in DOMAIN rows \ I |-> rows[i]]
    /\ UNCHANGED <<rows, length, typed>>

\* While there is a mutable reference no operation begins.
Begin(c, s, I) == borrow = {} /\ BeginCalls(c, s, I) /\ UNCHANGED borrow

\* The j-th smallest number of S.
Nth(S, j) == CHOOSE i \in S : Cardinality({h \in S : h < i}) = j - 1

\* The indices of the rows from a up to b, in order.
Scan(a, b) == LET S == {i \in DOMAIN rows : a <= i /\ i < b}
              IN  [j \in 1 .. Cardinality(S) |-> Nth(S, j)]

\* Faulty variant of ShiftUp: the scan sees what was written while it went on.
ShiftUpLive(i) == LET s == Scan(i, length)
                  IN  [j \in DOMAIN s |-> Put(s[j] + 1, rows[i])]

\* The elements from i on move up by one; those behind i down.
ShiftUp(i)   == LET s == Scan(i, length)
                IN  [j \in DOMAIN s |-> Put(s[j] + 1, rows[s[j]])]
ShiftDown(i) == LET s == Scan(i + 1, MaxLen + 1)
                IN  [j \in DOMAIN s |-> Put(s[j] - 1, rows[s[j]])]

Push(x)     == Begin(Seqs!ToInsert(length, x), <<Put(length, x)>>, {})
InsertElem(i, x) ==
    \/ i < length /\ Begin(Seqs!ToInsert(i, x), Append(ShiftUp(i), Put(i, x)), {})
    \/ i = length /\ Push(x)
Pop ==
    /\ length > 0
    /\ Begin(Seqs!ToRemove(length - 1), <<Del(length - 1)>>, {length - 1})
UpdateElem(i, x) == i < length /\ Begin(Seqs!ToUpdate(i, x), <<Put(i, x)>>, {i})
Clear            == Begin(Seqs!ToClear, <<Wipe>>, DOMAIN rows)

\* Faulty variant of RemoveElem: all rows to be moved are deleted first.
RemoveElemRebuild(i) ==
    /\ i < length
    /\ Begin(Seqs!ToRemove(i),
             [j \in 1 .. length - i |-> Del(i + j - 1)] \o ShiftDown(i), {i})

RemoveElem(i) ==
    /\ i < length
    /\ Begin(Seqs!ToRemove(i), <<Del(i)>> \o ShiftDown(i) \o <<Del(length - 1)>>, {i})

\* The last element is taken out and stored at i, unless it was the one at i.
SwapRemove(i) ==
    /\ i < length
    /\ Begin(Seqs!ToSwapRemove(i),
             <<Del(i), Del(length - 1)>>
               \o (IF i = length - 1 THEN <<>> ELSE <<Put(i, rows[length - 1])>>), {i})

\* A mutable reference holds a copy of the element.  When it is dropped the copy
\* is written, but for that which get_mut of a Vecx returns: there the write of
\* the copy is commented out, and what is written is the element as it was.
BorrowElem(i, writes) ==
    /\ todo = <<>> /\ borrow = {} /\ i < length
    /\ borrow' = {[index |-> i, value |-> rows[i], writes |-> writes]}
    /\ UNCHANGED <<rows, length, asked, todo, before, kept, typed>>

GetMut(i)  == BorrowElem(i, ~typed)
NextMut(i) == BorrowElem(i, TRUE)

Assign(x) ==
    /\ borrow' = {[b EXCEPT !.value = x] : b \in borrow}
    /\ UNCHANGED <<rows, length, asked, todo, before, kept, typed>>

DropMut ==
    \E b \in borrow :
        /\ \/ /\ b.writes
              /\ BeginCalls(Seqs!ToUpdate(b.index, b.value), <<Put(b.index, b.value)>>, {b.index})
           \/ /\ ~b.writes
              /\ BeginCalls(ToAssign(b.index, b.value), <<Put(b.index, rows[b.index])>>, {b.index})
        /\ borrow' = {}

\* Faulty variant of Counted: what was there is not looked at.
CountedBlind(c) == IF c = Wipe THEN 0 ELSE length + (IF c.value = {} THEN -1 ELSE 1)

\* The length of the map after call c.
Counted(c) ==
    CASE c = Wipe -> 0
      [] c # Wipe /\ c.value = {} /\ c.index \in DOMAIN rows -> length - 1
      [] c.value # {} /\ c.index \notin DOMAIN rows -> length + 1
      [] OTHER -> length

\* The map m after call c.
Called(m, c) ==
    CASE c = Wipe -> EmptyMap
      [] c # Wipe /\ c.value = {} -> MapRemove(m, {c.index})
      [] OTHER -> MapInsert(m, c.index, CHOOSE x \in c.value : TRUE)

\* The next call of the map; the last one ends the operation.
MapCall ==
    /\ todo # <<>>
    /\ rows' = Called(rows, Head(todo))
    /\ length' = Counted(Head(todo))
    /\ todo' = Tail(todo)
    /\ asked' = IF Tail(todo) = <<>> THEN {} ELSE asked
    /\ UNCHANGED <<before, kept, typed, borrow>>

Next == \/ MapCall
        \/ \E i \in 0 .. length :
             \/ RemoveElem(i) \/ SwapRemove(i) \/ GetMut(i) \/ NextMut(i)
             \/ \E x \in Value : \/ length < MaxLen /\ InsertElem(i, x)
                                 \/ UpdateElem(i, x)
        \/ \E x \in Value : Assign(x)
        \/ Pop \/ DropMut \/ Clear

Spec == Init /\ [][Next]_vars

-----------------------------------------------------------------------------
\* Each operation a caller asks for, once it has made all its calls of the map,
\* has done to the elements exactly what that operation does to a sequence.  An
\* assignment to what get_mut of a Vecx returns is no operation of the sequence:
\* it leaves all elements as they are (its loss is what AssignmentKept is about).
ImplementsSeq == Seqs!Spec

\* wrappers/tests/basic_vecx_test.rs:55-56: `*reloaded.get_mut(0).unwrap() =
\* gen_sample(999 * cnt)` is followed by `assert_eq!(reloaded.get(0).unwrap(),
\* gen_sample(999 * cnt))`.  Whatever is assigned to an element, by an update
\* or through a mutable reference, is what is read when that is done.
AssignmentKept ==
    [][\A c \in asked :
          c.op \in {"update", "get_mut"} /\ asked' = {} =>
              Elements'[c.index + 1] = c.value]_vars

\* Values are elements and indices within the bound; the vector has no gap
\* between operations.
TypeOK ==
    /\ IsMap(rows, 0 .. MaxLen, Value)
    /\ length = Cardinality(DOMAIN rows)
    /\ todo = <<>> => DOMAIN rows = 0 .. length - 1

\* How often x occurs in the map m.
Count(m, x) == Cardinality({i \in DOMAIN m : m[i] = x})

\* An operation that is cut short, by the end of the process, has lost at most
\* one of the elements it was to keep, however many it was about to move: but
\* for one, each occurs on disk as often as it is to.
AtMostOneLost ==
    todo # <<>> =>
        \E lost \in SUBSET DOMAIN kept :
            /\ Cardinality(lost) <= 1
            /\ \A x \in Value : Count(MapRemove(kept, lost), x) <= Count(rows, x)
=============================================================================

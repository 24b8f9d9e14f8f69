-------------------------------- MODULE VecSeq --------------------------------
(***************************************************************************)
(* What a vector promises: the operations of std::vec::Vec on a sequence.  *)
(* Indices begin at zero.  A caller asks for an operation, and the answer  *)
(* is what that operation makes of the sequence: there is no answer        *)
(* without an effect, and none with the effect of another operation.       *)
(***************************************************************************)
EXTENDS Integers, Sequences, SequencesExt

CONSTANT Value

VARIABLES
    vec,     \* the elements
    asked    \* {}, or the operation that has been asked for

ToInsert(i, x)  == [op |-> "insert", index |-> i, value |-> x]
ToUpdate(i, x)  == [op |-> "update", index |-> i, value |-> x]
ToRemove(i)     == [op |-> "remove", index |-> i]
ToSwapRemove(i) == [op |-> "swap_remove", index |-> i]
ToClear         == [op |-> "clear"]

\* The operations a sequence v admits: any other would panic.
Operations(v) ==
    {ToInsert(i, x) : i \in 0 .. Len(v), x \in Value}
      \cup {ToUpdate(i, x) : i \in 0 .. Len(v) - 1, x \in Value}
      \cup {ToRemove(i) : i \in 0 .. Len(v) - 1}
      \cup {ToSwapRemove(i) : i \in 0 .. Len(v) - 1}
      \cup {ToClear}

\* What operation c makes of the sequence v; in a swap_remove the last element
\* takes the place of the one that is removed.
Result(c, v) ==
    CASE c.op = "insert"      -> InsertAt(v, c.index + 1, c.value)
      [] c.op = "update"      -> [v EXCEPT ![c.index + 1] = c.value]
      [] c.op = "remove"      -> RemoveAt(v, c.index + 1)
      [] c.op = "swap_remove" -> Front([v EXCEPT ![c.index + 1] = Last(v)])
      [] c.op = "clear"       -> <<>>

Init == vec = <<>> /\ asked = {}

Ask    == /\ asked = {}
          /\ \E c \in Operations(vec) : asked' = {c}
          /\ UNCHANGED vec
Answer == /\ \E c \in asked : vec' = Result(c, vec)
          /\ asked' = {}

Next == Ask \/ Answer

Spec == Init /\ [][Next]_<<vec, asked>>
=============================================================================

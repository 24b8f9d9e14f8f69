----------------------------- MODULE Vecx_proofs -----------------------------
(***************************************************************************)
(* Theorems about Vecx: each operation asked for, made of many calls of    *)
(* the map, does what that operation of a sequence does, and one that is   *)
(* cut short has lost at most one element.                                 *)
(***************************************************************************)
EXTENDS Vecx, Maps_proofs, FiniteSetTheorems, SequenceTheorems

-----------------------------------------------------------------------------
(***************************************************************************)
(* The operations of sequences, element by element.                        *)
(***************************************************************************)
\* A part of a sequence.
LEMMA PartIs ==
  ASSUME NEW S, NEW s, NEW m \in Int, NEW n \in Int, m <= n + 1,
         \A i \in m .. n : s[i] \in S
  PROVE  /\ SubSeq(s, m, n) \in Seq(S) /\ Len(SubSeq(s, m, n)) = n - m + 1
         /\ \A i \in 1 .. n - m + 1 : SubSeq(s, m, n)[i] = s[m + i - 1]
<1>1. /\ SubSeq(s, m, n) \in Seq(S)
      /\ Len(SubSeq(s, m, n)) = IF m <= n THEN n - m + 1 ELSE 0
      /\ \A i \in 1 .. n - m + 1 : SubSeq(s, m, n)[i] = s[m + i - 1]
  BY SubSeqProperties
<1>2. (IF m <= n THEN n - m + 1 ELSE 0) = n - m + 1
  OBVIOUS
<1>. QED  BY <1>1, <1>2, Zenon

\* A sequence with one more element, at index i.
LEMMA InsertAtIs ==
  ASSUME NEW v \in Seq(Value), NEW i \in 0 .. Len(v), NEW x \in Value
  PROVE  /\ InsertAt(v, i + 1, x) \in Seq(Value)
         /\ Len(InsertAt(v, i + 1, x)) = Len(v) + 1
         /\ \A j \in 1 .. Len(v) + 1 :
              InsertAt(v, i + 1, x)[j] =
                IF j <= i THEN v[j] ELSE IF j = i + 1 THEN x ELSE v[j - 1]
<1> DEFINE a == SubSeq(v, 1, i)
           b == SubSeq(v, i + 1, Len(v))
           c == a \o <<x>>
<1>1. Len(v) \in Nat /\ i \in Int /\ \A j \in 1 .. Len(v) : v[j] \in Value
  BY LenProperties, ElementOfSeq
<1>2. a \in Seq(Value) /\ Len(a) = i /\ \A j \in 1 .. i : a[j] = v[j]
  BY <1>1, SubSeqProperties
<1>3. /\ b \in Seq(Value) /\ Len(b) = Len(v) - i
      /\ \A j \in 1 .. Len(v) - i : b[j] = v[i + j]
  <2>1. \A j \in i + 1 .. Len(v) : v[j] \in Value
    BY <1>1
  <2>2. \A j \in 1 .. Len(v) - (i + 1) + 1 : b[j] = v[i + 1 + j - 1]
    BY <1>1, <2>1, SubSeqProperties
  <2>3. b \in Seq(Value) /\ Len(b) = IF i + 1 <= Len(v) THEN Len(v) - (i + 1) + 1 ELSE 0
    BY <1>1, <2>1, SubSeqProperties
  <2>. QED  BY <1>1, <2>2, <2>3
<1>. HIDE DEF a, b
<1>4. <<x>> \in Seq(Value) /\ Len(<<x>>) = 1 /\ <<x>>[1] = x
  OBVIOUS
<1>5. /\ c \in Seq(Value) /\ Len(c) = i + 1
      /\ \A j \in 1 .. i + 1 : c[j] = IF j <= i THEN v[j] ELSE x
  <2>1. /\ c \in Seq(Value) /\ Len(c) = i + 1
        /\ \A j \in 1 .. i + 1 : c[j] = IF j <= i THEN a[j] ELSE <<x>>[j - i]
    BY <1>2, <1>4, ConcatProperties
  <2>. QED  BY <1>1, <1>2, <1>4, <2>1
<1>. HIDE DEF c
<1>6. /\ c \o b \in Seq(Value) /\ Len(c \o b) = Len(c) + Len(b)
      /\ \A j \in 1 .. Len(c) + Len(b) :
           (c \o b)[j] = IF j <= Len(c) THEN c[j] ELSE b[j - Len(c)]
  BY <1>3, <1>5, ConcatProperties
<1>7. InsertAt(v, i + 1, x) = c \o b
  <2>1. (i + 1) - 1 = i
    BY <1>1
  <2>. QED  BY <2>1 DEF InsertAt, a, b, c
<1>. HIDE DEF InsertAt
<1>8. ASSUME NEW j \in 1 .. Len(v) + 1
      PROVE  (c \o b)[j] = IF j <= i THEN v[j] ELSE IF j = i + 1 THEN x ELSE v[j - 1]
  <2>1. (c \o b)[j] = IF j <= i + 1 THEN c[j] ELSE b[j - (i + 1)]
    BY <1>1, <1>3, <1>5, <1>6
  <2>2. CASE j <= i + 1
    BY <1>1, <1>5, <2>1, <2>2
  <2>3. CASE j > i + 1
    <3>1. j - (i + 1) \in 1 .. Len(v) - i /\ i + (j - (i + 1)) = j - 1
      BY <1>1, <2>3
    <3>2. b[j - (i + 1)] = v[j - 1]
      BY <1>3, <3>1
    <3>. QED  BY <1>1, <2>1, <2>3, <3>2
  <2>4. j <= i + 1 \/ j > i + 1
    BY <1>1
  <2>. QED  BY <2>2, <2>3, <2>4
<1>9. Len(c) + Len(b) = Len(v) + 1
  BY <1>1, <1>3, <1>5
<1>. QED  BY <1>6, <1>7, <1>8, <1>9

\* A sequence without its element at index i.
LEMMA RemoveAtIs ==
  ASSUME NEW v \in Seq(Value), NEW i \in 0 .. Len(v) - 1
  PROVE  /\ RemoveAt(v, i + 1) \in Seq(Value)
         /\ Len(RemoveAt(v, i + 1)) = Len(v) - 1
         /\ \A j \in 1 .. Len(v) - 1 :
              RemoveAt(v, i + 1)[j] = IF j <= i THEN v[j] ELSE v[j + 1]
<1> DEFINE a == SubSeq(v, 1, i)
           b == SubSeq(v, i + 2, Len(v))
<1>1. Len(v) \in Nat /\ i \in Int /\ \A j \in 1 .. Len(v) : v[j] \in Value
  BY LenProperties, ElementOfSeq
<1>2. a \in Seq(Value) /\ Len(a) = i /\ \A j \in 1 .. i : a[j] = v[j]
  BY <1>1, SubSeqProperties
<1>3. /\ b \in Seq(Value) /\ Len(b) = Len(v) - i - 1
      /\ \A j \in 1 .. Len(v) - i - 1 : b[j] = v[i + 1 + j]
  <2>1. \A j \in i + 2 .. Len(v) : v[j] \in Value
    BY <1>1
  <2>2. \A j \in 1 .. Len(v) - (i + 2) + 1 : b[j] = v[i + 2 + j - 1]
    BY <1>1, <2>1, SubSeqProperties
  <2>3. b \in Seq(Value) /\ Len(b) = IF i + 2 <= Len(v) THEN Len(v) - (i + 2) + 1 ELSE 0
    BY <1>1, <2>1, SubSeqProperties
  <2>. QED  BY <1>1, <2>2, <2>3
<1>. HIDE DEF a, b
<1>4. /\ a \o b \in Seq(Value) /\ Len(a \o b) = Len(a) + Len(b)
      /\ \A j \in 1 .. Len(a) + Len(b) :
           (a \o b)[j] = IF j <= Len(a) THEN a[j] ELSE b[j - Len(a)]
  BY <1>2, <1>3, ConcatProperties
<1>5. RemoveAt(v, i + 1) = a \o b
  <2>1. (i + 1) - 1 = i /\ (i + 1) + 1 = i + 2
    BY <1>1
  <2>. QED  BY <2>1 DEF RemoveAt, a, b
<1>6. ASSUME NEW j \in 1 .. Len(v) - 1
      PROVE  (a \o b)[j] = IF j <= i THEN v[j] ELSE v[j + 1]
  <2>1. (a \o b)[j] = IF j <= i THEN a[j] ELSE b[j - i]
    BY <1>1, <1>2, <1>3, <1>4
  <2>2. CASE j <= i
    BY <1>1, <1>2, <2>1, <2>2
  <2>3. CASE j > i
    <3>1. j - i \in 1 .. Len(v) - i - 1 /\ i + 1 + (j - i) = j + 1
      BY <1>1, <2>3
    <3>2. b[j - i] = v[j + 1]
      BY <1>3, <3>1
    <3>. QED  BY <1>1, <2>1, <2>3, <3>2
  <2>4. j <= i \/ j > i
    BY <1>1
  <2>. QED  BY <2>2, <2>3, <2>4
<1>7. Len(a) + Len(b) = Len(v) - 1
  BY <1>1, <1>2, <1>3
<1>. QED  BY <1>4, <1>5, <1>6, <1>7

\* A sequence whose last element has moved to index i.
LEMMA SwapIs ==
  ASSUME NEW v \in Seq(Value), NEW i \in 0 .. Len(v) - 1
  PROVE  LET t == Front([v EXCEPT ![i + 1] = Last(v)])
         IN  /\ t \in Seq(Value) /\ Len(t) = Len(v) - 1
             /\ \A j \in 1 .. Len(v) - 1 : t[j] = IF j = i + 1 THEN v[Len(v)] ELSE v[j]
<1> DEFINE w == [v EXCEPT ![i + 1] = Last(v)]
<1>1. Len(v) \in Nat /\ i \in Int /\ \A j \in 1 .. Len(v) : v[j] \in Value
  BY LenProperties, ElementOfSeq
<1>2. Last(v) = v[Len(v)] /\ Last(v) \in Value
  BY <1>1 DEF Last
<1>3. /\ w \in Seq(Value) /\ Len(w) = Len(v)
      /\ \A j \in 1 .. Len(v) : w[j] = IF j = i + 1 THEN v[Len(v)] ELSE v[j]
  BY <1>1, <1>2, ExceptSeq
<1>. HIDE DEF w
<1> DEFINE t == SubSeq(w, 1, Len(v) - 1)
<1>4. t \in Seq(Value) /\ Len(t) = Len(v) - 1 /\ \A j \in 1 .. Len(v) - 1 : t[j] = w[j]
  <2>1. PICK n \in Nat : n = Len(v) - 1
    BY <1>1
  <2>2. 1 <= n + 1 /\ \A j \in 1 .. n : w[j] \in Value
    BY <1>1, <1>3, <2>1
  <2>. HIDE DEF w
  <2>3. /\ SubSeq(w, 1, n) \in Seq(Value) /\ Len(SubSeq(w, 1, n)) = n - 1 + 1
        /\ \A j \in 1 .. n - 1 + 1 : SubSeq(w, 1, n)[j] = w[1 + j - 1]
    BY <2>2, PartIs
  <2>4. n - 1 + 1 = n /\ \A j \in 1 .. n : 1 + j - 1 = j
    OBVIOUS
  <2>. QED  BY <2>1, <2>3, <2>4
<1>5. Front(w) = t
  BY <1>3 DEF Front
<1>. HIDE DEF t, Front
<1>6. \A j \in 1 .. Len(v) - 1 : t[j] = IF j = i + 1 THEN v[Len(v)] ELSE v[j]
  BY <1>1, <1>3, <1>4
<1>. QED  BY <1>4, <1>5, <1>6 DEF w

-----------------------------------------------------------------------------
(***************************************************************************)
(* Scans and the calls of the map.                                         *)
(***************************************************************************)
\* The rows of a vector v.
RowsOf(v) == [j \in 0 .. Len(v) - 1 |-> v[j + 1]]

\* How many numbers an interval holds.
LEMMA IntervalSize ==
  ASSUME NEW a \in Int, NEW b \in Int, a <= b + 1
  PROVE  IsFiniteSet(a .. b) /\ Cardinality(a .. b) = b - a + 1
<1>1. IsFiniteSet(a .. b) /\ Cardinality(a .. b) = IF a > b THEN 0 ELSE b - a + 1
  BY FS_Interval
<1>2. CASE a > b
  BY <1>1, <1>2
<1>3. CASE ~(a > b)
  BY <1>1, <1>3
<1>. QED  BY <1>2, <1>3

\* The j-th smallest number of an interval.
LEMMA NthOf ==
  ASSUME NEW a \in Int, NEW n \in Nat, NEW j \in 1 .. n
  PROVE  Nth(a .. a + n - 1, j) = a + j - 1
<1> DEFINE S == a .. a + n - 1
<1>1. ASSUME NEW i \in S
      PROVE  Cardinality({h \in S : h < i}) = i - a
  <2>1. {h \in S : h < i} = a .. i - 1
    OBVIOUS
  <2>2. Cardinality(a .. i - 1) = (i - 1) - a + 1
    BY IntervalSize
  <2>3. (i - 1) - a + 1 = i - a
    OBVIOUS
  <2>. QED  BY <2>1, <2>2, <2>3, Zenon
<1>2. a + j - 1 \in S /\ Cardinality({h \in S : h < a + j - 1}) = j - 1
  BY <1>1
<1>3. \A i \in S : Cardinality({h \in S : h < i}) = j - 1 => i = a + j - 1
  BY <1>1
<1>4. Nth(S, j) \in S /\ Cardinality({h \in S : h < Nth(S, j)}) = j - 1
  BY <1>2 DEF Nth
<1>. QED  BY <1>3, <1>4

\* A scan of a vector without gaps yields the indices in order.
LEMMA ScanIs ==
  ASSUME NEW n \in Nat, DOMAIN rows = 0 .. n - 1, NEW a \in 0 .. n, NEW b \in Nat, n <= b
  PROVE  Scan(a, b) = [j \in 1 .. n - a |-> a + j - 1]
<1> DEFINE S == {i \in DOMAIN rows : a <= i /\ i < b}
<1>1. S = a .. a + (n - a) - 1
  OBVIOUS
<1>2. Cardinality(S) = n - a
  <2>1. Cardinality(a .. a + (n - a) - 1) = (a + (n - a) - 1) - a + 1
    BY IntervalSize
  <2>2. (a + (n - a) - 1) - a + 1 = n - a
    OBVIOUS
  <2>. QED  BY <1>1, <2>1, <2>2, Zenon
<1>3. \A j \in 1 .. n - a : Nth(S, j) = a + j - 1
  <2>1. n - a \in Nat /\ a \in Int
    OBVIOUS
  <2>. HIDE DEF S
  <2>. QED  BY <1>1, <2>1, NthOf
<1>4. Scan(a, b) = [j \in 1 .. Cardinality(S) |-> Nth(S, j)]
  BY DEF Scan
<1>. QED  BY <1>2, <1>3, <1>4

\* What the calls of the map do to it.
LEMMA CalledIs ==
  ASSUME NEW m
  PROVE  /\ \A i, x : Called(m, Put(i, x)) = MapInsert(m, i, x)
         /\ \A i \in Nat : Called(m, Del(i)) = MapRemove(m, {i})
         /\ Called(m, Wipe) = EmptyMap
<1>1. ASSUME NEW i, NEW x
      PROVE  Called(m, Put(i, x)) = MapInsert(m, i, x)
  <2>1. Put(i, x).value = {x} /\ Put(i, x).index = i /\ Wipe.value = {}
    BY DEF Put, Wipe
  <2>2. Put(i, x) # Wipe
    BY <2>1
  <2>3. (CHOOSE y \in {x} : TRUE) = x
    OBVIOUS
  <2>. QED  BY <2>1, <2>2, <2>3 DEF Called
<1>2. ASSUME NEW i \in Nat
      PROVE  Called(m, Del(i)) = MapRemove(m, {i})
  <2>1. Del(i).value = {} /\ Del(i).index = i /\ Wipe.index = -1
    BY DEF Del, Wipe
  <2>2. Del(i) # Wipe
    <3>1. i # -1
      OBVIOUS
    <3>. QED  BY <2>1, <3>1
  <2>. QED  BY <2>1, <2>2 DEF Called
<1>. QED  BY <1>1, <1>2 DEF Called

-----------------------------------------------------------------------------
(***************************************************************************)
(* How far an operation on the vector v of n elements is: m are the rows,  *)
(* s the calls it has yet to make, k the elements it is to keep.           *)
(***************************************************************************)
Vec == {v \in Seq(Value) : Len(v) <= MaxLen}

\* A map has the elements of v at the indices D.
Holds(m, D, v) == DOMAIN m = D /\ \A j \in D : m[j] = v[j + 1]

\* What operation c makes of v, and the rows m when it has made that.
Made(c, v)    == IF c.op = "get_mut" THEN v ELSE Seqs!Result(c, v)
Done(c, m, v) == Made(c, v) \in Vec /\ Holds(m, 0 .. Len(Made(c, v)) - 1, Made(c, v))

\* One call is left, and nothing that is to be kept has been touched.
OneCall(c, m, s, v, k) ==
    /\ Len(s) = 1 /\ Done(c, Called(m, s[1]), v)
    /\ DOMAIN k \subseteq DOMAIN m /\ \A j \in DOMAIN k : m[j] = k[j]

\* An insertion of x at i, of which the elements between i and a have moved up.
MovingUp(n, i, a, x, m, s, v, k) ==
    /\ n < MaxLen /\ i \in 0 .. n - 1 /\ a \in i .. n /\ x \in Value
    /\ DOMAIN m = IF a = n THEN 0 .. n ELSE 0 .. n - 1
    /\ \A j \in DOMAIN m : m[j] = IF i < j /\ j <= a THEN v[j] ELSE v[j + 1]
    /\ Len(s) = n - a + 1 /\ s[n - a + 1] = Put(i, x)
    /\ \A j \in 1 .. n - a : s[j] = Put(a + j, v[a + j])
    /\ Holds(k, 0 .. n - 1, v)

\* A removal at i, of which the elements from i to a have got those above them.
Removing(n, i, m, s, v, k) ==
    /\ i \in 0 .. n - 1
    /\ Holds(m, 0 .. n - 1, v)
    /\ Len(s) = n - i + 1 /\ s[1] = Del(i) /\ s[n - i + 1] = Del(n - 1)
    /\ \A j \in 2 .. n - i : s[j] = Put(i + j - 2, v[i + j])
    /\ Holds(k, (0 .. n - 1) \ {i}, v)
MovingDown(n, i, a, m, s, v, k) ==
    /\ i \in 0 .. n - 1 /\ a \in i .. n - 1
    /\ DOMAIN m = IF a = i THEN (0 .. n - 1) \ {i} ELSE 0 .. n - 1
    /\ \A j \in DOMAIN m : m[j] = IF i <= j /\ j < a THEN v[j + 2] ELSE v[j + 1]
    /\ Len(s) = n - a /\ s[n - a] = Del(n - 1)
    /\ \A j \in 1 .. n - a - 1 : s[j] = Put(a + j - 1, v[a + j + 1])
    /\ Holds(k, (0 .. n - 1) \ {i}, v)

\* A swap of the last element to i, of which the elements R have been removed.
Swapping(n, i, R, m, s, v, k) ==
    /\ i \in 0 .. n - 1
    /\ Holds(m, (0 .. n - 1) \ R, v)
    /\ \/ /\ R = {} /\ Len(s) = (IF i = n - 1 THEN 2 ELSE 3)
          /\ s[1] = Del(i) /\ s[2] = Del(n - 1)
          /\ i < n - 1 => s[3] = Put(i, v[n])
       \/ /\ R = {i} /\ Len(s) = (IF i = n - 1 THEN 1 ELSE 2)
          /\ s[1] = Del(n - 1)
          /\ i < n - 1 => s[2] = Put(i, v[n])
       \/ /\ R = {i, n - 1} /\ i < n - 1
          /\ Len(s) = 1 /\ s[1] = Put(i, v[n])
    /\ Holds(k, (0 .. n - 1) \ {i}, v)

Underway(c, m, s, v, k) ==
    \/ OneCall(c, m, s, v, k)
    \/ \E i, a \in 0 .. Len(v), x \in Value :
         c = Seqs!ToInsert(i, x) /\ MovingUp(Len(v), i, a, x, m, s, v, k)
    \/ \E i \in 0 .. Len(v) :
         \/ c = Seqs!ToRemove(i) /\ Removing(Len(v), i, m, s, v, k)
         \/ \E a \in 0 .. Len(v) : c = Seqs!ToRemove(i) /\ MovingDown(Len(v), i, a, m, s, v, k)
         \/ \E R \in {{}, {i}, {i, Len(v) - 1}} :
              c = Seqs!ToSwapRemove(i) /\ Swapping(Len(v), i, R, m, s, v, k)

\* The inductive invariant: at rest the indices have no gap; otherwise the calls
\* that are left take the vector where the operation asked for is to take it.
Call == [index : 0 .. MaxLen, value : {{}} \cup {{x} : x \in Value}] \cup {Wipe}
VecInv ==
    /\ IsMap(rows, 0 .. MaxLen, Value)
    /\ length = Cardinality(DOMAIN rows)
    /\ todo \in Seq(Call)
    /\ todo = <<>> => asked = {} /\ Elements \in Vec /\ Holds(rows, 0 .. length - 1, Elements)
    /\ todo # <<>> => before \in Vec /\ \E c : asked = {c} /\ Underway(c, rows, todo, before, kept)
    /\ \A b \in borrow : /\ todo = <<>> /\ borrow = {b}
                         /\ b.index \in DOMAIN rows /\ b.value \in Value

\* What each operation makes of a sequence.
LEMMA MadeIs ==
  ASSUME NEW v
  PROVE  /\ \A i, x : Made(Seqs!ToInsert(i, x), v) = InsertAt(v, i + 1, x)
         /\ \A i, x : Made(Seqs!ToUpdate(i, x), v) = [v EXCEPT ![i + 1] = x]
         /\ \A i : Made(Seqs!ToRemove(i), v) = RemoveAt(v, i + 1)
         /\ \A i : Made(Seqs!ToSwapRemove(i), v) = Front([v EXCEPT ![i + 1] = Last(v)])
         /\ Made(Seqs!ToClear, v) = <<>>
         /\ \A i, x : Made(ToAssign(i, x), v) = v
<1>1. ASSUME NEW i, NEW x
      PROVE  Made(Seqs!ToInsert(i, x), v) = InsertAt(v, i + 1, x)
  <2>1. /\ Seqs!ToInsert(i, x).op = "insert" /\ Seqs!ToInsert(i, x).index = i
        /\ Seqs!ToInsert(i, x).value = x
    BY DEF Seqs!ToInsert
  <2>. QED  BY <2>1 DEF Made, Seqs!Result, Seqs!InsertAt, InsertAt
<1>2. ASSUME NEW i, NEW x
      PROVE  Made(Seqs!ToUpdate(i, x), v) = [v EXCEPT ![i + 1] = x]
  <2>1. /\ Seqs!ToUpdate(i, x).op = "update" /\ Seqs!ToUpdate(i, x).index = i
        /\ Seqs!ToUpdate(i, x).value = x
    BY DEF Seqs!ToUpdate
  <2>. QED  BY <2>1 DEF Made, Seqs!Result
<1>3. ASSUME NEW i
      PROVE  Made(Seqs!ToRemove(i), v) = RemoveAt(v, i + 1)
  <2>1. Seqs!ToRemove(i).op = "remove" /\ Seqs!ToRemove(i).index = i
    BY DEF Seqs!ToRemove
  <2>. QED  BY <2>1 DEF Made, Seqs!Result, Seqs!RemoveAt, RemoveAt
<1>4. ASSUME NEW i
      PROVE  Made(Seqs!ToSwapRemove(i), v) = Front([v EXCEPT ![i + 1] = Last(v)])
  <2>1. Seqs!ToSwapRemove(i).op = "swap_remove" /\ Seqs!ToSwapRemove(i).index = i
    BY DEF Seqs!ToSwapRemove
  <2>. QED  BY <2>1 DEF Made, Seqs!Result, Seqs!Front, Seqs!Last, Front, Last
<1>5. Made(Seqs!ToClear, v) = <<>>
  <2>1. Seqs!ToClear.op = "clear"
    BY DEF Seqs!ToClear
  <2>. QED  BY <2>1 DEF Made, Seqs!Result
<1>6. \A i, x : Made(ToAssign(i, x), v) = v
  BY DEF Made, ToAssign
<1>. QED  BY <1>1, <1>2, <1>3, <1>4, <1>5, <1>6, Zenon

(***************************************************************************)
(* Whatever calls are left, at most one element is missing.                *)
(***************************************************************************)
Survives(k, m) ==
    \E lost \in SUBSET DOMAIN k :
        /\ Cardinality(lost) <= 1
        /\ \A x \in Value : Count(MapRemove(k, lost), x) <= Count(m, x)

\* f tells where in m each element of k is, but for those lost.
Finds(f, k, lost, m) ==
    /\ \A j \in DOMAIN k \ lost : f[j] \in DOMAIN m /\ m[f[j]] = k[j]
    /\ \A i, j \in DOMAIN k \ lost : f[i] = f[j] => i = j

\* Elements that are found in different places survive.
LEMMA FoundSurvives ==
  ASSUME NEW k, NEW m, IsFiniteSet(DOMAIN m),
         NEW lost \in SUBSET DOMAIN k, Cardinality(lost) <= 1,
         NEW f, Finds(f, k, lost, m)
  PROVE  Survives(k, m)
<1>1. ASSUME NEW x
      PROVE  Count(MapRemove(k, lost), x) <= Count(m, x)
  <2> DEFINE r == MapRemove(k, lost)
             S == {j \in DOMAIN r : r[j] = x}
             T == {j \in DOMAIN m : m[j] = x}
             g == [j \in S |-> f[j]]
  <2>1. DOMAIN r = DOMAIN k \ lost /\ \A j \in DOMAIN r : r[j] = k[j]
    BY DEF MapRemove, Restrict
  <2>. HIDE DEF r
  <2>2. \A j \in S : f[j] \in T
    BY <2>1 DEF Finds
  <2>3. \A i, j \in S : f[i] = f[j] => i = j
    BY <2>1 DEF Finds
  <2>4. g \in Injection(S, T)
    BY <2>2, <2>3 DEF Injection, IsInjective
  <2>5. IsFiniteSet(T)
    BY FS_Subset
  <2>6. Cardinality(S) <= Cardinality(T)
    BY <2>4, <2>5, FS_Injection
  <2>. QED  BY <2>6 DEF Count, r
<1>. QED  BY <1>1 DEF Survives

\* Numbers that move up, or down, below a place that stays free stay apart.
LEMMA ApartUp ==
  ASSUME NEW i \in Int, NEW a \in Int, NEW j \in Int, NEW h \in Int, j # a, h # a,
         (IF i < j /\ j < a THEN j + 1 ELSE j) = (IF i < h /\ h < a THEN h + 1 ELSE h)
  PROVE  j = h
<1>1. CASE (i < j /\ j < a) /\ ~(i < h /\ h < a)
  <2>1. j + 1 = h
    BY <1>1
  <2>. QED  BY <1>1, <2>1
<1>2. CASE ~(i < j /\ j < a) /\ (i < h /\ h < a)
  <2>1. j = h + 1
    BY <1>2
  <2>. QED  BY <1>2, <2>1
<1>3. CASE (i < j /\ j < a) /\ (i < h /\ h < a)
  <2>1. j + 1 = h + 1
    BY <1>3
  <2>. QED  BY <2>1
<1>4. CASE ~(i < j /\ j < a) /\ ~(i < h /\ h < a)
  BY <1>4
<1>. QED  BY <1>1, <1>2, <1>3, <1>4

\* The same, moving down onto it.
LEMMA ApartDown ==
  ASSUME NEW i \in Int, NEW a \in Int, NEW j \in Int, NEW h \in Int, j # i, h # i,
         (IF i < j /\ j <= a THEN j - 1 ELSE j) = (IF i < h /\ h <= a THEN h - 1 ELSE h)
  PROVE  j = h
<1>1. CASE (i < j /\ j <= a) /\ ~(i < h /\ h <= a)
  <2>1. j - 1 = h
    BY <1>1
  <2>. QED  BY <1>1, <2>1
<1>2. CASE ~(i < j /\ j <= a) /\ (i < h /\ h <= a)
  <2>1. j = h - 1
    BY <1>2
  <2>. QED  BY <1>2, <2>1
<1>3. CASE (i < j /\ j <= a) /\ (i < h /\ h <= a)
  <2>1. j - 1 = h - 1
    BY <1>3
  <2>. QED  BY <2>1
<1>4. CASE ~(i < j /\ j <= a) /\ ~(i < h /\ h <= a)
  BY <1>4
<1>. QED  BY <1>1, <1>2, <1>3, <1>4

\* Nothing is lost where each element that is to be kept is in its place.
LEMMA AllInPlace ==
  ASSUME NEW k, NEW m, IsFiniteSet(DOMAIN m),
         \A j \in DOMAIN k : j \in DOMAIN m /\ m[j] = k[j]
  PROVE  Survives(k, m)
<1> DEFINE f == [j \in DOMAIN k |-> j]
<1>1. Finds(f, k, {}, m)
  BY DEF Finds
<1>2. Cardinality({}) <= 1
  BY FS_EmptySet
<1>. HIDE DEF f
<1>. QED  BY <1>1, <1>2, FoundSurvives

\* An insertion lacks the element that is to move next.
LEMMA UpSurvives ==
  ASSUME NEW n \in Nat, NEW i, NEW a, NEW x, NEW m, IsFiniteSet(DOMAIN m),
         NEW s, NEW v, NEW k, MovingUp(n, i, a, x, m, s, v, k)
  PROVE  Survives(k, m)
<1> DEFINE lost == {a} \cap DOMAIN k
           f    == [j \in 0 .. n |-> IF i < j /\ j < a THEN j + 1 ELSE j]
<1>1. /\ i \in 0 .. n - 1 /\ a \in i .. n
      /\ DOMAIN m = IF a = n THEN 0 .. n ELSE 0 .. n - 1
      /\ \A j \in DOMAIN m : m[j] = IF i < j /\ j <= a THEN v[j] ELSE v[j + 1]
      /\ DOMAIN k = 0 .. n - 1 /\ \A j \in 0 .. n - 1 : k[j] = v[j + 1]
  BY DEF MovingUp, Holds
<1>2. Cardinality(lost) <= 1 /\ lost \in SUBSET DOMAIN k
  <2>1. IsFiniteSet({a}) /\ Cardinality({a}) = 1 /\ lost \in SUBSET {a}
    BY FS_Singleton
  <2>2. Cardinality(lost) <= Cardinality({a})
    BY <2>1, FS_Subset
  <2>. QED  BY <2>1, <2>2
<1>3. ASSUME NEW j \in DOMAIN k \ lost
      PROVE  f[j] \in DOMAIN m /\ m[f[j]] = k[j]
  <2>1. j \in 0 .. n - 1 /\ j # a
    BY <1>1
  <2>2. CASE i < j /\ j < a
    <3>1. f[j] = j + 1 /\ j + 1 \in DOMAIN m
      BY <1>1, <2>1, <2>2
    <3>2. m[j + 1] = v[j + 1]
      BY <1>1, <2>1, <2>2, <3>1
    <3>. QED  BY <1>1, <2>1, <3>1, <3>2
  <2>3. CASE ~(i < j /\ j < a)
    <3>1. f[j] = j /\ j \in DOMAIN m
      BY <1>1, <2>1, <2>3
    <3>2. m[j] = v[j + 1]
      BY <1>1, <2>1, <2>3, <3>1
    <3>. QED  BY <1>1, <2>1, <3>1, <3>2
  <2>. QED  BY <2>2, <2>3
<1>4. \A j, h \in DOMAIN k \ lost : f[j] = f[h] => j = h
  <2>. SUFFICES ASSUME NEW j \in DOMAIN k \ lost, NEW h \in DOMAIN k \ lost, f[j] = f[h]
                PROVE  j = h
    OBVIOUS
  <2>1. j \in 0 .. n - 1 /\ j # a /\ h \in 0 .. n - 1 /\ h # a
    BY <1>1
  <2>2. /\ f[j] = IF i < j /\ j < a THEN j + 1 ELSE j
        /\ f[h] = IF i < h /\ h < a THEN h + 1 ELSE h
    BY <2>1
  <2>. HIDE DEF f
  <2>3. i \in Int /\ a \in Int /\ j \in Int /\ h \in Int
    BY <1>1, <2>1
  <2>4. (IF i < j /\ j < a THEN j + 1 ELSE j) = (IF i < h /\ h < a THEN h + 1 ELSE h)
    BY <2>2
  <2>. QED  BY <2>1, <2>3, <2>4, ApartUp
<1>. HIDE DEF f, lost
<1>5. Finds(f, k, lost, m)
  BY <1>3, <1>4 DEF Finds
<1>. QED  BY <1>2, <1>5, FoundSurvives

\* A removal lacks no element: one is there twice.
LEMMA DownSurvives ==
  ASSUME NEW n \in Nat, NEW i, NEW a, NEW m, IsFiniteSet(DOMAIN m),
         NEW s, NEW v, NEW k, MovingDown(n, i, a, m, s, v, k)
  PROVE  Survives(k, m)
<1> DEFINE f == [j \in 0 .. n |-> IF i < j /\ j <= a THEN j - 1 ELSE j]
<1>1. /\ i \in 0 .. n - 1 /\ a \in i .. n - 1
      /\ DOMAIN m = IF a = i THEN (0 .. n - 1) \ {i} ELSE 0 .. n - 1
      /\ \A j \in DOMAIN m : m[j] = IF i <= j /\ j < a THEN v[j + 2] ELSE v[j + 1]
      /\ DOMAIN k = (0 .. n - 1) \ {i} /\ \A j \in (0 .. n - 1) \ {i} : k[j] = v[j + 1]
  BY DEF MovingDown, Holds
<1>2. Cardinality({}) <= 1
  BY FS_EmptySet
<1>3. ASSUME NEW j \in DOMAIN k
      PROVE  f[j] \in DOMAIN m /\ m[f[j]] = k[j]
  <2>1. j \in 0 .. n - 1 /\ j # i
    BY <1>1
  <2>2. CASE i < j /\ j <= a
    <3>1. f[j] = j - 1 /\ j - 1 \in DOMAIN m
      BY <1>1, <2>1, <2>2
    <3>2. i <= j - 1 /\ j - 1 < a /\ (j - 1) + 2 = j + 1
      BY <1>1, <2>1, <2>2
    <3>. HIDE DEF f
    <3>3. m[j - 1] = v[(j - 1) + 2]
      BY <1>1, <3>1, <3>2
    <3>. QED  BY <1>1, <2>1, <3>1, <3>2, <3>3
  <2>3. CASE ~(i < j /\ j <= a)
    <3>1. f[j] = j /\ j \in DOMAIN m
      BY <1>1, <2>1, <2>3
    <3>2. m[j] = v[j + 1]
      BY <1>1, <2>1, <2>3, <3>1
    <3>. QED  BY <1>1, <2>1, <3>1, <3>2
  <2>. QED  BY <2>2, <2>3
<1>4. \A j, h \in DOMAIN k : f[j] = f[h] => j = h
  <2>. SUFFICES ASSUME NEW j \in DOMAIN k, NEW h \in DOMAIN k, f[j] = f[h]
                PROVE  j = h
    OBVIOUS
  <2>1. j \in 0 .. n - 1 /\ j # i /\ h \in 0 .. n - 1 /\ h # i
    BY <1>1
  <2>2. /\ f[j] = IF i < j /\ j <= a THEN j - 1 ELSE j
        /\ f[h] = IF i < h /\ h <= a THEN h - 1 ELSE h
    BY <2>1
  <2>. HIDE DEF f
  <2>3. i \in Int /\ a \in Int /\ j \in Int /\ h \in Int
    BY <1>1, <2>1
  <2>4. (IF i < j /\ j <= a THEN j - 1 ELSE j) = (IF i < h /\ h <= a THEN h - 1 ELSE h)
    BY <2>2
  <2>. QED  BY <2>1, <2>3, <2>4, ApartDown
<1>. HIDE DEF f
<1>5. Finds(f, k, {}, m)
  BY <1>3, <1>4 DEF Finds
<1>. QED  BY <1>2, <1>5, FoundSurvives

\* A swap lacks the element that is to be put back.
LEMMA SwapSurvives ==
  ASSUME NEW n \in Nat, NEW i, NEW R, NEW m, IsFiniteSet(DOMAIN m),
         NEW s, NEW v, NEW k, Swapping(n, i, R, m, s, v, k)
  PROVE  Survives(k, m)
<1> DEFINE f == [j \in DOMAIN k |-> j]
<1>1. /\ DOMAIN m = (0 .. n - 1) \ R /\ \A j \in DOMAIN m : m[j] = v[j + 1]
      /\ DOMAIN k = (0 .. n - 1) \ {i} /\ \A j \in DOMAIN k : k[j] = v[j + 1]
      /\ i \in 0 .. n - 1
      /\ R = {} \/ R = {i} \/ (R = {i, n - 1} /\ i < n - 1)
  BY DEF Swapping, Holds
<1>2. CASE R \in {{}, {i}}
  <2>1. \A j \in DOMAIN k : j \in DOMAIN m /\ m[j] = k[j]
    BY <1>1, <1>2
  <2>. QED  BY <2>1, AllInPlace
<1>3. CASE R = {i, n - 1} /\ i < n - 1
  <2>1. {n - 1} \in SUBSET DOMAIN k /\ Cardinality({n - 1}) <= 1
    <3>1. n - 1 \in DOMAIN k
      BY <1>1, <1>3
    <3>2. Cardinality({n - 1}) = 1
      BY FS_Singleton
    <3>. QED  BY <3>1, <3>2
  <2>2. Finds(f, k, {n - 1}, m)
    BY <1>1, <1>3 DEF Finds
  <2>. HIDE DEF f
  <2>. QED  BY <2>1, <2>2, FoundSurvives
<1>. QED  BY <1>1, <1>2, <1>3

\* Whatever is underway, at most one element is missing.
LEMMA UnderwaySurvives ==
  ASSUME NEW m, IsFiniteSet(DOMAIN m), NEW s, NEW v, Len(v) \in Nat, NEW k,
         NEW c, Underway(c, m, s, v, k)
  PROVE  Survives(k, m)
<1>1. CASE OneCall(c, m, s, v, k)
  BY <1>1, AllInPlace DEF OneCall
<1>2. ASSUME NEW i, NEW a, NEW x, MovingUp(Len(v), i, a, x, m, s, v, k)
      PROVE  Survives(k, m)
  BY <1>2, UpSurvives
<1>3. ASSUME NEW i, Removing(Len(v), i, m, s, v, k)
      PROVE  Survives(k, m)
  BY <1>3, AllInPlace DEF Removing, Holds
<1>4. ASSUME NEW i, NEW a, MovingDown(Len(v), i, a, m, s, v, k)
      PROVE  Survives(k, m)
  BY <1>4, DownSurvives
<1>5. ASSUME NEW i, NEW R, Swapping(Len(v), i, R, m, s, v, k)
      PROVE  Survives(k, m)
  BY <1>5, SwapSurvives
<1>. QED  BY <1>1, <1>2, <1>3, <1>4, <1>5 DEF Underway

(***************************************************************************)
(* What a call leads to: the operation goes on, or it is done.             *)
(***************************************************************************)
\* The calls that are left after the first.
Rest(r, s) == Len(r) = Len(s) - 1 /\ \A j \in 1 .. Len(s) - 1 : r[j] = s[j + 1]

\* An insertion moves the next element up, or stores the new one.
LEMMA UpStep ==
  ASSUME NEW v \in Vec, NEW n \in Nat, n = Len(v), NEW i, NEW a, NEW x,
         NEW m, NEW s, NEW r, NEW k, MovingUp(n, i, a, x, m, s, v, k), Rest(r, s)
  PROVE  IF a = n THEN Done(Seqs!ToInsert(i, x), Called(m, s[1]), v)
         ELSE MovingUp(n, i, a + 1, x, Called(m, s[1]), r, v, k)
<1>1. /\ n < MaxLen /\ MaxLen \in Nat /\ i \in 0 .. n - 1 /\ a \in i .. n /\ x \in Value
      /\ DOMAIN m = IF a = n THEN 0 .. n ELSE 0 .. n - 1
      /\ \A j \in DOMAIN m : m[j] = IF i < j /\ j <= a THEN v[j] ELSE v[j + 1]
      /\ Len(s) = n - a + 1 /\ s[n - a + 1] = Put(i, x)
      /\ \A j \in 1 .. n - a : s[j] = Put(a + j, v[a + j])
  BY BoundAssumption DEF MovingUp
<1>2. CASE a = n
  <2> DEFINE m2 == MapInsert(m, i, x)
             t  == InsertAt(v, i + 1, x)
  <2>1. s[1] = Put(i, x)
    <3>1. n - a + 1 = 1
      BY <1>1, <1>2
    <3>. QED  BY <1>1, <3>1
  <2>2. Called(m, s[1]) = m2
    BY <2>1, CalledIs
  <2>3. /\ v \in Seq(Value) /\ i \in 0 .. Len(v) /\ i \in Int
    BY <1>1 DEF Vec
  <2>4. /\ t \in Seq(Value) /\ Len(t) = n + 1
        /\ \A j \in 1 .. n + 1 :
             t[j] = IF j <= i THEN v[j] ELSE IF j = i + 1 THEN x ELSE v[j - 1]
    BY <1>1, <2>3, InsertAtIs
  <2>5. DOMAIN m2 = 0 .. n /\ \A j \in 0 .. n : m2[j] = IF j = i THEN x ELSE m[j]
    BY <1>1, <1>2 DEF MapInsert
  <2>. HIDE DEF t, m2
  <2>6. ASSUME NEW j \in 0 .. n
        PROVE  m2[j] = t[j + 1]
    <3>1. j + 1 \in 1 .. n + 1 /\ (j + 1) - 1 = j /\ j \in Int
      OBVIOUS
    <3>2. t[j + 1] = IF j + 1 <= i THEN v[j + 1] ELSE IF j + 1 = i + 1 THEN x ELSE v[j]
      BY <2>4, <3>1
    <3>3. CASE j = i
      BY <2>5, <2>3, <3>1, <3>2, <3>3
    <3>4. CASE j < i
      BY <1>1, <1>2, <2>5, <2>3, <3>1, <3>2, <3>4
    <3>5. CASE j > i
      BY <1>1, <1>2, <2>5, <2>3, <3>1, <3>2, <3>5
    <3>. QED  BY <2>3, <3>1, <3>3, <3>4, <3>5
  <2>7. t \in Vec
    BY <1>1, <2>4 DEF Vec
  <2>8. Made(Seqs!ToInsert(i, x), v) = t
    BY MadeIs, SMT DEF t
  <2>9. Len(t) - 1 = n
    BY <2>4
  <2>10. Done(Seqs!ToInsert(i, x), m2, v)
    BY <2>5, <2>6, <2>7, <2>8, <2>9 DEF Done, Holds
  <2>. QED  BY <1>2, <2>2, <2>10
<1>3. CASE a # n
  <2> DEFINE m2 == MapInsert(m, a + 1, v[a + 1])
  <2>1. 1 \in 1 .. n - a /\ a < n /\ a \in Int /\ i \in Int
    BY <1>1, <1>3
  <2>2. Called(m, s[1]) = m2
    <3>1. s[1] = Put(a + 1, v[a + 1])
      BY <1>1, <2>1
    <3>. QED  BY <3>1, CalledIs
  <2>3. /\ DOMAIN m2 = (0 .. n - 1) \cup {a + 1}
        /\ \A j \in DOMAIN m2 : m2[j] = IF j = a + 1 THEN v[a + 1] ELSE m[j]
    BY <1>1, <1>3 DEF MapInsert
  <2>. HIDE DEF m2
  <2>4. DOMAIN m2 = IF a + 1 = n THEN 0 .. n ELSE 0 .. n - 1
    <3>1. CASE a + 1 = n
      BY <1>1, <2>1, <2>3, <3>1
    <3>2. CASE a + 1 # n
      BY <1>1, <2>1, <2>3, <3>2
    <3>. QED  BY <3>1, <3>2
  <2>5. ASSUME NEW j \in DOMAIN m2
        PROVE  m2[j] = IF i < j /\ j <= a + 1 THEN v[j] ELSE v[j + 1]
    <3>1. j \in Int
      BY <2>1, <2>3
    <3>2. CASE j = a + 1
      BY <1>1, <2>1, <2>3, <3>1, <3>2
    <3>3. CASE j # a + 1
      <4>1. j \in DOMAIN m /\ m2[j] = m[j] /\ (j <= a <=> j <= a + 1)
        BY <1>1, <1>3, <2>1, <2>3, <3>1, <3>3
      <4>. QED  BY <1>1, <4>1
    <3>. QED  BY <3>2, <3>3
  <2>6. /\ Len(r) = n - (a + 1) + 1 /\ r[n - (a + 1) + 1] = Put(i, x)
        /\ \A j \in 1 .. n - (a + 1) : r[j] = Put((a + 1) + j, v[(a + 1) + j])
    <3>1. Len(r) = n - a /\ \A j \in 1 .. n - a : r[j] = s[j + 1]
      BY <1>1, <2>1 DEF Rest
    <3>2. n - (a + 1) + 1 = n - a /\ n - a \in 1 .. n - a
      BY <2>1
    <3>3. \A j \in 1 .. n - (a + 1) : j \in 1 .. n - a /\ j + 1 \in 1 .. n - a /\ a + (j + 1) = (a + 1) + j
      BY <2>1
    <3>. QED  BY <1>1, <3>1, <3>2, <3>3
  <2>7. a + 1 \in i .. n
    BY <1>1, <2>1
  <2>8. Holds(k, 0 .. n - 1, v)
    BY DEF MovingUp
  <2>9. MovingUp(n, i, a + 1, x, m2, r, v, k)
    BY <1>1, <2>4, <2>5, <2>6, <2>7, <2>8 DEF MovingUp
  <2>. QED  BY <1>3, <2>2, <2>9
<1>. QED  BY <1>2, <1>3

\* A removal moves the next element down, or drops the row that is left over.
LEMMA DownStep ==
  ASSUME NEW v \in Vec, NEW n \in Nat, n = Len(v), NEW i, NEW a,
         NEW m, NEW s, NEW r, NEW k, MovingDown(n, i, a, m, s, v, k), Rest(r, s)
  PROVE  IF a = n - 1 THEN Done(Seqs!ToRemove(i), Called(m, s[1]), v)
         ELSE MovingDown(n, i, a + 1, Called(m, s[1]), r, v, k)
<1>1. /\ n <= MaxLen /\ MaxLen \in Nat /\ i \in 0 .. n - 1 /\ a \in i .. n - 1
      /\ DOMAIN m = IF a = i THEN (0 .. n - 1) \ {i} ELSE 0 .. n - 1
      /\ \A j \in DOMAIN m : m[j] = IF i <= j /\ j < a THEN v[j + 2] ELSE v[j + 1]
      /\ Len(s) = n - a /\ s[n - a] = Del(n - 1)
      /\ \A j \in 1 .. n - a - 1 : s[j] = Put(a + j - 1, v[a + j + 1])
  BY BoundAssumption DEF MovingDown, Vec
<1>0. i \in Int /\ a \in Int /\ n \in Int
  BY <1>1
<1>2. CASE a = n - 1
  <2> DEFINE m2 == MapRemove(m, {n - 1})
             t  == RemoveAt(v, i + 1)
  <2>1. s[1] = Del(n - 1)
    <3>1. n - a = 1
      BY <1>1, <1>2
    <3>. QED  BY <1>1, <3>1
  <2>2. Called(m, s[1]) = m2
    <3>1. n - 1 \in Nat
      BY <1>0, <1>1
    <3>. QED  BY <2>1, <3>1, CalledIs
  <2>3. v \in Seq(Value) /\ i \in 0 .. Len(v) - 1
    BY <1>1 DEF Vec
  <2>4. /\ t \in Seq(Value) /\ Len(t) = n - 1
        /\ \A j \in 1 .. n - 1 : t[j] = IF j <= i THEN v[j] ELSE v[j + 1]
    BY <2>3, RemoveAtIs
  <2>5. DOMAIN m2 = DOMAIN m \ {n - 1} /\ \A j \in DOMAIN m2 : m2[j] = m[j]
    BY DEF MapRemove, Restrict
  <2>. HIDE DEF t, m2
  <2>6. DOMAIN m2 = 0 .. n - 2
    BY <1>0, <1>1, <1>2, <2>5
  <2>7. ASSUME NEW j \in 0 .. n - 2
        PROVE  m2[j] = t[j + 1]
    <3>1. j + 1 \in 1 .. n - 1 /\ (j + 1) + 1 = j + 2 /\ j \in Int /\ j \in DOMAIN m
      BY <1>0, <2>5, <2>6
    <3>2. t[j + 1] = IF j + 1 <= i THEN v[j + 1] ELSE v[j + 2]
      BY <2>4, <3>1
    <3>3. m2[j] = IF i <= j /\ j < a THEN v[j + 2] ELSE v[j + 1]
      BY <1>1, <2>5, <2>6, <3>1
    <3>4. CASE i <= j
      <4>1. ~(j + 1 <= i) /\ j < a
        BY <1>0, <1>2, <3>1, <3>4
      <4>. QED  BY <3>2, <3>3, <3>4, <4>1
    <3>5. CASE ~(i <= j)
      <4>1. j + 1 <= i
        BY <1>0, <3>1, <3>5
      <4>. QED  BY <3>2, <3>3, <3>5, <4>1
    <3>. QED  BY <3>4, <3>5
  <2>8. t \in Vec
    BY <1>0, <1>1, <2>4 DEF Vec
  <2>9. Made(Seqs!ToRemove(i), v) = t
    BY MadeIs, Zenon DEF t
  <2>10. Len(t) - 1 = n - 2
    BY <1>0, <2>4
  <2>11. Done(Seqs!ToRemove(i), m2, v)
    BY <2>6, <2>7, <2>8, <2>9, <2>10 DEF Done, Holds
  <2>. QED  BY <1>2, <2>2, <2>11
<1>3. CASE a # n - 1
  <2> DEFINE m2 == MapInsert(m, a, v[a + 2])
  <2>1. 1 \in 1 .. n - a - 1 /\ a < n - 1 /\ a + 1 - 1 = a /\ a + 1 + 1 = a + 2
    BY <1>0, <1>1, <1>3
  <2>2. Called(m, s[1]) = m2
    <3>1. s[1] = Put(a, v[a + 2])
      BY <1>1, <2>1
    <3>. QED  BY <3>1, CalledIs
  <2>3. /\ DOMAIN m2 = DOMAIN m \cup {a}
        /\ \A j \in DOMAIN m2 : m2[j] = IF j = a THEN v[a + 2] ELSE m[j]
    BY DEF MapInsert
  <2>. HIDE DEF m2
  <2>4. DOMAIN m2 = 0 .. n - 1
    BY <1>0, <1>1, <2>1, <2>3
  <2>5. ASSUME NEW j \in DOMAIN m2
        PROVE  m2[j] = IF i <= j /\ j < a + 1 THEN v[j + 2] ELSE v[j + 1]
    <3>1. j \in Int
      BY <2>4
    <3>2. CASE j = a
      BY <1>0, <1>1, <2>3, <3>1, <3>2
    <3>3. CASE j # a
      <4>1. j \in DOMAIN m /\ m2[j] = m[j] /\ (j < a <=> j < a + 1)
        BY <1>0, <2>3, <3>1, <3>3
      <4>. QED  BY <1>1, <4>1
    <3>. QED  BY <3>2, <3>3
  <2>6. /\ Len(r) = n - (a + 1) /\ r[n - (a + 1)] = Del(n - 1)
        /\ \A j \in 1 .. n - (a + 1) - 1 : r[j] = Put((a + 1) + j - 1, v[(a + 1) + j + 1])
    <3>1. Len(r) = n - a - 1 /\ \A j \in 1 .. n - a - 1 : r[j] = s[j + 1]
      BY <1>1 DEF Rest
    <3>2. n - (a + 1) = n - a - 1 /\ n - a - 1 \in 1 .. n - a - 1 /\ (n - a - 1) + 1 = n - a
      BY <1>0, <2>1
    <3>3. \A j \in 1 .. n - (a + 1) - 1 :
            /\ j \in 1 .. n - a - 1 /\ j + 1 \in 1 .. n - a - 1
            /\ a + (j + 1) - 1 = (a + 1) + j - 1 /\ a + (j + 1) + 1 = (a + 1) + j + 1
      BY <1>0, <2>1
    <3>. QED  BY <1>1, <3>1, <3>2, <3>3
  <2>7. a + 1 \in i .. n - 1 /\ a + 1 # i
    BY <1>0, <1>1, <2>1
  <2>8. Holds(k, (0 .. n - 1) \ {i}, v)
    BY DEF MovingDown
  <2>9. MovingDown(n, i, a + 1, m2, r, v, k)
    BY <1>1, <2>4, <2>5, <2>6, <2>7, <2>8 DEF MovingDown
  <2>. QED  BY <1>3, <2>2, <2>9
<1>. QED  BY <1>2, <1>3

\* A removal begins by dropping the element.
LEMMA RemovingStep ==
  ASSUME NEW n \in Nat, NEW i, NEW m, NEW s, NEW r, NEW v, NEW k,
         Removing(n, i, m, s, v, k), Rest(r, s)
  PROVE  MovingDown(n, i, i, Called(m, s[1]), r, v, k)
<1>1. /\ i \in 0 .. n - 1
      /\ DOMAIN m = 0 .. n - 1 /\ \A j \in 0 .. n - 1 : m[j] = v[j + 1]
      /\ Len(s) = n - i + 1 /\ s[1] = Del(i) /\ s[n - i + 1] = Del(n - 1)
      /\ \A j \in 2 .. n - i : s[j] = Put(i + j - 2, v[i + j])
      /\ Holds(k, (0 .. n - 1) \ {i}, v)
  BY DEF Removing, Holds
<1>0. i \in Int
  BY <1>1
<1>2. Called(m, s[1]) = MapRemove(m, {i})
  <2>1. i \in Nat
    BY <1>1
  <2>. QED  BY <1>1, <2>1, CalledIs
<1> DEFINE m2 == MapRemove(m, {i})
<1>3. /\ DOMAIN m2 = (0 .. n - 1) \ {i}
      /\ \A j \in DOMAIN m2 : m2[j] = IF i <= j /\ j < i THEN v[j + 2] ELSE v[j + 1]
  <2>1. DOMAIN m2 = (0 .. n - 1) \ {i} /\ \A j \in DOMAIN m2 : m2[j] = v[j + 1]
    BY <1>1 DEF MapRemove, Restrict
  <2>2. \A j \in DOMAIN m2 : ~(i <= j /\ j < i)
    BY <1>0, <2>1
  <2>. QED  BY <2>1, <2>2
<1>. HIDE DEF m2
<1>4. /\ Len(r) = n - i /\ r[n - i] = Del(n - 1)
      /\ \A j \in 1 .. n - i - 1 : r[j] = Put(i + j - 1, v[i + j + 1])
  <2>1. (n - i + 1) - 1 = n - i
    BY <1>0
  <2>2. Len(r) = n - i /\ \A j \in 1 .. n - i : r[j] = s[j + 1]
    BY <1>1, <2>1 DEF Rest
  <2>3. n - i \in 1 .. n - i
    BY <1>0, <1>1
  <2>4. \A j \in 1 .. n - i - 1 :
          /\ j \in 1 .. n - i /\ j + 1 \in 2 .. n - i
          /\ i + (j + 1) - 2 = i + j - 1 /\ i + (j + 1) = i + j + 1
    BY <1>0
  <2>. QED  BY <1>1, <2>2, <2>3, <2>4
<1>5. i \in i .. n - 1
  BY <1>0, <1>1
<1>. QED  BY <1>1, <1>2, <1>3, <1>4, <1>5 DEF MovingDown, m2

\* A map with the elements that a swap leaves is done.
LEMMA SwapDone ==
  ASSUME NEW v \in Vec, NEW n \in Nat, n = Len(v), NEW i \in 0 .. n - 1, NEW m,
         DOMAIN m = 0 .. n - 2,
         \A j \in 0 .. n - 2 : m[j] = IF j = i THEN v[n] ELSE v[j + 1]
  PROVE  Done(Seqs!ToSwapRemove(i), m, v)
<1> DEFINE t == Front([v EXCEPT ![i + 1] = Last(v)])
<1>0. i \in Int /\ n <= MaxLen /\ MaxLen \in Nat
  BY BoundAssumption DEF Vec
<1>1. v \in Seq(Value) /\ i \in 0 .. Len(v) - 1
  BY DEF Vec
<1>2. /\ t \in Seq(Value) /\ Len(t) = n - 1
      /\ \A j \in 1 .. n - 1 : t[j] = IF j = i + 1 THEN v[n] ELSE v[j]
  BY <1>1, SwapIs
<1>3. Made(Seqs!ToSwapRemove(i), v) = t
  BY MadeIs, Zenon
<1>. HIDE DEF t
<1>4. ASSUME NEW j \in 0 .. n - 2
      PROVE  m[j] = t[j + 1]
  <2>1. j + 1 \in 1 .. n - 1 /\ (j + 1 = i + 1 <=> j = i)
    BY <1>0
  <2>. QED  BY <1>2, <2>1
<1>5. t \in Vec
  BY <1>0, <1>2 DEF Vec
<1>6. Len(t) - 1 = n - 2
  BY <1>2
<1>. QED  BY <1>3, <1>4, <1>5, <1>6 DEF Done, Holds

\* A swap drops the element, drops the last one, and puts that back.
LEMMA SwapStep ==
  ASSUME NEW v \in Vec, NEW n \in Nat, n = Len(v), NEW i, NEW R,
         NEW m, NEW s, NEW r, NEW k, Swapping(n, i, R, m, s, v, k), Rest(r, s)
  PROVE  IF Len(s) = 1 THEN Done(Seqs!ToSwapRemove(i), Called(m, s[1]), v)
         ELSE \E Q \in {{i}, {i, n - 1}} : Swapping(n, i, Q, Called(m, s[1]), r, v, k)
<1>1. /\ i \in 0 .. n - 1
      /\ DOMAIN m = (0 .. n - 1) \ R /\ \A j \in (0 .. n - 1) \ R : m[j] = v[j + 1]
      /\ Holds(k, (0 .. n - 1) \ {i}, v)
      /\ Len(r) = Len(s) - 1 /\ \A j \in 1 .. Len(s) - 1 : r[j] = s[j + 1]
  BY DEF Swapping, Holds, Rest
<1>0. i \in Int /\ i \in Nat /\ n - 1 \in Nat
  BY <1>1
<1>2. CASE R = {}
  <2>1. /\ Len(s) = (IF i = n - 1 THEN 2 ELSE 3)
        /\ s[1] = Del(i) /\ s[2] = Del(n - 1)
        /\ i < n - 1 => s[3] = Put(i, v[n])
    BY <1>1, <1>2 DEF Swapping
  <2> DEFINE m2 == MapRemove(m, {i})
  <2>2. Called(m, s[1]) = m2
    BY <1>0, <2>1, CalledIs
  <2>3. Holds(m2, (0 .. n - 1) \ {i}, v)
    BY <1>1, <1>2 DEF Holds, MapRemove, Restrict
  <2>. HIDE DEF m2
  <2>4. /\ Len(r) = (IF i = n - 1 THEN 1 ELSE 2)
        /\ r[1] = Del(n - 1)
        /\ i < n - 1 => r[2] = Put(i, v[n])
    <3>1. CASE i = n - 1
      BY <1>0, <1>1, <2>1, <3>1
    <3>2. CASE i # n - 1
      BY <1>0, <1>1, <2>1, <3>2
    <3>. QED  BY <3>1, <3>2
  <2>5. Swapping(n, i, {i}, m2, r, v, k)
    BY <1>1, <2>3, <2>4 DEF Swapping
  <2>6. Len(s) # 1
    BY <2>1
  <2>. QED  BY <2>2, <2>5, <2>6
<1>3. CASE R # {} /\ i = n - 1
  <2>1. R = {i} /\ Len(s) = 1 /\ s[1] = Del(n - 1)
    BY <1>0, <1>3 DEF Swapping
  <2> DEFINE m2 == MapRemove(m, {n - 1})
  <2>2. Called(m, s[1]) = m2
    BY <1>0, <2>1, CalledIs
  <2>3. DOMAIN m2 = 0 .. n - 2
    BY <1>1, <1>3, <2>1 DEF MapRemove, Restrict
  <2>4. \A j \in 0 .. n - 2 : m2[j] = v[j + 1] /\ j # i
    BY <1>1, <1>3, <2>1 DEF MapRemove, Restrict
  <2>. HIDE DEF m2
  <2>5. \A j \in 0 .. n - 2 : m2[j] = IF j = i THEN v[n] ELSE v[j + 1]
    BY <2>4
  <2>6. Done(Seqs!ToSwapRemove(i), m2, v)
    BY <1>1, <2>3, <2>5, SwapDone
  <2>. QED  BY <2>1, <2>2, <2>6
<1>4. CASE R = {i} /\ i # n - 1
  <2>1. Len(s) = 2 /\ s[1] = Del(n - 1) /\ s[2] = Put(i, v[n]) /\ i < n - 1
    <3>1. i < n - 1
      BY <1>0, <1>1, <1>4
    <3>2. {i} # {i, n - 1} /\ {i} # {}
      BY <1>4
    <3>. QED  BY <1>4, <3>1, <3>2 DEF Swapping
  <2> DEFINE m2 == MapRemove(m, {n - 1})
  <2>2. Called(m, s[1]) = m2
    BY <1>0, <2>1, CalledIs
  <2>3. Holds(m2, (0 .. n - 1) \ {i, n - 1}, v)
    BY <1>1, <1>4 DEF Holds, MapRemove, Restrict
  <2>. HIDE DEF m2
  <2>4. Len(r) = 1 /\ r[1] = Put(i, v[n])
    BY <1>1, <2>1
  <2>5. Swapping(n, i, {i, n - 1}, m2, r, v, k)
    BY <1>1, <2>1, <2>3, <2>4 DEF Swapping
  <2>6. Len(s) # 1
    BY <2>1
  <2>. QED  BY <2>2, <2>5, <2>6
<1>5. CASE R # {} /\ R # {i}
  <2>1. R = {i, n - 1} /\ i < n - 1 /\ Len(s) = 1 /\ s[1] = Put(i, v[n])
    BY <1>5 DEF Swapping
  <2> DEFINE m2 == MapInsert(m, i, v[n])
  <2>2. Called(m, s[1]) = m2
    BY <1>0, <2>1, CalledIs
  <2>3. DOMAIN m2 = 0 .. n - 2
    <3>1. DOMAIN m2 = DOMAIN m \cup {i}
      BY DEF MapInsert
    <3>2. i \in 0 .. n - 2
      BY <1>0, <1>1, <2>1
    <3>3. ((0 .. n - 1) \ {i, n - 1}) \cup {i} = 0 .. n - 2
      BY <3>2
    <3>4. DOMAIN m = (0 .. n - 1) \ {i, n - 1}
      BY <1>1, <2>1
    <3>. HIDE DEF m2
    <3>. QED  BY <3>1, <3>3, <3>4
  <2>4. \A j \in 0 .. n - 2 : m2[j] = IF j = i THEN v[n] ELSE v[j + 1]
    <3>1. \A j \in 0 .. n - 2 : j # i => j \in DOMAIN m
      BY <1>0, <1>1, <2>1
    <3>. QED  BY <1>1, <2>3, <3>1 DEF MapInsert
  <2>. HIDE DEF m2
  <2>5. Done(Seqs!ToSwapRemove(i), m2, v)
    BY <1>1, <2>3, <2>4, SwapDone
  <2>. QED  BY <2>1, <2>2, <2>5
<1>. QED  BY <1>2, <1>3, <1>4, <1>5

\* The next call of an operation finishes it or leaves it underway.
LEMMA UnderwayStep ==
  ASSUME NEW v \in Vec, NEW m, NEW s \in Seq(Call), s # <<>>, NEW k,
         NEW c, Underway(c, m, s, v, k)
  PROVE  IF Tail(s) = <<>> THEN Done(c, Called(m, Head(s)), v)
         ELSE Underway(c, Called(m, Head(s)), Tail(s), v, k)
<1> DEFINE n  == Len(v)
           m2 == Called(m, s[1])
           r  == Tail(s)
<1>1. /\ Head(s) = s[1] /\ Rest(r, s)
      /\ Len(s) \in Nat /\ (r = <<>> <=> Len(s) = 1)
  <2>1. r \in Seq(Call) /\ Len(r) = Len(s) - 1 /\ \A j \in 1 .. Len(r) : r[j] = s[j + 1]
    BY HeadTailProperties
  <2>2. Len(s) \in Nat /\ (r = <<>> <=> Len(r) = 0)
    BY <2>1, LenProperties, EmptySeq
  <2>3. Head(s) = s[1]
    OBVIOUS
  <2>. QED  BY <2>1, <2>2, <2>3 DEF Rest
<1>2. n \in Nat /\ n \in Int
  BY LenProperties DEF Vec
<1>. HIDE DEF r, n
<1>3. CASE OneCall(c, m, s, v, k)
  BY <1>1, <1>3 DEF OneCall, r
<1>4. ASSUME NEW i, NEW a, NEW x \in Value,
             c = Seqs!ToInsert(i, x), MovingUp(n, i, a, x, m, s, v, k)
      PROVE  IF r = <<>> THEN Done(c, m2, v) ELSE Underway(c, m2, r, v, k)
  <2>1. /\ i \in 0 .. n - 1 /\ a \in i .. n /\ Len(s) = n - a + 1
    BY <1>4 DEF MovingUp
  <2>2. r = <<>> <=> a = n
    BY <1>1, <1>2, <2>1
  <2>3. IF a = n THEN Done(c, m2, v) ELSE MovingUp(n, i, a + 1, x, m2, r, v, k)
    BY <1>1, <1>2, <1>4, UpStep DEF n
  <2>4. i \in 0 .. n /\ (a # n => a + 1 \in 0 .. n)
    BY <1>2, <2>1
  <2>. QED  BY <1>4, <2>2, <2>3, <2>4 DEF Underway, n
<1>5. ASSUME NEW i, c = Seqs!ToRemove(i), Removing(n, i, m, s, v, k)
      PROVE  IF r = <<>> THEN Done(c, m2, v) ELSE Underway(c, m2, r, v, k)
  <2>1. i \in 0 .. n - 1 /\ Len(s) = n - i + 1
    BY <1>5 DEF Removing
  <2>2. MovingDown(n, i, i, m2, r, v, k)
    BY <1>1, <1>2, <1>5, RemovingStep
  <2>3. r # <<>> /\ i \in 0 .. n
    BY <1>1, <1>2, <2>1
  <2>. QED  BY <1>5, <2>2, <2>3 DEF Underway, n
<1>6. ASSUME NEW i, NEW a, c = Seqs!ToRemove(i), MovingDown(n, i, a, m, s, v, k)
      PROVE  IF r = <<>> THEN Done(c, m2, v) ELSE Underway(c, m2, r, v, k)
  <2>1. i \in 0 .. n - 1 /\ a \in i .. n - 1 /\ Len(s) = n - a
    BY <1>6 DEF MovingDown
  <2>2. r = <<>> <=> a = n - 1
    BY <1>1, <1>2, <2>1
  <2>3. IF a = n - 1 THEN Done(c, m2, v) ELSE MovingDown(n, i, a + 1, m2, r, v, k)
    BY <1>1, <1>2, <1>6, DownStep DEF n
  <2>4. i \in 0 .. n /\ a + 1 \in 0 .. n
    BY <1>2, <2>1
  <2>. QED  BY <1>6, <2>2, <2>3, <2>4 DEF Underway, n
<1>7. ASSUME NEW i, NEW R, c = Seqs!ToSwapRemove(i), Swapping(n, i, R, m, s, v, k)
      PROVE  IF r = <<>> THEN Done(c, m2, v) ELSE Underway(c, m2, r, v, k)
  <2>1. i \in 0 .. n
    BY <1>2, <1>7 DEF Swapping
  <2>2. IF Len(s) = 1 THEN Done(c, m2, v)
        ELSE \E Q \in {{i}, {i, n - 1}} : Swapping(n, i, Q, m2, r, v, k)
    <3>1. IF Len(s) = 1 THEN Done(Seqs!ToSwapRemove(i), m2, v)
          ELSE \E Q \in {{i}, {i, n - 1}} : Swapping(n, i, Q, m2, r, v, k)
      BY <1>1, <1>2, <1>7, SwapStep DEF n
    <3>. QED  BY <1>7, <3>1
  <2>3. CASE Len(s) = 1
    BY <1>1, <2>2, <2>3
  <2>4. CASE Len(s) # 1
    <3>1. PICK Q \in {{i}, {i, n - 1}} : Swapping(n, i, Q, m2, r, v, k)
      BY <2>2, <2>4
    <3>. HIDE DEF m2
    <3>2. Underway(c, m2, r, v, k)
      BY <1>7, <2>1, <3>1, Zenon DEF Underway, n
    <3>. QED  BY <1>1, <2>4, <3>2
  <2>. QED  BY <2>3, <2>4
<1>. QED  BY <1>1, <1>3, <1>4, <1>5, <1>6, <1>7 DEF Underway, n, r

-----------------------------------------------------------------------------
(***************************************************************************)
(* Every operation begins so that its calls take it where it may go.       *)
(***************************************************************************)
\* There is one element more.
LEMMA DonePush ==
  ASSUME NEW v \in Vec, NEW n \in Nat, n = Len(v), n < MaxLen, NEW x \in Value,
         NEW m, Holds(m, 0 .. n - 1, v)
  PROVE  Done(Seqs!ToInsert(n, x), MapInsert(m, n, x), v)
<1> DEFINE t == InsertAt(v, n + 1, x)
<1>1. v \in Seq(Value) /\ n \in 0 .. Len(v) /\ MaxLen \in Nat
  BY BoundAssumption DEF Vec
<1>2. /\ t \in Seq(Value) /\ Len(t) = n + 1
      /\ \A j \in 1 .. n + 1 : t[j] = IF j <= n THEN v[j] ELSE IF j = n + 1 THEN x ELSE v[j - 1]
  BY <1>1, InsertAtIs
<1>3. Made(Seqs!ToInsert(n, x), v) = t
  <2>1. \A j, y : Made(Seqs!ToInsert(j, y), v) = InsertAt(v, j + 1, y)
    BY MadeIs, Zenon
  <2>. QED  BY <2>1, SMT
<1>. HIDE DEF t
<1>4. t \in Vec /\ Len(t) - 1 = n
  BY <1>1, <1>2 DEF Vec
<1>5. ASSUME NEW j \in 0 .. n
      PROVE  MapInsert(m, n, x)[j] = t[j + 1]
  <2>1. j + 1 \in 1 .. n + 1 /\ (j + 1 <= n <=> j # n) /\ (j # n => j \in 0 .. n - 1)
    OBVIOUS
  <2>2. t[j + 1] = IF j # n THEN v[j + 1] ELSE x
    BY <1>2, <2>1
  <2>. QED  BY <2>1, <2>2 DEF MapInsert, Holds
<1>6. DOMAIN MapInsert(m, n, x) = 0 .. n
  <2>1. (0 .. n - 1) \cup {n} = 0 .. n
    OBVIOUS
  <2>. QED  BY <2>1 DEF MapInsert, Holds
<1>. QED  BY <1>3, <1>4, <1>5, <1>6 DEF Done, Holds

\* The last element is gone.
LEMMA DonePop ==
  ASSUME NEW v \in Vec, NEW n \in Nat, n = Len(v), n > 0, NEW m, Holds(m, 0 .. n - 1, v)
  PROVE  Done(Seqs!ToRemove(n - 1), MapRemove(m, {n - 1}), v)
<1> DEFINE t == RemoveAt(v, (n - 1) + 1)
<1>1. v \in Seq(Value) /\ n - 1 \in 0 .. Len(v) - 1 /\ n <= MaxLen /\ MaxLen \in Nat
  BY BoundAssumption DEF Vec
<1>2. /\ t \in Seq(Value) /\ Len(t) = n - 1
      /\ \A j \in 1 .. n - 1 : t[j] = IF j <= n - 1 THEN v[j] ELSE v[j + 1]
  BY <1>1, RemoveAtIs
<1>3. Made(Seqs!ToRemove(n - 1), v) = t
  BY MadeIs, Zenon
<1>. HIDE DEF t
<1>4. t \in Vec /\ Len(t) - 1 = n - 2
  BY <1>1, <1>2 DEF Vec
<1>5. DOMAIN MapRemove(m, {n - 1}) = 0 .. n - 2
  <2>1. (0 .. n - 1) \ {n - 1} = 0 .. n - 2
    OBVIOUS
  <2>. QED  BY <2>1 DEF MapRemove, Restrict, Holds
<1>6. ASSUME NEW j \in 0 .. n - 2
      PROVE  MapRemove(m, {n - 1})[j] = t[j + 1]
  <2>1. j + 1 \in 1 .. n - 1 /\ j \in (0 .. n - 1) \ {n - 1}
    OBVIOUS
  <2>2. t[j + 1] = v[j + 1]
    BY <1>2, <2>1
  <2>. QED  BY <2>1, <2>2 DEF MapRemove, Restrict, Holds
<1>. QED  BY <1>3, <1>4, <1>5, <1>6 DEF Done, Holds

\* One element is another.
LEMMA DoneUpdate ==
  ASSUME NEW v \in Vec, NEW n \in Nat, n = Len(v), NEW i \in 0 .. n - 1, NEW x \in Value,
         NEW m, Holds(m, 0 .. n - 1, v)
  PROVE  Done(Seqs!ToUpdate(i, x), MapInsert(m, i, x), v)
<1> DEFINE t == [v EXCEPT ![i + 1] = x]
<1>1. v \in Seq(Value) /\ i \in 0 .. Len(v) - 1 /\ i + 1 \in 1 .. Len(v) /\ n <= MaxLen
  BY DEF Vec
<1>2. /\ t \in Seq(Value) /\ Len(t) = n
      /\ \A j \in 1 .. n : t[j] = IF j = i + 1 THEN x ELSE v[j]
  BY <1>1, ExceptSeq
<1>3. Made(Seqs!ToUpdate(i, x), v) = t
  BY MadeIs, SMT
<1>. HIDE DEF t
<1>4. t \in Vec
  BY <1>1, <1>2 DEF Vec
<1>5. ASSUME NEW j \in 0 .. n - 1
      PROVE  MapInsert(m, i, x)[j] = t[j + 1]
  <2>1. j + 1 \in 1 .. n /\ (j + 1 = i + 1 <=> j = i)
    OBVIOUS
  <2>2. t[j + 1] = IF j = i THEN x ELSE v[j + 1]
    BY <1>2, <2>1
  <2>. QED  BY <2>2 DEF MapInsert, Holds
<1>6. DOMAIN MapInsert(m, i, x) = 0 .. n - 1
  BY DEF MapInsert, Holds
<1>. QED  BY <1>2, <1>3, <1>4, <1>5, <1>6 DEF Done, Holds

\* A copy of an element is written over it.
LEMMA DoneAssign ==
  ASSUME NEW v \in Vec, NEW n \in Nat, n = Len(v), NEW i \in 0 .. n - 1, NEW x,
         NEW m, Holds(m, 0 .. n - 1, v)
  PROVE  Done(ToAssign(i, x), MapInsert(m, i, m[i]), v)
<1>1. Made(ToAssign(i, x), v) = v
  BY MadeIs
<1>2. Holds(MapInsert(m, i, m[i]), 0 .. n - 1, v)
  BY DEF MapInsert, Holds
<1>. QED  BY <1>1, <1>2 DEF Done

\* The empty sequence is a vector without rows.
LEMMA NoElements ==
  ASSUME NEW m, DOMAIN m = {}
  PROVE  /\ [i \in 1 .. Cardinality(DOMAIN m) |-> m[i - 1]] = <<>>
         /\ <<>> \in Vec /\ Cardinality(DOMAIN m) = 0
         /\ Holds(m, 0 .. 0 - 1, <<>>)
<1>1. Cardinality(DOMAIN m) = 0
  BY FS_EmptySet
<1>2. 1 .. 0 = {} /\ 0 .. 0 - 1 = {}
  OBVIOUS
<1>3. [i \in 1 .. 0 |-> m[i - 1]] = <<>>
  BY <1>2
<1>4. <<>> \in Vec
  BY BoundAssumption, EmptySeq DEF Vec
<1>. QED  BY <1>1, <1>2, <1>3, <1>4 DEF Holds

\* The calls of the map there are.
LEMMA CallType ==
  ASSUME NEW i \in 0 .. MaxLen
  PROVE  Del(i) \in Call /\ Wipe \in Call /\ \A x \in Value : Put(i, x) \in Call
BY DEF Call, Put, Del

\* The operations that a sequence admits.
LEMMA Admitted ==
  ASSUME NEW v, NEW n, n = Len(v)
  PROVE  /\ \A i \in 0 .. n, x \in Value : Seqs!ToInsert(i, x) \in Seqs!Operations(v)
         /\ \A i \in 0 .. n - 1, x \in Value : Seqs!ToUpdate(i, x) \in Seqs!Operations(v)
         /\ \A i \in 0 .. n - 1 : Seqs!ToRemove(i) \in Seqs!Operations(v)
         /\ \A i \in 0 .. n - 1 : Seqs!ToSwapRemove(i) \in Seqs!Operations(v)
         /\ Seqs!ToClear \in Seqs!Operations(v)
BY DEF Seqs!Operations

\* There are finitely many rows.
LEMMA RowsFinite ==
  ASSUME IsMap(rows, 0 .. MaxLen, Value)
  PROVE  IsFiniteSet(DOMAIN rows)
<1>1. MaxLen \in Int /\ 0 <= MaxLen + 1
  BY BoundAssumption
<1>2. IsFiniteSet(0 .. MaxLen)
  BY <1>1, IntervalSize
<1>. QED  BY <1>2, FS_Subset DEF IsMap

\* The elements that an operation is to keep.
KeptBut(I) == [i \in DOMAIN rows \ I |-> rows[i]]

\* A vector at rest is a sequence.
LEMMA AtRest ==
  ASSUME VecInv, todo = <<>>
  PROVE  /\ Elements \in Vec /\ length = Len(Elements)
         /\ length \in Nat /\ length <= MaxLen /\ MaxLen \in Nat
         /\ Holds(rows, 0 .. length - 1, Elements)
         /\ \A I : Holds(KeptBut(I), (0 .. length - 1) \ I, Elements)
<1>1. Elements \in Vec /\ Holds(rows, 0 .. length - 1, Elements)
      /\ length = Cardinality(DOMAIN rows)
  BY DEF VecInv
<1>2. DOMAIN rows \subseteq 0 .. MaxLen /\ MaxLen \in Nat
  BY BoundAssumption DEF VecInv, IsMap
<1>3. length \in Nat
  BY <1>1, RowsFinite, FS_CardinalityType DEF VecInv
<1>4. DOMAIN Elements = 1 .. length /\ DOMAIN Elements = 1 .. Len(Elements)
      /\ Len(Elements) \in Nat
  BY <1>1, LenProperties DEF Elements, Vec
<1>5. length = Len(Elements)
  <2>1. \A n \in Nat : Cardinality(1 .. n) = n
    <3>1. ASSUME NEW n \in Nat
          PROVE  Cardinality(1 .. n) = n
      <4>1. Cardinality(1 .. n) = n - 1 + 1
        BY IntervalSize
      <4>. QED  BY <4>1
    <3>. QED  BY <3>1
  <2>. QED  BY <1>3, <1>4, <2>1
<1>6. \A I : Holds(KeptBut(I), (0 .. length - 1) \ I, Elements)
  BY <1>1 DEF Holds, KeptBut
<1>. QED  BY <1>1, <1>2, <1>3, <1>5, <1>6 DEF Vec

\* Calls s of the operation c, made from rest, that are to keep the elements but
\* for those at I.
Ready(c, s, I) ==
    /\ c.op = "get_mut" \/ c \in Seqs!Operations(Elements)
    /\ s \in Seq(Call) /\ s # <<>> /\ Underway(c, rows, s, Elements, KeptBut(I))

\* A single call that does what the operation is to do.
LEMMA OneReady ==
  ASSUME NEW c, c.op = "get_mut" \/ c \in Seqs!Operations(Elements),
         NEW d \in Call, NEW I, Done(c, Called(rows, d), Elements)
  PROVE  Ready(c, <<d>>, I)
<1>1. <<d>> \in Seq(Call) /\ <<d>> # <<>> /\ Len(<<d>>) = 1 /\ <<d>>[1] = d
  OBVIOUS
<1>2. /\ DOMAIN KeptBut(I) \subseteq DOMAIN rows
      /\ \A j \in DOMAIN KeptBut(I) : rows[j] = KeptBut(I)[j]
  BY DEF KeptBut
<1>3. OneCall(c, rows, <<d>>, Elements, KeptBut(I))
  BY <1>1, <1>2 DEF OneCall
<1>. QED  BY <1>1, <1>3 DEF Ready, Underway

\* A push, a pop, an update, an assignment that is lost, and a clear.
LEMMA SingleCallsReady ==
  ASSUME VecInv, todo = <<>>
  PROVE  /\ \A x \in Value : length < MaxLen =>
              Ready(Seqs!ToInsert(length, x), <<Put(length, x)>>, {})
         /\ length > 0 => Ready(Seqs!ToRemove(length - 1), <<Del(length - 1)>>, {length - 1})
         /\ \A i \in 0 .. length - 1, x \in Value :
              /\ Ready(Seqs!ToUpdate(i, x), <<Put(i, x)>>, {i})
              /\ Ready(ToAssign(i, x), <<Put(i, rows[i])>>, {i})
         /\ Ready(Seqs!ToClear, <<Wipe>>, DOMAIN rows)
<1>1. /\ Elements \in Vec /\ length = Len(Elements)
      /\ length \in Nat /\ length <= MaxLen /\ MaxLen \in Nat
      /\ Holds(rows, 0 .. length - 1, Elements)
  BY AtRest
<1>2. ASSUME NEW x \in Value, length < MaxLen
      PROVE  Ready(Seqs!ToInsert(length, x), <<Put(length, x)>>, {})
  <2>1. Put(length, x) \in Call /\ length \in 0 .. length
    BY <1>1, CallType
  <2>2. Done(Seqs!ToInsert(length, x), Called(rows, Put(length, x)), Elements)
    <3>1. Done(Seqs!ToInsert(length, x), MapInsert(rows, length, x), Elements)
      BY <1>1, <1>2, DonePush
    <3>. QED  BY <3>1, CalledIs, Zenon
  <2>3. Seqs!ToInsert(length, x) \in Seqs!Operations(Elements)
    BY <1>1, <2>1, Admitted
  <2>. QED  BY <2>1, <2>2, <2>3, OneReady
<1>3. ASSUME length > 0
      PROVE  Ready(Seqs!ToRemove(length - 1), <<Del(length - 1)>>, {length - 1})
  <2>1. Del(length - 1) \in Call /\ length - 1 \in Nat /\ length - 1 \in 0 .. length - 1
    BY <1>1, <1>3, CallType
  <2>2. Done(Seqs!ToRemove(length - 1), Called(rows, Del(length - 1)), Elements)
    <3>1. Done(Seqs!ToRemove(length - 1), MapRemove(rows, {length - 1}), Elements)
      BY <1>1, <1>3, DonePop
    <3>. QED  BY <2>1, <3>1, CalledIs, Zenon
  <2>3. Seqs!ToRemove(length - 1) \in Seqs!Operations(Elements)
    BY <1>1, <2>1, Admitted
  <2>. QED  BY <2>1, <2>2, <2>3, OneReady
<1>4. ASSUME NEW i \in 0 .. length - 1, NEW x \in Value
      PROVE  Ready(Seqs!ToUpdate(i, x), <<Put(i, x)>>, {i})
  <2>1. Put(i, x) \in Call
    BY <1>1, CallType
  <2>2. Done(Seqs!ToUpdate(i, x), Called(rows, Put(i, x)), Elements)
    <3>1. Done(Seqs!ToUpdate(i, x), MapInsert(rows, i, x), Elements)
      BY <1>1, DoneUpdate
    <3>. QED  BY <3>1, CalledIs, Zenon
  <2>3. Seqs!ToUpdate(i, x) \in Seqs!Operations(Elements)
    BY <1>1, Admitted
  <2>. QED  BY <2>1, <2>2, <2>3, OneReady
<1>5. ASSUME NEW i \in 0 .. length - 1, NEW x \in Value
      PROVE  Ready(ToAssign(i, x), <<Put(i, rows[i])>>, {i})
  <2>1. rows[i] \in Value /\ i \in 0 .. MaxLen
    BY <1>1 DEF VecInv, IsMap, Holds
  <2>2. Put(i, rows[i]) \in Call
    BY <2>1, CallType
  <2>3. Done(ToAssign(i, x), Called(rows, Put(i, rows[i])), Elements)
    <3>1. Done(ToAssign(i, x), MapInsert(rows, i, rows[i]), Elements)
      BY <1>1, DoneAssign
    <3>. QED  BY <3>1, CalledIs, Zenon
  <2>4. ToAssign(i, x).op = "get_mut"
    BY DEF ToAssign
  <2>. QED  BY <2>2, <2>3, <2>4, OneReady
<1>6. Ready(Seqs!ToClear, <<Wipe>>, DOMAIN rows)
  <2>1. Wipe \in Call
    BY DEF Call
  <2>2. Called(rows, Wipe) = EmptyMap /\ DOMAIN EmptyMap = {}
    BY CalledIs DEF EmptyMap
  <2>3. Made(Seqs!ToClear, Elements) = <<>> /\ Len(<<>>) = 0
    BY MadeIs
  <2>4. <<>> \in Vec /\ Holds(EmptyMap, 0 .. 0 - 1, <<>>)
    BY <2>2, NoElements
  <2>5. Done(Seqs!ToClear, Called(rows, Wipe), Elements)
    BY <2>2, <2>3, <2>4 DEF Done
  <2>6. Seqs!ToClear \in Seqs!Operations(Elements)
    BY <1>1, Admitted
  <2>. QED  BY <2>1, <2>5, <2>6, OneReady
<1>. QED  BY <1>2, <1>3, <1>4, <1>5, <1>6

\* A function on an initial part of the numbers is a sequence.
LEMMA SeqIs ==
  ASSUME NEW n \in Nat, NEW T, NEW f \in [1 .. n -> T]
  PROVE  f \in Seq(T) /\ Len(f) = n
  OBVIOUS

\* The calls that move elements up, and those that move them down.
LEMMA ShiftsAre ==
  ASSUME VecInv, todo = <<>>, NEW i \in 0 .. length - 1
  PROVE  /\ ShiftUp(i) \in Seq(Call) /\ Len(ShiftUp(i)) = length - i
         /\ \A j \in 1 .. length - i : ShiftUp(i)[j] = Put(i + j, Elements[i + j])
         /\ ShiftDown(i) \in Seq(Call) /\ Len(ShiftDown(i)) = length - i - 1
         /\ \A j \in 1 .. length - i - 1 :
              ShiftDown(i)[j] = Put(i + j - 1, Elements[i + j + 1])
<1>1. /\ Elements \in Vec /\ length = Len(Elements)
      /\ length \in Nat /\ length <= MaxLen /\ MaxLen \in Nat
      /\ DOMAIN rows = 0 .. length - 1 /\ \A j \in 0 .. length - 1 : rows[j] = Elements[j + 1]
  BY AtRest DEF Holds
<1>2. i \in Int /\ length - i \in Nat /\ length - i - 1 \in Nat
  BY <1>1
<1>3. \A j \in 0 .. length - 1 : rows[j] \in Value
  BY <1>1 DEF VecInv, IsMap
<1>4. ShiftUp(i) = [j \in 1 .. length - i |-> Put(i + j, Elements[i + j])]
  <2>1. Scan(i, length) = [j \in 1 .. length - i |-> i + j - 1]
    <3>1. i \in 0 .. length /\ length <= length
      BY <1>1, <1>2
    <3>. QED  BY <1>1, <3>1, ScanIs
  <2>2. \A j \in 1 .. length - i : (i + j - 1) + 1 = i + j /\ rows[i + j - 1] = Elements[i + j]
    <3>1. ASSUME NEW j \in 1 .. length - i
          PROVE  (i + j - 1) + 1 = i + j /\ rows[i + j - 1] = Elements[i + j]
      <4>1. i + j - 1 \in 0 .. length - 1 /\ (i + j - 1) + 1 = i + j
        BY <1>1, <1>2
      <4>. QED  BY <1>1, <4>1
    <3>. QED  BY <3>1
  <2>. QED  BY <2>1, <2>2 DEF ShiftUp
<1>5. ShiftDown(i) = [j \in 1 .. length - i - 1 |-> Put(i + j - 1, Elements[i + j + 1])]
  <2>1. Scan(i + 1, MaxLen + 1) = [j \in 1 .. length - (i + 1) |-> (i + 1) + j - 1]
    <3>1. i + 1 \in 0 .. length /\ MaxLen + 1 \in Nat /\ length <= MaxLen + 1
      BY <1>1, <1>2
    <3>. QED  BY <1>1, <3>1, ScanIs
  <2>2. length - (i + 1) = length - i - 1
    BY <1>1, <1>2
  <2>3. ASSUME NEW j \in 1 .. length - i - 1
        PROVE  Put(((i + 1) + j - 1) - 1, rows[(i + 1) + j - 1]) = Put(i + j - 1, Elements[i + j + 1])
    <3>1. /\ i + j \in 0 .. length - 1 /\ (i + 1) + j - 1 = i + j
          /\ ((i + 1) + j - 1) - 1 = i + j - 1 /\ (i + j) + 1 = i + j + 1
      BY <1>1, <1>2
    <3>2. rows[i + j] = Elements[(i + j) + 1]
      BY <1>1, <3>1
    <3>. QED  BY <3>1, <3>2
  <2>. QED  BY <2>1, <2>2, <2>3 DEF ShiftDown
<1>6. \A j \in 1 .. length - i : Put(i + j, Elements[i + j]) \in Call
  <2>1. ASSUME NEW j \in 1 .. length - i
        PROVE  Put(i + j, Elements[i + j]) \in Call
    <3>1. i + j \in 0 .. MaxLen /\ i + j - 1 \in 0 .. length - 1 /\ (i + j - 1) + 1 = i + j
      BY <1>1, <1>2
    <3>2. Elements[i + j] \in Value
      BY <1>1, <1>3, <3>1
    <3>. QED  BY <3>1, <3>2, CallType
  <2>. QED  BY <2>1
<1>7. \A j \in 1 .. length - i - 1 : Put(i + j - 1, Elements[i + j + 1]) \in Call
  <2>1. ASSUME NEW j \in 1 .. length - i - 1
        PROVE  Put(i + j - 1, Elements[i + j + 1]) \in Call
    <3>1. i + j - 1 \in 0 .. MaxLen /\ i + j \in 0 .. length - 1 /\ (i + j) + 1 = i + j + 1
      BY <1>1, <1>2
    <3>2. Elements[i + j + 1] \in Value
      BY <1>1, <1>3, <3>1
    <3>. QED  BY <3>1, <3>2, CallType
  <2>. QED  BY <2>1
<1>8. ShiftUp(i) \in [1 .. length - i -> Call] /\ ShiftDown(i) \in [1 .. length - i - 1 -> Call]
  BY <1>4, <1>5, <1>6, <1>7
<1>9. /\ ShiftUp(i) \in Seq(Call) /\ Len(ShiftUp(i)) = length - i
      /\ ShiftDown(i) \in Seq(Call) /\ Len(ShiftDown(i)) = length - i - 1
  BY <1>2, <1>8, SeqIs
<1>. QED  BY <1>4, <1>5, <1>9

\* An insertion in front of an element.
LEMMA InsertReady ==
  ASSUME VecInv, todo = <<>>, NEW i \in 0 .. length - 1, length < MaxLen, NEW x \in Value
  PROVE  Ready(Seqs!ToInsert(i, x), Append(ShiftUp(i), Put(i, x)), {})
<1> DEFINE n == length
           s == Append(ShiftUp(i), Put(i, x))
<1>1. /\ Elements \in Vec /\ n = Len(Elements) /\ n \in Nat /\ n <= MaxLen /\ MaxLen \in Nat
      /\ DOMAIN rows = 0 .. n - 1 /\ \A j \in 0 .. n - 1 : rows[j] = Elements[j + 1]
      /\ Holds(KeptBut({}), (0 .. n - 1) \ {}, Elements)
  BY AtRest DEF Holds
<1>2. /\ ShiftUp(i) \in Seq(Call) /\ Len(ShiftUp(i)) = n - i
      /\ \A j \in 1 .. n - i : ShiftUp(i)[j] = Put(i + j, Elements[i + j])
  BY ShiftsAre
<1>3. Put(i, x) \in Call
  BY <1>1, CallType
<1>4. /\ s \in Seq(Call) /\ s # <<>> /\ Len(s) = n - i + 1 /\ s[n - i + 1] = Put(i, x)
      /\ \A j \in 1 .. n - i : s[j] = Put(i + j, Elements[i + j])
  BY <1>2, <1>3, AppendProperties
<1>. HIDE DEF s
<1>5. /\ i \in i .. n /\ i # n
      /\ \A j \in DOMAIN rows : ~(i < j /\ j <= i)
      /\ (0 .. n - 1) \ {} = 0 .. n - 1
  BY <1>1
<1>6. MovingUp(n, i, i, x, rows, s, Elements, KeptBut({}))
  BY <1>1, <1>4, <1>5 DEF MovingUp
<1>7. i \in 0 .. n /\ Seqs!ToInsert(i, x) \in Seqs!Operations(Elements)
  BY <1>1, Admitted
<1>. QED  BY <1>1, <1>4, <1>6, <1>7 DEF Ready, Underway, s

\* A removal.
LEMMA RemoveReady ==
  ASSUME VecInv, todo = <<>>, NEW i \in 0 .. length - 1
  PROVE  Ready(Seqs!ToRemove(i), <<Del(i)>> \o ShiftDown(i) \o <<Del(length - 1)>>, {i})
<1> DEFINE n == length
           h == <<Del(i)>> \o ShiftDown(i)
           s == h \o <<Del(n - 1)>>
<1>1. /\ Elements \in Vec /\ n = Len(Elements) /\ n \in Nat /\ n <= MaxLen /\ MaxLen \in Nat
      /\ Holds(rows, 0 .. n - 1, Elements)
      /\ Holds(KeptBut({i}), (0 .. n - 1) \ {i}, Elements)
  BY AtRest
<1>2. /\ ShiftDown(i) \in Seq(Call) /\ Len(ShiftDown(i)) = n - i - 1
      /\ \A j \in 1 .. n - i - 1 : ShiftDown(i)[j] = Put(i + j - 1, Elements[i + j + 1])
  BY ShiftsAre
<1>3. /\ i \in Int /\ n - i - 1 \in Nat
      /\ Del(i) \in Call /\ Del(n - 1) \in Call
  BY <1>1, CallType
<1>4. \A c \in Call : <<c>> \in Seq(Call) /\ Len(<<c>>) = 1 /\ <<c>>[1] = c
  OBVIOUS
<1>5. /\ h \in Seq(Call) /\ Len(h) = 1 + Len(ShiftDown(i))
      /\ \A j \in 1 .. 1 + Len(ShiftDown(i)) :
           h[j] = IF j <= 1 THEN <<Del(i)>>[j] ELSE ShiftDown(i)[j - 1]
  BY <1>2, <1>3, <1>4, ConcatProperties
<1>. HIDE DEF h
<1>6. /\ s \in Seq(Call) /\ Len(s) = Len(h) + 1
      /\ \A j \in 1 .. Len(h) + 1 :
           s[j] = IF j <= Len(h) THEN h[j] ELSE <<Del(n - 1)>>[j - Len(h)]
  BY <1>3, <1>4, <1>5, ConcatProperties
<1>. HIDE DEF s
<1>7. Len(h) = n - i /\ Len(s) = n - i + 1 /\ s # <<>>
  <2>1. Len(h) = 1 + (n - i - 1)
    BY <1>2, <1>5
  <2>2. Len(h) = n - i
    BY <1>1, <1>3, <2>1
  <2>3. Len(s) # 0
    BY <1>1, <1>3, <1>6, <2>2
  <2>. QED  BY <1>6, <2>2, <2>3, EmptySeq
<1>8. s[1] = Del(i)
  <2>1. 1 \in 1 .. Len(h) + 1 /\ 1 <= Len(h) /\ 1 \in 1 .. 1 + Len(ShiftDown(i))
    BY <1>2, <1>3, <1>7
  <2>. QED  BY <1>3, <1>4, <1>5, <1>6, <2>1
<1>9. s[n - i + 1] = Del(n - 1)
  <2>1. n - i + 1 \in 1 .. Len(h) + 1 /\ ~(n - i + 1 <= Len(h)) /\ (n - i + 1) - Len(h) = 1
    BY <1>3, <1>7
  <2>. QED  BY <1>3, <1>4, <1>6, <2>1
<1>10. ASSUME NEW j \in 2 .. n - i
       PROVE  s[j] = Put(i + j - 2, Elements[i + j])
  <2>1. /\ j \in 1 .. Len(h) + 1 /\ j <= Len(h)
        /\ j \in 1 .. 1 + Len(ShiftDown(i)) /\ ~(j <= 1)
        /\ j - 1 \in 1 .. n - i - 1
        /\ i + (j - 1) - 1 = i + j - 2 /\ i + (j - 1) + 1 = i + j
    BY <1>2, <1>3, <1>7
  <2>2. s[j] = h[j] /\ h[j] = ShiftDown(i)[j - 1]
    BY <1>5, <1>6, <2>1
  <2>. QED  BY <1>2, <2>1, <2>2
<1>11. Removing(n, i, rows, s, Elements, KeptBut({i}))
  BY <1>1, <1>7, <1>8, <1>9, <1>10 DEF Removing
<1>12. i \in 0 .. n
  BY <1>1
<1>13. Seqs!ToRemove(i) \in Seqs!Operations(Elements)
  BY <1>1, Admitted, Zenon
<1>. QED  BY <1>1, <1>6, <1>7, <1>11, <1>12, <1>13 DEF Ready, Underway, s, h

\* A swap.
LEMMA SwapReady ==
  ASSUME VecInv, todo = <<>>, NEW i \in 0 .. length - 1
  PROVE  Ready(Seqs!ToSwapRemove(i), <<Del(i), Del(length - 1)>>
                 \o (IF i = length - 1 THEN <<>> ELSE <<Put(i, rows[length - 1])>>), {i})
<1> DEFINE n == length
           s == <<Del(i), Del(n - 1)>> \o (IF i = n - 1 THEN <<>> ELSE <<Put(i, rows[n - 1])>>)
<1>1. /\ Elements \in Vec /\ n = Len(Elements) /\ n \in Nat /\ n <= MaxLen /\ MaxLen \in Nat
      /\ Holds(rows, 0 .. n - 1, Elements)
      /\ Holds(KeptBut({i}), (0 .. n - 1) \ {i}, Elements)
  BY AtRest
<1>2. rows[n - 1] = Elements[n] /\ rows[n - 1] \in Value
  <2>1. n - 1 \in 0 .. n - 1 /\ (n - 1) + 1 = n
    BY <1>1
  <2>. QED  BY <1>1, <2>1 DEF Holds, VecInv, IsMap
<1>3. Del(i) \in Call /\ Del(n - 1) \in Call /\ Put(i, rows[n - 1]) \in Call
  BY <1>1, <1>2, CallType
<1>4. CASE i = n - 1
  <2>1. s = <<Del(i), Del(n - 1)>> \o <<>>
    BY <1>4
  <2>2. s = <<Del(i), Del(n - 1)>>
    BY <1>3, <2>1
  <2>. HIDE DEF s
  <2>3. s \in Seq(Call) /\ s # <<>> /\ Len(s) = 2 /\ s[1] = Del(i) /\ s[2] = Del(n - 1)
    BY <1>3, <2>2
  <2>4. ~(i < n - 1) /\ (0 .. n - 1) \ {} = 0 .. n - 1
    BY <1>1, <1>4
  <2>5. Swapping(n, i, {}, rows, s, Elements, KeptBut({i}))
    BY <1>1, <1>4, <2>3, <2>4 DEF Swapping
  <2>6. i \in 0 .. n
    BY <1>1
  <2>7. Seqs!ToSwapRemove(i) \in Seqs!Operations(Elements)
    BY <1>1, Admitted, Zenon
  <2>. QED  BY <1>1, <2>3, <2>5, <2>6, <2>7 DEF Ready, Underway, s
<1>5. CASE i # n - 1
  <2>1. s = <<Del(i), Del(n - 1)>> \o <<Put(i, rows[n - 1])>>
    BY <1>5
  <2>. HIDE DEF s
  <2>2. /\ <<Del(i), Del(n - 1)>> \in Seq(Call) /\ Len(<<Del(i), Del(n - 1)>>) = 2
        /\ <<Put(i, rows[n - 1])>> \in Seq(Call) /\ Len(<<Put(i, rows[n - 1])>>) = 1
    BY <1>3
  <2>3. /\ s \in Seq(Call) /\ s # <<>> /\ Len(s) = 3 /\ s[1] = Del(i) /\ s[2] = Del(n - 1)
        /\ s[3] = Put(i, Elements[n])
    <3>1. /\ s \in Seq(Call) /\ Len(s) = 2 + 1
          /\ \A j \in 1 .. 2 + 1 :
               s[j] = IF j <= 2 THEN <<Del(i), Del(n - 1)>>[j] ELSE <<Put(i, rows[n - 1])>>[j - 2]
      BY <2>1, <2>2, ConcatProperties
    <3>2. s # <<>>
      BY <3>1, EmptySeq
    <3>3. s[1] = <<Del(i), Del(n - 1)>>[1] /\ s[2] = <<Del(i), Del(n - 1)>>[2]
          /\ s[3] = <<Put(i, rows[n - 1])>>[1]
      BY <3>1
    <3>. QED  BY <1>2, <3>1, <3>2, <3>3
  <2>4. (0 .. n - 1) \ {} = 0 .. n - 1
    OBVIOUS
  <2>5. Swapping(n, i, {}, rows, s, Elements, KeptBut({i}))
    BY <1>1, <1>5, <2>3, <2>4 DEF Swapping
  <2>6. i \in 0 .. n
    BY <1>1
  <2>7. Seqs!ToSwapRemove(i) \in Seqs!Operations(Elements)
    BY <1>1, Admitted, Zenon
  <2>. QED  BY <1>1, <2>3, <2>5, <2>6, <2>7 DEF Ready, Underway, s
<1>. QED  BY <1>4, <1>5

-----------------------------------------------------------------------------
(***************************************************************************)
(* The invariant holds in every state.                                     *)
(***************************************************************************)
\* A map that is done is a sequence that the operation may make.
LEMMA DoneIs ==
  ASSUME NEW c, NEW m, NEW v, Done(c, m, v)
  PROVE  /\ Made(c, v) = [i \in 1 .. Cardinality(DOMAIN m) |-> m[i - 1]]
         /\ Cardinality(DOMAIN m) = Len(Made(c, v))
<1> DEFINE t == Made(c, v)
<1>1. t \in Seq(Value) /\ Holds(m, 0 .. Len(t) - 1, t)
  BY DEF Done, Vec
<1>. HIDE DEF t
<1>2. PICK n \in Nat : n = Len(t)
  BY <1>1, LenProperties
<1>3. Cardinality(DOMAIN m) = n
  <2>1. Cardinality(0 .. n - 1) = (n - 1) - 0 + 1
    BY IntervalSize
  <2>2. (n - 1) - 0 + 1 = n
    OBVIOUS
  <2>. QED  BY <1>1, <1>2, <2>1, <2>2 DEF Holds
<1>4. t = [i \in 1 .. n |-> m[i - 1]]
  <2>1. DOMAIN t = 1 .. n /\ t = [i \in 1 .. n |-> t[i]]
    BY <1>1, <1>2, LenProperties
  <2>2. \A i \in 1 .. n : i - 1 \in 0 .. n - 1 /\ (i - 1) + 1 = i
    OBVIOUS
  <2>3. \A i \in 1 .. n : t[i] = m[i - 1]
    BY <1>1, <1>2, <2>2 DEF Holds
  <2>. QED  BY <2>1, <2>3
<1>. QED  BY <1>2, <1>3, <1>4 DEF t

\* After every call the rows are a map, and the length is the number of rows.
LEMMA CountedIs ==
  ASSUME VecInv, NEW c \in Call
  PROVE  /\ IsMap(Called(rows, c), 0 .. MaxLen, Value)
         /\ Counted(c) = Cardinality(DOMAIN Called(rows, c))
<1>1. c # Wipe => /\ c.index \in 0 .. MaxLen
                  /\ c.value = {} \/ \E x \in Value : c.value = {x}
  BY DEF Call
<1>5. Wipe.value = {}
  BY DEF Wipe
<1>2. /\ IsMap(rows, 0 .. MaxLen, Value) /\ IsFiniteSet(DOMAIN rows)
      /\ length = Cardinality(DOMAIN rows)
  BY RowsFinite DEF VecInv
<1>6. CASE c = Wipe
  <2>1. Called(rows, c) = EmptyMap
    BY <1>6, CalledIs, Zenon
  <2>3. Counted(c) = 0
    BY <1>6, <1>5 DEF Counted
  <2>2. IsMap(EmptyMap, 0 .. MaxLen, Value) /\ Cardinality(DOMAIN EmptyMap) = 0
    BY EmptyIsMap, FS_EmptySet DEF EmptyMap
  <2>. QED  BY <2>1, <2>2, <2>3
<1>3. CASE c # Wipe /\ c.value = {}
  <2>1. Called(rows, c) = MapRemove(rows, {c.index})
    BY <1>3 DEF Called
  <2>2. /\ IsMap(MapRemove(rows, {c.index}), 0 .. MaxLen, Value)
        /\ DOMAIN MapRemove(rows, {c.index}) = DOMAIN rows \ {c.index}
    BY <1>2 DEF IsMap, MapRemove, Restrict
  <2>3. Cardinality(DOMAIN rows \ {c.index}) =
          IF c.index \in DOMAIN rows THEN Cardinality(DOMAIN rows) - 1 ELSE Cardinality(DOMAIN rows)
    BY <1>2, FS_RemoveElement
  <2>4. Counted(c) = IF c.index \in DOMAIN rows THEN length - 1 ELSE length
    BY <1>3 DEF Counted
  <2>. QED  BY <1>2, <2>1, <2>2, <2>3, <2>4
<1>4. CASE c.value # {}
  <2>0. c # Wipe
    BY <1>4, <1>5
  <2>1. PICK x \in Value : c.value = {x}
    BY <1>1, <1>4, <2>0
  <2>2. Called(rows, c) = MapInsert(rows, c.index, x)
    <3>1. (CHOOSE y \in {x} : TRUE) = x
      OBVIOUS
    <3>. QED  BY <1>4, <2>0, <2>1, <3>1 DEF Called
  <2>3. /\ IsMap(MapInsert(rows, c.index, x), 0 .. MaxLen, Value)
        /\ DOMAIN MapInsert(rows, c.index, x) = DOMAIN rows \cup {c.index}
    BY <1>1, <1>2, <2>0 DEF IsMap, MapInsert
  <2>4. Cardinality(DOMAIN rows \cup {c.index}) =
          IF c.index \in DOMAIN rows THEN Cardinality(DOMAIN rows) ELSE Cardinality(DOMAIN rows) + 1
    BY <1>2, FS_AddElement
  <2>5. Counted(c) = IF c.index \in DOMAIN rows THEN length ELSE length + 1
    BY <1>4, <2>0 DEF Counted
  <2>. QED  BY <1>2, <2>2, <2>3, <2>4, <2>5
<1>. QED  BY <1>3, <1>4, <1>6

\* A new vector is empty.
LEMMA InitInv == Init => VecInv
<1>. SUFFICES ASSUME Init
              PROVE  VecInv
  OBVIOUS
<1>1. rows = EmptyMap /\ length = 0 /\ asked = {} /\ todo = <<>> /\ borrow = {}
  BY DEF Init
<1>2. DOMAIN rows = {} /\ IsMap(rows, 0 .. MaxLen, Value)
  BY <1>1, EmptyIsMap DEF EmptyMap
<1>3. Elements = <<>> /\ <<>> \in Vec /\ Cardinality(DOMAIN rows) = 0
      /\ Holds(rows, 0 .. 0 - 1, <<>>)
  BY <1>2, NoElements DEF Elements
<1>4. <<>> \in Seq(Call)
  BY EmptySeq
<1>. QED  BY <1>1, <1>2, <1>3, <1>4 DEF VecInv

\* A step in which an operation begins whose calls are ready to be made.
Begun == \E c, s, I : BeginCalls(c, s, I) /\ Ready(c, s, I) /\ borrow' = {}

\* A vector whose operation has begun keeps the invariant.
LEMMA BegunInv ==
  ASSUME VecInv, Begun
  PROVE  VecInv'
<1>1. PICK c, s, I : BeginCalls(c, s, I) /\ Ready(c, s, I) /\ borrow' = {}
  BY DEF Begun
<1>2. /\ rows' = rows /\ length' = length /\ asked' = {c} /\ todo' = s
      /\ before' = Elements /\ kept' = KeptBut(I) /\ todo = <<>>
  BY <1>1 DEF BeginCalls, KeptBut
<1>3. /\ IsMap(rows, 0 .. MaxLen, Value) /\ length = Cardinality(DOMAIN rows)
      /\ Elements \in Vec
  BY <1>2 DEF VecInv
<1>4. s \in Seq(Call) /\ s # <<>> /\ Underway(c, rows, s, Elements, KeptBut(I))
  BY <1>1 DEF Ready
<1>5. asked' = {c} /\ Underway(c, rows', todo', before', kept')
  BY <1>2, <1>4
<1>. QED  BY <1>1, <1>2, <1>3, <1>4, <1>5 DEF VecInv

\* A finished operation, and one that is not: what a call of the map leads to.
LEMMA CallLeads ==
  ASSUME VecInv, MapCall
  PROVE  /\ borrow = {} /\ before \in Vec /\ todo' \in Seq(Call)
         /\ IsMap(rows', 0 .. MaxLen, Value) /\ length' = Cardinality(DOMAIN rows')
         /\ \E c : /\ asked = {c}
                   /\ todo' = <<>> =>
                        /\ asked' = {} /\ Elements' = Made(c, before) /\ Elements' \in Vec
                        /\ Holds(rows', 0 .. length' - 1, Elements')
                   /\ todo' # <<>> => asked' = {c} /\ Underway(c, rows', todo', before, kept)
<1>1. todo # <<>> /\ todo \in Seq(Call) /\ before \in Vec /\ borrow = {}
  BY DEF VecInv, MapCall
<1>2. PICK c : asked = {c} /\ Underway(c, rows, todo, before, kept)
  BY <1>1 DEF VecInv
<1>3. Head(todo) \in Call /\ todo' = Tail(todo) /\ Tail(todo) \in Seq(Call)
  BY <1>1, HeadTailProperties DEF MapCall
<1>4. /\ rows' = Called(rows, Head(todo)) /\ length' = Counted(Head(todo))
      /\ asked' = IF todo' = <<>> THEN {} ELSE {c}
  BY <1>2 DEF MapCall
<1>5. IsMap(rows', 0 .. MaxLen, Value) /\ length' = Cardinality(DOMAIN rows')
  BY <1>3, <1>4, CountedIs, Zenon
<1>6. IF todo' = <<>> THEN Done(c, rows', before) ELSE Underway(c, rows', todo', before, kept)
  BY <1>1, <1>2, <1>3, <1>4, UnderwayStep
<1>7. ASSUME todo' = <<>>
      PROVE  /\ Elements' = Made(c, before) /\ Elements' \in Vec
             /\ Holds(rows', 0 .. length' - 1, Elements')
  <2>1. Done(c, rows', before)
    BY <1>6, <1>7
  <2>2. /\ Made(c, before) = [i \in 1 .. Cardinality(DOMAIN rows') |-> rows'[i - 1]]
        /\ Cardinality(DOMAIN rows') = Len(Made(c, before))
    BY <2>1, DoneIs
  <2>3. Made(c, before) = Elements'
    BY <2>2 DEF Elements
  <2>. QED  BY <1>5, <2>1, <2>2, <2>3 DEF Done
<1>. QED  BY <1>1, <1>2, <1>3, <1>4, <1>5, <1>6, <1>7

\* A call of the map keeps the invariant.
LEMMA MapCallInv ==
  ASSUME VecInv, MapCall
  PROVE  VecInv'
<1>1. before' = before /\ kept' = kept /\ borrow' = borrow
  BY DEF MapCall
<1>2. /\ borrow = {} /\ before \in Vec /\ todo' \in Seq(Call)
      /\ IsMap(rows', 0 .. MaxLen, Value) /\ length' = Cardinality(DOMAIN rows')
  BY CallLeads
<1>3. todo' = <<>> => asked' = {} /\ Elements' \in Vec /\ Holds(rows', 0 .. length' - 1, Elements')
  BY CallLeads
<1>4. todo' # <<>> => \E c : asked' = {c} /\ Underway(c, rows', todo', before', kept')
  BY <1>1, CallLeads
<1>. QED  BY <1>1, <1>2, <1>3, <1>4 DEF VecInv

\* An operation of a vector without a reference begins with calls that are ready.
LEMMA BeginIsBegun ==
  ASSUME NEW c, NEW s, NEW I, Begin(c, s, I), todo = <<>> => Ready(c, s, I)
  PROVE  Begun
<1>1. BeginCalls(c, s, I) /\ borrow' = {} /\ todo = <<>>
  BY DEF Begin, BeginCalls
<1>. QED  BY <1>1 DEF Begun

\* What is written when a reference is dropped is ready to be.
LEMMA DropMutBegun ==
  ASSUME VecInv, DropMut
  PROVE  Begun
<1>1. PICK b \in borrow :
        /\ \/ BeginCalls(Seqs!ToUpdate(b.index, b.value), <<Put(b.index, b.value)>>, {b.index})
           \/ BeginCalls(ToAssign(b.index, b.value), <<Put(b.index, rows[b.index])>>, {b.index})
        /\ borrow' = {}
  BY DEF DropMut
<1>2. todo = <<>> /\ b.index \in DOMAIN rows /\ b.value \in Value
  BY DEF VecInv
<1>3. b.index \in 0 .. length - 1
  BY <1>2, AtRest DEF Holds
<1>4. /\ Ready(Seqs!ToUpdate(b.index, b.value), <<Put(b.index, b.value)>>, {b.index})
      /\ Ready(ToAssign(b.index, b.value), <<Put(b.index, rows[b.index])>>, {b.index})
  BY <1>2, <1>3, SingleCallsReady
<1>. QED  BY <1>1, <1>4 DEF Begun

\* Every step of a vector is a call of the map, one of a mutable reference, or the
\* beginning of an operation.
LEMMA StepIs ==
  ASSUME VecInv, Next
  PROVE  \/ MapCall \/ Begun
         \/ \E i \in 0 .. length, w \in BOOLEAN : BorrowElem(i, w)
         \/ \E x \in Value : Assign(x)
<1>1. ASSUME NEW i \in 0 .. length, RemoveElem(i)
      PROVE  Begun
  <2>1. /\ i < length
        /\ Begin(Seqs!ToRemove(i), <<Del(i)>> \o ShiftDown(i) \o <<Del(length - 1)>>, {i})
    BY <1>1 DEF RemoveElem
  <2>2. todo = <<>> => i \in 0 .. length - 1
    BY <2>1, AtRest
  <2>. QED  BY <2>1, <2>2, RemoveReady, BeginIsBegun
<1>2. ASSUME NEW i \in 0 .. length, SwapRemove(i)
      PROVE  Begun
  <2>1. /\ i < length
        /\ Begin(Seqs!ToSwapRemove(i), <<Del(i), Del(length - 1)>>
                   \o (IF i = length - 1 THEN <<>> ELSE <<Put(i, rows[length - 1])>>), {i})
    BY <1>2 DEF SwapRemove
  <2>2. todo = <<>> => i \in 0 .. length - 1
    BY <2>1, AtRest
  <2>. QED  BY <2>1, <2>2, SwapReady, BeginIsBegun
<1>3. ASSUME NEW i \in 0 .. length, NEW x \in Value, length < MaxLen, InsertElem(i, x)
      PROVE  Begun
  <2>1. CASE i < length /\ Begin(Seqs!ToInsert(i, x), Append(ShiftUp(i), Put(i, x)), {})
    <3>1. todo = <<>> => i \in 0 .. length - 1
      BY <2>1, AtRest
    <3>. QED  BY <1>3, <2>1, <3>1, InsertReady, BeginIsBegun
  <2>2. CASE Push(x)
    BY <1>3, <2>2, SingleCallsReady, BeginIsBegun DEF Push
  <2>. QED  BY <1>3, <2>1, <2>2 DEF InsertElem
<1>4. ASSUME NEW i \in 0 .. length, NEW x \in Value, UpdateElem(i, x)
      PROVE  Begun
  <2>1. i < length /\ Begin(Seqs!ToUpdate(i, x), <<Put(i, x)>>, {i})
    BY <1>4 DEF UpdateElem
  <2>2. todo = <<>> => i \in 0 .. length - 1
    BY <2>1, AtRest
  <2>. QED  BY <2>1, <2>2, SingleCallsReady, BeginIsBegun
<1>5. CASE Pop
  BY <1>5, SingleCallsReady, BeginIsBegun DEF Pop
<1>6. CASE Clear
  BY <1>6, SingleCallsReady, BeginIsBegun DEF Clear
<1>7. ASSUME NEW i \in 0 .. length, GetMut(i) \/ NextMut(i)
      PROVE  \E w \in BOOLEAN : BorrowElem(i, w)
  <2>1. (~typed) \in BOOLEAN
    OBVIOUS
  <2>. QED  BY <1>7, <2>1, Zenon DEF GetMut, NextMut
<1>8. \/ MapCall
      \/ \E i \in 0 .. length :
           \/ RemoveElem(i) \/ SwapRemove(i) \/ GetMut(i) \/ NextMut(i)
           \/ \E x \in Value : \/ length < MaxLen /\ InsertElem(i, x)
                               \/ UpdateElem(i, x)
      \/ \E x \in Value : Assign(x)
      \/ Pop \/ DropMut \/ Clear
  BY Zenon DEF Next
<1>. QED  BY <1>1, <1>2, <1>3, <1>4, <1>5, <1>6, <1>7, <1>8, DropMutBegun

\* A mutable reference is to an element, whatever has been assigned to it.
LEMMA BorrowInv ==
  ASSUME VecInv
  PROVE  /\ \A i, w : BorrowElem(i, w) /\ i \in 0 .. length => VecInv'
         /\ \A x \in Value : Assign(x) => VecInv'
<1>1. ASSUME NEW i, NEW w, BorrowElem(i, w), i \in 0 .. length
      PROVE  VecInv'
  <2> DEFINE b == [index |-> i, value |-> rows[i], writes |-> w]
  <2>1. /\ rows' = rows /\ length' = length /\ asked' = asked /\ todo' = todo /\ todo = <<>>
        /\ before' = before /\ kept' = kept /\ borrow' = {b} /\ i < length
    BY <1>1 DEF BorrowElem
  <2>2. DOMAIN rows = 0 .. length - 1 /\ length \in Nat
    BY <2>1, AtRest DEF Holds
  <2>3. i \in DOMAIN rows
    BY <1>1, <2>1, <2>2
  <2>4. rows[i] \in Value
    BY <2>3 DEF VecInv, IsMap
  <2>5. Elements' = Elements
    BY <2>1 DEF Elements
  <2>6. b.index = i /\ b.value = rows[i]
    OBVIOUS
  <2>. HIDE DEF b
  <2>7. \A c \in borrow' : /\ todo' = <<>> /\ borrow' = {c}
                           /\ c.index \in DOMAIN rows' /\ c.value \in Value
    BY <2>1, <2>3, <2>4, <2>6
  <2>. QED  BY <2>1, <2>5, <2>7 DEF VecInv
<1>2. ASSUME NEW x \in Value, Assign(x)
      PROVE  VecInv'
  <2>1. /\ rows' = rows /\ length' = length /\ asked' = asked /\ todo' = todo
        /\ before' = before /\ kept' = kept
        /\ borrow' = {[b EXCEPT !.value = x] : b \in borrow}
    BY <1>2 DEF Assign
  <2>2. Elements' = Elements
    BY <2>1 DEF Elements
  <2>3. ASSUME NEW c \in borrow'
        PROVE  /\ todo' = <<>> /\ borrow' = {c}
               /\ c.index \in DOMAIN rows' /\ c.value \in Value
    <3>1. PICK b \in borrow : c = [b EXCEPT !.value = x]
      BY <2>1, <2>3
    <3>2. /\ todo = <<>> /\ borrow = {b}
          /\ b.index \in DOMAIN rows /\ b.value \in Value
      BY DEF VecInv
    <3>3. borrow' = {c}
      BY <2>1, <3>1, <3>2
    <3>. QED  BY <2>1, <3>1, <3>2, <3>3
  <2>. QED  BY <2>1, <2>2, <2>3 DEF VecInv
<1>. QED  BY <1>1, <1>2

\* Every step keeps the invariant.
LEMMA NextInv == VecInv /\ [Next]_vars => VecInv'
<1>. SUFFICES ASSUME VecInv, [Next]_vars
              PROVE  VecInv'
  OBVIOUS
<1>1. CASE UNCHANGED vars
  <2>1. /\ rows' = rows /\ length' = length /\ asked' = asked /\ todo' = todo
        /\ before' = before /\ kept' = kept /\ borrow' = borrow
    BY <1>1 DEF vars
  <2>2. Elements' = Elements
    BY <2>1 DEF Elements
  <2>. QED  BY <2>1, <2>2 DEF VecInv
<1>2. CASE Next
  BY <1>2, StepIs, MapCallInv, BegunInv, BorrowInv
<1>. QED  BY <1>1, <1>2

\* In every state of Vecx the vector is at rest, without a gap between its
\* indices, or the calls left of the operation asked for (push, insert, pop,
\* update, remove, swap_remove, clear, the drop of a mutable reference) take the
\* rows to what that operation makes of the vector.
THEOREM VectorInvariant == Spec => []VecInv
<1>1. Init => VecInv
  BY InitInv
<1>2. VecInv /\ [Next]_vars => VecInv'
  BY NextInv
<1>. QED  BY <1>1, <1>2, PTL DEF Spec

\* In every state the rows are elements at indices within the bound, the length
\* that the map keeps is the number of its rows, and between operations the
\* indices have no gap: insert, remove and swap_remove leave none behind.
THEOREM VecTypeCorrect == Spec => []TypeOK
<1>1. VecInv => TypeOK
  BY DEF VecInv, TypeOK, Holds
<1>. QED  BY <1>1, VectorInvariant, PTL

\* Between two calls of the map, where a process may end, an insertion, a
\* removal or a swap has lost at most one of the elements it was to keep.
THEOREM AtMostOneLostHolds == Spec => []AtMostOneLost
<1>1. ASSUME VecInv
      PROVE  AtMostOneLost
  <2>1. ASSUME todo # <<>>
        PROVE  Survives(kept, rows)
    <3>1. before \in Vec /\ \E c : Underway(c, rows, todo, before, kept)
      BY <1>1, <2>1 DEF VecInv
    <3>2. IsFiniteSet(DOMAIN rows) /\ Len(before) \in Nat
      BY <1>1, <3>1, RowsFinite, LenProperties DEF VecInv, Vec
    <3>. QED  BY <3>1, <3>2, UnderwaySurvives
  <2>. QED  BY <2>1 DEF AtMostOneLost, Survives
<1>. QED  BY <1>1, VectorInvariant, PTL

-----------------------------------------------------------------------------
(***************************************************************************)
(* The vector implements the sequence.                                     *)
(***************************************************************************)
\* Every step of the vector is one of the sequence, or leaves it as it is: an
\* operation is asked for when it begins, and answered, with all that it does,
\* when its last call of the map is made.
LEMMA StepImplements ==
  ASSUME VecInv, [Next]_vars
  PROVE  Seqs!Next \/ UNCHANGED <<Stands, OfSeq>>
<1>1. CASE UNCHANGED vars
  BY <1>1 DEF vars, Stands, Elements, OfSeq
<1>2. CASE MapCall
  <2>1. todo # <<>> /\ before' = before
    BY <1>2 DEF MapCall
  <2>2. PICK c : /\ asked = {c}
                 /\ todo' = <<>> => asked' = {} /\ Elements' = Made(c, before)
                 /\ todo' # <<>> => asked' = {c}
    BY <1>2, CallLeads, Zenon
  <2>3. CASE todo' # <<>>
    BY <2>1, <2>2, <2>3 DEF Stands, OfSeq
  <2>4. CASE todo' = <<>>
    <3>1. Stands = before /\ Stands' = Made(c, before) /\ OfSeq' = {}
      BY <2>1, <2>2, <2>4 DEF Stands, OfSeq
    <3>2. CASE c.op = "get_mut"
      <4>1. OfSeq = {} /\ Made(c, before) = before
        BY <2>2, <3>2 DEF OfSeq, Made
      <4>. QED  BY <3>1, <4>1
    <3>3. CASE c.op # "get_mut"
      <4>1. c \in OfSeq /\ Made(c, before) = Seqs!Result(c, before)
        BY <2>2, <3>3 DEF OfSeq, Made
      <4>2. Seqs!Answer
        BY <3>1, <4>1, Zenon DEF Seqs!Answer
      <4>. QED  BY <4>2 DEF Seqs!Next
    <3>. QED  BY <3>2, <3>3
  <2>. QED  BY <2>3, <2>4
<1>3. CASE Begun
  <2>1. PICK c, s, I : BeginCalls(c, s, I) /\ Ready(c, s, I)
    BY <1>3 DEF Begun
  <2>2. todo = <<>> /\ asked' = {c} /\ todo' # <<>> /\ before' = Elements
    BY <2>1 DEF BeginCalls, Ready
  <2>3. Stands = Elements /\ Stands' = Elements
    BY <2>2 DEF Stands
  <2>4. OfSeq = {}
    BY <2>2 DEF VecInv, OfSeq
  <2>5. CASE c.op = "get_mut"
    <3>1. OfSeq' = {}
      BY <2>2, <2>5 DEF OfSeq
    <3>. QED  BY <2>3, <2>4, <3>1
  <2>6. CASE c.op # "get_mut"
    <3>1. OfSeq' = {c}
      BY <2>2, <2>6 DEF OfSeq
    <3>2. c \in Seqs!Operations(Stands)
      BY <2>1, <2>3, <2>6 DEF Ready
    <3>3. Seqs!Ask
      BY <2>3, <2>4, <3>1, <3>2, Zenon DEF Seqs!Ask
    <3>. QED  BY <3>3 DEF Seqs!Next
  <2>. QED  BY <2>5, <2>6
<1>4. CASE (\E i, w : BorrowElem(i, w)) \/ \E x : Assign(x)
  BY <1>4 DEF BorrowElem, Assign, Stands, Elements, OfSeq
<1>. QED  BY <1>1, <1>2, <1>3, <1>4, StepIs

\* Vecx and VecxRaw implement the sequence of std::vec::Vec: each push, insert,
\* pop, update, remove, swap_remove and clear that a caller asks for, and each
\* assignment through a reference that is written back, has done exactly what
\* that operation does to the sequence once its calls of the map are made, and
\* nothing else changes the sequence.  The assignment to what get_mut of a Vecx
\* returns is not among them: it changes nothing.
THEOREM SequenceImplemented == Spec => ImplementsSeq
<1>1. Init => Seqs!Init
  <2>. SUFFICES ASSUME Init
                PROVE  Stands = <<>> /\ OfSeq = {}
    BY DEF Seqs!Init
  <2>1. DOMAIN rows = {} /\ todo = <<>> /\ asked = {}
    BY DEF Init, EmptyMap
  <2>. QED  BY <2>1, NoElements DEF Stands, Elements, OfSeq
<1>2. VecInv /\ [Next]_vars => [Seqs!Next]_<<Stands, OfSeq>>
  BY StepImplements
<1>. QED  BY <1>1, <1>2, VectorInvariant, PTL DEF Spec, ImplementsSeq, Seqs!Spec
=============================================================================

---------------------------- MODULE MapxOrd_proofs ----------------------------
(***************************************************************************)
(* Theorems about MapxOrd, for every value of its constants: ranges yield  *)
(* what is in them, on both engines and from both ends, and the neighbours *)
(* of a number are those in the order of numbers.                          *)
(***************************************************************************)
EXTENDS MapxOrd, SequenceTheorems, WellFoundedInduction, TLAPS

-----------------------------------------------------------------------------
(* The order of byte strings.                                              *)

\* What a string is made of.
LEMMA Chars ==
    ASSUME NEW a \in Bytes
    PROVE  /\ Len(a) \in Nat
           /\ \A i \in 1 .. Len(a) : a[i] \in Int
           /\ \A i \in 1 .. Len(a) : 0 <= a[i] /\ a[i] <= BYTE_MAX
BY ByteAssumption, ElementOfSeq, LenProperties DEF Bytes, Byte

\* The two parts of a concatenation.
LEMMA Parts ==
    ASSUME NEW p \in Bytes, NEW a \in Bytes
    PROVE  /\ p \o a \in Bytes
           /\ Len(p \o a) = Len(p) + Len(a)
           /\ \A i \in 1 .. Len(p) : (p \o a)[i] = p[i]
           /\ \A i \in 1 .. Len(a) : (p \o a)[Len(p) + i] = a[i]
<1>1. Len(p) \in Nat /\ Len(a) \in Nat
    BY Chars
<1>2. /\ p \o a \in Bytes
      /\ Len(p \o a) = Len(p) + Len(a)
      /\ \A i \in 1 .. Len(p) + Len(a) :
            (p \o a)[i] = IF i <= Len(p) THEN p[i] ELSE a[i - Len(p)]
    BY ConcatProperties DEF Bytes
<1>3. ASSUME NEW i \in 1 .. Len(p)
      PROVE  (p \o a)[i] = p[i]
    BY <1>1, <1>2
<1>4. ASSUME NEW i \in 1 .. Len(a)
      PROVE  (p \o a)[Len(p) + i] = a[i]
    <2>1. Len(p) + i \in 1 .. Len(p) + Len(a) /\ ~(Len(p) + i <= Len(p))
        BY <1>1
    <2>2. (Len(p) + i) - Len(p) = i
        BY <1>1
    <2>. QED  BY <1>2, <2>1, <2>2
<1>. QED  BY <1>2, <1>3, <1>4

\* A common prefix does not count.
LEMMA PrefixLess ==
    ASSUME NEW p \in Bytes, NEW a \in Bytes, NEW b \in Bytes
    PROVE  Less(p \o a, p \o b) <=> Less(a, b)
<1>. DEFINE n == Len(p)
<1>1. n \in Nat /\ Len(a) \in Nat /\ Len(b) \in Nat
    BY Chars
<1>2. Len(p \o a) = n + Len(a) /\ Len(p \o b) = n + Len(b)
    BY Parts
<1>3. ASSUME Less(p \o a, p \o b) PROVE Less(a, b)
    <2>1. PICK i \in 1 .. Len(p \o b) :
              /\ i - 1 <= Len(p \o a)
              /\ \A j \in 1 .. i - 1 : (p \o a)[j] = (p \o b)[j]
              /\ i = Len(p \o a) + 1 \/ (p \o a)[i] < (p \o b)[i]
        BY <1>3 DEF Less
    <2>2. i > n
        <3>. SUFFICES ASSUME i <= n PROVE FALSE
            BY <1>1, <2>1, Parts
        <3>1. i \in 1 .. n /\ i # Len(p \o a) + 1
            BY <1>1, Parts
        <3>2. (p \o a)[i] = p[i] /\ (p \o b)[i] = p[i] /\ p[i] \in Int
            BY <3>1, Parts, Chars
        <3>. QED  BY <2>1, <3>1, <3>2
    <2>3. i - n \in 1 .. Len(b) /\ (i - n) - 1 <= Len(a)
        BY <1>1, <2>1, <2>2, Parts
    <2>4. ASSUME NEW j \in 1 .. (i - n) - 1 PROVE a[j] = b[j]
        <3>1. n + j \in 1 .. i - 1 /\ j \in 1 .. Len(a) /\ j \in 1 .. Len(b)
            BY <1>1, <2>1, <2>2, <2>3
        <3>2. (p \o a)[n + j] = a[j] /\ (p \o b)[n + j] = b[j]
            BY <3>1, Parts
        <3>. QED  BY <2>1, <3>1, <3>2
    <2>5. i - n = Len(a) + 1 \/ a[i - n] < b[i - n]
        <3>1. CASE i = Len(p \o a) + 1
            BY <1>1, <2>1, <3>1, Parts
        <3>2. CASE i # Len(p \o a) + 1
            <4>1. i - n \in 1 .. Len(a)
                <5>1. i - 1 <= Len(p \o a) /\ i # Len(p \o a) + 1 /\ i \in Int
                    BY <1>2, <1>1, <2>1, <3>2
                <5>. QED  BY <1>2, <1>1, <2>2, <5>1
            <4>2. (p \o a)[n + (i - n)] = a[i - n] /\ (p \o b)[n + (i - n)] = b[i - n]
                BY <2>3, <4>1, Parts
            <4>3. n + (i - n) = i
                BY <1>1, <2>1
            <4>. QED  BY <2>1, <3>2, <4>2, <4>3
        <3>. QED  BY <3>1, <3>2
    <2>. QED  BY <2>3, <2>4, <2>5 DEF Less
<1>4. ASSUME Less(a, b) PROVE Less(p \o a, p \o b)
    <2>1. PICK i \in 1 .. Len(b) :
              /\ i - 1 <= Len(a)
              /\ \A j \in 1 .. i - 1 : a[j] = b[j]
              /\ i = Len(a) + 1 \/ a[i] < b[i]
        BY <1>4 DEF Less
    <2>2. n + i \in 1 .. Len(p \o b) /\ (n + i) - 1 <= Len(p \o a)
        BY <1>1, <2>1, Parts
    <2>3. ASSUME NEW j \in 1 .. (n + i) - 1 PROVE (p \o a)[j] = (p \o b)[j]
        <3>1. CASE j <= n
            <4>1. j \in 1 .. Len(p)
                BY <1>1, <3>1
            <4>2. (p \o a)[j] = p[j]
                BY <4>1, Parts
            <4>3. (p \o b)[j] = p[j]
                BY <4>1, Parts
            <4>. QED  BY <4>2, <4>3
        <3>2. CASE j > n
            <4>1. j - n \in 1 .. i - 1 /\ j - n \in 1 .. Len(a) /\ j - n \in 1 .. Len(b)
                BY <1>1, <2>1, <3>2
            <4>2. (p \o a)[n + (j - n)] = a[j - n] /\ (p \o b)[n + (j - n)] = b[j - n]
                BY <4>1, Parts
            <4>3. n + (j - n) = j
                BY <1>1
            <4>. QED  BY <2>1, <4>1, <4>2, <4>3
        <3>3. j \in Int
            OBVIOUS
        <3>4. j <= n \/ j > n
            BY <1>1, <3>3
        <3>. QED  BY <3>1, <3>2, <3>4
    <2>4. n + i = Len(p \o a) + 1 \/ (p \o a)[n + i] < (p \o b)[n + i]
        <3>1. CASE i = Len(a) + 1
            BY <1>1, <3>1, Parts
        <3>2. CASE i # Len(a) + 1
            <4>1. i \in 1 .. Len(a)
                BY <1>1, <2>1, <3>2
            <4>. QED  BY <2>1, <3>2, <4>1, Parts
        <3>. QED  BY <3>1, <3>2
    <2>. QED  BY <2>2, <2>3, <2>4 DEF Less
<1>. QED  BY <1>3, <1>4

LEMMA PrefixEqual ==
    ASSUME NEW p \in Bytes, NEW a \in Bytes, NEW b \in Bytes
    PROVE  p \o a = p \o b <=> a = b
BY ConcatSimplifications DEF Bytes

LEMMA PrefixAtMost ==
    ASSUME NEW p \in Bytes, NEW a \in Bytes, NEW b \in Bytes
    PROVE  AtMost(p \o a, p \o b) <=> AtMost(a, b)
BY PrefixLess, PrefixEqual DEF AtMost

\* a with a zero byte appended is the next string after a.
LEMMA Successor ==
    ASSUME NEW a \in Bytes, NEW b \in Bytes
    PROVE  /\ a \o <<0>> \in Bytes
           /\ AtMost(a \o <<0>>, b) <=> Less(a, b)
           /\ Less(b, a \o <<0>>) <=> AtMost(b, a)
<1>. DEFINE s == a \o <<0>>
            n == Len(a)
<1>1. n \in Nat /\ Len(b) \in Nat
    BY Chars
<1>2. <<0>> \in Bytes /\ Len(<<0>>) = 1 /\ <<0>>[1] = 0
    BY ByteAssumption DEF Bytes, Byte
<1>3. /\ s \in Bytes
      /\ Len(s) = n + 1
      /\ \A i \in 1 .. n : s[i] = a[i]
      /\ s[n + 1] = 0
    <2>1. 1 \in 1 .. Len(<<0>>)
        BY <1>2
    <2>. QED  BY <1>2, <2>1, Parts
<1>. HIDE DEF s, n
<1>4. ASSUME AtMost(s, b) PROVE Less(a, b)
    <2>1. CASE s = b
        <3>1. /\ n + 1 \in 1 .. Len(b)
              /\ (n + 1) - 1 <= Len(a)
              /\ \A j \in 1 .. (n + 1) - 1 : a[j] = b[j]
              /\ n + 1 = Len(a) + 1
            BY <1>1, <1>3, <2>1 DEF n
        <3>. QED  BY <3>1 DEF Less
    <2>2. CASE Less(s, b)
        <3>1. PICK i \in 1 .. Len(b) :
                  /\ i - 1 <= Len(s)
                  /\ \A j \in 1 .. i - 1 : s[j] = b[j]
                  /\ i = Len(s) + 1 \/ s[i] < b[i]
            BY <2>2 DEF Less
        <3>2. CASE i <= n
            <4>1. i \in 1 .. n /\ i # Len(s) + 1 /\ i - 1 <= n
                BY <1>1, <1>3, <3>2
            <4>2. s[i] = a[i] /\ \A j \in 1 .. i - 1 : s[j] = a[j]
                BY <1>1, <1>3, <4>1
            <4>. QED  BY <3>1, <4>1, <4>2 DEF Less, n
        <3>3. CASE i > n
            <4>1. n + 1 \in 1 .. Len(b) /\ \A j \in 1 .. n : s[j] = b[j]
                BY <1>1, <3>1, <3>3
            <4>2. (n + 1) - 1 <= Len(a) /\ (n + 1) - 1 = n /\ n + 1 = Len(a) + 1
                BY <1>1 DEF n
            <4>3. \A j \in 1 .. (n + 1) - 1 : a[j] = b[j]
                BY <1>3, <4>1, <4>2
            <4>. QED  BY <4>1, <4>2, <4>3 DEF Less
        <3>. QED  BY <1>1, <3>2, <3>3
    <2>. QED  BY <1>4, <2>1, <2>2 DEF AtMost
<1>5. ASSUME Less(a, b) PROVE AtMost(s, b)
    <2>1. PICK i \in 1 .. Len(b) :
              /\ i - 1 <= n
              /\ \A j \in 1 .. i - 1 : a[j] = b[j]
              /\ i = n + 1 \/ a[i] < b[i]
        BY <1>5 DEF Less, n
    <2>2. \A j \in 1 .. i - 1 : s[j] = b[j]
        <3>. SUFFICES ASSUME NEW j \in 1 .. i - 1 PROVE s[j] = b[j]
            OBVIOUS
        <3>1. j \in 1 .. n
            BY <1>1, <2>1
        <3>. QED  BY <1>3, <2>1, <3>1
    <2>3. CASE i # n + 1
        <3>1. i \in 1 .. n /\ i - 1 <= Len(s)
            BY <1>1, <1>3, <2>1, <2>3
        <3>2. s[i] < b[i]
            BY <1>3, <2>1, <2>3, <3>1
        <3>. QED  BY <2>2, <3>1, <3>2 DEF Less, AtMost
    <2>4. CASE i = n + 1 /\ b[i] # 0
        <3>1. i - 1 <= Len(s) /\ s[i] = 0
            BY <1>1, <1>3, <2>4
        <3>2. 0 < b[i]
            BY <2>4, Chars
        <3>. QED  BY <2>2, <3>1, <3>2 DEF Less, AtMost
    <2>5. CASE i = n + 1 /\ b[i] = 0
        <3>1. \A j \in 1 .. n + 1 : s[j] = b[j]
            <4>. SUFFICES ASSUME NEW j \in 1 .. n + 1 PROVE s[j] = b[j]
                OBVIOUS
            <4>1. j \in 1 .. i - 1 \/ j = n + 1
                BY <1>1, <2>5
            <4>. QED  BY <1>3, <2>2, <2>5, <4>1
        <3>2. CASE Len(b) = n + 1
            <4>1. s = b
                BY <1>3, <3>1, <3>2, SeqEqual DEF Bytes
            <4>. QED  BY <4>1 DEF AtMost
        <3>3. CASE Len(b) # n + 1
            <4>1. /\ n + 2 \in 1 .. Len(b)
                  /\ (n + 2) - 1 <= Len(s)
                  /\ (n + 2) - 1 = n + 1
                  /\ n + 2 = Len(s) + 1
                <5>1. PICK l \in Nat : l = Len(b)
                    BY <1>1
                <5>2. n + 1 \in 1 .. l /\ l # n + 1
                    BY <2>5, <3>3, <5>1
                <5>3. n + 2 \in 1 .. l /\ (n + 2) - 1 = n + 1 /\ n + 2 = (n + 1) + 1
                    BY <1>1, <5>2
                <5>. QED  BY <1>1, <1>3, <5>1, <5>3
            <4>2. \A j \in 1 .. (n + 2) - 1 : s[j] = b[j]
                BY <3>1, <4>1
            <4>. QED  BY <4>1, <4>2 DEF Less, AtMost
        <3>. QED  BY <3>2, <3>3
    <2>. QED  BY <2>3, <2>4, <2>5
<1>6. ASSUME Less(b, s) PROVE AtMost(b, a)
    <2>1. PICK i \in 1 .. Len(s) :
              /\ i - 1 <= Len(b)
              /\ \A j \in 1 .. i - 1 : b[j] = s[j]
              /\ i = Len(b) + 1 \/ b[i] < s[i]
        BY <1>6 DEF Less
    <2>2. \A j \in 1 .. i - 1 : b[j] = a[j]
        <3>. SUFFICES ASSUME NEW j \in 1 .. i - 1 PROVE b[j] = a[j]
            OBVIOUS
        <3>1. j \in 1 .. n
            BY <1>1, <1>3, <2>1
        <3>. QED  BY <1>3, <2>1, <3>1
    <2>3. CASE i <= n
        <3>1. i \in 1 .. n
            BY <1>1, <2>3
        <3>2. s[i] = a[i]
            BY <1>3, <3>1
        <3>. QED  BY <2>1, <2>2, <3>1, <3>2 DEF Less, AtMost, n
    <2>4. CASE i > n
        <3>1. i = n + 1 /\ s[i] = 0
            BY <1>1, <1>3, <2>1, <2>4
        <3>2. Len(b) = n
            <4>1. CASE i = Len(b) + 1
                <5>1. PICK l \in Nat : l = Len(b)
                    BY <1>1
                <5>2. n = l
                    BY <1>1, <3>1, <4>1, <5>1
                <5>. QED  BY <5>1, <5>2
            <4>2. CASE i # Len(b) + 1
                <5>1. i \in 1 .. Len(b) /\ b[i] < 0
                    BY <1>1, <2>1, <3>1, <4>2
                <5>. QED  BY <5>1, Chars
            <4>. QED  BY <4>1, <4>2
        <3>3. \A j \in 1 .. n : b[j] = a[j]
            BY <1>1, <2>2, <3>1
        <3>4. b = a
            BY <3>2, <3>3, SeqEqual DEF n, Bytes
        <3>. QED  BY <3>4 DEF AtMost
    <2>. QED  BY <1>1, <2>3, <2>4
<1>7. ASSUME AtMost(b, a) PROVE Less(b, s)
    <2>1. CASE b = a
        <3>1. /\ n + 1 \in 1 .. Len(s)
              /\ (n + 1) - 1 <= Len(b)
              /\ \A j \in 1 .. (n + 1) - 1 : b[j] = s[j]
              /\ n + 1 = Len(b) + 1
            BY <1>1, <1>3, <2>1 DEF n
        <3>. QED  BY <3>1 DEF Less
    <2>2. CASE Less(b, a)
        <3>1. PICK i \in 1 .. n :
                  /\ i - 1 <= Len(b)
                  /\ \A j \in 1 .. i - 1 : b[j] = a[j]
                  /\ i = Len(b) + 1 \/ b[i] < a[i]
            BY <2>2 DEF Less, n
        <3>2. i \in 1 .. Len(s) /\ s[i] = a[i]
            BY <1>1, <1>3, <3>1
        <3>3. \A j \in 1 .. i - 1 : b[j] = s[j]
            <4>. SUFFICES ASSUME NEW j \in 1 .. i - 1 PROVE b[j] = s[j]
                OBVIOUS
            <4>1. j \in 1 .. n
                BY <1>1, <3>1
            <4>. QED  BY <1>3, <3>1, <4>1
        <3>. QED  BY <3>1, <3>2, <3>3 DEF Less
    <2>. QED  BY <1>7, <2>1, <2>2 DEF AtMost
<1>. QED  BY <1>3, <1>4, <1>5, <1>6, <1>7 DEF s

\* A set of natural numbers has a least element.
LEMMA LeastNatural ==
    ASSUME NEW S \in SUBSET Nat, S # {}
    PROVE  \E x \in S : \A y \in S : x <= y
<1>. DEFINE R == {ss \in Nat \X Nat : ss[1] < ss[2]}
<1>1. OpToRel(<, Nat) = R
    BY Zenon DEF OpToRel
<1>2. IsWellFoundedOn(R, Nat)
    BY <1>1, NatLessThanWellFounded
<1>. HIDE DEF R
<1>3. PICK x \in S : \A y \in S : ~ (<<y, x>> \in R)
    BY <1>2, WFMin
<1>4. ASSUME NEW y \in S
      PROVE  x <= y
    <2>1. x \in Nat /\ y \in Nat
        OBVIOUS
    <2>2. <<y, x>> \in R <=> y < x
        BY <2>1 DEF R
    <2>. QED  BY <1>3, <2>1, <2>2
<1>. QED  BY <1>4

\* No string of at most n bytes is greater than n times the greatest byte.
LEMMA Highest ==
    ASSUME NEW n \in Nat, NEW k \in Bytes, Len(k) <= n
    PROVE  /\ [i \in 1 .. n |-> BYTE_MAX] \in Bytes
           /\ AtMost(k, [i \in 1 .. n |-> BYTE_MAX])
<1>. DEFINE u == [i \in 1 .. n |-> BYTE_MAX]
            D == {i \in 1 .. Len(k) : k[i] # BYTE_MAX}
<1>1. Len(k) \in Nat
    BY Chars
<1>2. /\ u \in Bytes
      /\ Len(u) = n
      /\ \A i \in 1 .. n : u[i] = BYTE_MAX
    <2>1. u \in [1 .. n -> Byte]
        BY ByteAssumption DEF Byte
    <2>. QED  BY <2>1, SMT DEF Bytes
<1>. HIDE DEF u, D
<1>3. CASE D = {} /\ Len(k) = n
    <2>1. \A i \in 1 .. Len(k) : k[i] = u[i]
        BY <1>2, <1>3 DEF D
    <2>2. k = u
        BY <1>2, <1>3, <2>1, SeqEqual DEF Bytes
    <2>. QED  BY <1>2, <2>2 DEF AtMost, u
<1>4. CASE D = {} /\ Len(k) # n
    <2>1. /\ Len(k) + 1 \in 1 .. Len(u)
          /\ (Len(k) + 1) - 1 = Len(k)
        <3>1. PICK l \in Nat : l = Len(k)
            BY <1>1
        <3>2. l < n
            BY <1>4, <3>1
        <3>3. l + 1 \in 1 .. n /\ (l + 1) - 1 = l
            BY <3>2
        <3>. QED  BY <1>2, <3>1, <3>3
    <2>2. ASSUME NEW i \in 1 .. (Len(k) + 1) - 1 PROVE k[i] = u[i]
        <3>1. i \in 1 .. Len(k) /\ i \in 1 .. n
            BY <1>1, <1>2, <2>1
        <3>2. i \notin D
            BY <1>4
        <3>. QED  BY <1>2, <3>1, <3>2 DEF D
    <2>3. Less(k, u)
        BY <1>1, <2>1, <2>2 DEF Less
    <2>. QED  BY <1>2, <2>3 DEF AtMost, u
<1>5. CASE D # {}
    <2>1. PICK d \in D : \A i \in D : d <= i
        <3>1. D \in SUBSET Nat
            BY <1>1 DEF D
        <3>. QED  BY <1>5, <3>1, LeastNatural
    <2>2. d \in 1 .. Len(k) /\ d \in 1 .. Len(u) /\ k[d] # BYTE_MAX
        BY <1>1, <1>2, <2>1 DEF D
    <2>3. k[d] < u[d]
        BY <1>2, <2>2, Chars, ByteAssumption
    <2>4. ASSUME NEW i \in 1 .. d - 1 PROVE k[i] = u[i]
        <3>1. i \in 1 .. Len(k) /\ i \in 1 .. n /\ ~(d <= i)
            BY <1>1, <1>2, <2>2
        <3>2. i \notin D
            BY <2>1, <3>1
        <3>. QED  BY <1>2, <3>1, <3>2 DEF D
    <2>5. d - 1 <= Len(k)
        BY <1>1, <2>2
    <2>6. Less(k, u)
        BY <2>2, <2>3, <2>4, <2>5 DEF Less
    <2>. QED  BY <1>2, <2>6 DEF AtMost, u
<1>. QED  BY <1>3, <1>4, <1>5

\* The empty string is the least.
LEMMA Lowest ==
    ASSUME NEW k \in Bytes
    PROVE  <<>> \in Bytes /\ AtMost(<<>>, k)
<1>1. <<>> \in Bytes /\ Len(<<>>) = 0
    BY DEF Bytes
<1>2. CASE k = <<>>
    BY <1>1, <1>2 DEF AtMost
<1>3. CASE k # <<>>
    <2>1. 1 \in 1 .. Len(k)
        BY <1>3, EmptySeq, Chars DEF Bytes
    <2>2. 1 - 1 <= Len(<<>>) /\ 1 = Len(<<>>) + 1 /\ 1 .. 1 - 1 = {}
        BY <1>1
    <2>3. Less(<<>>, k)
        BY <2>1, <2>2 DEF Less
    <2>. QED  BY <1>1, <2>3 DEF AtMost
<1>. QED  BY <1>2, <1>3

-----------------------------------------------------------------------------
(* Rows.                                                                   *)

LEMMA MapProperties ==
    ASSUME NEW m \in Maps
    PROVE  m \in Bytes /\ Len(m) = PREFIX_SIZE
BY MapsAssumption

\* A number is two bytes.
LEMMA NumberBytes ==
    ASSUME NEW n \in Int
    PROVE  to_bytes(n) \in Bytes
<1>1. B \in Nat \ {0} /\ WORD = B * B /\ WORD \in Nat \ {0}
    BY ByteAssumption DEF B, WORD
<1>2. n % B \in 0 .. B - 1
    BY <1>1
<1>3. n % WORD \in 0 .. WORD - 1
    BY <1>1
<1>4. (n % WORD) \div B \in 0 .. B - 1
    BY <1>1, <1>3
<1>5. 0 .. B - 1 = Byte
    BY ByteAssumption DEF B, Byte
<1>. DEFINE high == (n % WORD) \div B
            low  == n % B
<1>6. high \in Byte /\ low \in Byte
    BY <1>2, <1>4, <1>5
<1>. HIDE DEF high, low
<1>7. <<high, low>> \in Seq(Byte)
    BY <1>6
<1>. QED  BY <1>7 DEF to_bytes, Bytes, high, low

LEMMA KeyBytes ==
    ASSUME NEW m \in Maps, NEW k \in Keys(m)
    PROVE  k \in Bytes
<1>1. CASE KeyType[m] = "bytes"
    BY <1>1, KeyAssumption DEF Keys
<1>2. CASE KeyType[m] # "bytes"
    <2>1. PICK n \in Ints(KeyType[m]) : k = to_bytes(n)
        BY <1>2 DEF Keys
    <2>2. WORD \in Int
        BY ByteAssumption DEF B, WORD
    <2>3. n \in Int
        BY <2>1, <2>2 DEF Ints
    <2>. QED  BY <2>1, <2>3, NumberBytes
<1>. QED  BY <1>1, <1>2

\* The row of a key of one map is a row of that map and of no other, and the
\* key comes back from it.
LEMMA RowOfKey ==
    ASSUME NEW m \in Maps, NEW c \in Maps, NEW k \in Bytes
    PROVE  /\ c \o k \in Bytes
           /\ HasPrefix(c \o k, m) <=> c = m
           /\ Strip(c \o k) = k
<1>1. m \in Bytes /\ c \in Bytes /\ Len(m) = PREFIX_SIZE /\ Len(c) = PREFIX_SIZE
    BY MapProperties
<1>2. /\ c \o k \in Bytes
      /\ Len(c \o k) = PREFIX_SIZE + Len(k)
      /\ \A i \in 1 .. Len(c) : (c \o k)[i] = c[i]
      /\ \A i \in 1 .. Len(k) : (c \o k)[Len(c) + i] = k[i]
    BY <1>1, Parts
<1>3. PREFIX_SIZE \in Nat /\ Len(k) \in Nat
    BY MapsAssumption, Chars
<1>. DEFINE r == c \o k
<1>. HIDE DEF r
<1>4. SubSeq(r, 1, Len(m)) = c
    <2>1. \A i \in 1 .. PREFIX_SIZE : r[i] \in Byte
        <3>. SUFFICES ASSUME NEW i \in 1 .. PREFIX_SIZE PROVE r[i] \in Byte
            OBVIOUS
        <3>1. i \in 1 .. Len(r)
            BY <1>2, <1>3 DEF r
        <3>. QED  BY <1>2, <3>1, ElementOfSeq DEF r, Bytes
    <2>2. /\ SubSeq(r, 1, PREFIX_SIZE) \in Seq(Byte)
          /\ Len(SubSeq(r, 1, PREFIX_SIZE)) = PREFIX_SIZE
          /\ \A i \in 1 .. PREFIX_SIZE : SubSeq(r, 1, PREFIX_SIZE)[i] = r[i]
        <3>1. /\ SubSeq(r, 1, PREFIX_SIZE) \in Seq(Byte)
              /\ Len(SubSeq(r, 1, PREFIX_SIZE)) = IF 1 <= PREFIX_SIZE THEN PREFIX_SIZE - 1 + 1 ELSE 0
              /\ \A i \in 1 .. PREFIX_SIZE - 1 + 1 : SubSeq(r, 1, PREFIX_SIZE)[i] = r[1 + i - 1]
            BY <1>3, <2>1, SubSeqProperties
        <3>2. PREFIX_SIZE - 1 + 1 = PREFIX_SIZE
            BY <1>3
        <3>3. \A i \in 1 .. PREFIX_SIZE : 1 + i - 1 = i
            BY <1>3
        <3>. QED  BY <1>3, <3>1, <3>2, <3>3
    <2>3. \A i \in 1 .. PREFIX_SIZE : SubSeq(r, 1, PREFIX_SIZE)[i] = c[i]
        BY <1>1, <1>2, <2>2 DEF r
    <2>. QED  BY <1>1, <2>2, <2>3, SeqEqual DEF Bytes
<1>5. HasPrefix(r, m) <=> c = m
    BY <1>1, <1>2, <1>3, <1>4 DEF HasPrefix, r
<1>6. Strip(r) = k
    <2>1. Strip(r) = SubSeq(r, Len(c) + 1, Len(r))
        BY <1>1 DEF Strip
    <2>2. CASE k = <<>>
        <3>1. Len(k) = 0
            BY <2>2
        <3>2. Len(r) \in Int /\ Len(c) + 1 \in Int /\ Len(r) < Len(c) + 1
            BY <1>1, <1>2, <1>3, <3>1 DEF r
        <3>. QED  BY <2>1, <2>2, <3>2, SubSeqEmpty
    <2>3. CASE k # <<>>
        <3>1. Len(k) \in Nat \ {0}
            BY <2>3, EmptySeq DEF Bytes
        <3>2. /\ Len(r) = Len(c) + Len(k)
              /\ Len(c) + 1 \in Len(c) + 1 .. Len(c) + Len(k)
              /\ Len(r) \in Len(c) + 1 .. Len(c) + Len(k)
              /\ (Len(c) + 1) - Len(c) = 1
              /\ Len(r) - Len(c) = Len(k)
            BY <1>1, <1>2, <1>3, <3>1 DEF r
        <3>3. c \in Seq(Byte) /\ k \in Seq(Byte)
            BY <1>1 DEF Bytes
        <3>4. SubSeq(r, Len(c) + 1, Len(r))
                = SubSeq(k, (Len(c) + 1) - Len(c), Len(r) - Len(c))
            BY <3>2, <3>3, SubSeqOfConcat2 DEF r
        <3>. QED  BY <2>1, <3>2, <3>3, <3>4, SubSeqFull
    <2>. QED  BY <2>2, <2>3
<1>. QED  BY <1>2, <1>5, <1>6 DEF r

-----------------------------------------------------------------------------
(* Type correctness.                                                       *)

\* Every row is that of a key of a map, no longer than the longest.
THEOREM OrdTypeCorrect == Spec => []TypeOK
<1>1. Init => TypeOK
    BY DEF Init, TypeOK
<1>2. TypeOK /\ [Next]_vars => TypeOK'
    <2>. SUFFICES ASSUME TypeOK, [Next]_vars PROVE TypeOK'
        OBVIOUS
    <2>1. CASE UNCHANGED vars
        BY <2>1 DEF TypeOK, vars
    <2>2. ASSUME NEW m \in Maps, NEW k \in Keys(m), insert(m, k)
          PROVE  TypeOK'
        <3>1. Len(k) \in Nat
            BY KeyBytes, Chars
        <3>2. max_keylen' \in Nat /\ max_keylen <= max_keylen' /\ Len(k) <= max_keylen'
            BY <2>2, <3>1 DEF insert, TypeOK
        <3>3. ASSUME NEW r \in rows'
              PROVE  \E c \in Maps : \E j \in Keys(c) : r = c \o j /\ Len(j) <= max_keylen'
            <4>1. CASE r = m \o k
                BY <3>2, <4>1
            <4>2. CASE r # m \o k
                <5>1. r \in rows
                    BY <2>2, <3>3, <4>2 DEF insert
                <5>2. PICK c \in Maps : \E j \in Keys(c) : r = c \o j /\ Len(j) <= max_keylen
                    BY <5>1 DEF TypeOK
                <5>3. PICK j \in Keys(c) : r = c \o j /\ Len(j) <= max_keylen
                    BY <5>2
                <5>4. Len(j) \in Nat
                    BY KeyBytes, Chars
                <5>5. max_keylen \in Nat
                    BY DEF TypeOK
                <5>6. Len(j) <= max_keylen'
                    BY <3>2, <5>3, <5>4, <5>5
                <5>. QED  BY <5>3, <5>6
            <4>. QED  BY <4>1, <4>2
        <3>. QED  BY <3>2, <3>3 DEF TypeOK
    <2>3. ASSUME rows' \subseteq rows, UNCHANGED max_keylen
          PROVE  TypeOK'
        BY <2>3 DEF TypeOK
    <2>4. ASSUME NEW m \in Maps, NEW k \in Keys(m), remove(m, k)
          PROVE  TypeOK'
        BY <2>3, <2>4 DEF remove
    <2>5. ASSUME NEW m \in Maps, clear(m)
          PROVE  TypeOK'
        BY <2>3, <2>5 DEF clear
    <2>. QED  BY <2>1, <2>2, <2>4, <2>5 DEF Next
<1>. QED  BY <1>1, <1>2, PTL DEF Spec

-----------------------------------------------------------------------------
(* Ranges.                                                                 *)

\* What decides whether a row is in a range: that of the row of key k of map m
\* and an end of a range of keys.
LEMMA EndsOfRow ==
    ASSUME NEW m \in Maps, NEW k \in Bytes, NEW e \in Ends(Keys(m)) \cup {Open}
    PROVE  /\ AtMost(m, m \o k)
           /\ e.kind = "included" =>
                /\ AtMost(m \o e.key, m \o k) <=> AtMost(e.key, k)
                /\ AtMost(m \o k, m \o e.key) <=> AtMost(k, e.key)
                /\ Less(m \o k, m \o e.key \o <<0>>) <=> AtMost(k, e.key)
           /\ e.kind = "excluded" =>
                /\ Less(m \o e.key, m \o k) <=> Less(e.key, k)
                /\ Less(m \o k, m \o e.key) <=> Less(k, e.key)
                /\ AtMost(m \o e.key \o <<0>>, m \o k) <=> Less(e.key, k)
<1>1. m \in Bytes
    BY MapProperties
<1>2. AtMost(m, m \o k)
    <2>1. m \o <<>> = m
        BY <1>1, ConcatEmptySeq DEF Bytes
    <2>2. AtMost(m \o <<>>, m \o k)
        BY <1>1, Lowest, PrefixAtMost
    <2>. QED  BY <2>1, <2>2
<1>3. CASE e = Open
    BY <1>2, <1>3 DEF Open
<1>4. CASE e \in Ends(Keys(m))
    <2>1. e.key \in Bytes
        BY <1>4, KeyBytes DEF Ends
    <2>2. m \o e.key \in Bytes /\ m \o k \in Bytes
        BY <1>1, <2>1, Parts
    <2>3. /\ AtMost(m \o e.key, m \o k) <=> AtMost(e.key, k)
          /\ AtMost(m \o k, m \o e.key) <=> AtMost(k, e.key)
          /\ Less(m \o e.key, m \o k) <=> Less(e.key, k)
          /\ Less(m \o k, m \o e.key) <=> Less(k, e.key)
        BY <1>1, <2>1, PrefixAtMost, PrefixLess
    <2>4. /\ Less(m \o k, m \o e.key \o <<0>>) <=> AtMost(m \o k, m \o e.key)
          /\ AtMost(m \o e.key \o <<0>>, m \o k) <=> Less(m \o e.key, m \o k)
        BY <2>2, Successor
    <2>. QED  BY <1>2, <2>3, <2>4
<1>. QED  BY <1>3, <1>4

\* The row of a key that is no longer than the longest is not beyond the bound
\* that backward iteration begins at.
LEMMA BelowUpperBound ==
    ASSUME NEW m \in Maps, NEW k \in Bytes, max_keylen \in Nat, Len(k) <= max_keylen
    PROVE  AtMost(m \o k, UpperBound(m))
BY MapProperties, Highest, PrefixAtMost DEF UpperBound

\* The rows of a map are those of the keys it holds.
LEMMA RowsOfMap ==
    ASSUME TypeOK, NEW m \in Maps
    PROVE  /\ \A k \in Held(m) : /\ k \in Bytes
                                 /\ Len(k) <= max_keylen
                                 /\ m \o k \in rows
                                 /\ HasPrefix(m \o k, m)
                                 /\ Strip(m \o k) = k
           /\ \A r \in rows : HasPrefix(r, m) => Strip(r) \in Held(m) /\ r = m \o Strip(r)
<1>1. ASSUME NEW r \in rows, HasPrefix(r, m)
      PROVE  \E k \in Held(m) : r = m \o k /\ Len(k) <= max_keylen /\ Strip(r) = k
    <2>1. PICK c \in Maps : \E k \in Keys(c) : r = c \o k /\ Len(k) <= max_keylen
        BY DEF TypeOK
    <2>2. PICK k \in Keys(c) : r = c \o k /\ Len(k) <= max_keylen
        BY <2>1
    <2>3. c = m /\ Strip(r) = k
        BY <1>1, <2>2, KeyBytes, RowOfKey
    <2>. QED  BY <2>2, <2>3 DEF Held
<1>2. ASSUME NEW k \in Held(m)
      PROVE  /\ k \in Bytes
             /\ Len(k) <= max_keylen
             /\ m \o k \in rows
             /\ HasPrefix(m \o k, m)
             /\ Strip(m \o k) = k
    <2>1. k \in Bytes /\ m \o k \in rows
        BY KeyBytes DEF Held
    <2>2. HasPrefix(m \o k, m) /\ Strip(m \o k) = k
        BY <2>1, RowOfKey
    <2>3. Len(k) <= max_keylen
        BY <1>1, <2>1, <2>2
    <2>. QED  BY <2>1, <2>2, <2>3
<1>. QED  BY <1>1, <1>2

\* What decides whether the row of a key of map m is in a scan decides whether
\* the key is yielded.
LEMMA KeysOfScan ==
    ASSUME TypeOK, NEW m \in Maps,
           NEW S, S \subseteq {r \in rows : HasPrefix(r, m)},
           NEW K, K \subseteq Held(m),
           \A k \in Held(m) : m \o k \in S <=> k \in K
    PROVE  {Strip(r) : r \in S} = K
<1>1. ASSUME NEW r \in S
      PROVE  Strip(r) \in K
    BY RowsOfMap
<1>2. ASSUME NEW k \in K
      PROVE  \E r \in S : k = Strip(r)
    BY RowsOfMap
<1>. QED  BY <1>1, <1>2

\* An iterator yields the keys in its range: on RocksDB from its front and from
\* its back, and on sled.
LEMMA ScansExact ==
    ASSUME TypeOK, NEW m \in Maps,
           NEW lo \in Ends(Keys(m)) \cup {Open}, NEW hi \in Ends(Keys(m)) \cup {Open},
           NEW k \in Held(m)
    PROVE  /\ m \o k \in RocksForward(m, lo, hi) <=> InRange(k, lo, hi)
           /\ m \o k \in RocksBackward(m, lo, hi) <=> InRange(k, lo, hi)
           /\ m \o k \in SledScan(m, lo, hi) <=> InRange(k, lo, hi)
<1>1. k \in Bytes /\ m \o k \in rows /\ HasPrefix(m \o k, m) /\ Len(k) <= max_keylen
    BY RowsOfMap
<1>2. lo.kind \in {"open", "included", "excluded"} /\ hi.kind \in {"open", "included", "excluded"}
    BY DEF Ends, Open
<1>. DEFINE above == /\ lo.kind = "included" => AtMost(lo.key, k)
                     /\ lo.kind = "excluded" => Less(lo.key, k)
            below == /\ hi.kind = "included" => AtMost(k, hi.key)
                     /\ hi.kind = "excluded" => Less(k, hi.key)
<1>3. AtMost(LowerEnd(m, lo), m \o k) <=> above
    BY <1>1, <1>2, EndsOfRow DEF LowerEnd
<1>4. (hi.kind # "open" => Less(m \o k, UpperEnd(m, hi))) <=> below
    BY <1>1, <1>2, EndsOfRow DEF UpperEnd
<1>5. below => AtMost(m \o k, UpperEnd(m, hi))
    <2>1. CASE hi.kind = "open"
        BY <1>1, <2>1, BelowUpperBound DEF UpperEnd, TypeOK
    <2>2. CASE hi.kind # "open"
        BY <1>4, <2>2 DEF AtMost
    <2>. QED  BY <2>1, <2>2
<1>6. InRange(k, lo, hi) <=> above /\ below
    BY DEF InRange
<1>7. m \o k \in RocksForward(m, lo, hi) <=> above /\ below
    BY <1>1, <1>3, <1>4 DEF RocksForward
<1>8. lo.kind = "open" => above
    OBVIOUS
<1>9. m \o k \in RocksBackward(m, lo, hi) <=> above /\ below
    BY <1>1, <1>3, <1>4, <1>5, <1>8 DEF RocksBackward
<1>10. m \o k \in SledScan(m, lo, hi) <=> above /\ below
    BY <1>1, EndsOfRow DEF SledScan
<1>. QED  BY <1>6, <1>7, <1>9, <1>10

\* Ranges are exact in every state in which each row is that of a key.
LEMMA TypeOKRange == TypeOK => RangeExact
<1>. SUFFICES ASSUME TypeOK, NEW engine \in {"rocks", "sled"}, NEW m \in Maps,
                     NEW lo \in Ends(Keys(m)) \cup {Open}, NEW hi \in Ends(Keys(m)) \cup {Open}
              PROVE  LET keys == {k \in Held(m) : InRange(k, lo, hi)}
                     IN  Front(engine, m, lo, hi) = keys /\ Back(engine, m, lo, hi) = keys
    BY DEF RangeExact
<1>. DEFINE keys == {k \in Held(m) : InRange(k, lo, hi)}
<1>1. {Strip(r) : r \in RocksForward(m, lo, hi)} = keys
    <2>1. RocksForward(m, lo, hi) \subseteq {r \in rows : HasPrefix(r, m)}
        BY DEF RocksForward
    <2>2. \A k \in Held(m) : m \o k \in RocksForward(m, lo, hi) <=> k \in keys
        BY ScansExact
    <2>. QED  BY <2>1, <2>2, KeysOfScan
<1>2. {Strip(r) : r \in RocksBackward(m, lo, hi)} = keys
    <2>1. RocksBackward(m, lo, hi) \subseteq {r \in rows : HasPrefix(r, m)}
        BY DEF RocksBackward
    <2>2. \A k \in Held(m) : m \o k \in RocksBackward(m, lo, hi) <=> k \in keys
        BY ScansExact
    <2>. QED  BY <2>1, <2>2, KeysOfScan
<1>3. {Strip(r) : r \in SledScan(m, lo, hi)} = keys
    <2>1. SledScan(m, lo, hi) \subseteq {r \in rows : HasPrefix(r, m)}
        BY DEF SledScan
    <2>2. \A k \in Held(m) : m \o k \in SledScan(m, lo, hi) <=> k \in keys
        BY ScansExact
    <2>. QED  BY <2>1, <2>2, KeysOfScan
<1>. QED  BY <1>1, <1>2, <1>3 DEF Front, Back

\* On both engines, from the front and from the back, an iterator yields the
\* keys that are in its range, whatever maps share the store.
THEOREM RangesHold == Spec => []RangeExact
BY OrdTypeCorrect, TypeOKRange, PTL

-----------------------------------------------------------------------------
(* Numbers as keys.                                                        *)

LEMMA DivMod ==
    ASSUME NEW b \in Nat \ {0}, NEW x \in Int
    PROVE  x \div b \in Int /\ x % b \in 0 .. b - 1 /\ x = b * (x \div b) + (x % b)
OBVIOUS

LEMMA AtLeastOnce ==
    ASSUME NEW b \in Nat \ {0}, NEW d \in Int, d >= 1
    PROVE  b * d >= b
OBVIOUS

\* Division with remainder has one result.
LEMMA DivModUnique ==
    ASSUME NEW b \in Nat \ {0}, NEW q \in Int, NEW p \in Int,
           NEW r \in 0 .. b - 1, NEW s \in 0 .. b - 1,
           b * q + r = b * p + s
    PROVE  q = p /\ r = s
<1>1. b * (q - p) = s - r
    OBVIOUS
<1>2. ~ (q - p >= 1)
    BY <1>1, AtLeastOnce
<1>3. b * (p - q) = r - s
    OBVIOUS
<1>4. ~ (p - q >= 1)
    BY <1>3, AtLeastOnce
<1>5. q = p
    BY <1>2, <1>4
<1>. QED  BY <1>1, <1>5

LEMMA Remainder ==
    ASSUME NEW b \in Nat \ {0}, NEW x \in Int, NEW q \in Int, NEW r \in 0 .. b - 1,
           x = b * q + r
    PROVE  x \div b = q /\ x % b = r
<1>. DEFINE p == x \div b
            s == x % b
<1>1. p \in Int /\ s \in 0 .. b - 1 /\ x = b * p + s
    BY DivMod
<1>. HIDE DEF p, s
<1>2. b * q + r = b * p + s
    BY <1>1
<1>3. q = p /\ r = s
    BY <1>1, <1>2, DivModUnique
<1>. QED  BY <1>3 DEF p, s

LEMMA WordProperties == B \in Nat \ {0} /\ WORD \in Nat \ {0} /\ WORD = B * B
BY ByteAssumption DEF B, WORD

\* The two bytes of a number are those of its value as an unsigned number.
LEMMA BytesOfWord ==
    ASSUME NEW n \in Int
    PROVE  /\ n % WORD \in 0 .. WORD - 1
           /\ to_bytes(n) = <<(n % WORD) \div B, (n % WORD) % B>>
<1>. DEFINE u == n % WORD
            e == n \div WORD
            q == u \div B
            r == u % B
<1>1. u \in 0 .. WORD - 1 /\ e \in Int /\ n = WORD * e + u
    BY WordProperties, DivMod
<1>. HIDE DEF u
<1>2. q \in Int /\ r \in 0 .. B - 1 /\ u = B * q + r
    <2>1. u \in Int
        BY <1>1, WordProperties
    <2>. QED  BY <2>1, WordProperties, DivMod
<1>3. n = B * (B * e + q) + r
    <2>. HIDE DEF e, q, r
    <2>1. WORD * e = B * (B * e)
        BY <1>1, WordProperties
    <2>2. B * (B * e + q) = B * (B * e) + B * q
        BY <1>1, <1>2, WordProperties
    <2>3. B * (B * e) \in Int /\ B * q \in Int
        BY <1>1, <1>2, WordProperties
    <2>. QED  BY <1>1, <1>2, <2>1, <2>2, <2>3
<1>4. B * e + q \in Int
    BY <1>1, <1>2, WordProperties
<1>. HIDE DEF e, q, r
<1>5. n % B = r
    BY <1>2, <1>3, <1>4, WordProperties, Remainder
<1>. QED  BY <1>1, <1>5 DEF to_bytes, u, q, r

LEMMA WordOf ==
    ASSUME NEW n \in Int, -WORD <= n, n < WORD
    PROVE  n % WORD = IF n >= 0 THEN n ELSE n + WORD
<1>1. CASE n >= 0
    <2>1. n = WORD * 0 + n /\ n \in 0 .. WORD - 1
        BY <1>1, WordProperties
    <2>. QED  BY <1>1, <2>1, WordProperties, Remainder
<1>2. CASE n < 0
    <2>1. n = WORD * (-1) + (n + WORD) /\ n + WORD \in 0 .. WORD - 1
        BY <1>2, WordProperties
    <2>. QED  BY <1>2, <2>1, WordProperties, Remainder
<1>. QED  BY <1>1, <1>2

LEMMA NumberRange ==
    ASSUME NEW t, NEW n \in Ints(t)
    PROVE  /\ n \in Int /\ -WORD <= n /\ n < WORD
           /\ t = "signed" => -(WORD \div 2) <= n /\ n < WORD - WORD \div 2
           /\ t # "signed" => n >= 0
           /\ WORD \div 2 \in Int
<1>1. WORD \div 2 \in Int /\ 0 <= WORD \div 2 /\ WORD \div 2 <= WORD
    BY WordProperties
<1>. QED  BY <1>1, WordProperties DEF Ints

\* The order of pairs of bytes.
LEMMA LessPair ==
    ASSUME NEW a \in Int, NEW b \in Int, NEW c \in Int, NEW d \in Int
    PROVE  Less(<<a, b>>, <<c, d>>) <=> a < c \/ (a = c /\ b < d)
<1>. DEFINE s == <<a, b>>
            t == <<c, d>>
<1>1. /\ Len(s) = 2 /\ s[1] = a /\ s[2] = b
      /\ Len(t) = 2 /\ t[1] = c /\ t[2] = d
    OBVIOUS
<1>. HIDE DEF s, t
<1>2. ASSUME Less(s, t) PROVE a < c \/ (a = c /\ b < d)
    <2>1. PICK i \in 1 .. 2 :
              /\ \A j \in 1 .. i - 1 : s[j] = t[j]
              /\ i = 2 + 1 \/ s[i] < t[i]
        BY <1>1, <1>2 DEF Less
    <2>2. CASE i = 1
        BY <1>1, <2>1, <2>2
    <2>3. CASE i = 2
        <3>1. 1 \in 1 .. i - 1
            BY <2>3
        <3>. QED  BY <1>1, <2>1, <2>3, <3>1
    <2>. QED  BY <2>2, <2>3
<1>3. ASSUME a < c PROVE Less(s, t)
    <2>1. 1 \in 1 .. Len(t) /\ 1 - 1 <= Len(s) /\ 1 .. 1 - 1 = {} /\ s[1] < t[1]
        BY <1>1, <1>3
    <2>. QED  BY <2>1 DEF Less
<1>4. ASSUME a = c, b < d PROVE Less(s, t)
    <2>1. 2 \in 1 .. Len(t) /\ 2 - 1 <= Len(s) /\ s[2] < t[2]
        BY <1>1, <1>4
    <2>2. \A j \in 1 .. 2 - 1 : s[j] = t[j]
        BY <1>1, <1>4
    <2>. QED  BY <2>1, <2>2 DEF Less
<1>. QED  BY <1>2, <1>3, <1>4 DEF s, t

\* The order of words is that of their two bytes.
LEMMA WordOrder ==
    ASSUME NEW x \in 0 .. WORD - 1, NEW y \in 0 .. WORD - 1
    PROVE  /\ x < y <=> Less(<<x \div B, x % B>>, <<y \div B, y % B>>)
           /\ <<x \div B, x % B>> = <<y \div B, y % B>> => x = y
<1>. DEFINE q == x \div B
            r == x % B
            p == y \div B
            s == y % B
<1>1. x \in Int /\ y \in Int
    BY WordProperties
<1>2. /\ q \in Int /\ r \in 0 .. B - 1 /\ x = B * q + r
      /\ p \in Int /\ s \in 0 .. B - 1 /\ y = B * p + s
    BY <1>1, WordProperties, DivMod
<1>. HIDE DEF q, r, p, s
<1>3. ASSUME NEW h \in Int, NEW l \in Int, NEW i \in 0 .. B - 1, NEW j \in 0 .. B - 1, h < l
      PROVE  B * h + i < B * l + j
    <2>1. B * (l - h) >= B
        BY <1>3, WordProperties, AtLeastOnce
    <2>2. B * (l - h) = B * l - B * h /\ B * l \in Int /\ B * h \in Int
        BY WordProperties
    <2>. QED  BY <2>1, <2>2, WordProperties
<1>4. x < y <=> q < p \/ (q = p /\ r < s)
    <2>1. CASE q < p
        BY <1>2, <1>3, <2>1
    <2>2. CASE p < q
        <3>1. y < x
            BY <1>2, <1>3, <2>2
        <3>. QED  BY <1>1, <1>2, <2>2, <3>1
    <2>3. CASE p = q
        <3>1. B * q \in Int
            BY <1>2, WordProperties
        <3>. QED  BY <1>2, <2>3, <3>1
    <2>. QED  BY <1>2, <2>1, <2>2, <2>3
<1>5. Less(<<q, r>>, <<p, s>>) <=> q < p \/ (q = p /\ r < s)
    BY <1>2, LessPair
<1>6. <<q, r>> = <<p, s>> => x = y
    BY <1>2
<1>. QED  BY <1>4, <1>5, <1>6 DEF q, r, p, s

\* Among numbers of one type and sign, the order of keys is that of numbers; no
\* two numbers of a type have the same key.
LEMMA NumberOrder ==
    ASSUME NEW t, NEW i \in Ints(t), NEW j \in Ints(t)
    PROVE  /\ to_bytes(i) = to_bytes(j) => i = j
           /\ (i >= 0 <=> j >= 0) => (AtMost(to_bytes(i), to_bytes(j)) <=> i <= j)
<1>. DEFINE u == i % WORD
            v == j % WORD
<1>1. /\ u \in 0 .. WORD - 1 /\ to_bytes(i) = <<u \div B, u % B>>
      /\ v \in 0 .. WORD - 1 /\ to_bytes(j) = <<v \div B, v % B>>
    BY NumberRange, BytesOfWord
<1>2. /\ u = IF i >= 0 THEN i ELSE i + WORD
      /\ v = IF j >= 0 THEN j ELSE j + WORD
    BY NumberRange, WordOf
<1>. HIDE DEF u, v
<1>3. u = v => i = j
    BY <1>2, NumberRange, WordProperties
<1>4. (i >= 0 <=> j >= 0) => (u < v <=> i < j)
    BY <1>2, NumberRange, WordProperties
<1>5. /\ u < v <=> Less(to_bytes(i), to_bytes(j))
      /\ to_bytes(i) = to_bytes(j) => u = v
    BY <1>1, WordOrder
<1>6. i \in Int /\ j \in Int
    BY NumberRange
<1>. QED  BY <1>3, <1>4, <1>5, <1>6 DEF AtMost

\* A number comes back from its key.
LEMMA NumberOfKey ==
    ASSUME NEW t, NEW n \in Ints(t)
    PROVE  from_slice(t, to_bytes(n)) = n
<1>1. \A i \in Ints(t) : to_bytes(i) = to_bytes(n) => i = n
    BY NumberOrder
<1>2. from_slice(t, to_bytes(n)) \in Ints(t) /\ to_bytes(from_slice(t, to_bytes(n))) = to_bytes(n)
    BY DEF from_slice
<1>. QED  BY <1>1, <1>2

\* The neighbours of a number among numbers of its sign are those of the order
\* of numbers, in every state in which each row is that of a key.
LEMMA TypeOKNeighbours == TypeOK => NeighboursBySign
<1>. SUFFICES ASSUME TypeOK, NEW engine \in {"rocks", "sled"},
                     NEW m \in Maps, KeyType[m] # "bytes"
              PROVE  LET held == {from_slice(KeyType[m], k) : k \in Held(m)}
                     IN  \A n \in Ints(KeyType[m]) : SameSign(held \cup {n}) =>
                           /\ get_le(engine, m, to_bytes(n))
                                = {to_bytes(j) : j \in {j \in held : j <= n /\ \A i \in held : i <= n => i <= j}}
                           /\ get_ge(engine, m, to_bytes(n))
                                = {to_bytes(j) : j \in {j \in held : j >= n /\ \A i \in held : i >= n => i >= j}}
                           /\ first(engine, m) = {to_bytes(j) : j \in {j \in held : \A i \in held : j <= i}}
                           /\ last(engine, m) = {to_bytes(j) : j \in {j \in held : \A i \in held : i <= j}}
    BY DEF NeighboursBySign
<1>. DEFINE t == KeyType[m]
            held == {from_slice(t, k) : k \in Held(m)}
            K == Held(m)
<1>1. /\ held \subseteq Ints(t)
      /\ K = {to_bytes(j) : j \in held}
    <2>1. ASSUME NEW k \in K
          PROVE  from_slice(t, k) \in Ints(t) /\ to_bytes(from_slice(t, k)) = k
        <3>1. PICK n \in Ints(t) : k = to_bytes(n)
            BY DEF Held, Keys
        <3>. QED  BY <3>1, NumberOfKey
    <2>. QED  BY <2>1
<1>2. ASSUME NEW lo \in Ends(Keys(m)) \cup {Open}, NEW hi \in Ends(Keys(m)) \cup {Open}
      PROVE  /\ Front(engine, m, lo, hi) = {k \in K : InRange(k, lo, hi)}
             /\ Back(engine, m, lo, hi) = {k \in K : InRange(k, lo, hi)}
    BY TypeOKRange DEF RangeExact
<1>. HIDE DEF t, held, K
<1>3. ASSUME NEW n \in Ints(t), SameSign(held \cup {n})
      PROVE  /\ get_le(engine, m, to_bytes(n))
                  = {to_bytes(j) : j \in {j \in held : j <= n /\ \A i \in held : i <= n => i <= j}}
             /\ get_ge(engine, m, to_bytes(n))
                  = {to_bytes(j) : j \in {j \in held : j >= n /\ \A i \in held : i >= n => i >= j}}
             /\ first(engine, m) = {to_bytes(j) : j \in {j \in held : \A i \in held : j <= i}}
             /\ last(engine, m) = {to_bytes(j) : j \in {j \in held : \A i \in held : i <= j}}
    <2>. DEFINE N == held \cup {n}
                end == [kind |-> "included", key |-> to_bytes(n)]
                le == {k \in K : AtMost(k, to_bytes(n))}
                ge == {k \in K : AtMost(to_bytes(n), k)}
    <2>1. \A i \in N, j \in N : AtMost(to_bytes(i), to_bytes(j)) <=> i <= j
        <3>. SUFFICES ASSUME NEW i \in N, NEW j \in N
                      PROVE  AtMost(to_bytes(i), to_bytes(j)) <=> i <= j
            OBVIOUS
        <3>1. i \in Ints(t) /\ j \in Ints(t)
            BY <1>1
        <3>2. i \in Int /\ j \in Int
            BY <3>1, NumberRange
        <3>3. i >= 0 <=> j >= 0
            BY <1>3, <3>2 DEF SameSign
        <3>. QED  BY <3>1, <3>3, NumberOrder
    <2>2. \A i \in N : i \in Int
        BY <1>1, NumberRange
    <2>3. end \in Ends(Keys(m))
        BY DEF Ends, Keys, t
    <2>4. /\ Back(engine, m, Open, end) = le
          /\ Front(engine, m, end, Open) = ge
          /\ Front(engine, m, Open, Open) = K
          /\ Back(engine, m, Open, Open) = K
        <3>1. Open \in Ends(Keys(m)) \cup {Open}
            OBVIOUS
        <3>2. \A k \in K : /\ InRange(k, Open, Open)
                           /\ InRange(k, Open, end) <=> AtMost(k, to_bytes(n))
                           /\ InRange(k, end, Open) <=> AtMost(to_bytes(n), k)
            BY DEF InRange, Open
        <3>. HIDE DEF end
        <3>3. Back(engine, m, Open, end) = le
            BY <1>2, <2>3, <3>1, <3>2
        <3>4. Front(engine, m, end, Open) = ge
            BY <1>2, <2>3, <3>1, <3>2
        <3>5. Front(engine, m, Open, Open) = K /\ Back(engine, m, Open, Open) = K
            BY <1>2, <3>1, <3>2
        <3>. QED  BY <3>3, <3>4, <3>5
    <2>5. Greatest(le) = {to_bytes(j) : j \in {j \in held : j <= n /\ \A i \in held : i <= n => i <= j}}
        BY <1>1, <2>1 DEF Greatest
    <2>6. Least(ge) = {to_bytes(j) : j \in {j \in held : j >= n /\ \A i \in held : i >= n => i >= j}}
        BY <1>1, <2>1, <2>2 DEF Least
    <2>7. Least(K) = {to_bytes(j) : j \in {j \in held : \A i \in held : j <= i}}
        BY <1>1, <2>1 DEF Least
    <2>8. Greatest(K) = {to_bytes(j) : j \in {j \in held : \A i \in held : i <= j}}
        BY <1>1, <2>1 DEF Greatest
    <2>. QED  BY <2>4, <2>5, <2>6, <2>7, <2>8 DEF get_le, get_ge, first, last
<1>. QED  BY <1>3 DEF held, t

\* On both engines the neighbours of a number in a map of numbers, and its ends,
\* are those in the order of numbers, as far as all have the same sign.
THEOREM NeighboursHold == Spec => []NeighboursBySign
BY OrdTypeCorrect, TypeOKNeighbours, PTL
=============================================================================

---------------------------- MODULE VecxVs_proofs ----------------------------
(***************************************************************************)
(* Theorems about VecxVs: what holds of every versioned map holds of a     *)
(* versioned vector, no version of it has a gap, and an operation changes  *)
(* nothing but the newest version of its branch.                           *)
(***************************************************************************)
EXTENDS VecxVs, MapxRawVs_proofs

-----------------------------------------------------------------------------
(* Lengths.                                                                *)

\* A vector of n elements has the indices below n.
LEMMA Size ==
  ASSUME NEW n \in Nat
  PROVE  IsFiniteSet(0 .. n - 1) /\ Cardinality(0 .. n - 1) = n
<1>1. /\ IsFiniteSet(0 .. n - 1)
      /\ Cardinality(0 .. n - 1) = IF 0 > n - 1 THEN 0 ELSE (n - 1) - 0 + 1
  BY FS_Interval
<1>2. CASE n = 0
  BY <1>1, <1>2
<1>3. CASE n # 0
  BY <1>1, <1>3
<1>. QED  BY <1>2, <1>3

\* Indices are numbers.
LEMMA IndicesAreNumbers == Key \subseteq Nat
<1>1. Cardinality(Key) \in Nat
  BY IndexAssumption, FS_CardinalityType
<1>2. Key = 0 .. Cardinality(Key) - 1
  BY IndexAssumption
<1>. QED  BY <1>1, <1>2

\* The length is no more than Key bounds it to, so that there is an index to
\* remove if it is not zero.
LEMMA VecLenIs ==
  /\ VecLen \in Nat
  /\ VecLen > 0 => VecLen - 1 \in Key
<1> DEFINE S == {k \in Key : GetByBranch(k, default_branch) # NULL}
<1>1. IsFiniteSet(Key) /\ S \subseteq Key
  BY IndexAssumption
<1>2. Cardinality(S) \in Nat /\ Cardinality(S) <= Cardinality(Key) /\ Cardinality(Key) \in Nat
  BY <1>1, FS_Subset, FS_CardinalityType
<1>3. VecLen = Cardinality(S)
  BY DEF VecLen, LenByBranch
<1>4. Cardinality(S) > 0 => Cardinality(S) - 1 \in 0 .. Cardinality(Key) - 1
  <2>. HIDE DEF S
  <2>. QED  BY <1>2
<1>. QED  BY <1>2, <1>3, <1>4, IndexAssumption

-----------------------------------------------------------------------------
(* A vector is a versioned map.                                            *)

\* A write to a vector is one of the map.
LEMMA VecWrites ==
  ASSUME NEW b \in Branches, WriteVec(b)
  PROVE  WriteStep
<1>1. \/ \E x \in Value, k \in Key : Insert(b, k, x)
      \/ \E k \in Key : Remove(b, k)
  BY VecLenIs DEF WriteVec, VecOp, PushByBranch, UpdateByBranch, PopByBranch
<1>. QED  BY <1>1 DEF WriteStep

\* Every step of a vector is a step of the map, so that what is proved of the
\* map holds: the redundant maps agree, branches that meet have the same past,
\* and readers see lines of snapshots.
THEOREM VecIsMap == VecSpec => Spec
<1>1. DropVec => DropStep
  BY DEF DropVec, DropStep
<1>2. [VecNext]_vars => [Next]_vars
  BY <1>1, VecWrites DEF VecNext, Next
<1>. QED  BY <1>2, PTL DEF VecSpec, Spec
-----------------------------------------------------------------------------
(* Rearranging: what is shown after it was shown before.                   *)

\* c shows what version w of some branch shows, or nothing.
IsShownNow(c) ==
    \/ c = Snapshots!Nothing
    \/ \E b \in DOMAIN content : \E w \in DOMAIN content[b] : c = content[b][w]

\* A part of a branch ends with what one of its versions shows.
LEMMA EndIsShown ==
  ASSUME TypeOK, NEW b \in DOMAIN content, NEW S \in SUBSET DOMAIN content[b]
  PROVE  IsShownNow(Snapshots!End(b, S))
<1>1. CASE S = {}
  BY <1>1 DEF Snapshots!End, IsShownNow
<1>2. CASE S # {}
  <2>1. next_ver_id \in Nat /\ DOMAIN content[b] \in SUBSET (0 .. next_ver_id)
    BY NowShows, ContentParts DEF Shows
  <2>2. Snapshots!Max(S) \in S
    <3>1. S \in SUBSET (0 .. next_ver_id)
      BY <2>1
    <3>2. Max(S) \in S
      BY <1>2, <2>1, <3>1, MaxInSet
    <3>. QED  BY <3>2 DEF Max, Snapshots!Max
  <2>. QED  BY <1>2, <2>2 DEF Snapshots!End, IsShownNow
<1>. QED  BY <1>1, <1>2

\* Parts of a branch are made of its versions.
LEMMA PartsAreVersions ==
  ASSUME NEW b, NEW S \in Snapshots!Parts(b)
  PROVE  S \in SUBSET DOMAIN content[b]
  BY DEF Snapshots!Parts, Snapshots!Versions, Snapshots!UpTo

\* Whatever is rearranged, a version shows what one showed before, or nothing.
LEMMA NothingNew ==
  ASSUME TypeOK, Snapshots!Rearrange,
         NEW b \in DOMAIN content', NEW v \in DOMAIN content'[b]
  PROVE  IsShownNow(content'[b][v])
<1>0. USE DEF Snapshots!Branches, Snapshots!Versions
<1>1. ASSUME NEW R, Snapshots!RemoveBranches(R)
      PROVE  IsShownNow(content'[b][v])
  <2>1. b \in DOMAIN content /\ content'[b] = content[b]
    BY <1>1 DEF Snapshots!RemoveBranches, Snapshots!Without, Snapshots!Restrict
  <2>. QED  BY <2>1 DEF IsShownNow
<1>2. ASSUME NEW c \in Snapshots!Kept, NEW S \in Snapshots!Parts(c), Snapshots!GoBack(c, S)
      PROVE  IsShownNow(content'[b][v])
  <2>1. S \in SUBSET DOMAIN content[c] /\ c \in DOMAIN content
    BY PartsAreVersions DEF Snapshots!Kept
  <2>2. b \in DOMAIN content /\ v \in DOMAIN content[b] /\ content'[b][v] = content[b][v]
    BY <1>2, <2>1 DEF Snapshots!GoBack, Snapshots!Restrict
  <2>. QED  BY <2>2 DEF IsShownNow
<1>3. ASSUME NEW c \in Snapshots!Kept, NEW w, Snapshots!CreateVersion(c, w)
      PROVE  IsShownNow(content'[b][v])
  <2>1. /\ b \in DOMAIN content /\ c \in DOMAIN content
        /\ \/ v \in DOMAIN content[b] /\ content'[b][v] = content[b][v]
           \/ content'[b][v] = Snapshots!End(c, DOMAIN content[c])
    BY <1>3 DEF Snapshots!CreateVersion, Snapshots!MapInsert, Snapshots!Kept
  <2>2. IsShownNow(Snapshots!End(c, DOMAIN content[c]))
    BY <2>1, EndIsShown
  <2>. QED  BY <2>1, <2>2 DEF IsShownNow
<1>4. ASSUME NEW n, NEW c \in DOMAIN content, NEW S \in Snapshots!Parts(c), NEW R,
             Snapshots!CreateBranch(n, c, S, R)
      PROVE  IsShownNow(content'[b][v])
  <2>1. S \in SUBSET DOMAIN content[c]
    BY PartsAreVersions
  <2>2. IsShownNow(Snapshots!End(c, S))
    BY <2>1, EndIsShown
  <2>3. CASE b # n
    <3>1. b \in DOMAIN content /\ content'[b] = content[b]
      BY <1>4, <2>3 DEF Snapshots!CreateBranch, Snapshots!MapInsert, Snapshots!Without,
                        Snapshots!Restrict
    <3>. QED  BY <3>1 DEF IsShownNow
  <2>4. CASE b = n
    <3> DEFINE f == Snapshots!Restrict(content[c], S)
    <3>1. DOMAIN f = S /\ \A w \in S : f[w] = content[c][w]
      BY <2>1 DEF Snapshots!Restrict
    <3>. HIDE DEF f
    <3>2. content'[n] = f \/ \E w : content'[n] = Snapshots!MapInsert(f, w, Snapshots!End(c, S))
      BY <1>4 DEF Snapshots!CreateBranch, Snapshots!MapInsert, f
    <3>3. \/ v \in S /\ content'[b][v] = content[c][v]
          \/ content'[b][v] = Snapshots!End(c, S)
      BY <2>4, <3>1, <3>2 DEF Snapshots!MapInsert
    <3>. QED  BY <2>1, <2>2, <3>3 DEF IsShownNow
  <2>. QED  BY <2>3, <2>4
<1>5. ASSUME NEW c \in Snapshots!Kept, NEW t, Snapshots!Merge(c, t)
      PROVE  IsShownNow(content'[b][v])
  <2>1. b \in DOMAIN content /\ c \in DOMAIN content
        /\ (content'[b] = content[b] \/ content'[b] = content[c])
    BY <1>5 DEF Snapshots!Merge, Snapshots!Kept
  <2>. QED  BY <2>1 DEF IsShownNow
<1>6. ASSUME NEW B \in SUBSET Snapshots!Kept, NEW base, NEW c \in B,
             Snapshots!Gone(c) # {}, Snapshots!Squash(B, base, Snapshots!Gone(c))
      PROVE  IsShownNow(content'[b][v])
  <2> DEFINE M == Snapshots!Gone(c)
  <2>1. M # {} /\ M \subseteq DOMAIN content[c] /\ c \in DOMAIN content
    BY <1>6 DEF Snapshots!Gone, Snapshots!Kept
  <2>2. next_ver_id \in Nat /\ DOMAIN content[c] \in SUBSET (0 .. next_ver_id)
    BY <2>1, NowShows, ContentParts DEF Shows
  <2>. HIDE DEF M
  <2>3. Snapshots!Max(M) \in M
    <3>1. M \in SUBSET (0 .. next_ver_id)
      BY <2>1, <2>2
    <3>2. Max(M) \in M
      BY <2>1, <2>2, <3>1, MaxInSet
    <3>. QED  BY <3>2 DEF Max, Snapshots!Max
  <2>4. /\ b \in DOMAIN content
        /\ b \in B => M \subseteq DOMAIN content[b]
        /\ content'[b] = IF b \notin B THEN content[b]
                         ELSE [w \in DOMAIN content[b] \ M |->
                                 content[b][IF w = base THEN Snapshots!Max(M) ELSE w]]
    BY <1>6 DEF Snapshots!Squash, M
  <2>5. CASE b \notin B
    BY <2>4, <2>5 DEF IsShownNow
  <2>6. CASE b \in B
    <3>1. v \in DOMAIN content[b]
          /\ content'[b][v] = content[b][IF v = base THEN Snapshots!Max(M) ELSE v]
      BY <2>4, <2>6
    <3>2. (IF v = base THEN Snapshots!Max(M) ELSE v) \in DOMAIN content[b]
      BY <2>3, <2>4, <2>6, <3>1
    <3>. QED  BY <2>4, <3>1, <3>2 DEF IsShownNow
  <2>. QED  BY <2>5, <2>6
<1>7. ~Snapshots!Init'
  BY DEF Snapshots!Init, Snapshots!MapInsert, Snapshots!EmptyMap
<1>. QED  BY <1>1, <1>2, <1>3, <1>4, <1>5, <1>6, <1>7 DEF Snapshots!Rearrange

-----------------------------------------------------------------------------
(* No gaps.                                                                *)

\* The indices in use in a content are those below some number.
NoGap(c) == \E n \in Nat : {k \in Key : c[k] # NULL} = 0 .. n - 1

\* In all versions that are shown.
AllDense(shown) == \A b \in DOMAIN shown : \A v \in DOMAIN shown[b] : NoGap(shown[b][v])

\* What a version shows is what is read there.
LEMMA ContentReads ==
  /\ DOMAIN content = DOMAIN br_to_its_vers
  /\ \A b \in DOMAIN br_to_its_vers :
       /\ DOMAIN content[b] = Vers(b)
       /\ \A v \in Vers(b) : \A k \in Key : content[b][v][k] = Get(k, b, v)
  BY DEF content, Vers

\* Dense speaks of what is shown.
LEMMA DenseIs == AllDense(content) => Dense
<1>. SUFFICES ASSUME AllDense(content), NEW b \in DOMAIN br_to_its_vers, NEW v \in Vers(b)
              PROVE  Indices(b, v) = 0 .. Cardinality(Indices(b, v)) - 1
  BY DEF Dense
<1>1. NoGap(content[b][v])
  BY ContentReads DEF AllDense
<1>2. {k \in Key : content[b][v][k] # NULL} = Indices(b, v)
  BY ContentReads DEF Indices
<1>3. PICK n \in Nat : Indices(b, v) = 0 .. n - 1
  BY <1>1, <1>2 DEF NoGap
<1>4. Cardinality(Indices(b, v)) = n
  BY <1>3, Size
<1>. QED  BY <1>3, <1>4

\* Rearranging makes no gap.
LEMMA RearrangeDense ==
  ASSUME TypeOK, AllDense(content), [Snapshots!Rearrange]_content
  PROVE  AllDense(content')
<1>1. NoGap(Snapshots!Nothing)
  <2>1. {k \in Key : Snapshots!Nothing[k] # NULL} = 0 .. 0 - 1
    BY DEF Snapshots!Nothing
  <2>. QED  BY <2>1 DEF NoGap
<1>2. CASE UNCHANGED content
  BY <1>2 DEF AllDense
<1>3. CASE Snapshots!Rearrange
  <2>1. ASSUME NEW b \in DOMAIN content', NEW v \in DOMAIN content'[b]
        PROVE  NoGap(content'[b][v])
    BY <1>1, <1>3, NothingNew DEF IsShownNow, AllDense
  <2>. QED  BY <2>1 DEF AllDense
<1>. QED  BY <1>2, <1>3

-----------------------------------------------------------------------------
(* What a write changes.                                                   *)

\* An operation on branch b writes x at index k of its newest version h, which is
\* its own: x takes the place of an element or follows the last, or the last
\* element goes.
Writes(b, h, k, x) ==
    /\ b \in DOMAIN br_to_its_vers
    /\ IsLast(h, Vers(b))
    /\ \A c \in DOMAIN br_to_its_vers \ {b} : h \notin Vers(c)
    /\ k \in Key
    /\ Write(k, x, h)
    /\ \/ x \in Value /\ k <= LenByBranch(b)
       \/ x = NULL /\ k = LenByBranch(b) - 1 /\ LenByBranch(b) > 0

\* Each of them does.
LEMMA WriteVecWrites ==
  ASSUME NEW b, WriteVec(b)
  PROVE  \E h, k, x : Writes(b, h, k, x)
<1>1. VecLen = LenByBranch(b) /\ VecLen \in Nat
  BY VecLenIs DEF WriteVec, LengthDuty
<1>2. ASSUME NEW h \in Vers(b), IsLast(h, Vers(b))
      PROVE  b \in DOMAIN br_to_its_vers /\ \A c \in DOMAIN br_to_its_vers \ {b} : h \notin Vers(c)
  BY <1>2 DEF WriteVec, OwnDuty, Vers
<1>3. ASSUME NEW x \in Value, NEW k \in Key, k <= VecLen, Insert(b, k, x)
      PROVE  \E h : Writes(b, h, k, x)
  BY <1>1, <1>2, <1>3 DEF Insert, Writes
<1>4. ASSUME VecLen > 0, Remove(b, VecLen - 1)
      PROVE  \E h : Writes(b, h, VecLen - 1, NULL)
  BY <1>1, <1>2, <1>4, VecLenIs DEF Remove, Writes
<1>5. VecLen <= VecLen /\ \A i \in Key : i < VecLen => i <= VecLen
  BY <1>1, IndicesAreNumbers
<1>. QED  BY <1>3, <1>4, <1>5 DEF WriteVec, VecOp, PushByBranch, UpdateByBranch, PopByBranch

\* Only the newest version of that branch changes, at that index.
LEMMA WritesShow ==
  ASSUME TypeOK, NEW b, NEW h, NEW k, NEW x, Writes(b, h, k, x)
  PROVE  /\ b \in DOMAIN content /\ h \in DOMAIN content[b]
         /\ DOMAIN content' = DOMAIN content
         /\ \A c \in DOMAIN content : DOMAIN content'[c] = DOMAIN content[c]
         /\ \A c \in DOMAIN content : \A w \in DOMAIN content[c] :
              content'[c][w] = IF c = b /\ w = h THEN [content[c][w] EXCEPT ![k] = x]
                               ELSE content[c][w]
<1> DEFINE brs == br_to_its_vers
<1>1. Shows(next_ver_id, layered_kv, brs)
  BY NowShows
<1>2. /\ layered_kv' = MapInsert(layered_kv, k, MapInsert(Layers(layered_kv, k), h, x))
      /\ brs' = brs
  BY KeyVersAreLayers DEF Writes, Write
<1>3. content' = ContentOf(layered_kv', brs)
  BY <1>2, ContentIsNext
<1>4. /\ DOMAIN content = DOMAIN brs /\ DOMAIN content' = DOMAIN brs
      /\ \A c \in DOMAIN brs : DOMAIN content[c] = brs[c] /\ DOMAIN content'[c] = brs[c]
      /\ \A c \in DOMAIN brs : \A w \in brs[c] :
           content[c][w] = At(layered_kv, brs[c], w) /\ content'[c][w] = At(layered_kv', brs[c], w)
  BY <1>1, <1>3, ContentParts DEF Shows
<1>5. k \in Key /\ b \in DOMAIN brs /\ h \in brs[b] /\ (\A v \in brs[b] : v <= h)
      /\ \A c \in DOMAIN brs \ {b} : h \notin brs[c]
  BY DEF Writes, IsLast, Vers
<1>6. ASSUME NEW c \in DOMAIN brs, NEW w \in brs[c]
      PROVE  content'[c][w] = IF c = b /\ w = h THEN [content[c][w] EXCEPT ![k] = x]
                              ELSE content[c][w]
  <2>1. Ids(next_ver_id, brs[c]) /\ w \in Int
    BY <1>1, AreIntegers DEF Shows, Ids
  <2>2. \/ At(layered_kv', brs[c], w) = At(layered_kv, brs[c], w) /\ ~(h \in brs[c] /\ w = h)
        \/ /\ At(layered_kv', brs[c], w) = [At(layered_kv, brs[c], w) EXCEPT ![k] = x]
           /\ h \in brs[c] /\ h <= w
    BY <1>2, <1>5, <2>1, WrittenAt
  <2>3. h \in brs[c] /\ h <= w => c = b /\ w = h
    <3>. SUFFICES ASSUME h \in brs[c], h <= w
                  PROVE  c = b /\ w = h
      OBVIOUS
    <3>1. c = b
      BY <1>5
    <3>2. w <= h /\ h \in Int
      <4>1. Ids(next_ver_id, brs[b]) /\ h \in Int
        BY <1>1, <1>5, AreIntegers DEF Shows, Ids
      <4>. QED  BY <1>5, <3>1, <4>1
    <3>. QED  BY <2>1, <3>1, <3>2
  <2>4. c = b /\ w = h => h \in brs[c]
    BY <1>5
  <2>. QED  BY <1>4, <2>2, <2>3, <2>4
<1>. QED  BY <1>4, <1>5, <1>6

\* A write makes no gap.
LEMMA WriteDense ==
  ASSUME TypeOK, AllDense(content), NEW b, WriteVec(b)
  PROVE  AllDense(content')
<1>1. PICK h, k, x : Writes(b, h, k, x)
  BY WriteVecWrites
<1>2. h \in Vers(b) /\ b \in DOMAIN content /\ h \in DOMAIN content[b]
      /\ b \in DOMAIN br_to_its_vers
  BY <1>1, WritesShow DEF Writes, IsLast
<1>3. PICK n \in Nat : {i \in Key : content[b][h][i] # NULL} = 0 .. n - 1
  BY <1>2 DEF AllDense, NoGap
<1>4. LenByBranch(b) = n
  <2>1. Max(Vers(b)) = h /\ Vers(b) # {}
    <3>1. Vers(b) \in SUBSET Int
      BY VersNumbers
    <3>. QED  BY <1>1, <3>1, MaxIs DEF Writes, IsLast
  <2>2. \A i \in Key : GetByBranch(i, b) = content[b][h][i]
    BY <1>2, <2>1, ContentReads DEF GetByBranch
  <2>3. {i \in Key : GetByBranch(i, b) # NULL} = 0 .. n - 1
    BY <1>3, <2>2
  <2>. QED  BY <2>3, Size DEF LenByBranch
<1>5. NoGap([content[b][h] EXCEPT ![k] = x])
  <2> DEFINE c  == content[b][h]
             c2 == [c EXCEPT ![k] = x]
  <2>1. DOMAIN c = Key
    BY <1>2 DEF content, Vers
  <2>2. k \in Key /\ \A i \in Key : c2[i] = IF i = k THEN x ELSE c[i]
    BY <1>1, <2>1 DEF Writes
  <2>. HIDE DEF c, c2
  <2>3. {i \in Key : c[i] # NULL} = 0 .. n - 1
    BY <1>3 DEF c
  <2>4. CASE x \in Value /\ k <= n
    <3>1. x # NULL
      BY <2>4, NullAssumption
    <3>2. k \in Nat
      BY <2>2, IndicesAreNumbers
    <3>3. {i \in Key : c2[i] # NULL} = (0 .. n - 1) \cup {k}
      BY <2>2, <2>3, <3>1
    <3>4. CASE k = n
      <4>1. (0 .. n - 1) \cup {k} = 0 .. (n + 1) - 1
        BY <3>4
      <4>. QED  BY <3>3, <4>1 DEF NoGap, c, c2
    <3>5. CASE k # n
      <4>1. (0 .. n - 1) \cup {k} = 0 .. n - 1
        BY <2>4, <3>2, <3>5
      <4>. QED  BY <3>3, <4>1 DEF NoGap, c, c2
    <3>. QED  BY <3>4, <3>5
  <2>5. CASE x = NULL /\ k = n - 1 /\ n > 0
    <3>1. {i \in Key : c2[i] # NULL} = (0 .. n - 1) \ {k}
      BY <2>2, <2>3, <2>5
    <3>2. (0 .. n - 1) \ {k} = 0 .. (n - 1) - 1 /\ n - 1 \in Nat
      BY <2>5
    <3>. QED  BY <3>1, <3>2 DEF NoGap, c, c2
  <2>. QED  BY <1>1, <1>4, <2>4, <2>5 DEF Writes
<1>6. \A c \in DOMAIN content' : \A w \in DOMAIN content'[c] : NoGap(content'[c][w])
  <2>1. /\ DOMAIN content' = DOMAIN content
        /\ \A c \in DOMAIN content : DOMAIN content'[c] = DOMAIN content[c]
        /\ \A c \in DOMAIN content : \A w \in DOMAIN content[c] :
             content'[c][w] = IF c = b /\ w = h THEN [content[c][w] EXCEPT ![k] = x]
                              ELSE content[c][w]
    BY <1>1, WritesShow
  <2>. QED  BY <1>5, <2>1 DEF AllDense
<1>. QED  BY <1>6 DEF AllDense

\* Every other step of a vector rearranges.
LEMMA OthersRearrange ==
  ASSUME DataInv, SharedHistory, [VecNext]_vars, ~(\E b \in Branches : WriteVec(b))
  PROVE  [Snapshots!Rearrange]_content
<1>. USE DEF DataInv, VersionsKnown
<1>1. CASE UNCHANGED vars \/ RenameStep \/ Restart
  <2>1. UNCHANGED <<layered_kv, br_to_its_vers>>
    BY <1>1 DEF vars, data, RenameStep, BranchSetDefault, BranchSwap, Restart
  <2>. QED  BY <2>1, ContentIs, ContentIsNext
<1>2. CASE CreateStep
  BY <1>2, CreateRefines
<1>3. CASE DropVec
  <2>1. ASSUME NEW n, BranchCreateFails(n)
        PROVE  Snapshots!Rearrange
    BY <2>1, RemoveRefines DEF BranchCreateFails, data
  <2>. QED  BY <1>3, <2>1, BackRefines, BranchRemoveRefines, ClearRefines DEF DropVec
<1>4. CASE MergeStep
  BY <1>4, MergeRefines DEF MergeStep
<1>5. CASE CompactStep
  BY <1>5, CompactRefines
<1>. QED  BY <1>1, <1>2, <1>3, <1>4, <1>5 DEF VecNext

\* In every version of every branch of a vector the indices in use are those from
\* zero to the length.
THEOREM DenseHolds == VecSpec => []Dense
<1>1. Init => AllDense(content)
  <2>1. Snapshots!Init => AllDense(content)
    BY DEF Snapshots!Init, Snapshots!MapInsert, Snapshots!EmptyMap, AllDense
  <2>. QED  BY <2>1, InitContent
<1>2. DataInv /\ SharedHistory /\ AllDense(content) /\ [VecNext]_vars => AllDense(content)'
  <2>1. AllDense(content)' <=> AllDense(content')
    BY DEF AllDense, NoGap
  <2>. QED  BY <2>1, WriteDense, OthersRearrange, RearrangeDense DEF DataInv
<1>. QED  BY <1>1, <1>2, VecIsMap, DataInvariant, SpecIsUnsafe, SharedHistoryHolds, DenseIs, PTL
          DEF VecSpec

\* An operation on a vector changes the newest version of the branch it is asked
\* for, and nothing that any other version of any branch reads.
THEOREM HistoryKeptHolds == VecSpec => HistoryKept
<1>1. ASSUME TypeOK, NEW b \in Branches, WriteVec(b),
             NEW c \in DOMAIN br_to_its_vers, NEW v \in Vers(c),
             ~(c = b /\ IsLast(v, Vers(b))), NEW k \in Key
      PROVE  Get(k, c, v)' = Get(k, c, v)
  <2>1. PICK h, i, x : Writes(b, h, i, x)
    BY <1>1, WriteVecWrites
  <2>2. c \in DOMAIN content /\ v \in DOMAIN content[c] /\ ~(c = b /\ v = h)
    BY <1>1, <2>1, ContentReads DEF Writes
  <2>3. content'[c][v] = content[c][v]
    <3>1. \A d \in DOMAIN content : \A w \in DOMAIN content[d] :
             content'[d][w] = IF d = b /\ w = h THEN [content[d][w] EXCEPT ![i] = x]
                              ELSE content[d][w]
      BY <1>1, <2>1, WritesShow
    <3>. QED  BY <2>2, <3>1
  <2>4. br_to_its_vers' = br_to_its_vers
    BY <2>1 DEF Writes, Write
  <2>5. Get(k, c, v)' = content'[c][v][k]
    BY <1>1, <2>4 DEF content, Vers
  <2>. QED  BY <1>1, <2>3, <2>5, ContentReads
<1>2. TypeOK =>
        [\A b \in Branches : WriteVec(b) =>
           \A c \in DOMAIN br_to_its_vers : \A v \in Vers(c) :
              (c = b /\ IsLast(v, Vers(b))) \/ \A k \in Key : Get(k, c, v)' = Get(k, c, v)]_vars
  BY <1>1
<1>. QED  BY <1>2, VecIsMap, TypeCorrect, SpecIsUnsafe, PTL DEF VecSpec, HistoryKept
=============================================================================

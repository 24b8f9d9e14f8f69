-------------------------- MODULE MapxEngine_proofs --------------------------
(***************************************************************************)
(* Theorems about MapxEngine: ids are fresh whatever crashes; in a         *)
(* race-free environment the lengths are those of the maps, and clones are *)
(* equal to their sources; and a lone thread finds the greatest key.       *)
(***************************************************************************)
EXTENDS MapxEngine, Maps_proofs, FiniteSetTheorems

-----------------------------------------------------------------------------
(***************************************************************************)
(* The inductive invariant for ids, which crashes keep.                    *)
(***************************************************************************)
RowLabels   == {"keylen", "keylen_mem", "keylen_disk", "look", "put", "swap"}
CountLabels == {"count", "read_len", "write_len"}
AllocLabels == {"alloc", "alloc_read", "alloc_write"}

\* What the locals c of a thread at each label are.
LocalsAt(label, c) ==
    /\ label \in RowLabels => c.op \in {"insert", "remove", "get_mut", "clear", "clone"}
    /\ label \in CountLabels => c.op \in {"insert", "remove", "get_mut", "clone"}
    /\ label \in RowLabels \cup CountLabels \cup {"held"} =>
          c.m \in Prefixes /\ c.k \in Key
    /\ label = "held" => c.op = "get_mut"
    /\ label = "write_len" => c.got \in 0 .. U64_MAX
    /\ label = "next" => c.op \in {"clear", "clone"} /\ c.m \in Prefixes
    /\ label = "zero" => c.op \in {"clear", "clone", "new"} /\ c.m \in Nat
    /\ label = "zero" /\ c.op = "clear" => c.m \in Prefixes
    /\ label \in AllocLabels => c.op \in {"new", "clone", "alloc_ver_id"} /\ c.m = NoMap
    /\ c.op = "clone" => c.src \in Prefixes
    /\ label = "idle" => c = NoCall
LocalsOK == \A t \in Thread : LocalsAt(pc[t], call[t])

\* Ids in use lie below the next one; a thread that allocates one holds the
\* lock, and the map it then makes is of no one else.
Makes(t) == pc[t] = "zero" /\ call[t].op \in {"new", "clone"}
IdsOK ==
    /\ \A a \in Allocator : \A i \in issued[a] : i < next_id[a]
    /\ \A m \in Prefixes : m < next_id["prefix"]
    /\ \A t \in Thread : pc[t] \in {"alloc_read", "alloc_write"} =>
          ALLOC_LK[AllocatorOf(call[t])] = t
    /\ \A t \in Thread : pc[t] = "alloc_write" =>
          call[t].got = next_id[AllocatorOf(call[t])]
    /\ \A t \in Thread : Makes(t) =>
          /\ call[t].m \notin Prefixes
          /\ call[t].m < next_id["prefix"]
          /\ \A u \in Thread \ {t} : Makes(u) => call[u].m # call[t].m

IdInv == TypeOK /\ LocalsOK /\ IdsOK

-----------------------------------------------------------------------------
\* The area of a prefix is one of the areas.
LEMMA AreaType ==
    ASSUME NEW p \in Nat
    PROVE  area_idx(p) \in Area
BY EngineAssumption, Z3 DEF area_idx, Area

\* A step of one thread: its own label and locals change, and no others.
LEMMA GotoThread ==
    ASSUME pc \in [Thread -> Labels], call \in [Thread -> Calls],
           NEW t \in Thread, NEW label \in Labels, NEW c \in Calls,
           Goto(t, label, c)
    PROVE  /\ pc' \in [Thread -> Labels]
           /\ call' \in [Thread -> Calls]
           /\ pc'[t] = label
           /\ label = "idle" => call'[t] = NoCall
           /\ label # "idle" => call'[t] = c
           /\ \A u \in Thread \ {t} : pc'[u] = pc[u] /\ call'[u] = call[u]
<1>1. NoCall \in Calls
  BY DEF NoCall, Call, Calls, NoMap, Ops
<1> QED
  BY <1>1 DEF Goto

\* The record of a call is one of the calls.
LEMMA CallType ==
    ASSUME NEW op \in Ops, NEW m \in Nat \cup {NoMap}, NEW k \in Key \cup {0},
           NEW src \in Nat \cup {NoMap}, NEW todo \in SUBSET Key
    PROVE  Call(op, m, k, src, todo) \in Calls
BY DEF Call, Calls

\* No map has a negative prefix.
LEMMA PrefixesNat == ASSUME TypeOK PROVE Prefixes \subseteq Nat
BY DEF TypeOK, IsMap, Prefixes

\* The locals stay right when those of the thread that moves are right for its
\* new label, and no map vanishes.
LEMMA GotoLocals ==
    ASSUME TypeOK, LocalsOK, Prefixes \subseteq Prefixes',
           NEW t \in Thread, NEW label \in Labels, NEW c \in Calls,
           Goto(t, label, c), label # "idle" => LocalsAt(label, c)'
    PROVE  LocalsOK'
<1>1. /\ pc'[t] = label
      /\ label = "idle" => call'[t] = NoCall
      /\ label # "idle" => call'[t] = c
      /\ \A u \in Thread \ {t} : pc'[u] = pc[u] /\ call'[u] = call[u]
  BY GotoThread DEF TypeOK
<1>2. ASSUME NEW u \in Thread \ {t} PROVE LocalsAt(pc[u], call[u])'
  <2>1. LocalsAt(pc[u], call[u])
    BY DEF LocalsOK
  <2> QED
    BY <1>1, <2>1 DEF LocalsAt
<1>3. LocalsAt(pc[t], call[t])'
  <2>1. CASE label = "idle"
    BY <1>1, <2>1 DEF LocalsAt, NoCall, Call, RowLabels, CountLabels, AllocLabels
  <2>2. CASE label # "idle"
    BY <1>1, <2>2 DEF LocalsAt
  <2> QED
    BY <2>1, <2>2
<1> QED
  BY <1>2, <1>3 DEF LocalsOK

\* Ids stay right when a thread moves that neither allocates nor makes a map.
LEMMA GotoIds ==
    ASSUME TypeOK, IdsOK, UNCHANGED <<alloc, Prefixes>>,
           NEW t \in Thread, NEW label \in Labels, NEW c \in Calls,
           Goto(t, label, c), label \notin {"alloc_read", "alloc_write"},
           label = "zero" => c.op = "clear"
    PROVE  IdsOK'
<1>1. /\ pc'[t] = label
      /\ label # "idle" => call'[t] = c
      /\ \A u \in Thread \ {t} : pc'[u] = pc[u] /\ call'[u] = call[u]
  BY GotoThread DEF TypeOK
<1>2. ~Makes(t)'
  BY <1>1 DEF Makes
<1>3. \A u \in Thread \ {t} : Makes(u)' <=> Makes(u)
  BY <1>1 DEF Makes
<1>4. \A u \in Thread \ {t} : AllocatorOf(call[u])' = AllocatorOf(call[u])
  BY <1>1 DEF AllocatorOf
<1> QED
  BY <1>1, <1>2, <1>3, <1>4 DEF IdsOK, alloc

\* Type correctness of the variables that a step of one thread mostly leaves
\* alone.
LEMMA GotoTypes ==
    ASSUME TypeOK, NEW t \in Thread, NEW label \in Labels, NEW c \in Calls,
           Goto(t, label, c), UNCHANGED <<rows, keylens, alloc, LEN_LK>>
    PROVE  TypeOK' /\ UNCHANGED Prefixes
BY GotoThread DEF TypeOK, rows, keylens, alloc, Prefixes

\* So a step that keeps the types and the maps, and neither allocates nor makes
\* a map, keeps the invariant.
LEMMA GotoKeeps ==
    ASSUME IdInv, NEW t \in Thread, NEW label \in Labels, NEW c \in Calls,
           Goto(t, label, c), TypeOK', UNCHANGED <<Prefixes, alloc>>,
           label # "idle" => LocalsAt(label, c),
           label \notin {"alloc_read", "alloc_write"}, label = "zero" => c.op = "clear"
    PROVE  IdInv'
<1>1. label # "idle" => LocalsAt(label, c)'
  BY DEF LocalsAt
<1>2. LocalsOK'
  BY <1>1, GotoLocals DEF IdInv
<1>3. IdsOK'
  BY GotoIds DEF IdInv, alloc
<1> QED
  BY <1>2, <1>3 DEF IdInv

\* In particular one that changes a label and locals only.
LEMMA GotoInv ==
    ASSUME IdInv, NEW t \in Thread, NEW label \in Labels, NEW c \in Calls,
           Goto(t, label, c), UNCHANGED <<rows, keylens, alloc, LEN_LK>>,
           label # "idle" => LocalsAt(label, c),
           label \notin {"alloc_read", "alloc_write"}, label = "zero" => c.op = "clear"
    PROVE  IdInv'
<1>1. TypeOK' /\ UNCHANGED Prefixes
  BY GotoTypes DEF IdInv
<1> QED
  BY <1>1, GotoKeeps DEF alloc

-----------------------------------------------------------------------------
(***************************************************************************)
(* The invariant for ids is kept by every step.                            *)
(***************************************************************************)
\* It holds of an empty database.
LEMMA InitIdInv == ASSUME Init PROVE IdInv
<1> USE ThreadAssumption, KeyAssumption, EngineAssumption
<1>1. Prefixes = {}
  BY DEF Init, Prefixes, EmptyMap
<1>2. NoCall \in Calls
  BY DEF NoCall, Call, Calls, NoMap, Ops
<1>3. TypeOK
  BY <1>1, <1>2, EmptyIsMap DEF Init, TypeOK, Labels, Allocator, First, EmptyMap, Prefixes
<1>4. LocalsOK
  BY <1>1 DEF Init, LocalsOK, LocalsAt, RowLabels, CountLabels, AllocLabels, NoCall, Call
<1>5. IdsOK
  BY <1>1 DEF Init, IdsOK, Makes
<1> QED
  BY <1>3, <1>4, <1>5 DEF IdInv

\* The calls of a user begin with locals that fit their first label.
LEMMA UserId ==
    ASSUME IdInv, NEW t \in Thread, UserStep(t)
    PROVE  IdInv'
<1> USE DEF RowLabels, CountLabels, AllocLabels
<1>1. Prefixes \subseteq Nat /\ \A m \in Prefixes : entries[m] \subseteq Key
  BY PrefixesNat DEF IdInv, TypeOK, IsMap
<1>2. \A op \in Ops : RowStart(op) \in {"swap", "look", "keylen"}
  BY DEF RowStart
<1>3. ASSUME NEW m \in Prefixes, NEW k \in Key, KeyCall(t, m, k)
      PROVE  IdInv'
  <2>1. PICK op \in {"insert", "remove", "get_mut"},
             label \in {"swap", "look", "keylen", "held"} :
          /\ Begin(t, Call(op, m, k, m, {}), label)
          /\ label = "held" => op = "get_mut"
    BY <1>2, <1>3 DEF KeyCall, Ops
  <2>2. Call(op, m, k, m, {}) \in Calls
    BY <1>1, CallType DEF Ops
  <2>3. LocalsAt(label, Call(op, m, k, m, {}))
    BY <2>1 DEF LocalsAt, Call
  <2> QED
    BY <2>1, <2>2, <2>3, GotoInv DEF Begin, Labels
<1>4. ASSUME NEW m \in Prefixes, ClearCall(t, m)
      PROVE  IdInv'
  <2>1. Call("clear", m, 0, m, entries[m]) \in Calls
    BY <1>1, CallType DEF Ops
  <2>2. LocalsAt("next", Call("clear", m, 0, m, entries[m]))
    BY DEF LocalsAt, Call
  <2> QED
    BY <1>4, <2>1, <2>2, GotoInv DEF ClearCall, Begin, Labels
<1>5. ASSUME NEW m \in Prefixes, CloneCall(t, m)
      PROVE  IdInv'
  <2>1. Call("clone", NoMap, 0, m, {}) \in Calls
    BY <1>1, CallType DEF Ops
  <2>2. LocalsAt("alloc", Call("clone", NoMap, 0, m, {}))
    BY DEF LocalsAt, Call
  <2> QED
    BY <1>5, <2>1, <2>2, GotoInv DEF CloneCall, Begin, Labels
<1>6. CASE NewCall(t)
  <2>1. PICK op \in {"new", "alloc_ver_id"} :
          Begin(t, Call(op, NoMap, 0, NoMap, {}), "alloc")
    BY <1>6 DEF NewCall
  <2>2. Call(op, NoMap, 0, NoMap, {}) \in Calls
    BY CallType DEF Ops
  <2>3. LocalsAt("alloc", Call(op, NoMap, 0, NoMap, {}))
    BY DEF LocalsAt, Call
  <2> QED
    BY <2>1, <2>2, <2>3, GotoInv DEF Begin, Labels
<1>7. CASE DropMut(t)
  <2>1. LocalsAt("held", call[t]) /\ call[t] \in Calls
    BY <1>7 DEF DropMut, IdInv, LocalsOK, TypeOK
  <2>2. LocalsAt(RowStart("get_mut"), call[t])
    BY <1>2, <2>1 DEF LocalsAt, Ops
  <2> QED
    BY <1>2, <1>7, <2>1, <2>2, GotoInv DEF DropMut, Labels, Ops
<1> QED
  BY <1>3, <1>4, <1>5, <1>6, <1>7 DEF UserStep

\* What is known of a thread at its label.
LEMMA AtLabel ==
    ASSUME IdInv, NEW t \in Thread
    PROVE  call[t] \in Calls /\ LocalsAt(pc[t], call[t])
BY DEF IdInv, TypeOK, LocalsOK

\* A row is written, whatever was there.
LEMMA WriteRowId ==
    ASSUME IdInv, NEW t \in Thread, pc[t] \in {"put", "swap"},
           NEW there \in BOOLEAN, WriteRow(t, call[t], there)
    PROVE  IdInv'
<1> DEFINE c     == call[t]
           label == IF Counts(c, there) THEN "count" ELSE Return(c)
<1>1. c \in Calls /\ LocalsAt(pc[t], c) /\ TypeOK
  BY AtLabel DEF IdInv
<1>2. /\ c.m \in Prefixes /\ c.k \in Key
      /\ c.op \in {"insert", "remove", "get_mut", "clear", "clone"}
  BY <1>1 DEF LocalsAt, RowLabels
<1>3. label \in Labels /\ label \in {"count", "next", "idle"}
  BY DEF Labels, Return
<1>4. label # "idle" => LocalsAt(label, c)
  BY <1>1, <1>2 DEF LocalsAt, RowLabels, CountLabels, AllocLabels, Counts, Inserts, Return
<1>5. Goto(t, label, c) /\ UNCHANGED <<len, keylens, alloc, LEN_LK>>
  BY DEF WriteRow
<1>6. /\ DOMAIN entries' = Prefixes
      /\ IsMap(entries', Nat, SUBSET Key)
  BY <1>1, <1>2 DEF WriteRow, TypeOK, IsMap
<1> HIDE DEF c, label
<1>7. TypeOK' /\ UNCHANGED Prefixes
  BY <1>1, <1>3, <1>5, <1>6, GotoThread DEF TypeOK, keylens, alloc, Prefixes
<1>8. label = "zero" => c.op = "clear"
  BY <1>3
<1> QED
  BY <1>1, <1>3, <1>4, <1>5, <1>7, <1>8, GotoKeeps DEF alloc

\* Steps of insert and remove.
LEMMA RowId ==
    ASSUME IdInv, NEW t \in Thread, RowStep(t)
    PROVE  IdInv'
<1>1. call[t] \in Calls /\ LocalsAt(pc[t], call[t])
  BY AtLabel
<1> USE DEF RowLabels, CountLabels, AllocLabels
<1>2. CASE KeyLen(t)
  <2>1. PICK label \in {"keylen_mem", "look"} : Goto(t, label, call[t])
    BY <1>2 DEF KeyLen
  <2>2. LocalsAt(label, call[t])
    BY <1>1, <1>2 DEF KeyLen, LocalsAt
  <2> QED
    BY <1>1, <1>2, <2>1, <2>2, GotoInv DEF KeyLen, Labels
<1>3. CASE KeyLenMem(t) \/ KeyLenDisk(t)
  <2>1. PICK label \in {"keylen_disk", "look"} : Goto(t, label, call[t])
    BY <1>3 DEF KeyLenMem, KeyLenDisk
  <2>2. call[t].k \in Key /\ LocalsAt(label, call[t])
    BY <1>1, <1>3 DEF KeyLenMem, KeyLenDisk, LocalsAt
  <2>3. TypeOK' /\ UNCHANGED <<Prefixes, alloc>>
    BY <1>1, <1>3, <2>1, <2>2, GotoThread
       DEF KeyLenMem, KeyLenDisk, IdInv, TypeOK, rows, alloc, Prefixes, Labels
  <2> QED
    BY <1>1, <2>1, <2>2, <2>3, GotoKeeps DEF Labels, alloc
<1>4. CASE Look(t)
  <2> DEFINE there == call[t].k \in entries[call[t].m]
             c     == [call[t] EXCEPT !.found = there]
  <2>1. there \in BOOLEAN
    OBVIOUS
  <2>2. pc[t] = "look" /\ Goto(t, "put", c) /\ UNCHANGED <<rows, keylens, alloc, LEN_LK>>
    BY <1>4 DEF Look
  <2> HIDE DEF there
  <2>3. c \in Calls /\ LocalsAt("put", c)
    BY <1>1, <2>1, <2>2 DEF LocalsAt, Calls
  <2> QED
    BY <2>2, <2>3, GotoInv DEF Labels
<1>5. CASE Put(t)
  BY <1>1, <1>5, WriteRowId DEF Put, Calls
<1>6. CASE Swap(t)
  <2> DEFINE there == call[t].k \in entries[call[t].m]
  <2>1. there \in BOOLEAN
    OBVIOUS
  <2>2. pc[t] = "swap" /\ WriteRow(t, call[t], there)
    BY <1>6 DEF Swap
  <2> HIDE DEF there
  <2> QED
    BY <2>1, <2>2, WriteRowId
<1> QED
  BY <1>2, <1>3, <1>4, <1>5, <1>6 DEF RowStep

\* Steps that count: the length written is one of the numbers of its width.
LEMMA CountId ==
    ASSUME IdInv, NEW t \in Thread, CountStep(t)
    PROVE  IdInv'
<1>1. call[t] \in Calls /\ LocalsAt(pc[t], call[t]) /\ TypeOK
  BY AtLabel DEF IdInv
<1> USE DEF RowLabels, CountLabels, AllocLabels
<1>2. pc[t] \in CountLabels
  BY DEF CountStep, LockLen, ReadLen, WriteLen
<1>3. /\ call[t].m \in Prefixes /\ call[t].m \in Nat /\ call[t].k \in Key
      /\ call[t].op \in {"insert", "remove", "get_mut", "clone"}
  BY <1>1, <1>2, PrefixesNat DEF LocalsAt
<1>4. area_idx(call[t].m) \in Area
  BY <1>3, AreaType
<1>5. CASE LockLen(t)
  <2>1. LocalsAt("read_len", call[t])
    BY <1>1, <1>3, <1>5 DEF LocalsAt, LockLen
  <2>2. TypeOK' /\ UNCHANGED <<Prefixes, alloc>>
    BY <1>1, <1>4, <1>5, GotoThread
       DEF LockLen, TypeOK, rows, keylens, alloc, Prefixes, Labels
  <2> QED
    BY <1>1, <1>5, <2>1, <2>2, GotoKeeps DEF LockLen, Labels, alloc
<1>6. CASE ReadLen(t)
  <2> DEFINE c == [call[t] EXCEPT !.got = len[call[t].m]]
  <2>1. len[call[t].m] \in 0 .. U64_MAX /\ len[call[t].m] \in Nat
    BY <1>1, <1>3, KeyAssumption DEF TypeOK, IsMap, Prefixes
  <2>2. c \in Calls /\ LocalsAt("write_len", c)
    BY <1>1, <1>3, <1>6, <2>1 DEF LocalsAt, Calls, ReadLen
  <2>3. Goto(t, "write_len", c) /\ UNCHANGED <<rows, keylens, alloc, LEN_LK>>
    BY <1>6 DEF ReadLen
  <2> QED
    BY <2>2, <2>3, GotoInv DEF Labels
<1>7. CASE WriteLen(t)
  <2> DEFINE label == Return(call[t])
             up    == Inserts(call[t])
  <2>1. label \in {"next", "idle"} /\ (label = "next" => call[t].op = "clone")
    BY <1>3 DEF Return
  <2>2. label # "idle" => LocalsAt(label, call[t])
    BY <1>1, <1>3, <2>1 DEF LocalsAt
  <2>3. Goto(t, label, call[t])
    BY <1>7 DEF WriteLen
  <2>4. up \in BOOLEAN
    BY DEF Inserts
  <2>5. /\ len' = [len EXCEPT ![call[t].m] = Stepped(call[t].got, up)]
        /\ LEN_LK' = [LEN_LK EXCEPT ![area_idx(call[t].m)] = NoThread]
        /\ UNCHANGED <<entries, keylens, alloc>>
    BY <1>7 DEF WriteLen
  <2> HIDE DEF label, up
  <2>6. Stepped(call[t].got, up) \in 0 .. U64_MAX
    <3>1. call[t].got \in 0 .. U64_MAX
      BY <1>1, <1>7 DEF WriteLen, LocalsAt
    <3> QED
      BY <2>4, <3>1, KeyAssumption DEF Stepped
  <2>7. TypeOK' /\ UNCHANGED <<Prefixes, alloc>>
    BY <1>1, <1>3, <1>4, <2>1, <2>3, <2>5, <2>6, GotoThread
       DEF TypeOK, IsMap, keylens, alloc, Prefixes, Labels
  <2> QED
    BY <1>1, <2>1, <2>2, <2>3, <2>7, GotoKeeps DEF Labels, alloc
<1> QED
  BY <1>5, <1>6, <1>7 DEF CountStep

\* The length of a map is set to zero: of one that is cleared, or of a new one,
\* which is no other thread's.
LEMMA ZeroId ==
    ASSUME IdInv, NEW t \in Thread, SetLenZero(t)
    PROVE  IdInv'
<1>1. call[t] \in Calls /\ LocalsAt(pc[t], call[t]) /\ TypeOK /\ LocalsOK /\ IdsOK
  BY AtLabel DEF IdInv
<1>2. pc[t] = "zero"
  BY DEF SetLenZero
<1>3. /\ call[t].m \in Nat /\ call[t].op \in {"clear", "clone", "new"}
      /\ call[t].op = "clear" => call[t].m \in Prefixes
      /\ call[t].op = "clone" => call[t].src \in Prefixes
  BY <1>1, <1>2 DEF LocalsAt
<1> USE DEF RowLabels, CountLabels, AllocLabels
<1>4. PICK label \in {"next", "idle"}, c \in Calls :
        /\ Goto(t, label, c)
        /\ label = "next" => /\ call[t].op = "clone" /\ call[t].m = c.m
                             /\ call[t].op = c.op /\ call[t].src = c.src
  <2>1. CASE call[t].op = "clone"
    <3>1. entries[call[t].src] \in SUBSET Key
      BY <1>1, <1>3, <2>1 DEF TypeOK, IsMap, Prefixes
    <3>2. [call[t] EXCEPT !.todo = entries[call[t].src]] \in Calls
      BY <1>1, <3>1 DEF Calls
    <3>3. Goto(t, "next", [call[t] EXCEPT !.todo = entries[call[t].src]])
      BY <2>1 DEF SetLenZero
    <3> QED
      BY <1>1, <2>1, <3>2, <3>3 DEF Calls
  <2>2. CASE call[t].op # "clone"
    BY <1>1, <2>2 DEF SetLenZero
  <2> QED
    BY <2>1, <2>2
<1>5. /\ len' = MapInsert(len, call[t].m, 0) 
      /\ UNCHANGED <<keylens, alloc, LEN_LK>>
  BY DEF SetLenZero
<1>6. IsMap(len', Nat, 0 .. U64_MAX) /\ Prefixes' = Prefixes \cup {call[t].m}
  <2>1. IsMap(len, Nat, 0 .. U64_MAX) /\ 0 \in 0 .. U64_MAX /\ call[t].m \in Nat
    BY <1>1, <1>3, KeyAssumption DEF TypeOK
  <2>2. IsMap(MapInsert(len, call[t].m, 0), Nat, 0 .. U64_MAX)
    BY <2>1, InsertIsMap
  <2> QED
    BY <1>5, <2>2 DEF Prefixes, MapInsert
<1>7. IsMap(entries', Nat, SUBSET Key) /\ DOMAIN entries' = Prefixes'
  <2>1. CASE call[t].m \in Prefixes
    BY <1>1, <1>6, <2>1 DEF SetLenZero, TypeOK
  <2>2. CASE call[t].m \notin Prefixes
    <3>1. entries' = MapInsert(entries, call[t].m, {})
      BY <2>2 DEF SetLenZero
    <3>2. IsMap(entries, Nat, SUBSET Key) /\ {} \in SUBSET Key /\ call[t].m \in Nat
      BY <1>1, <1>3 DEF TypeOK
    <3>3. IsMap(MapInsert(entries, call[t].m, {}), Nat, SUBSET Key)
      BY <3>2, InsertIsMap
    <3> QED
      BY <1>1, <1>6, <3>1, <3>3 DEF TypeOK, MapInsert
  <2> QED
    BY <2>1, <2>2
<1>8. TypeOK'
  BY <1>1, <1>4, <1>5, <1>6, <1>7, GotoThread DEF TypeOK, keylens, alloc, Labels
<1>9. LocalsOK'
  <2>1. label # "idle" => LocalsAt(label, c)'
    BY <1>3, <1>4, <1>6 DEF LocalsAt
  <2> QED
    BY <1>1, <1>4, <1>6, <2>1, GotoLocals DEF Labels
<1>10. IdsOK'
  <2>1. /\ pc'[t] = label
        /\ \A u \in Thread \ {t} : pc'[u] = pc[u] /\ call'[u] = call[u]
    BY <1>1, <1>4, GotoThread DEF TypeOK, Labels
  <2>2. ~Makes(t)' /\ \A u \in Thread \ {t} : Makes(u)' <=> Makes(u)
    BY <1>4, <2>1 DEF Makes
  <2>3. \A u \in Thread \ {t} : AllocatorOf(call[u])' = AllocatorOf(call[u])
    BY <2>1 DEF AllocatorOf
  <2>4. call[t].op # "clear" => Makes(t)
    BY <1>2, <1>3 DEF Makes
  <2>5. call[t].m < next_id["prefix"]
    BY <1>1, <1>3, <2>4 DEF IdsOK
  <2>6. \A u \in Thread \ {t} : Makes(u) => call[u].m # call[t].m
    BY <1>1, <1>3, <2>4 DEF IdsOK
  <2> QED
    BY <1>1, <1>4, <1>5, <1>6, <2>1, <2>2, <2>3, <2>5, <2>6 DEF IdsOK, alloc
<1> QED
  BY <1>8, <1>9, <1>10 DEF IdInv

\* Steps of the loops of clear and clone.
LEMMA LoopId ==
    ASSUME IdInv, NEW t \in Thread, LoopStep(t)
    PROVE  IdInv'
<1>1. call[t] \in Calls /\ LocalsAt(pc[t], call[t])
  BY AtLabel
<1>2. CASE NextKey(t)
  <2> USE DEF RowLabels, CountLabels, AllocLabels
  <2>1. call[t].op \in {"clear", "clone"} /\ call[t].m \in Prefixes
    BY <1>1, <1>2 DEF NextKey, LocalsAt
  <2>2. CASE call[t].todo # {}
    <3> DEFINE k == Min(call[t].todo)
               c == [call[t] EXCEPT !.k = k, !.todo = @ \ {k}]
    <3>1. call[t].todo \in SUBSET Key /\ call[t].todo \in SUBSET Nat
      BY <1>1, KeyAssumption DEF Calls
    <3>2. k \in Key
      BY <2>2, <3>1, MinInSet
    <3>3. Goto(t, RowStart(call[t].op), c) /\ UNCHANGED <<rows, keylens, alloc, LEN_LK>>
      BY <1>2, <2>2 DEF NextKey
    <3>4. RowStart(call[t].op) \in {"swap", "look", "keylen"}
      BY <2>1 DEF RowStart
    <3> HIDE DEF k
    <3>5. c \in Calls /\ LocalsAt(RowStart(call[t].op), c)
      BY <1>1, <2>1, <3>2, <3>4 DEF Calls, LocalsAt
    <3> QED
      BY <3>3, <3>4, <3>5, GotoInv DEF Labels
  <2>3. CASE call[t].todo = {}
    <3> DEFINE label == IF call[t].op = "clear" THEN "zero" ELSE "idle"
    <3>1. LocalsAt(label, call[t]) \/ label = "idle"
      BY <1>1, <2>1, PrefixesNat DEF LocalsAt, IdInv
    <3>2. Goto(t, label, call[t]) /\ UNCHANGED <<rows, keylens, alloc, LEN_LK>>
      BY <1>2, <2>3 DEF NextKey
    <3> QED
      BY <1>1, <3>1, <3>2, GotoInv DEF Labels
  <2> QED
    BY <2>2, <2>3
<1>3. CASE SetLenZero(t)
  BY <1>3, ZeroId
<1> QED
  BY <1>2, <1>3 DEF LoopStep

\* What the steps of an allocator share: the maps stay, and the locals change in
\* the number read or the map at most.
LEMMA AllocLocals ==
    ASSUME IdInv, NEW t \in Thread, AllocStep(t)
    PROVE  /\ call[t] \in Calls /\ TypeOK /\ LocalsOK /\ IdsOK
           /\ call[t].op \in {"new", "clone", "alloc_ver_id"} /\ call[t].m = NoMap
           /\ call[t].op = "clone" => call[t].src \in Prefixes
           /\ AllocatorOf(call[t]) \in Allocator
<1>1. call[t] \in Calls /\ LocalsAt(pc[t], call[t])
  BY AtLabel
<1>2. pc[t] \in AllocLabels
  BY DEF AllocStep, AllocLock, AllocRead, AllocWrite, AllocLabels
<1> QED
  BY <1>1, <1>2 DEF LocalsAt, IdInv, AllocatorOf, Allocator

\* The lock of an allocator is taken, or the next id is read under it.
LEMMA AllocHoldId ==
    ASSUME IdInv, NEW t \in Thread, AllocLock(t) \/ AllocRead(t)
    PROVE  IdInv'
<1> DEFINE a == AllocatorOf(call[t])
<1>1. /\ call[t] \in Calls /\ TypeOK /\ LocalsOK /\ IdsOK
      /\ call[t].op \in {"new", "clone", "alloc_ver_id"} /\ call[t].m = NoMap
      /\ call[t].op = "clone" => call[t].src \in Prefixes
      /\ a \in Allocator
  BY AllocLocals DEF AllocStep
<1>2. PICK label \in {"alloc_read", "alloc_write"}, c \in Calls :
        /\ Goto(t, label, c)
        /\ c.op = call[t].op /\ c.m = call[t].m /\ c.src = call[t].src
        /\ label = "alloc_write" => c.got = next_id[a]
  <2>1. CASE AllocLock(t)
    BY <1>1, <2>1 DEF AllocLock
  <2>2. CASE AllocRead(t)
    <3> DEFINE c == [call[t] EXCEPT !.got = next_id[a]]
    <3>1. next_id[a] \in Nat
      BY <1>1 DEF TypeOK
    <3> HIDE DEF a
    <3>2. c \in Calls /\ c.got = next_id[a]
      BY <1>1, <3>1 DEF Calls
    <3>3. c.op = call[t].op /\ c.m = call[t].m /\ c.src = call[t].src
      BY <1>1 DEF Calls
    <3>4. Goto(t, "alloc_write", c)
      BY <2>2 DEF AllocRead, a
    <3> QED
      BY <3>2, <3>3, <3>4
  <2> QED
    BY <2>1, <2>2
<1>3. /\ pc'[t] = label /\ call'[t] = c
      /\ \A u \in Thread \ {t} : pc'[u] = pc[u] /\ call'[u] = call[u]
      /\ pc' \in [Thread -> Labels] /\ call' \in [Thread -> Calls]
  BY <1>1, <1>2, GotoThread DEF TypeOK, Labels
<1>4. UNCHANGED <<rows, keylens, next_id, issued, LEN_LK, Prefixes>>
  BY DEF AllocLock, AllocRead, alloc, Prefixes, rows
<1>5. /\ ALLOC_LK' \in [Allocator -> Thread \cup {NoThread}]
      /\ ALLOC_LK'[a] = t
      /\ \A b \in Allocator : ALLOC_LK[b] \in Thread => ALLOC_LK'[b] = ALLOC_LK[b]
  <2>1. CASE AllocLock(t)
    BY <1>1, <2>1, ThreadAssumption DEF AllocLock, TypeOK
  <2>2. CASE AllocRead(t)
    BY <1>1, <2>2 DEF AllocRead, alloc, TypeOK, IdsOK
  <2> QED
    BY <2>1, <2>2
<1>6. TypeOK'
  BY <1>1, <1>3, <1>4, <1>5 DEF TypeOK, rows, keylens
<1>7. LocalsOK'
  <2>1. LocalsAt(label, c)'
    BY <1>1, <1>2, <1>4 DEF LocalsAt, RowLabels, CountLabels, AllocLabels
  <2> QED
    BY <1>1, <1>2, <1>4, <2>1, GotoLocals DEF Labels
<1>8. IdsOK'
  <2>1. ~Makes(t)' /\ \A u \in Thread \ {t} : Makes(u)' <=> Makes(u)
    BY <1>2, <1>3 DEF Makes
  <2>2. /\ AllocatorOf(call[t])' = a
        /\ \A u \in Thread \ {t} : AllocatorOf(call[u])' = AllocatorOf(call[u])
    BY <1>2, <1>3 DEF AllocatorOf
  <2>3. \A u \in Thread : AllocatorOf(call[u]) \in Allocator
    BY DEF AllocatorOf, Allocator
  <2> HIDE DEF a
  <2>4. \A u \in Thread : pc'[u] \in {"alloc_read", "alloc_write"} =>
          ALLOC_LK'[AllocatorOf(call[u])'] = u
    BY <1>1, <1>3, <1>5, <2>2, <2>3 DEF IdsOK
  <2>5. \A u \in Thread : pc'[u] = "alloc_write" =>
          call'[u].got = next_id'[AllocatorOf(call[u])']
    BY <1>1, <1>2, <1>3, <1>4, <2>2 DEF IdsOK
  <2> QED
    BY <1>1, <1>3, <1>4, <2>1, <2>4, <2>5 DEF IdsOK
<1> QED
  BY <1>6, <1>7, <1>8 DEF IdInv

\* An id is stored as used, and is that of a new map if it is a prefix.
LEMMA AllocWriteId ==
    ASSUME IdInv, NEW t \in Thread, AllocWrite(t)
    PROVE  IdInv'
<1> DEFINE a     == AllocatorOf(call[t])
           id    == call[t].got
           label == IF a = "prefix" THEN "zero" ELSE "idle"
           c     == [call[t] EXCEPT !.m = id]
<1>1. /\ call[t] \in Calls /\ TypeOK /\ LocalsOK /\ IdsOK
      /\ call[t].op \in {"new", "clone", "alloc_ver_id"} /\ call[t].m = NoMap
      /\ call[t].op = "clone" => call[t].src \in Prefixes
      /\ a \in Allocator
  BY AllocLocals DEF AllocStep
<1>2. /\ pc[t] = "alloc_write" /\ Goto(t, label, c)
      /\ next_id' = [next_id EXCEPT ![a] = id + 1]
      /\ issued' = [issued EXCEPT ![a] = @ \cup {id}]
      /\ ALLOC_LK' = [ALLOC_LK EXCEPT ![a] = NoThread]
      /\ UNCHANGED <<rows, keylens, LEN_LK>>
  BY DEF AllocWrite
<1>3. /\ id = next_id[a] /\ id \in Nat /\ ALLOC_LK[a] = t
      /\ id + 1 \in Nat /\ id < id + 1
  BY <1>1, <1>2 DEF IdsOK, TypeOK
<1>4. /\ c \in Calls /\ c.m = id /\ c.op = call[t].op /\ c.src = call[t].src
      /\ label \in {"zero", "idle"}
      /\ label = "zero" <=> call[t].op \in {"new", "clone"}
      /\ label = "zero" <=> a = "prefix"
  BY <1>1, <1>3 DEF Calls, AllocatorOf
<1> HIDE DEF a, id, label, c
<1>5. /\ pc'[t] = label /\ (label = "zero" => call'[t] = c)
      /\ \A u \in Thread \ {t} : pc'[u] = pc[u] /\ call'[u] = call[u]
      /\ pc' \in [Thread -> Labels] /\ call' \in [Thread -> Calls]
  BY <1>1, <1>2, <1>4, GotoThread DEF TypeOK, Labels
<1>6. UNCHANGED Prefixes
  BY <1>2 DEF rows, Prefixes
<1>7. TypeOK'
  BY <1>1, <1>2, <1>3, <1>5, <1>6 DEF TypeOK, rows, keylens
<1>8. LocalsOK'
  <2> PICK d \in Calls : d = c
    BY <1>4
  <2> PICK l \in {"zero", "idle"} : l = label
    BY <1>4
  <2>1. l # "idle" => LocalsAt(l, d)'
    BY <1>1, <1>3, <1>4, <1>6 DEF LocalsAt, RowLabels, CountLabels, AllocLabels
  <2> QED
    BY <1>1, <1>2, <1>6, <2>1, GotoLocals DEF Labels
<1>9. IdsOK'
  <2>1. \A u \in Thread \ {t} : Makes(u)' <=> Makes(u)
    BY <1>5 DEF Makes
  <2>2. Makes(t)' <=> label = "zero"
    BY <1>4, <1>5 DEF Makes
  <2>3. \A u \in Thread \ {t} : AllocatorOf(call[u])' = AllocatorOf(call[u])
    BY <1>5 DEF AllocatorOf
  <2>4. \A u \in Thread : AllocatorOf(call[u]) \in Allocator
    BY DEF AllocatorOf, Allocator
  <2>5. /\ \A b \in Allocator : next_id[b] \in Nat
        /\ \A b \in Allocator \ {a} : next_id'[b] = next_id[b] /\ issued'[b] = issued[b]
                                      /\ ALLOC_LK'[b] = ALLOC_LK[b]
        /\ next_id'[a] = id + 1 /\ issued'[a] = issued[a] \cup {id}
    BY <1>1, <1>2 DEF TypeOK
  <2>6. \A b \in Allocator : \A i \in issued'[b] : i < next_id'[b]
    <3>1. \A i \in issued[a] : i \in Nat /\ i < id
      BY <1>1, <1>3 DEF IdsOK, TypeOK
    <3>2. \A i \in issued'[a] : i < next_id'[a]
      BY <1>3, <2>5, <3>1
    <3> QED
      BY <1>1, <2>5, <3>2 DEF IdsOK
  <2>7. \A m \in Prefixes' : m < next_id'["prefix"]
    <3>1. "prefix" \in Allocator /\ Prefixes \subseteq Nat
      BY <1>1, PrefixesNat DEF Allocator
    <3>2. \A m \in Prefixes : m < next_id["prefix"]
      BY <1>1 DEF IdsOK
    <3> QED
      BY <1>3, <1>6, <2>5, <3>1, <3>2
  <2>8. \A u \in Thread \ {t} : pc[u] \in {"alloc_read", "alloc_write"} =>
          AllocatorOf(call[u]) # a
    BY <1>1, <1>3 DEF IdsOK
  <2>9. \A u \in Thread : pc'[u] \in {"alloc_read", "alloc_write"} =>
          ALLOC_LK'[AllocatorOf(call[u])'] = u
    BY <1>1, <1>4, <1>5, <2>3, <2>4, <2>5, <2>8 DEF IdsOK
  <2>10. \A u \in Thread : pc'[u] = "alloc_write" =>
          call'[u].got = next_id'[AllocatorOf(call[u])']
    BY <1>1, <1>4, <1>5, <2>3, <2>4, <2>5, <2>8 DEF IdsOK
  <2>11. label = "zero" => /\ call'[t].m = next_id["prefix"]
                           /\ call'[t].m < next_id'["prefix"]
                           /\ call'[t].m \notin Prefixes'
    <3>1. next_id["prefix"] \notin Prefixes
      BY <1>1 DEF IdsOK, TypeOK, Allocator
    <3> QED
      BY <1>3, <1>4, <1>5, <1>6, <2>5, <3>1
  <2>12. \A u \in Thread \ {t} : Makes(u) =>
          /\ call'[u].m \notin Prefixes'
          /\ call'[u].m < next_id["prefix"]
          /\ call'[u].m < next_id'["prefix"]
    <3>1. ASSUME NEW u \in Thread \ {t}, Makes(u)
          PROVE  call[u].m \in Nat
      BY <1>1, <3>1 DEF Makes, LocalsOK, LocalsAt
    <3>2. ASSUME NEW u \in Thread \ {t}, Makes(u)
          PROVE  call[u].m < next_id["prefix"] /\ call[u].m \notin Prefixes
      BY <1>1, <3>2 DEF IdsOK
    <3>3. next_id["prefix"] \in Nat /\ next_id'["prefix"] \in Nat
          /\ next_id["prefix"] <= next_id'["prefix"]
      BY <1>3, <2>5 DEF Allocator
    <3> QED
      BY <1>5, <1>6, <3>1, <3>2, <3>3
  <2>13. \A u \in Thread : Makes(u)' =>
          /\ call'[u].m \notin Prefixes'
          /\ call'[u].m < next_id'["prefix"]
          /\ \A v \in Thread \ {u} : Makes(v)' => call'[v].m # call'[u].m
    <3>1. "prefix" \in Allocator /\ next_id["prefix"] \in Nat
      BY <2>5 DEF Allocator
    <3>2. \A u, v \in Thread \ {t} : u # v /\ Makes(u) /\ Makes(v) =>
            call'[v].m # call'[u].m
      BY <1>1, <1>5 DEF IdsOK
    <3> QED
      BY <2>1, <2>2, <2>11, <2>12, <3>1, <3>2
  <2> QED
    BY <2>6, <2>7, <2>9, <2>10, <2>13 DEF IdsOK
<1> QED
  BY <1>7, <1>8, <1>9 DEF IdInv

\* A crash keeps the rows and the counters, so that no id is given again.
LEMMA CrashId ==
    ASSUME IdInv, Crash
    PROVE  IdInv'
<1>1. UNCHANGED <<Prefixes, entries, len, next_id, issued, meta_keylen>>
  BY DEF Crash, rows, Prefixes
<1>2. NoCall \in Calls
  BY DEF NoCall, Call, Calls, NoMap, Ops
<1>3. TypeOK'
  BY <1>1, <1>2 DEF IdInv, TypeOK, Crash, Labels
<1>4. LocalsOK'
  BY DEF Crash, LocalsOK, LocalsAt, RowLabels, CountLabels, AllocLabels, NoCall, Call
<1>5. IdsOK'
  BY <1>1 DEF IdInv, IdsOK, Crash, Makes
<1> QED
  BY <1>3, <1>4, <1>5 DEF IdInv

\* Every step keeps the invariant for ids.
LEMMA StepId ==
    ASSUME IdInv, [Next \/ Crash]_vars
    PROVE  IdInv'
<1>1. CASE UNCHANGED vars
  <2>1. UNCHANGED <<entries, len, next_id, meta_keylen, max_keylen, LEN_LK, ALLOC_LK,
                    issued, pc, call, Prefixes>>
    BY <1>1 DEF vars, rows, keylens, alloc, Prefixes
  <2> QED
    BY <2>1 DEF IdInv, TypeOK, LocalsOK, LocalsAt, IdsOK, Makes, AllocatorOf
<1>2. ASSUME NEW t \in Thread, CodeStep(t) \/ UserStep(t)
      PROVE  IdInv'
  BY <1>2, RowId, CountId, LoopId, AllocHoldId, AllocWriteId, UserId
     DEF CodeStep, AllocStep
<1> QED
  BY <1>1, <1>2, CrashId DEF Next

\* The invariant for ids is one.
LEMMA IdInvHolds == CrashSpec => []IdInv
<1>1. Init => IdInv
  BY InitIdInv
<1>2. IdInv /\ [Next \/ Crash]_vars => IdInv'
  BY StepId
<1> QED
  BY <1>1, <1>2, PTL DEF CrashSpec

\* Type correctness, with the widths of the numbers, through crashes.
THEOREM EngineTypeCorrect == CrashSpec => []TypeOK
<1>1. IdInv => TypeOK
  BY DEF IdInv
<1> QED
  BY <1>1, IdInvHolds, PTL

\* No prefix and no version id is given twice, by any number of threads and
\* through any crashes, and a new map has no rows (`alloc_prefix`,
\* `alloc_ver_id`, and the assertion in `Mapx::new`).
THEOREM IdsFreshHolds == CrashSpec => []IdsFresh
<1>1. IdInv => IdsFresh
  <2>1. ASSUME IdInv, NEW t \in Thread, pc[t] = "alloc_write"
        PROVE  call[t].got \notin issued[AllocatorOf(call[t])]
    <3>1. AllocatorOf(call[t]) \in Allocator
      BY DEF AllocatorOf, Allocator
    <3> QED
      BY <2>1, <3>1 DEF IdInv, IdsOK, TypeOK
  <2>2. ASSUME IdInv, NEW t \in Thread, pc[t] = "zero", call[t].op \in {"new", "clone"}
        PROVE  call[t].m \notin Prefixes
    BY <2>2 DEF IdInv, IdsOK, Makes
  <2> QED
    BY <2>1, <2>2 DEF IdsFresh
<1> QED
  BY <1>1, IdInvHolds, PTL

-----------------------------------------------------------------------------
(***************************************************************************)
(* The invariant for lengths, which needs a race-free environment and no   *)
(* crashes.                                                                *)
(***************************************************************************)
\* No two running calls write what the other one reads or writes.
Disjoint ==
    \A t \in Thread : \A u \in Thread \ {t} :
        Busy(t) /\ Busy(u) => Apart(call[t], call[u])

\* What a thread t knows of the map it works on, at a label with locals c: a
\* length is read and written under the lock, and is what was read; the row
\* is there or not as the thread saw it, or left it; a clear has yet to do all
\* rows that are left.
KnowsAt(t, label, c) ==
    /\ label \in {"read_len", "write_len"} => LEN_LK[area_idx(c.m)] = t
    /\ label = "write_len" => c.got = len[c.m]
    /\ label = "put" => (c.found <=> c.k \in entries[c.m])
    /\ label \in CountLabels => (Inserts(c) <=> c.k \in entries[c.m])
    /\ c.op = "clear" =>
          /\ label = "next" => entries[c.m] \subseteq c.todo
          /\ label \in RowLabels => entries[c.m] \subseteq c.todo \cup {c.k}
          /\ label = "zero" => entries[c.m] = {}
KnowsOK == \A t \in Thread : KnowsAt(t, pc[t], call[t])

\* The keys whose rows are written and not yet counted, and the keys that are
\* counted: those of the rows, but for the former.
Clearing(m) == \E t \in Thread : Busy(t) /\ call[t].op = "clear" /\ call[t].m = m
Pending(m)  == {k \in Key : \E t \in Thread :
                  pc[t] \in CountLabels /\ call[t].m = m /\ call[t].k = k}
Counted(m)  == (entries[m] \ Pending(m)) \cup (Pending(m) \ entries[m])
CountsOK    == \A m \in Prefixes : Clearing(m) \/ len[m] = Cardinality(Counted(m))

LenInv == IdInv /\ Disjoint /\ KnowsOK /\ CountsOK

\* Labels at which a thread is at work on one row.
AtRow == RowLabels \cup CountLabels \cup {"held"}

\* A thread at work on one row is one that writes it.
LEMMA RowWritten ==
    ASSUME IdInv, NEW t \in Thread, pc[t] \in AtRow
    PROVE  /\ <<call[t].m, call[t].k>> \in Writes(call[t])
           /\ call[t].m \in Prefixes /\ call[t].k \in Key /\ Busy(t)
<1>1. LocalsAt(pc[t], call[t])
  BY AtLabel
<1>2. /\ call[t].m \in Prefixes /\ call[t].k \in Key
      /\ call[t].op \in {"insert", "remove", "get_mut", "clear", "clone"}
  BY <1>1 DEF AtRow, LocalsAt
<1>3. Busy(t)
  BY DEF AtRow, RowLabels, CountLabels, Busy
<1> QED
  BY <1>2, <1>3 DEF Writes, AllOf

\* A call that clears a map writes all of its rows.
LEMMA ClearWrites ==
    ASSUME IdInv, NEW t \in Thread, Busy(t), call[t].op = "clear"
    PROVE  call[t].m \in Prefixes /\ Writes(call[t]) = {call[t].m} \X Key
<1>1. LocalsAt(pc[t], call[t]) /\ pc[t] \in Labels
  BY AtLabel DEF IdInv, TypeOK
<1>2. call[t].m \in Prefixes
  BY <1>1 DEF LocalsAt, Labels, Busy, RowLabels, CountLabels, AllocLabels
<1> QED
  BY <1>2 DEF Writes, AllOf

\* Two threads at work on rows work on different ones, and none of them on a
\* map that the other one clears.
LEMMA RowsDiffer ==
    ASSUME IdInv, Disjoint, NEW t \in Thread, NEW u \in Thread \ {t},
           pc[t] \in AtRow, Busy(u)
    PROVE  /\ pc[u] \in AtRow => call[t].m # call[u].m \/ call[t].k # call[u].k
           /\ call[u].op = "clear" => call[t].m # call[u].m
<1>1. Writes(call[t]) \cap Writes(call[u]) = {}
  BY RowWritten DEF Disjoint, Apart
<1>2. <<call[t].m, call[t].k>> \notin Writes(call[u]) /\ call[t].k \in Key
  BY <1>1, RowWritten
<1>3. pc[u] \in AtRow => <<call[u].m, call[u].k>> \in Writes(call[u])
  BY RowWritten
<1>4. call[u].op = "clear" => Writes(call[u]) = {call[u].m} \X Key
  BY ClearWrites
<1> QED
  BY <1>2, <1>3, <1>4

\* Calls stay apart when one of them begins in a race-free environment, goes on
\* without more rows to read and write, or ends.
LEMMA GotoDisjoint ==
    ASSUME TypeOK, Disjoint, UNCHANGED Prefixes,
           NEW t \in Thread, NEW label \in Labels, NEW c \in Calls, Goto(t, label, c),
           \/ label = "idle"
           \/ RaceFree(t, c)
           \/ /\ Busy(t)
              /\ Writes(c) \subseteq Writes(call[t]) /\ Reads(c) \subseteq Reads(call[t])
    PROVE  Disjoint'
<1>1. /\ pc'[t] = label
      /\ label # "idle" => call'[t] = c
      /\ \A u \in Thread \ {t} : pc'[u] = pc[u] /\ call'[u] = call[u]
  BY GotoThread DEF TypeOK
<1>2. \A d \in Calls : Writes(d)' = Writes(d) /\ Reads(d)' = Reads(d)
  BY DEF Writes, Reads, AllOf
<1>3. \A d, e \in Calls : Apart(d, e)' <=> Apart(d, e)
  BY <1>2 DEF Apart
<1>4. \A u \in Thread : call[u] \in Calls
  BY DEF TypeOK
<1>5. ASSUME NEW u \in Thread \ {t}, Busy(u), label # "idle"
      PROVE  Apart(c, call[u]) /\ Apart(call[u], c)
  <2>1. CASE RaceFree(t, c)
    BY <1>5, <2>1 DEF RaceFree, Apart, Busy
  <2>2. CASE ~RaceFree(t, c)
    BY <1>5, <2>2 DEF Disjoint, Apart
  <2> QED
    BY <2>1, <2>2
<1>6. ASSUME NEW u \in Thread, NEW v \in Thread \ {u}, Busy(u)', Busy(v)'
      PROVE  Apart(call[u], call[v])'
  <2>1. CASE u # t /\ v # t
    BY <1>1, <1>3, <1>4, <1>6, <2>1 DEF Disjoint, Busy
  <2>2. CASE u = t
    BY <1>1, <1>3, <1>4, <1>5, <1>6, <2>2 DEF Busy
  <2>3. CASE v = t
    BY <1>1, <1>3, <1>4, <1>5, <1>6, <2>3 DEF Busy
  <2> QED
    BY <2>1, <2>2, <2>3
<1> QED
  BY <1>6 DEF Disjoint

\* A step that touches no row, no length and no lock of an area, and is not one
\* of counting, keeps the invariant when the thread knows what it must at its
\* next label.
LEMMA QuietLen ==
    ASSUME LenInv, IdInv', UNCHANGED <<entries, len, LEN_LK>>,
           NEW t \in Thread, NEW label \in Labels, NEW c \in Calls, Goto(t, label, c),
           pc[t] \notin CountLabels, label \in CountLabels => FALSE,
           label # "idle" => KnowsAt(t, label, c),
           Busy(t) /\ call[t].op = "clear" =>
              label # "idle" /\ c.op = "clear" /\ c.m = call[t].m,
           \/ label = "idle"
           \/ RaceFree(t, c)
           \/ /\ Busy(t)
              /\ Writes(c) \subseteq Writes(call[t]) /\ Reads(c) \subseteq Reads(call[t])
    PROVE  LenInv'
<1>1. /\ pc'[t] = label
      /\ label = "idle" => call'[t] = NoCall
      /\ label # "idle" => call'[t] = c
      /\ \A u \in Thread \ {t} : pc'[u] = pc[u] /\ call'[u] = call[u]
  BY GotoThread DEF LenInv, IdInv, TypeOK
<1>2. UNCHANGED Prefixes
  BY DEF Prefixes
<1>3. Disjoint'
  BY <1>2, GotoDisjoint DEF LenInv, IdInv
<1>4. KnowsOK'
  <2>1. \A u \in Thread : \A l \in Labels : \A d \in Calls :
          KnowsAt(u, l, d)' <=> KnowsAt(u, l, d)
    BY DEF KnowsAt
  <2>2. \A u \in Thread : pc[u] \in Labels /\ call[u] \in Calls
    BY DEF LenInv, IdInv, TypeOK
  <2>3. ASSUME NEW u \in Thread \ {t} PROVE KnowsAt(u, pc[u], call[u])'
    <3>1. KnowsAt(u, pc[u], call[u])
      BY DEF LenInv, KnowsOK
    <3> QED
      BY <1>1, <2>1, <2>2, <3>1 DEF KnowsAt
  <2>4. KnowsAt(t, pc[t], call[t])'
    <3>1. CASE label = "idle"
      BY <1>1, <3>1 DEF KnowsAt, NoCall, Call, CountLabels
    <3>2. CASE label # "idle"
      BY <1>1, <3>2 DEF KnowsAt
    <3> QED
      BY <3>1, <3>2
  <2> QED
    BY <2>3, <2>4 DEF KnowsOK
<1>5. CountsOK'
  <2>1. ASSUME NEW m \in Prefixes PROVE Pending(m)' = Pending(m)
    BY <1>1 DEF Pending
  <2>2. ASSUME NEW m \in Prefixes PROVE Counted(m)' = Counted(m)
    BY <2>1 DEF Counted
  <2>3. ASSUME NEW m \in Prefixes, Clearing(m) PROVE Clearing(m)'
    BY <1>1, <2>3 DEF Clearing, Busy
  <2> QED
    BY <1>2, <2>2, <2>3 DEF LenInv, CountsOK
<1> QED
  BY <1>3, <1>4, <1>5 DEF LenInv

\* A user begins a call in a race-free environment, or drops a reference.
LEMMA UserLen ==
    ASSUME LenInv, NEW t \in Thread, UserStep(t)
    PROVE  LenInv'
<1>1. IdInv /\ IdInv' /\ TypeOK
  BY UserId DEF LenInv, IdInv
<1>2. Prefixes \subseteq Nat /\ \A m \in Prefixes : entries[m] \subseteq Key
  BY <1>1, PrefixesNat DEF TypeOK, IsMap
<1>3. \A op \in Ops : RowStart(op) \in {"swap", "look", "keylen"}
  BY DEF RowStart
<1>4. ASSUME NEW label \in Labels, NEW c \in Calls, Begin(t, c, label),
             label \notin CountLabels \cup {"idle"}, KnowsAt(t, label, c)
      PROVE  LenInv'
  <2>1. pc[t] = "idle" /\ RaceFree(t, c) /\ Goto(t, label, c)
        /\ UNCHANGED <<entries, len, LEN_LK>>
    BY <1>4 DEF Begin, rows
  <2>2. pc[t] \notin CountLabels /\ ~Busy(t)
    BY <2>1 DEF CountLabels, Busy
  <2> QED
    BY <1>1, <1>4, <2>1, <2>2, QuietLen
<1> USE DEF RowLabels, CountLabels
<1>5. ASSUME NEW m \in Prefixes, NEW k \in Key, KeyCall(t, m, k)
      PROVE  LenInv'
  <2>1. PICK op \in {"insert", "remove", "get_mut"},
             label \in {"swap", "look", "keylen", "held"} :
          Begin(t, Call(op, m, k, m, {}), label)
    BY <1>3, <1>5 DEF KeyCall, Ops
  <2>2. Call(op, m, k, m, {}) \in Calls
    BY <1>2, CallType DEF Ops
  <2>3. KnowsAt(t, label, Call(op, m, k, m, {}))
    BY DEF KnowsAt, Call
  <2> QED
    BY <1>4, <2>1, <2>2, <2>3 DEF Labels
<1>6. ASSUME NEW m \in Prefixes, ClearCall(t, m)
      PROVE  LenInv'
  <2>1. Call("clear", m, 0, m, entries[m]) \in Calls
    BY <1>2, CallType DEF Ops
  <2>2. KnowsAt(t, "next", Call("clear", m, 0, m, entries[m]))
    BY DEF KnowsAt, Call
  <2> QED
    BY <1>4, <1>6, <2>1, <2>2 DEF ClearCall, Labels
<1>7. ASSUME NEW m \in Prefixes, CloneCall(t, m)
      PROVE  LenInv'
  <2>1. Call("clone", NoMap, 0, m, {}) \in Calls
    BY <1>2, CallType DEF Ops
  <2>2. KnowsAt(t, "alloc", Call("clone", NoMap, 0, m, {}))
    BY DEF KnowsAt, Call
  <2> QED
    BY <1>4, <1>7, <2>1, <2>2 DEF CloneCall, Labels
<1>8. CASE NewCall(t)
  <2>1. PICK op \in {"new", "alloc_ver_id"} :
          Begin(t, Call(op, NoMap, 0, NoMap, {}), "alloc")
    BY <1>8 DEF NewCall
  <2>2. Call(op, NoMap, 0, NoMap, {}) \in Calls
    BY CallType DEF Ops
  <2>3. KnowsAt(t, "alloc", Call(op, NoMap, 0, NoMap, {}))
    BY DEF KnowsAt, Call
  <2> QED
    BY <1>4, <2>1, <2>2, <2>3 DEF Labels
<1>9. CASE DropMut(t)
  <2>1. call[t] \in Calls /\ call[t].op = "get_mut"
    BY <1>1, <1>9, AtLabel DEF DropMut, LocalsAt
  <2>2. /\ pc[t] = "held" /\ Goto(t, RowStart("get_mut"), call[t])
        /\ UNCHANGED <<entries, len, LEN_LK>> /\ Busy(t)
        /\ RowStart("get_mut") \in {"swap", "look", "keylen"}
    BY <1>3, <1>9 DEF DropMut, rows, Busy, Ops
  <2>3. KnowsAt(t, RowStart("get_mut"), call[t])
    BY <2>1, <2>2 DEF KnowsAt
  <2> QED
    BY <1>1, <2>1, <2>2, <2>3, QuietLen DEF Labels
<1> QED
  BY <1>5, <1>6, <1>7, <1>8, <1>9 DEF UserStep

\* The rows a call writes and reads depend on its operation, map, key and source.
LEMMA SameRows ==
    ASSUME NEW c \in Calls, NEW d \in Calls,
           c.op = d.op, c.m = d.m, c.src = d.src,
           c.op \in {"insert", "remove", "get_mut"} => c.k = d.k
    PROVE  Writes(c) = Writes(d) /\ Reads(c) = Reads(d)
BY DEF Writes, Reads, AllOf

\* Steps before a row is written.
LEMMA LookLen ==
    ASSUME LenInv, NEW t \in Thread,
           KeyLen(t) \/ KeyLenMem(t) \/ KeyLenDisk(t) \/ Look(t)
    PROVE  LenInv'
<1>1. IdInv /\ call[t] \in Calls /\ KnowsAt(t, pc[t], call[t])
  BY AtLabel DEF LenInv, KnowsOK
<1>2. IdInv'
  BY <1>1, RowId DEF RowStep
<1>3. /\ pc[t] \in {"keylen", "keylen_mem", "keylen_disk", "look"}
      /\ UNCHANGED <<entries, len, LEN_LK>> /\ Busy(t)
  BY DEF KeyLen, KeyLenMem, KeyLenDisk, Look, rows, Busy
<1> USE DEF RowLabels, CountLabels
<1>4. CASE KeyLen(t) \/ KeyLenMem(t) \/ KeyLenDisk(t)
  <2>1. PICK label \in {"keylen_mem", "keylen_disk", "look"} : Goto(t, label, call[t])
    BY <1>4 DEF KeyLen, KeyLenMem, KeyLenDisk
  <2>2. KnowsAt(t, label, call[t])
    BY <1>1, <1>3 DEF KnowsAt
  <2> QED
    BY <1>1, <1>2, <1>3, <2>1, <2>2, QuietLen DEF Labels
<1>5. CASE Look(t)
  <2> DEFINE there == call[t].k \in entries[call[t].m]
             c     == [call[t] EXCEPT !.found = there]
  <2>1. there \in BOOLEAN
    OBVIOUS
  <2>2. pc[t] = "look" /\ Goto(t, "put", c)
    BY <1>5 DEF Look
  <2>3. c \in Calls /\ c.op = call[t].op /\ c.m = call[t].m /\ c.src = call[t].src
        /\ c.k = call[t].k /\ c.todo = call[t].todo /\ c.found = there
    <3> HIDE DEF there
    <3> QED
      BY <1>1, <2>1 DEF Calls
  <2> HIDE DEF c
  <2>4. KnowsAt(t, "put", c)
    BY <1>1, <2>2, <2>3 DEF KnowsAt
  <2>5. Writes(c) = Writes(call[t]) /\ Reads(c) = Reads(call[t])
    BY <1>1, <2>3, SameRows
  <2> QED
    BY <1>2, <1>3, <2>2, <2>3, <2>4, <2>5, QuietLen DEF Labels
<1> QED
  BY <1>4, <1>5

\* The next key of a loop: what a clear has yet to do stays the same.
LEMMA NextLen ==
    ASSUME LenInv, NEW t \in Thread, NextKey(t)
    PROVE  LenInv'
<1>1. /\ IdInv /\ call[t] \in Calls /\ LocalsAt(pc[t], call[t])
      /\ KnowsAt(t, pc[t], call[t])
  BY AtLabel DEF LenInv, KnowsOK
<1>2. IdInv'
  BY <1>1, LoopId DEF LoopStep
<1>3. /\ pc[t] = "next" /\ UNCHANGED <<entries, len, LEN_LK>> /\ Busy(t)
      /\ call[t].op \in {"clear", "clone"}
  BY <1>1 DEF NextKey, rows, Busy, LocalsAt
<1> USE DEF RowLabels, CountLabels
<1>4. CASE call[t].todo # {}
  <2> DEFINE k == Min(call[t].todo)
             c == [call[t] EXCEPT !.k = k, !.todo = @ \ {k}]
  <2>1. call[t].todo \in SUBSET Key /\ call[t].todo \in SUBSET Nat
    BY <1>1, KeyAssumption DEF Calls
  <2>2. k \in Key
    BY <1>4, <2>1, MinInSet
  <2>3. Goto(t, RowStart(call[t].op), c)
    BY <1>4 DEF NextKey
  <2>4. RowStart(call[t].op) \in {"swap", "look", "keylen"}
    BY <1>3 DEF RowStart
  <2> HIDE DEF k
  <2>5. c \in Calls /\ c.op = call[t].op /\ c.m = call[t].m /\ c.src = call[t].src
        /\ c.k = k /\ c.todo = call[t].todo \ {k}
    BY <1>1, <2>2 DEF Calls
  <2> HIDE DEF c
  <2>6. KnowsAt(t, RowStart(call[t].op), c)
    BY <1>1, <1>3, <2>4, <2>5 DEF KnowsAt
  <2>7. Writes(c) = Writes(call[t]) /\ Reads(c) = Reads(call[t])
    BY <1>1, <1>3, <2>5, SameRows
  <2> QED
    BY <1>2, <1>3, <2>3, <2>4, <2>5, <2>6, <2>7, QuietLen DEF Labels
<1>5. CASE call[t].todo = {}
  <2>1. PICK label \in {"zero", "idle"} :
          /\ Goto(t, label, call[t])
          /\ label = "zero" <=> call[t].op = "clear"
    BY <1>5 DEF NextKey
  <2>2. label # "idle" => KnowsAt(t, label, call[t])
    BY <1>1, <1>3, <1>5 DEF KnowsAt
  <2> QED
    BY <1>1, <1>2, <1>3, <2>1, <2>2, QuietLen DEF Labels
<1> QED
  BY <1>4, <1>5

\* Allocation: the map in the making has no rows yet.
LEMMA AllocLen ==
    ASSUME LenInv, NEW t \in Thread, AllocStep(t)
    PROVE  LenInv'
<1>1. /\ IdInv /\ call[t] \in Calls /\ call[t].m = NoMap
      /\ call[t].op \in {"new", "clone", "alloc_ver_id"}
  BY AllocLocals DEF LenInv
<1>2. IdInv'
  BY <1>1, AllocHoldId, AllocWriteId DEF AllocStep
<1>3. /\ pc[t] \in AllocLabels /\ UNCHANGED <<entries, len, LEN_LK>> /\ Busy(t)
  BY DEF AllocStep, AllocLock, AllocRead, AllocWrite, AllocLabels, rows, Busy
<1>4. NoMap \notin Prefixes
  BY <1>1, PrefixesNat DEF IdInv, NoMap
<1>5. PICK label \in {"alloc_read", "alloc_write", "zero", "idle"}, c \in Calls :
        /\ Goto(t, label, c)
        /\ c.op = call[t].op /\ c.src = call[t].src /\ c.m \notin Prefixes
  <2>1. CASE AllocLock(t)
    BY <1>1, <1>4, <2>1 DEF AllocLock
  <2>2. CASE AllocRead(t)
    <3> DEFINE n == next_id[AllocatorOf(call[t])]
               c == [call[t] EXCEPT !.got = n]
    <3>1. n \in Nat /\ Goto(t, "alloc_write", c)
      BY <1>1, <2>2 DEF AllocRead, AllocatorOf, Allocator, IdInv, TypeOK
    <3> HIDE DEF n
    <3> QED
      BY <1>1, <1>4, <3>1 DEF Calls
  <2>3. CASE AllocWrite(t)
    <3> DEFINE label == IF AllocatorOf(call[t]) = "prefix" THEN "zero" ELSE "idle"
               c     == [call[t] EXCEPT !.m = call[t].got]
    <3>1. pc[t] = "alloc_write" /\ Goto(t, label, c)
      BY <2>3 DEF AllocWrite
    <3>2. c \in Calls /\ c.op = call[t].op /\ c.src = call[t].src /\ c.m = call[t].got
      BY <1>1 DEF Calls
    <3>3. AllocatorOf(call[t]) = "prefix" => call[t].got \notin Prefixes
      BY <1>1, <3>1 DEF IdInv, IdsOK, TypeOK, Allocator
    <3>4. CASE label = "zero"
      BY <3>1, <3>2, <3>3, <3>4
    <3>5. CASE label = "idle"
      <4>1. Goto(t, "idle", call[t])
        BY <3>1, <3>5 DEF Goto
      <4> QED
        BY <1>1, <1>4, <4>1
    <3> QED
      BY <3>4, <3>5
  <2> QED
    BY <2>1, <2>2, <2>3 DEF AllocStep
<1>6. Writes(c) \subseteq Writes(call[t]) /\ Reads(c) \subseteq Reads(call[t])
  BY <1>1, <1>5 DEF Writes, Reads, AllOf
<1>7. KnowsAt(t, label, c)
  BY <1>1, <1>5 DEF KnowsAt, CountLabels
<1> QED
  BY <1>1, <1>2, <1>3, <1>5, <1>6, <1>7, QuietLen DEF AllocLabels, CountLabels, Labels

\* A row is written: what is counted stays the same, as the row is pending from
\* then on unless it was there, or was not there, before.
LEMMA WriteRowLen ==
    ASSUME LenInv, NEW t \in Thread, pc[t] \in {"put", "swap"},
           NEW there \in BOOLEAN, there <=> call[t].k \in entries[call[t].m],
           WriteRow(t, call[t], there)
    PROVE  LenInv'
<1>1. /\ IdInv /\ TypeOK /\ Disjoint /\ call[t] \in Calls /\ LocalsAt(pc[t], call[t])
      /\ KnowsAt(t, pc[t], call[t])
  BY AtLabel DEF LenInv, IdInv, KnowsOK
<1>2. IdInv'
  BY <1>1, WriteRowId
<1>3. /\ pc[t] \in AtRow /\ pc[t] \in RowLabels /\ pc[t] \notin CountLabels /\ Busy(t)
      /\ call[t].op \in {"insert", "remove", "get_mut", "clear", "clone"}
  BY <1>1 DEF AtRow, RowLabels, CountLabels, Busy, LocalsAt
<1>4. PICK m \in Prefixes, k \in Key : m = call[t].m /\ k = call[t].k
  BY <1>1, <1>3, RowWritten
<1>5. PICK label \in {"count", "next", "idle"} :
        /\ Goto(t, label, call[t])
        /\ label = "count" <=> Counts(call[t], there)
        /\ label = "count" => call[t].op # "clear"
        /\ call[t].op = "clear" => label = "next" /\ ~Inserts(call[t])
  <2>1. Goto(t, IF Counts(call[t], there) THEN "count" ELSE Return(call[t]), call[t])
    BY DEF WriteRow
  <2>2. CASE Counts(call[t], there)
    BY <2>1, <2>2 DEF Counts, Inserts
  <2>3. CASE ~Counts(call[t], there)
    BY <2>1, <2>3 DEF Inserts, Return
  <2> QED
    BY <2>2, <2>3
<1> DEFINE up == Inserts(call[t])
<1>6. Counts(call[t], there) <=>
        IF up THEN ~there ELSE there /\ call[t].op = "remove"
  BY DEF Counts
<1>7. /\ UNCHANGED <<len, LEN_LK, Prefixes>>
      /\ entries'[m] = IF up THEN entries[m] \cup {k} ELSE entries[m] \ {k}
      /\ \A n \in Prefixes \ {m} : entries'[n] = entries[n]
  BY <1>1, <1>4, <1>5 DEF WriteRow, TypeOK, IsMap, Prefixes
<1> HIDE DEF up
<1>8. /\ pc'[t] = label /\ (label # "idle" => call'[t] = call[t])
      /\ label = "idle" => call'[t] = NoCall
      /\ \A u \in Thread \ {t} : pc'[u] = pc[u] /\ call'[u] = call[u]
  BY <1>1, <1>5, GotoThread DEF TypeOK, Labels
<1>9. Disjoint'
  BY <1>1, <1>3, <1>5, <1>7, GotoDisjoint DEF Labels
<1>10. \A u \in Thread \ {t} : Busy(u) =>
         /\ pc[u] \in AtRow => call[u].m # m \/ call[u].k # k
         /\ call[u].op = "clear" => call[u].m # m
  BY <1>1, <1>3, <1>4, RowsDiffer
<1>11. KnowsOK'
  <2>1. ASSUME NEW u \in Thread \ {t} PROVE KnowsAt(u, pc[u], call[u])'
    <3>1. KnowsAt(u, pc[u], call[u]) /\ LocalsAt(pc[u], call[u]) /\ pc[u] \in Labels
      BY <1>1, AtLabel DEF LenInv, KnowsOK, TypeOK
    <3>2. pc[u] \in {"put"} \cup CountLabels =>
            (call[u].k \in entries'[call[u].m] <=> call[u].k \in entries[call[u].m])
      <4>1. pc[u] \in {"put"} \cup CountLabels => Busy(u) /\ pc[u] \in AtRow
                                                 /\ call[u].m \in Prefixes
        BY <3>1 DEF CountLabels, RowLabels, AtRow, Busy, LocalsAt
      <4> QED
        BY <1>7, <1>10, <4>1
    <3>3. call[u].op = "clear" /\ pc[u] \in RowLabels \cup {"next", "zero"} =>
            entries'[call[u].m] = entries[call[u].m]
      <4>1. call[u].op = "clear" /\ pc[u] \in RowLabels \cup {"next", "zero"} =>
              Busy(u) /\ call[u].m \in Prefixes
        BY <3>1 DEF RowLabels, Busy, LocalsAt
      <4> QED
        BY <1>7, <1>10, <4>1
    <3> QED
      BY <1>7, <1>8, <3>1, <3>2, <3>3 DEF KnowsAt, CountLabels, RowLabels
  <2>2. KnowsAt(t, pc[t], call[t])'
    <3>1. CASE label = "count"
      BY <1>4, <1>5, <1>7, <1>8, <3>1 DEF KnowsAt, CountLabels, RowLabels, Inserts, up
    <3>2. CASE label = "next"
      BY <1>1, <1>3, <1>4, <1>5, <1>7, <1>8, <3>2 DEF KnowsAt, CountLabels, RowLabels, up
    <3>3. CASE label = "idle"
      BY <1>8, <3>3 DEF KnowsAt, CountLabels, RowLabels, NoCall, Call
    <3> QED
      BY <1>5, <3>1, <3>2, <3>3
  <2> QED
    BY <2>1, <2>2 DEF KnowsOK
<1>12. CountsOK'
  <2>1. ASSUME NEW n \in Prefixes \ {m}
        PROVE  (Clearing(n) \/ len[n] = Cardinality(Counted(n)))'
    <3>1. Pending(n)' = Pending(n)
      BY <1>3, <1>4, <1>8, <2>1 DEF Pending, CountLabels, NoCall, Call
    <3>2. Counted(n)' = Counted(n)
      BY <1>7, <2>1, <3>1 DEF Counted
    <3>3. Clearing(n) => Clearing(n)'
      BY <1>4, <1>8, <2>1 DEF Clearing, Busy
    <3> QED
      BY <1>7, <2>1, <3>2, <3>3 DEF LenInv, CountsOK
  <2>2. (Clearing(m) \/ len[m] = Cardinality(Counted(m)))'
    <3>1. CASE call[t].op = "clear"
      BY <1>4, <1>5, <1>8, <3>1 DEF Clearing, Busy
    <3>2. CASE call[t].op # "clear"
      <4>1. ~Clearing(m)
        BY <1>10, <3>2 DEF Clearing
      <4>2. len[m] = Cardinality(Counted(m))
        BY <1>3, <4>1 DEF LenInv, CountsOK
      <4>3. k \notin Pending(m)
        BY <1>3, <1>10 DEF Pending, AtRow, CountLabels, Busy
      <4>4. Pending(m)' = IF label = "count" THEN Pending(m) \cup {k} ELSE Pending(m)
        <5>1. CASE label = "count"
          BY <1>3, <1>4, <1>8, <5>1 DEF Pending, CountLabels
        <5>2. CASE label # "count"
          BY <1>3, <1>5, <1>8, <5>2 DEF Pending, CountLabels
        <5> QED
          BY <5>1, <5>2
      <4>5. label = "count" <=> IF up THEN k \notin entries[m] ELSE k \in entries[m]
        <5>1. ~up => call[t].op = "remove"
          BY <1>3, <3>2 DEF Inserts, up
        <5> QED
          BY <1>4, <1>5, <1>6, <5>1
      <4>6. Counted(m)' = (entries'[m] \ Pending(m)') \cup (Pending(m)' \ entries'[m])
        BY DEF Counted
      <4>7. Counted(m)' = Counted(m)
        BY <1>7, <4>3, <4>4, <4>5, <4>6 DEF Counted
      <4> QED
        BY <1>7, <4>2, <4>7
    <3> QED
      BY <3>1, <3>2
  <2> QED
    BY <1>7, <2>1, <2>2 DEF CountsOK
<1> QED
  BY <1>2, <1>9, <1>11, <1>12 DEF LenInv

\* The lock of an area is taken, or the length is read under it.
LEMMA HoldLen ==
    ASSUME LenInv, NEW t \in Thread, LockLen(t) \/ ReadLen(t)
    PROVE  LenInv'
<1>1. /\ IdInv /\ TypeOK /\ Disjoint /\ call[t] \in Calls /\ LocalsAt(pc[t], call[t])
      /\ KnowsAt(t, pc[t], call[t])
  BY AtLabel DEF LenInv, IdInv, KnowsOK
<1>2. IdInv'
  BY <1>1, CountId DEF CountStep
<1>3. /\ pc[t] \in AtRow /\ pc[t] \in CountLabels /\ Busy(t)
      /\ call[t].op \in {"insert", "remove", "get_mut", "clone"}
      /\ UNCHANGED <<entries, len, Prefixes>>
  BY <1>1 DEF LockLen, ReadLen, AtRow, CountLabels, Busy, LocalsAt, rows, Prefixes
<1>4. PICK m \in Prefixes, k \in Key : m = call[t].m /\ k = call[t].k
  BY <1>1, <1>3, RowWritten
<1>5. area_idx(m) \in Area
  BY <1>1, AreaType, PrefixesNat DEF IdInv
<1>6. PICK label \in {"read_len", "write_len"}, c \in Calls :
        /\ Goto(t, label, c) /\ c.op = call[t].op /\ c.m = m /\ c.k = k
        /\ c.src = call[t].src
        /\ label = "write_len" => c.got = len[m]
  <2>1. CASE LockLen(t)
    <3>1. Goto(t, "read_len", call[t])
      BY <2>1 DEF LockLen
    <3> QED
      BY <1>1, <1>4, <3>1
  <2>2. CASE ReadLen(t)
    <3> DEFINE n == len[call[t].m]
               c == [call[t] EXCEPT !.got = n]
    <3>1. n \in Nat /\ n = len[m]
      BY <1>1, <1>4, KeyAssumption DEF TypeOK, IsMap, Prefixes
    <3>2. Goto(t, "write_len", c)
      BY <2>2 DEF ReadLen
    <3> HIDE DEF n
    <3>3. /\ c \in Calls /\ c.op = call[t].op /\ c.m = call[t].m /\ c.k = call[t].k
          /\ c.src = call[t].src /\ c.got = n
      BY <1>1, <3>1 DEF Calls
    <3> HIDE DEF c
    <3> QED
      BY <1>4, <3>1, <3>2, <3>3
  <2> QED
    BY <2>1, <2>2
<1>7. /\ LEN_LK'[area_idx(m)] = t
      /\ \A a \in Area : LEN_LK[a] \in Thread => LEN_LK'[a] = LEN_LK[a]
  <2>1. CASE LockLen(t)
    BY <1>1, <1>4, <1>5, <2>1, ThreadAssumption DEF LockLen, TypeOK
  <2>2. CASE ReadLen(t)
    BY <1>1, <1>4, <2>2 DEF ReadLen, KnowsAt
  <2> QED
    BY <2>1, <2>2
<1>8. /\ pc'[t] = label /\ call'[t] = c
      /\ \A u \in Thread \ {t} : pc'[u] = pc[u] /\ call'[u] = call[u]
  BY <1>1, <1>6, GotoThread DEF TypeOK, Labels
<1>9. Disjoint'
  <2>1. Writes(c) = Writes(call[t]) /\ Reads(c) = Reads(call[t])
    BY <1>1, <1>4, <1>6, SameRows
  <2> QED
    BY <1>1, <1>3, <1>6, <2>1, GotoDisjoint DEF Labels
<1>10. KnowsOK'
  <2>1. ASSUME NEW u \in Thread \ {t} PROVE KnowsAt(u, pc[u], call[u])'
    <3>1. KnowsAt(u, pc[u], call[u]) /\ LocalsAt(pc[u], call[u]) /\ pc[u] \in Labels
      BY <1>1, AtLabel DEF LenInv, KnowsOK, TypeOK
    <3>2. pc[u] \in {"read_len", "write_len"} => area_idx(call[u].m) \in Area
      BY <1>1, <3>1, AreaType, PrefixesNat DEF LocalsAt, CountLabels, IdInv
    <3> QED
      BY <1>3, <1>7, <1>8, <3>1, <3>2 DEF KnowsAt
  <2>2. KnowsAt(t, pc[t], call[t])'
    BY <1>1, <1>3, <1>4, <1>6, <1>7, <1>8 DEF KnowsAt, CountLabels, Inserts
  <2> QED
    BY <2>1, <2>2 DEF KnowsOK
<1>11. CountsOK'
  <2>1. ASSUME NEW n \in Prefixes
        PROVE  (Clearing(n) \/ len[n] = Cardinality(Counted(n)))'
    <3>1. Pending(n)' = Pending(n)
      BY <1>3, <1>4, <1>6, <1>8 DEF Pending, CountLabels
    <3>2. Counted(n)' = Counted(n)
      BY <1>3, <3>1 DEF Counted
    <3>3. Clearing(n) => Clearing(n)'
      BY <1>3, <1>8 DEF Clearing, Busy
    <3> QED
      BY <1>3, <3>2, <3>3 DEF LenInv, CountsOK
  <2> QED
    BY <1>3, <2>1 DEF CountsOK
<1> QED
  BY <1>2, <1>9, <1>10, <1>11 DEF LenInv

\* One key more or less is one more or less to count, which does not wrap.
LEMMA SteppedCount ==
    ASSUME NEW S \in SUBSET Key, NEW k \in Key
    PROVE  /\ k \notin S => Stepped(Cardinality(S), TRUE) = Cardinality(S \cup {k})
           /\ k \in S => Stepped(Cardinality(S), FALSE) = Cardinality(S \ {k})
<1>1. IsFiniteSet(Key) /\ U64_MAX \in Nat /\ Cardinality(Key) <= U64_MAX
  BY KeyAssumption
<1>2. /\ IsFiniteSet(S) /\ Cardinality(S) <= Cardinality(Key)
      /\ Cardinality(S \cup {k}) <= Cardinality(Key)
  BY <1>1, FS_Subset
<1>3. Cardinality(S) \in Nat /\ Cardinality(Key) \in Nat
  BY <1>1, <1>2, FS_CardinalityType
<1>4. k \notin S => Cardinality(S \cup {k}) = Cardinality(S) + 1
  BY <1>2, FS_AddElement
<1>5. k \in S => Cardinality(S \ {k}) = Cardinality(S) - 1 /\ Cardinality(S) # 0
  <2>1. Cardinality(S) = 0 <=> S = {}
    BY <1>2, FS_EmptySet
  <2> QED
    BY <1>2, <2>1, FS_RemoveElement
<1> QED
  BY <1>1, <1>2, <1>3, <1>4, <1>5 DEF Stepped

\* The length is written, and with it the row counted; no one else has read the
\* length of this map, or writes it.
LEMMA WriteLenLen ==
    ASSUME LenInv, NEW t \in Thread, WriteLen(t)
    PROVE  LenInv'
<1>1. /\ IdInv /\ TypeOK /\ Disjoint /\ call[t] \in Calls /\ LocalsAt(pc[t], call[t])
      /\ KnowsAt(t, pc[t], call[t]) /\ pc[t] = "write_len"
  BY AtLabel DEF LenInv, IdInv, KnowsOK, WriteLen
<1>2. IdInv'
  BY <1>1, CountId DEF CountStep
<1>3. /\ pc[t] \in AtRow /\ pc[t] \in CountLabels /\ Busy(t)
      /\ call[t].op \in {"insert", "remove", "get_mut", "clone"}
  BY <1>1 DEF AtRow, CountLabels, Busy, LocalsAt
<1>4. PICK m \in Prefixes, k \in Key : m = call[t].m /\ k = call[t].k
  BY <1>1, <1>3, RowWritten
<1>5. PICK label \in {"next", "idle"} : Goto(t, label, call[t])
  BY DEF WriteLen, Return
<1>6. /\ area_idx(m) \in Area /\ LEN_LK[area_idx(m)] = t
      /\ call[t].got = len[m] /\ (Inserts(call[t]) <=> k \in entries[m])
  BY <1>1, <1>3, <1>4, AreaType, PrefixesNat DEF KnowsAt
<1>7. /\ UNCHANGED <<entries, Prefixes>>
      /\ len' = [len EXCEPT ![m] = Stepped(len[m], Inserts(call[t]))]
      /\ len'[m] = Stepped(len[m], Inserts(call[t]))
      /\ \A n \in Prefixes \ {m} : len'[n] = len[n]
      /\ \A a \in Area \ {area_idx(m)} : LEN_LK'[a] = LEN_LK[a]
  BY <1>1, <1>4, <1>6 DEF WriteLen, TypeOK, IsMap, Prefixes
<1>8. /\ pc'[t] = label /\ (label # "idle" => call'[t] = call[t])
      /\ label = "idle" => call'[t] = NoCall
      /\ \A u \in Thread \ {t} : pc'[u] = pc[u] /\ call'[u] = call[u]
  BY <1>1, <1>5, GotoThread DEF TypeOK, Labels
<1>9. Disjoint'
  BY <1>1, <1>3, <1>5, <1>7, GotoDisjoint DEF Labels
<1>10. \A u \in Thread \ {t} : Busy(u) =>
         /\ pc[u] \in AtRow => call[u].m # m \/ call[u].k # k
         /\ call[u].op = "clear" => call[u].m # m
  BY <1>1, <1>3, <1>4, RowsDiffer
<1>11. KnowsOK'
  <2>1. ASSUME NEW u \in Thread \ {t} PROVE KnowsAt(u, pc[u], call[u])'
    <3>1. KnowsAt(u, pc[u], call[u]) /\ LocalsAt(pc[u], call[u]) /\ pc[u] \in Labels
      BY <1>1, AtLabel DEF LenInv, KnowsOK, TypeOK
    <3>2. pc[u] \in {"read_len", "write_len"} =>
            /\ call[u].m \in Prefixes /\ area_idx(call[u].m) \in Area
            /\ area_idx(call[u].m) # area_idx(m) /\ call[u].m # m
      BY <1>1, <1>6, <3>1, AreaType, PrefixesNat DEF LocalsAt, CountLabels, KnowsAt
    <3> QED
      BY <1>7, <1>8, <3>1, <3>2 DEF KnowsAt
  <2>2. KnowsAt(t, pc[t], call[t])'
    BY <1>3, <1>8 DEF KnowsAt, CountLabels, RowLabels, NoCall, Call
  <2> QED
    BY <2>1, <2>2 DEF KnowsOK
<1>12. CountsOK'
  <2>1. ASSUME NEW n \in Prefixes \ {m}
        PROVE  (Clearing(n) \/ len[n] = Cardinality(Counted(n)))'
    <3>1. Pending(n)' = Pending(n)
      BY <1>3, <1>4, <1>8, <2>1 DEF Pending, CountLabels, NoCall, Call
    <3>2. Counted(n)' = Counted(n)
      BY <1>7, <3>1 DEF Counted
    <3>3. Clearing(n) => Clearing(n)'
      BY <1>3, <1>8 DEF Clearing, Busy
    <3> QED
      BY <1>7, <2>1, <3>2, <3>3 DEF LenInv, CountsOK
  <2>2. (len[m] = Cardinality(Counted(m)))'
    <3>1. ~Clearing(m)
      BY <1>3, <1>10 DEF Clearing
    <3>2. len[m] = Cardinality(Counted(m))
      BY <3>1 DEF LenInv, CountsOK
    <3>3. k \in Pending(m)
      BY <1>3, <1>4 DEF Pending
    <3>4. Pending(m)' = Pending(m) \ {k}
      <4>1. \A u \in Thread \ {t} : pc[u] \in CountLabels /\ call[u].m = m => call[u].k # k
        BY <1>10 DEF AtRow, CountLabels, Busy
      <4>2. pc'[t] \notin CountLabels
        BY <1>8 DEF CountLabels
      <4> QED
        BY <1>4, <1>8, <4>1, <4>2 DEF Pending
    <3>5. Counted(m)' = (entries[m] \ Pending(m)') \cup (Pending(m)' \ entries[m])
      BY <1>7 DEF Counted
    <3>6. Counted(m) \in SUBSET Key
      <4>1. entries[m] \in SUBSET Key
        BY <1>1 DEF TypeOK, IsMap
      <4> QED
        BY <4>1 DEF Counted, Pending
    <3>7. CASE k \in entries[m]
      <4>1. k \notin Counted(m) /\ Counted(m)' = Counted(m) \cup {k}
        BY <3>3, <3>4, <3>5, <3>7 DEF Counted
      <4>2. Stepped(len[m], Inserts(call[t])) = Stepped(Cardinality(Counted(m)), TRUE)
        BY <1>6, <3>2, <3>7 DEF Stepped
      <4> QED
        BY <1>7, <3>6, <4>1, <4>2, SteppedCount
    <3>8. CASE k \notin entries[m]
      <4>1. k \in Counted(m) /\ Counted(m)' = Counted(m) \ {k}
        BY <3>3, <3>4, <3>5, <3>8 DEF Counted
      <4>2. Stepped(len[m], Inserts(call[t])) = Stepped(Cardinality(Counted(m)), FALSE)
        BY <1>6, <3>2, <3>8 DEF Stepped
      <4> QED
        BY <1>7, <3>6, <4>1, <4>2, SteppedCount
    <3> QED
      BY <3>7, <3>8
  <2> QED
    BY <1>7, <2>1, <2>2 DEF CountsOK
<1> QED
  BY <1>2, <1>9, <1>11, <1>12 DEF LenInv

\* The rows of a call are those of its map, and of the source of a clone.
LEMMA RowsOfMap ==
    ASSUME NEW c \in Calls
    PROVE  /\ \A row \in Writes(c) : row[1] = c.m
           /\ \A row \in Reads(c) : row[1] = c.src /\ c.op = "clone"
BY DEF Writes, Reads, AllOf

\* The length of a map is set to zero: of one that is cleared, and has no rows
\* left, or of a new one, of which no other thread knows.
LEMMA ZeroLen ==
    ASSUME LenInv, NEW t \in Thread, SetLenZero(t)
    PROVE  LenInv'
<1>1. /\ IdInv /\ TypeOK /\ Disjoint /\ call[t] \in Calls /\ LocalsAt(pc[t], call[t])
      /\ KnowsAt(t, pc[t], call[t]) /\ pc[t] = "zero" /\ IdsOK
  BY AtLabel DEF LenInv, IdInv, KnowsOK, SetLenZero
<1>2. IdInv'
  BY <1>1, ZeroId
<1>3. /\ call[t].op \in {"clear", "clone", "new"} /\ Busy(t)
      /\ call[t].op = "clear" => call[t].m \in Prefixes /\ entries[call[t].m] = {}
      /\ call[t].op # "clear" => call[t].m \notin Prefixes
      /\ call[t].op = "clone" => call[t].src \in Prefixes
  BY <1>1 DEF LocalsAt, KnowsAt, IdsOK, Makes, Busy
<1>4. PICK m \in Nat : m = call[t].m
  BY <1>1 DEF LocalsAt
<1>5. PICK label \in {"next", "idle"}, c \in Calls :
        /\ Goto(t, label, c)
        /\ label = "next" =>
             c.op = "clone" /\ call[t].op = "clone" /\ c.m = m /\ c.src = call[t].src
  <2>1. CASE call[t].op = "clone"
    <3> DEFINE todo == entries[call[t].src]
               c    == [call[t] EXCEPT !.todo = todo]
    <3>1. todo \in SUBSET Key
      BY <1>1, <1>3, <2>1 DEF TypeOK, IsMap, Prefixes
    <3>2. Goto(t, "next", c)
      BY <2>1 DEF SetLenZero
    <3> HIDE DEF todo
    <3>3. c \in Calls /\ c.op = call[t].op /\ c.m = call[t].m /\ c.src = call[t].src
      BY <1>1, <3>1 DEF Calls
    <3> QED
      BY <1>4, <2>1, <3>2, <3>3
  <2>2. CASE call[t].op # "clone"
    <3>1. Goto(t, "idle", call[t])
      BY <2>2 DEF SetLenZero
    <3> QED
      BY <1>1, <3>1
  <2> QED
    BY <2>1, <2>2
<1>6. /\ Prefixes' = Prefixes \cup {m} /\ UNCHANGED LEN_LK
      /\ len'[m] = 0 /\ \A n \in Prefixes \ {m} : len'[n] = len[n]
  BY <1>4 DEF SetLenZero, MapInsert, Prefixes
<1>7. entries'[m] = {} /\ \A n \in Prefixes : entries'[n] = entries[n]
  <2>1. CASE call[t].op = "clear"
    BY <1>3, <1>4, <2>1 DEF SetLenZero
  <2>2. CASE call[t].op # "clear"
    <3>1. entries' = MapInsert(entries, m, {}) /\ m \notin DOMAIN entries
      BY <1>1, <1>3, <1>4, <2>2 DEF SetLenZero, TypeOK
    <3> QED
      BY <1>1, <3>1 DEF MapInsert, TypeOK
  <2> QED
    BY <2>1, <2>2
<1>8. /\ pc'[t] = label /\ (label # "idle" => call'[t] = c)
      /\ label = "idle" => call'[t] = NoCall
      /\ \A u \in Thread \ {t} : pc'[u] = pc[u] /\ call'[u] = call[u]
  BY <1>1, <1>5, GotoThread DEF TypeOK, Labels
<1>9. \A u \in Thread \ {t} : LocalsAt(pc[u], call[u]) /\ pc[u] \in Labels /\ call[u] \in Calls
  BY <1>1, AtLabel DEF TypeOK
<1>10. \A u \in Thread \ {t} : pc[u] \in AtRow => call[u].m # m /\ call[u].m \in Prefixes
  <2>1. ASSUME NEW u \in Thread \ {t}, pc[u] \in AtRow
        PROVE  call[u].m # m /\ call[u].m \in Prefixes
    <3>1. call[u].m \in Prefixes
      BY <1>1, <2>1, RowWritten
    <3>2. call[t].op = "clear" => call[u].m # call[t].m
      BY <1>1, <1>3, <2>1, RowsDiffer
    <3> QED
      BY <1>3, <1>4, <3>1, <3>2
  <2> QED
    BY <2>1
<1>11. Disjoint'
  <2>1. ASSUME NEW u \in Thread \ {t}, Busy(u)
        PROVE  /\ Writes(call[u])' = Writes(call[u]) /\ Reads(call[u])' = Reads(call[u])
               /\ call[t].op # "clear" => call[u].m # m
    <3>1. call[u].op \in {"clear", "clone"} => call[u].m \in Prefixes \/ call[u].m # m
      <4>1. CASE pc[u] \in AtRow \cup {"next"}
        BY <1>9, <1>10, <4>1 DEF LocalsAt
      <4>2. CASE pc[u] \in AllocLabels
        BY <1>9, <4>2 DEF LocalsAt, NoMap
      <4>3. CASE pc[u] = "zero" /\ call[u].op = "clear"
        BY <1>9, <4>3 DEF LocalsAt
      <4>4. CASE pc[u] = "zero" /\ call[u].op # "clear"
        <5>1. Makes(u)
          BY <1>9, <4>4 DEF LocalsAt, Makes
        <5>2. call[u].m \notin Prefixes
          BY <1>1, <5>1 DEF IdsOK
        <5>3. call[t].op # "clear" => call[u].m # m
          BY <1>1, <1>3, <1>4, <5>1 DEF IdsOK, Makes
        <5> QED
          BY <1>3, <1>4, <5>2, <5>3
      <4> QED
        BY <1>9, <2>1, <4>1, <4>2, <4>3, <4>4
           DEF AtRow, RowLabels, CountLabels, AllocLabels, Labels, Busy
    <3>2. call[t].op # "clear" => call[u].m # m
      <4>1. CASE pc[u] \in AtRow \cup {"next"}
        BY <1>3, <1>4, <1>9, <1>10, <4>1 DEF LocalsAt
      <4>2. CASE pc[u] \in AllocLabels
        BY <1>9, <4>2 DEF LocalsAt, NoMap
      <4>3. CASE pc[u] = "zero" /\ call[u].op = "clear"
        BY <1>3, <1>4, <1>9, <4>3 DEF LocalsAt
      <4>4. CASE pc[u] = "zero" /\ call[u].op # "clear"
        <5>1. Makes(u)
          BY <1>9, <4>4 DEF LocalsAt, Makes
        <5> QED
          BY <1>1, <1>3, <1>4, <5>1 DEF IdsOK, Makes
      <4> QED
        BY <1>9, <2>1, <4>1, <4>2, <4>3, <4>4
           DEF AtRow, RowLabels, CountLabels, AllocLabels, Labels, Busy
    <3>3. call[u].op = "clone" => call[u].src \in Prefixes
      BY <1>9 DEF LocalsAt
    <3>4. call[u]' = call[u]
      BY <1>8, <2>1
    <3>5. CASE call[u].op \in {"clear", "clone"}
      <4>1. {call[u].m} \cap Prefixes' = {call[u].m} \cap Prefixes
        BY <1>6, <3>1, <3>5
      <4>2. Writes(call[u])' = Writes(call[u])
        BY <3>4, <3>5, <4>1 DEF Writes, AllOf
      <4>3. call[u].op = "clone" => {call[u].src} \cap Prefixes' = {call[u].src} \cap Prefixes
        BY <1>6, <3>3
      <4>4. Reads(call[u])' = Reads(call[u])
        BY <3>4, <4>3 DEF Reads, AllOf
      <4> QED
        BY <3>2, <4>2, <4>4
    <3>6. CASE call[u].op \notin {"clear", "clone"}
      <4>1. Writes(call[u])' = Writes(call[u])
        BY <3>4, <3>6 DEF Writes
      <4>2. Reads(call[u])' = Reads(call[u])
        BY <3>4, <3>6 DEF Reads
      <4> QED
        BY <3>2, <4>1, <4>2
    <3> QED
      BY <3>5, <3>6
  <2>2. ASSUME NEW u \in Thread \ {t}, Busy(u), label # "idle"
        PROVE  Apart(c, call[u])' /\ Apart(call[u], c)'
    <3>1. /\ c.op = "clone" /\ call[t].op = "clone" /\ c.m = m /\ c.src = call[t].src
          /\ c.src \in Prefixes /\ m \notin Prefixes /\ call[u].m # m
      BY <1>3, <1>4, <1>5, <2>1, <2>2
    <3>2. Reads(c)' = Reads(call[t])
      BY <1>6, <3>1 DEF Reads, AllOf
    <3>3. \A row \in Writes(c)' : row[1] = m
      BY <3>1 DEF Writes, AllOf
    <3>4. \A row \in Writes(call[u]) \cup Reads(call[u]) : row[1] # m
      BY <1>9, <3>1, RowsOfMap DEF LocalsAt
    <3>5. Writes(call[u]) \cap Reads(call[t]) = {}
      BY <1>1, <1>3, <2>2 DEF Disjoint, Apart
    <3>6. \A row \in Reads(call[t]) : row[1] # m
      BY <1>1, <3>1, RowsOfMap
    <3>7. Writes(c)' \cap (Writes(call[u]) \cup Reads(call[u])) = {}
      BY <3>3, <3>4
    <3> QED
      BY <1>8, <2>1, <2>2, <3>2, <3>5, <3>7 DEF Apart
  <2>3. ASSUME NEW u \in Thread, NEW v \in Thread \ {u}, Busy(u)', Busy(v)'
        PROVE  Apart(call[u], call[v])'
    <3>1. CASE u # t /\ v # t
      BY <1>1, <1>8, <2>1, <2>3, <3>1 DEF Disjoint, Busy, Apart
    <3>2. CASE u = t
      BY <1>8, <2>2, <2>3, <3>2 DEF Busy, Apart
    <3>3. CASE v = t
      BY <1>8, <2>2, <2>3, <3>3 DEF Busy, Apart
    <3> QED
      BY <3>1, <3>2, <3>3
  <2> QED
    BY <2>3 DEF Disjoint
<1>12. KnowsOK'
  <2>1. ASSUME NEW u \in Thread \ {t} PROVE KnowsAt(u, pc[u], call[u])'
    <3>1. KnowsAt(u, pc[u], call[u])
      BY DEF LenInv, KnowsOK
    <3>2. pc[u] \in AtRow => /\ entries'[call[u].m] = entries[call[u].m]
                             /\ len'[call[u].m] = len[call[u].m]
      BY <1>6, <1>7, <1>10
    <3>3. call[u].op = "clear" /\ pc[u] \in {"next", "zero"} =>
            entries'[call[u].m] = entries[call[u].m]
      BY <1>7, <1>9 DEF LocalsAt
    <3> QED
      BY <1>6, <1>8, <3>1, <3>2, <3>3 DEF KnowsAt, AtRow, RowLabels, CountLabels
  <2>2. KnowsAt(t, pc[t], call[t])'
    BY <1>5, <1>8 DEF KnowsAt, CountLabels, RowLabels, NoCall, Call
  <2> QED
    BY <2>1, <2>2 DEF KnowsOK
<1>13. CountsOK'
  <2>1. ASSUME NEW n \in Nat PROVE Pending(n)' = Pending(n)
    BY <1>1, <1>8 DEF Pending, CountLabels
  <2>2. ASSUME NEW n \in Prefixes \ {m}
        PROVE  (Clearing(n) \/ len[n] = Cardinality(Counted(n)))'
    <3>1. Counted(n)' = Counted(n)
      BY <1>1, <1>7, <2>1, <2>2, PrefixesNat DEF Counted
    <3>2. Clearing(n) => Clearing(n)'
      BY <1>4, <1>8, <2>2 DEF Clearing, Busy
    <3> QED
      BY <1>6, <2>2, <3>1, <3>2 DEF LenInv, CountsOK
  <2>3. (len[m] = Cardinality(Counted(m)))'
    <3>1. Pending(m) = {}
      BY <1>1, <1>10 DEF Pending, AtRow, CountLabels
    <3>2. Counted(m)' = {}
      BY <1>7, <2>1, <3>1 DEF Counted
    <3> QED
      BY <1>6, <3>2, FS_EmptySet
  <2> QED
    BY <1>6, <2>2, <2>3 DEF CountsOK
<1> QED
  BY <1>2, <1>11, <1>12, <1>13 DEF LenInv

\* The invariant holds of an empty database.
LEMMA InitLenInv == ASSUME Init PROVE LenInv
<1>1. IdInv
  BY InitIdInv
<1>2. /\ Prefixes = {} /\ \A t \in Thread : pc[t] = "idle" /\ call[t] = NoCall
  BY DEF Init, Prefixes, EmptyMap
<1> QED
  BY <1>1, <1>2 DEF LenInv, Disjoint, KnowsOK, KnowsAt, CountsOK, Busy, RowLabels,
                    CountLabels, NoCall, Call

\* Every step keeps it.
LEMMA StepLen ==
    ASSUME LenInv, [Next]_vars
    PROVE  LenInv'
<1>1. CASE UNCHANGED vars
  <2>1. UNCHANGED <<entries, len, LEN_LK, pc, call, Prefixes>>
    BY <1>1 DEF vars, rows, Prefixes
  <2>2. IdInv'
    BY <1>1, StepId DEF LenInv
  <2>3. \A t \in Thread : Busy(t)' <=> Busy(t)
    BY <2>1 DEF Busy
  <2>4. Disjoint'
    BY <2>1, <2>3 DEF LenInv, Disjoint, Apart, Writes, Reads, AllOf
  <2>5. KnowsOK'
    BY <2>1 DEF LenInv, KnowsOK, KnowsAt
  <2>6. \A m \in Prefixes : Counted(m)' = Counted(m) /\ (Clearing(m)' <=> Clearing(m))
    BY <2>1 DEF Counted, Pending, Clearing, Busy
  <2> QED
    BY <2>1, <2>2, <2>4, <2>5, <2>6 DEF LenInv, CountsOK
<1>2. ASSUME NEW t \in Thread, RowStep(t)
      PROVE  LenInv'
  <2>1. CASE Put(t)
    <3>1. call[t].found \in BOOLEAN /\ pc[t] = "put" /\ KnowsAt(t, pc[t], call[t])
      BY <2>1, AtLabel DEF LenInv, KnowsOK, Put, Calls
    <3>2. call[t].found <=> call[t].k \in entries[call[t].m]
      BY <3>1 DEF KnowsAt
    <3> QED
      BY <2>1, <3>1, <3>2, WriteRowLen DEF Put
  <2>2. CASE Swap(t)
    <3> DEFINE there == call[t].k \in entries[call[t].m]
    <3>1. there \in BOOLEAN /\ (there <=> call[t].k \in entries[call[t].m])
      OBVIOUS
    <3>2. pc[t] = "swap" /\ WriteRow(t, call[t], there)
      BY <2>2 DEF Swap
    <3> HIDE DEF there
    <3> QED
      BY <3>1, <3>2, WriteRowLen
  <2> QED
    BY <1>2, <2>1, <2>2, LookLen DEF RowStep
<1>3. ASSUME NEW t \in Thread, CountStep(t) \/ LoopStep(t) \/ AllocStep(t) \/ UserStep(t)
      PROVE  LenInv'
  BY <1>3, HoldLen, WriteLenLen, NextLen, ZeroLen, AllocLen, UserLen
     DEF CountStep, LoopStep
<1> QED
  BY <1>1, <1>2, <1>3 DEF Next, CodeStep

\* In a race-free environment, and without crashes, the length of a map that no
\* call works on is the number of its entries: with any number of threads at
\* work on different rows of a map, and on both engines
\* (`increase_instance_len`, `decrease_instance_len`).
THEOREM LenAtRestHolds == Spec => []LenAtRest
<1>1. Init => LenInv
  BY InitLenInv
<1>2. LenInv /\ [Next]_vars => LenInv'
  BY StepLen
<1>3. LenInv => LenAtRest
  <2> SUFFICES ASSUME LenInv, NEW m \in Prefixes,
                      \A t \in Thread : Busy(t) => call[t].m # m
               PROVE  len[m] = Cardinality(entries[m])
    BY DEF LenAtRest
  <2>1. Pending(m) = {} /\ ~Clearing(m)
    BY DEF Pending, Clearing, Busy, CountLabels
  <2>2. Counted(m) = entries[m]
    BY <2>1 DEF Counted
  <2> QED
    BY <2>1, <2>2 DEF LenInv, CountsOK
<1> QED
  BY <1>1, <1>2, <1>3, PTL DEF Spec

-----------------------------------------------------------------------------
(***************************************************************************)
(* A clone is equal to its source: no other call touches the rows of the   *)
(* one or the other while it goes on.                                      *)
(***************************************************************************)
\* A clone that inserts, at a label with locals c, has yet to insert what its
\* map lacks of the source: the keys of the list, and the one at work.
InLoop == {"next"} \cup RowLabels \cup CountLabels
CopiedAt(label, c) ==
    c.op = "clone" /\ label \in InLoop =>
        /\ c.m # c.src
        /\ entries[c.src] = entries[c.m] \cup c.todo
                              \cup (IF label \in RowLabels THEN {c.k} ELSE {})
CopiedOK == \A t \in Thread : CopiedAt(pc[t], call[t])

\* Without keys, two calls on a map are apart whatever they do; there is then
\* nothing to count.
NoKeysOK == Key = {} => \A m \in Prefixes : len[m] = 0

CopyInv == LenInv /\ CopiedOK /\ NoKeysOK

\* A clone in its loop writes all rows of its map and reads all of its source.
LEMMA CloneRows ==
    ASSUME IdInv, NEW t \in Thread, call[t].op = "clone", pc[t] \in InLoop
    PROVE  /\ call[t].m \in Prefixes /\ call[t].src \in Prefixes /\ Busy(t)
           /\ Writes(call[t]) = {call[t].m} \X Key
           /\ Reads(call[t]) = {call[t].src} \X Key
<1>1. LocalsAt(pc[t], call[t])
  BY AtLabel
<1>2. call[t].m \in Prefixes /\ call[t].src \in Prefixes
  BY <1>1 DEF LocalsAt, InLoop
<1>3. Busy(t)
  BY DEF InLoop, RowLabels, CountLabels, Busy
<1> QED
  BY <1>2, <1>3 DEF Writes, Reads, AllOf

\* No other thread is at work on a row of either map, or clears one of them.
LEMMA CloneAlone ==
    ASSUME IdInv, Disjoint, NEW t \in Thread, call[t].op = "clone", pc[t] \in InLoop,
           NEW u \in Thread \ {t}, Busy(u)
    PROVE  /\ pc[u] \in AtRow => call[u].m # call[t].m /\ call[u].m # call[t].src
           /\ call[u].op = "clear" /\ Key # {} =>
                 call[u].m # call[t].m /\ call[u].m # call[t].src
<1>1. /\ Writes(call[t]) = {call[t].m} \X Key /\ Reads(call[t]) = {call[t].src} \X Key
      /\ Busy(t)
  BY CloneRows
<1>2. /\ Writes(call[u]) \cap Writes(call[t]) = {}
      /\ Writes(call[u]) \cap Reads(call[t]) = {}
  BY <1>1 DEF Disjoint, Apart
<1>3. ASSUME pc[u] \in AtRow
      PROVE  call[u].m # call[t].m /\ call[u].m # call[t].src
  <2>1. <<call[u].m, call[u].k>> \in Writes(call[u]) /\ call[u].k \in Key
    BY <1>3, RowWritten
  <2> QED
    BY <1>1, <1>2, <2>1
<1>4. ASSUME call[u].op = "clear", NEW k \in Key
      PROVE  call[u].m # call[t].m /\ call[u].m # call[t].src
  <2>1. <<call[u].m, k>> \in Writes(call[u])
    BY <1>4, ClearWrites
  <2> QED
    BY <1>1, <1>2, <2>1
<1> QED
  BY <1>3, <1>4

\* A thread moves: what it has to know, and that the other threads see the rows
\* of their clones as they were.
LEMMA GotoCopied ==
    ASSUME CopyInv, NEW t \in Thread, NEW label \in Labels, NEW c \in Calls,
           Goto(t, label, c), label # "idle" => CopiedAt(label, c)',
           \A u \in Thread \ {t} : call[u].op = "clone" /\ pc[u] \in InLoop =>
              /\ entries'[call[u].m] = entries[call[u].m]
              /\ entries'[call[u].src] = entries[call[u].src]
    PROVE  CopiedOK'
<1>1. /\ pc'[t] = label
      /\ label = "idle" => call'[t] = NoCall
      /\ label # "idle" => call'[t] = c
      /\ \A u \in Thread \ {t} : pc'[u] = pc[u] /\ call'[u] = call[u]
  BY GotoThread DEF CopyInv, LenInv, IdInv, TypeOK
<1>2. ASSUME NEW u \in Thread \ {t}
      PROVE  CopiedAt(pc[u], call[u])'
  <2>1. CopiedAt(pc[u], call[u])
    BY DEF CopyInv, CopiedOK
  <2> QED
    BY <1>1, <2>1 DEF CopiedAt
<1>3. CopiedAt(pc[t], call[t])'
  <2>1. CASE label = "idle"
    BY <1>1, <2>1 DEF CopiedAt, NoCall, Call
  <2>2. CASE label # "idle"
    BY <1>1, <2>2 DEF CopiedAt
  <2> QED
    BY <2>1, <2>2
<1> QED
  BY <1>2, <1>3 DEF CopiedOK

\* A step that touches no row.
LEMMA QuietCopied ==
    ASSUME CopyInv, UNCHANGED entries,
           NEW t \in Thread, NEW label \in Labels, NEW c \in Calls,
           Goto(t, label, c), label # "idle" => CopiedAt(label, c)
    PROVE  CopiedOK'
<1>1. label # "idle" => CopiedAt(label, c)'
  BY DEF CopiedAt
<1> QED
  BY <1>1, GotoCopied

\* A user begins a call or drops a reference: none of them is a clone in its
\* loop.
LEMMA UserCopied ==
    ASSUME CopyInv, NEW t \in Thread, UserStep(t)
    PROVE  CopiedOK'
<1>1. IdInv /\ TypeOK /\ UNCHANGED entries
  BY DEF CopyInv, LenInv, IdInv, UserStep, KeyCall, ClearCall, CloneCall, NewCall,
         DropMut, Begin, rows
<1>2. Prefixes \subseteq Nat /\ \A m \in Prefixes : entries[m] \subseteq Key
  BY <1>1, PrefixesNat DEF TypeOK, IsMap
<1>3. \A op \in Ops : RowStart(op) \in {"swap", "look", "keylen"}
  BY DEF RowStart
<1>4. PICK label \in Labels, c \in Calls :
        Goto(t, label, c) /\ (c.op # "clone" \/ label = "alloc")
  <2>1. ASSUME NEW m \in Prefixes, NEW k \in Key, KeyCall(t, m, k)
        PROVE  \E label \in Labels, c \in Calls :
                  Goto(t, label, c) /\ (c.op # "clone" \/ label = "alloc")
    <3>1. PICK op \in {"insert", "remove", "get_mut"},
               label \in {"swap", "look", "keylen", "held"} :
            Begin(t, Call(op, m, k, m, {}), label)
      BY <1>3, <2>1 DEF KeyCall, Ops
    <3>2. Call(op, m, k, m, {}) \in Calls /\ Call(op, m, k, m, {}).op = op
      BY <1>2, CallType DEF Ops, Call
    <3> QED
      BY <3>1, <3>2 DEF Begin, Labels
  <2>2. ASSUME NEW m \in Prefixes, ClearCall(t, m)
        PROVE  \E label \in Labels, c \in Calls :
                  Goto(t, label, c) /\ (c.op # "clone" \/ label = "alloc")
    <3>1. /\ Call("clear", m, 0, m, entries[m]) \in Calls
          /\ Call("clear", m, 0, m, entries[m]).op = "clear"
      BY <1>2, CallType DEF Ops, Call
    <3> QED
      BY <2>2, <3>1 DEF ClearCall, Begin, Labels
  <2>3. ASSUME NEW m \in Prefixes, CloneCall(t, m)
        PROVE  \E label \in Labels, c \in Calls :
                  Goto(t, label, c) /\ (c.op # "clone" \/ label = "alloc")
    <3>1. Call("clone", NoMap, 0, m, {}) \in Calls
      BY <1>2, CallType DEF Ops
    <3> QED
      BY <2>3, <3>1 DEF CloneCall, Begin, Labels
  <2>4. ASSUME NewCall(t)
        PROVE  \E label \in Labels, c \in Calls :
                  Goto(t, label, c) /\ (c.op # "clone" \/ label = "alloc")
    <3>1. PICK op \in {"new", "alloc_ver_id"} :
            Begin(t, Call(op, NoMap, 0, NoMap, {}), "alloc")
      BY <2>4 DEF NewCall
    <3>2. Call(op, NoMap, 0, NoMap, {}) \in Calls
      BY CallType DEF Ops
    <3> QED
      BY <3>1, <3>2 DEF Begin, Labels
  <2>5. ASSUME DropMut(t)
        PROVE  \E label \in Labels, c \in Calls :
                  Goto(t, label, c) /\ (c.op # "clone" \/ label = "alloc")
    <3>1. call[t] \in Calls /\ call[t].op = "get_mut"
      BY <1>1, <2>5, AtLabel DEF DropMut, LocalsAt
    <3> QED
      BY <1>3, <2>5, <3>1 DEF DropMut, Labels, Ops
  <2> QED
    BY <2>1, <2>2, <2>3, <2>4, <2>5 DEF UserStep
<1>5. CopiedAt(label, c)
  BY <1>4 DEF CopiedAt, InLoop, RowLabels, CountLabels
<1> QED
  BY <1>1, <1>4, <1>5, QuietCopied

\* The steps that only move within one row, or count it.
LEMMA RowCopied ==
    ASSUME CopyInv, NEW t \in Thread,
           \/ KeyLen(t) \/ KeyLenMem(t) \/ KeyLenDisk(t) \/ Look(t)
           \/ CountStep(t)
    PROVE  CopiedOK'
<1>1. /\ call[t] \in Calls /\ LocalsAt(pc[t], call[t]) /\ TypeOK
      /\ CopiedAt(pc[t], call[t])
  BY AtLabel DEF CopyInv, LenInv, IdInv, CopiedOK
<1> USE DEF RowLabels, CountLabels, InLoop
<1>2. CASE KeyLen(t) \/ KeyLenMem(t) \/ KeyLenDisk(t)
  <2>1. PICK label \in {"keylen_mem", "keylen_disk", "look"} : Goto(t, label, call[t])
    BY <1>2 DEF KeyLen, KeyLenMem, KeyLenDisk
  <2>2. pc[t] \in {"keylen", "keylen_mem", "keylen_disk"} /\ UNCHANGED entries
    BY <1>2 DEF KeyLen, KeyLenMem, KeyLenDisk, rows
  <2>3. CopiedAt(label, call[t])
    BY <1>1, <2>2 DEF CopiedAt
  <2> QED
    BY <1>1, <2>1, <2>2, <2>3, QuietCopied DEF Labels
<1>3. CASE Look(t)
  <2> DEFINE there == call[t].k \in entries[call[t].m]
             c     == [call[t] EXCEPT !.found = there]
  <2>1. pc[t] = "look" /\ Goto(t, "put", c) /\ UNCHANGED entries
    BY <1>3 DEF Look, rows
  <2>2. there \in BOOLEAN
    OBVIOUS
  <2> HIDE DEF there
  <2>3. c \in Calls /\ c.op = call[t].op /\ c.m = call[t].m /\ c.src = call[t].src
        /\ c.k = call[t].k /\ c.todo = call[t].todo
    BY <1>1, <2>2 DEF Calls
  <2> HIDE DEF c
  <2>4. CopiedAt("put", c)
    BY <1>1, <2>1, <2>3 DEF CopiedAt
  <2> QED
    BY <2>1, <2>3, <2>4, QuietCopied DEF Labels
<1>4. CASE LockLen(t) \/ WriteLen(t)
  <2>1. PICK label \in {"read_len", "next", "idle"} : Goto(t, label, call[t])
    BY <1>4 DEF LockLen, WriteLen, Return
  <2>2. pc[t] \in {"count", "write_len"} /\ UNCHANGED entries
    BY <1>4 DEF LockLen, WriteLen, rows
  <2>3. CopiedAt(label, call[t])
    BY <1>1, <2>2 DEF CopiedAt
  <2> QED
    BY <1>1, <2>1, <2>2, <2>3, QuietCopied DEF Labels
<1>5. CASE ReadLen(t)
  <2> DEFINE n == len[call[t].m]
             c == [call[t] EXCEPT !.got = n]
  <2>1. pc[t] = "read_len" /\ Goto(t, "write_len", c) /\ UNCHANGED entries
    BY <1>5 DEF ReadLen, rows
  <2>2. n \in Nat
    BY <1>1, <2>1, KeyAssumption DEF LocalsAt, TypeOK, IsMap, Prefixes
  <2> HIDE DEF n
  <2>3. c \in Calls /\ c.op = call[t].op /\ c.m = call[t].m /\ c.src = call[t].src
        /\ c.k = call[t].k /\ c.todo = call[t].todo
    BY <1>1, <2>2 DEF Calls
  <2> HIDE DEF c
  <2>4. CopiedAt("write_len", c)
    BY <1>1, <2>1, <2>3 DEF CopiedAt
  <2> QED
    BY <2>1, <2>3, <2>4, QuietCopied DEF Labels
<1> QED
  BY <1>2, <1>3, <1>4, <1>5 DEF CountStep

\* A row is written: of the map of a clone it is the key at work.
LEMMA WriteRowCopied ==
    ASSUME CopyInv, NEW t \in Thread, Put(t) \/ Swap(t)
    PROVE  CopiedOK'
<1>1. /\ IdInv /\ TypeOK /\ Disjoint /\ call[t] \in Calls /\ LocalsAt(pc[t], call[t])
      /\ CopiedAt(pc[t], call[t])
  BY AtLabel DEF CopyInv, LenInv, IdInv, CopiedOK
<1>2. /\ pc[t] \in RowLabels /\ pc[t] \in AtRow /\ pc[t] \in InLoop /\ Busy(t)
  BY DEF Put, Swap, RowLabels, AtRow, InLoop, Busy
<1>3. PICK m \in Prefixes, k \in Key : m = call[t].m /\ k = call[t].k
  BY <1>1, <1>2, RowWritten
<1>4. PICK label \in {"count", "next", "idle"}, c \in Calls :
        c = call[t] /\ Goto(t, label, c)
  BY <1>1 DEF Put, Swap, WriteRow, Return
<1>5. entries' = [entries EXCEPT ![m] = IF Inserts(call[t]) THEN @ \cup {k} ELSE @ \ {k}]
  BY <1>3 DEF Put, Swap, WriteRow
<1>6. /\ entries'[m] = IF Inserts(call[t]) THEN entries[m] \cup {k} ELSE entries[m] \ {k}
      /\ \A n \in Prefixes \ {m} : entries'[n] = entries[n]
  BY <1>1, <1>3, <1>5 DEF TypeOK, IsMap, Prefixes
<1>7. label # "idle" => CopiedAt(label, c)'
  <2>1. CASE call[t].op = "clone" /\ label # "idle"
    <3>1. /\ call[t].m # call[t].src /\ call[t].src \in Prefixes
          /\ entries[call[t].src] = entries[m] \cup call[t].todo \cup {k}
      BY <1>1, <1>2, <1>3, <2>1, CloneRows DEF CopiedAt
    <3>2. entries'[m] = entries[m] \cup {k} /\ entries'[call[t].src] = entries[call[t].src]
      BY <1>3, <1>6, <2>1, <3>1 DEF Inserts
    <3>3. label \notin RowLabels
      BY <1>4 DEF RowLabels
    <3> QED
      BY <1>3, <1>4, <3>1, <3>2, <3>3 DEF CopiedAt
  <2>2. CASE call[t].op # "clone"
    BY <1>4, <2>2 DEF CopiedAt
  <2> QED
    BY <2>1, <2>2
<1>8. ASSUME NEW u \in Thread \ {t}, call[u].op = "clone", pc[u] \in InLoop
      PROVE  /\ entries'[call[u].m] = entries[call[u].m]
             /\ entries'[call[u].src] = entries[call[u].src]
  <2>1. call[u].m \in Prefixes /\ call[u].src \in Prefixes
    BY <1>1, <1>8, CloneRows
  <2>2. call[t].m # call[u].m /\ call[t].m # call[u].src
    BY <1>1, <1>2, <1>8, CloneAlone
  <2> QED
    BY <1>3, <1>6, <2>1, <2>2
<1> QED
  BY <1>1, <1>4, <1>7, <1>8, GotoCopied DEF Labels

\* The next key of a loop; the loop of a clone begins when its map is made, with
\* all keys of the source.
LEMMA LoopCopied ==
    ASSUME CopyInv, NEW t \in Thread, LoopStep(t)
    PROVE  CopiedOK'
<1>1. /\ IdInv /\ TypeOK /\ call[t] \in Calls /\ LocalsAt(pc[t], call[t])
      /\ CopiedAt(pc[t], call[t]) /\ IdsOK
  BY AtLabel DEF CopyInv, LenInv, IdInv, CopiedOK
<1> USE DEF RowLabels, CountLabels, InLoop
<1>2. CASE NextKey(t) /\ call[t].todo # {}
  <2> DEFINE k == Min(call[t].todo)
             c == [call[t] EXCEPT !.k = k, !.todo = @ \ {k}]
  <2>1. call[t].todo \in SUBSET Key /\ call[t].todo \in SUBSET Nat
    BY <1>1, KeyAssumption DEF Calls
  <2>2. k \in Key /\ k \in call[t].todo
    BY <1>2, <2>1, MinInSet
  <2>3. Goto(t, RowStart(call[t].op), c) /\ pc[t] = "next" /\ UNCHANGED entries
    BY <1>2 DEF NextKey, rows
  <2>4. RowStart(call[t].op) \in {"swap", "look", "keylen"}
    BY <1>1, <2>3 DEF RowStart, LocalsAt
  <2> HIDE DEF k
  <2>5. c \in Calls /\ c.op = call[t].op /\ c.m = call[t].m /\ c.src = call[t].src
        /\ c.k = k /\ c.todo = call[t].todo \ {k}
    BY <1>1, <2>2 DEF Calls
  <2> HIDE DEF c
  <2>6. CopiedAt(RowStart(call[t].op), c)
    BY <1>1, <2>2, <2>3, <2>4, <2>5 DEF CopiedAt
  <2> QED
    BY <2>3, <2>4, <2>5, <2>6, QuietCopied DEF Labels
<1>3. CASE NextKey(t) /\ call[t].todo = {}
  <2>1. PICK label \in {"zero", "idle"} : Goto(t, label, call[t])
    BY <1>3 DEF NextKey
  <2>2. CopiedAt(label, call[t]) /\ UNCHANGED entries
    BY <1>3 DEF CopiedAt, NextKey, rows
  <2> QED
    BY <1>1, <2>1, <2>2, QuietCopied DEF Labels
<1>4. CASE SetLenZero(t)
  <2>1. /\ pc[t] = "zero" /\ call[t].op \in {"clear", "clone", "new"}
        /\ call[t].op = "clone" => call[t].src \in Prefixes
        /\ call[t].op = "clone" => call[t].m \notin Prefixes
    BY <1>1, <1>4 DEF SetLenZero, LocalsAt, IdsOK, Makes
  <2>2. \A n \in Prefixes : entries'[n] = entries[n]
    BY <1>1, <1>4 DEF SetLenZero, MapInsert, TypeOK
  <2>3. call[t].m \notin Prefixes => entries'[call[t].m] = {}
    BY <1>4 DEF SetLenZero, MapInsert
  <2>4. PICK label \in {"next", "idle"}, c \in Calls :
          Goto(t, label, c) /\ (label # "idle" => CopiedAt(label, c)')
    <3>1. CASE call[t].op = "clone"
      <4> DEFINE todo == entries[call[t].src]
                 d    == [call[t] EXCEPT !.todo = todo]
      <4>1. todo \in SUBSET Key
        BY <1>1, <2>1, <3>1 DEF TypeOK, IsMap, Prefixes
      <4>2. Goto(t, "next", d)
        BY <1>4, <3>1 DEF SetLenZero
      <4>3. todo = entries'[call[t].src] /\ entries'[call[t].m] = {}
            /\ call[t].m # call[t].src
        BY <2>1, <2>2, <2>3, <3>1
      <4> HIDE DEF todo
      <4>4. /\ d \in Calls /\ d.op = call[t].op /\ d.m = call[t].m
            /\ d.src = call[t].src /\ d.todo = todo
        BY <1>1, <4>1 DEF Calls
      <4> HIDE DEF d
      <4> PICK c \in Calls : c = d
        BY <4>4
      <4>5. CopiedAt("next", c)'
        BY <4>3, <4>4 DEF CopiedAt, RowLabels
      <4> QED
        BY <4>2, <4>4, <4>5
    <3>2. CASE call[t].op # "clone"
      <4>1. Goto(t, "idle", call[t])
        BY <1>4, <3>2 DEF SetLenZero
      <4> QED
        BY <1>1, <4>1
    <3> QED
      BY <3>1, <3>2
  <2>5. \A u \in Thread \ {t} : call[u].op = "clone" /\ pc[u] \in InLoop =>
          call[u].m \in Prefixes /\ call[u].src \in Prefixes
    BY <1>1, CloneRows
  <2> QED
    BY <2>2, <2>4, <2>5, GotoCopied DEF Labels
<1> QED
  BY <1>2, <1>3, <1>4 DEF LoopStep, NextKey

\* A call that allocates is not yet in its loop.
LEMMA AllocCopied ==
    ASSUME CopyInv, NEW t \in Thread, AllocStep(t)
    PROVE  CopiedOK'
<1>1. /\ IdInv /\ TypeOK /\ call[t] \in Calls /\ UNCHANGED entries
      /\ AllocatorOf(call[t]) \in Allocator
  BY AllocLocals DEF CopyInv, LenInv, IdInv, AllocStep, AllocLock, AllocRead, AllocWrite, rows
<1>2. PICK label \in {"alloc_read", "alloc_write", "zero", "idle"}, c \in Calls :
        Goto(t, label, c)
  <2>1. CASE AllocLock(t)
    BY <1>1, <2>1 DEF AllocLock
  <2>2. CASE AllocRead(t)
    <3> DEFINE n == next_id[AllocatorOf(call[t])]
    <3>1. n \in Nat /\ Goto(t, "alloc_write", [call[t] EXCEPT !.got = n])
      BY <1>1, <2>2 DEF AllocRead, TypeOK
    <3> HIDE DEF n
    <3>2. [call[t] EXCEPT !.got = n] \in Calls
      BY <1>1, <3>1 DEF Calls
    <3> QED
      BY <3>1, <3>2
  <2>3. CASE AllocWrite(t)
    <3>1. [call[t] EXCEPT !.m = call[t].got] \in Calls
      BY <1>1 DEF Calls
    <3> QED
      BY <2>3, <3>1 DEF AllocWrite
  <2> QED
    BY <2>1, <2>2, <2>3 DEF AllocStep
<1>3. CopiedAt(label, c)
  BY <1>2 DEF CopiedAt, InLoop, RowLabels, CountLabels
<1> QED
  BY <1>1, <1>2, <1>3, QuietCopied DEF Labels

\* Without keys no length is counted.
LEMMA StepNoKeys ==
    ASSUME CopyInv, [Next]_vars
    PROVE  NoKeysOK'
<1> SUFFICES ASSUME Key = {}
             PROVE  \A m \in Prefixes' : len'[m] = 0
  BY DEF NoKeysOK
<1>1. \A m \in Prefixes : len[m] = 0
  BY DEF CopyInv, NoKeysOK
<1>2. \A t \in Thread : pc[t] \notin CountLabels
  BY AtLabel DEF CopyInv, LenInv, LocalsAt
<1>3. CASE UNCHANGED len
  BY <1>1, <1>3 DEF Prefixes
<1>4. ASSUME NEW t \in Thread, SetLenZero(t)
      PROVE  \A m \in Prefixes' : len'[m] = 0
  BY <1>1, <1>4 DEF SetLenZero, MapInsert, Prefixes
<1>5. ASSUME NEW t \in Thread, CodeStep(t) \/ UserStep(t), ~SetLenZero(t)
      PROVE  UNCHANGED len
  <2>1. ~WriteLen(t)
    BY <1>2 DEF WriteLen, CountLabels
  <2>2. CASE RowStep(t)
    BY <2>2 DEF RowStep, KeyLen, KeyLenMem, KeyLenDisk, Look, Put, Swap, WriteRow, rows
  <2>3. CASE CountStep(t) \/ LoopStep(t)
    BY <1>5, <2>1, <2>3 DEF CountStep, LockLen, ReadLen, LoopStep, NextKey, rows
  <2>4. CASE AllocStep(t)
    BY <2>4 DEF AllocStep, AllocLock, AllocRead, AllocWrite, rows
  <2>5. CASE UserStep(t)
    BY <2>5 DEF UserStep, KeyCall, ClearCall, CloneCall, NewCall, DropMut, Begin, rows
  <2> QED
    BY <1>5, <2>2, <2>3, <2>4, <2>5 DEF CodeStep
<1>6. UNCHANGED vars => UNCHANGED len
  BY DEF vars, rows
<1> QED
  BY <1>3, <1>4, <1>5, <1>6 DEF Next

\* In a race-free environment, and without crashes, a clone that is complete has
\* the entries and the length of its source, whatever other threads do on other
\* rows meanwhile (`Clone` and `PartialEq` of `Mapx`).
THEOREM CloneEqualHolds == Spec => []CloneEqual
<1>1. Init => CopyInv
  <2> SUFFICES ASSUME Init
               PROVE  CopyInv
    OBVIOUS
  <2>1. /\ LenInv /\ Prefixes = {}
        /\ \A t \in Thread : pc[t] = "idle" /\ call[t] = NoCall
    BY InitLenInv DEF Init, Prefixes, EmptyMap
  <2> QED
    BY <2>1 DEF CopyInv, CopiedOK, CopiedAt, NoKeysOK, NoCall, Call
<1>2. CopyInv /\ [Next]_vars => CopyInv'
  <2> SUFFICES ASSUME CopyInv, [Next]_vars
               PROVE  CopyInv'
    OBVIOUS
  <2>1. LenInv' /\ NoKeysOK'
    BY StepLen, StepNoKeys DEF CopyInv
  <2>2. CASE UNCHANGED vars
    <3>1. UNCHANGED <<entries, pc, call>>
      BY <2>2 DEF vars, rows
    <3>2. CopiedOK'
      BY <3>1 DEF CopyInv, CopiedOK, CopiedAt
    <3> QED
      BY <2>1, <3>2 DEF CopyInv
  <2>3. ASSUME NEW t \in Thread, CodeStep(t) \/ UserStep(t)
        PROVE  CopiedOK'
    BY <2>3, UserCopied, RowCopied, WriteRowCopied, LoopCopied, AllocCopied
       DEF CodeStep, RowStep
  <2> QED
    BY <2>1, <2>2, <2>3 DEF CopyInv, Next
<1>3. CopyInv => CloneEqual
  <2> SUFFICES ASSUME CopyInv, NEW t \in Thread,
                      pc[t] = "next", call[t].op = "clone", call[t].todo = {}
               PROVE  /\ entries[call[t].m] = entries[call[t].src]
                      /\ len[call[t].m] = len[call[t].src]
    BY DEF CloneEqual
  <2>1. IdInv /\ Disjoint /\ CopiedAt(pc[t], call[t]) /\ CountsOK /\ NoKeysOK
    BY DEF CopyInv, LenInv, CopiedOK
  <2>2. /\ pc[t] \in InLoop /\ pc[t] \notin RowLabels
        /\ call[t].m \in Prefixes /\ call[t].src \in Prefixes
    BY <2>1, CloneRows DEF InLoop, RowLabels
  <2>3. entries[call[t].m] = entries[call[t].src]
    BY <2>1, <2>2 DEF CopiedAt
  <2>4. ASSUME NEW m \in {call[t].m, call[t].src}, Key # {}
        PROVE  len[m] = Cardinality(entries[m])
    <3>1. \A u \in Thread \ {t} : Busy(u) =>
            (pc[u] \in AtRow => call[u].m # m) /\ (call[u].op = "clear" => call[u].m # m)
      BY <2>1, <2>2, <2>4, CloneAlone
    <3>2. ~Clearing(m)
      BY <3>1 DEF Clearing
    <3>3. pc[t] \notin CountLabels /\ \A u \in Thread : pc[u] \in CountLabels =>
            Busy(u) /\ pc[u] \in AtRow
      BY DEF CountLabels, AtRow, Busy
    <3>4. Pending(m) = {}
      BY <3>1, <3>3 DEF Pending
    <3>5. Counted(m) = entries[m]
      BY <3>4 DEF Counted
    <3> QED
      BY <2>1, <2>2, <3>2, <3>5 DEF CountsOK
  <2>5. Key = {} => len[call[t].m] = len[call[t].src]
    BY <2>1, <2>2 DEF NoKeysOK
  <2> QED
    BY <2>3, <2>4, <2>5
<1> QED
  BY <1>1, <1>2, <1>3, PTL DEF Spec

-----------------------------------------------------------------------------
(***************************************************************************)
(* The greatest key: sled has no bound to keep, and on RocksDB one thread  *)
(* keeps it, through crashes.                                              *)
(***************************************************************************)
\* What the thread knows of the longest key, at a label with locals c: it is
\* recorded before the row is written, in memory and then on disk.
LongestAt(label, c) ==
    /\ label # "swap"
    /\ label \in {"look", "put"} /\ Inserts(c) => c.k <= max_keylen
    /\ label = "keylen_mem" => max_keylen < c.k
    /\ label = "keylen_disk" => c.k = max_keylen
    /\ label # "keylen_disk" => meta_keylen = max_keylen
LongestOK ==
    /\ \A m \in Prefixes : \A k \in entries[m] : k <= max_keylen /\ k <= meta_keylen
    /\ \A t \in Thread : LongestAt(pc[t], call[t])

\* The lone thread moves.
LEMMA GotoLongest ==
    ASSUME IdInv, NEW t, Thread = {t}, NEW label \in Labels, NEW c \in Calls,
           Goto(t, label, c), LongestAt(label, c)',
           \A m \in Prefixes' : \A k \in entries'[m] : k <= max_keylen' /\ k <= meta_keylen'
    PROVE  LongestOK'
<1>1. /\ t \in Thread /\ pc'[t] = label
      /\ label = "idle" => call'[t] = NoCall
      /\ label # "idle" => call'[t] = c
  BY GotoThread DEF IdInv, TypeOK
<1>2. LongestAt(pc[t], call[t])'
  <2>1. CASE label = "idle"
    BY <1>1, <2>1 DEF LongestAt
  <2>2. CASE label # "idle"
    BY <1>1, <2>2 DEF LongestAt
  <2> QED
    BY <2>1, <2>2
<1> QED
  BY <1>2 DEF LongestOK

\* A step that touches no row and no longest key, to a label at which none is
\* known of the key at work.
LEMMA QuietLongest ==
    ASSUME IdInv, LongestOK, NEW t, Thread = {t},
           NEW label \in Labels, NEW c \in Calls, Goto(t, label, c),
           UNCHANGED <<entries, Prefixes, keylens>>,
           pc[t] # "keylen_disk",
           label \notin {"swap", "keylen_mem", "keylen_disk"},
           label \in {"look", "put"} /\ Inserts(c) => c.k <= max_keylen
    PROVE  LongestOK'
<1>1. LongestAt(pc[t], call[t])
  BY DEF LongestOK
<1>2. UNCHANGED <<max_keylen, meta_keylen>>
  BY DEF keylens
<1>3. LongestAt(label, c)'
  BY <1>1, <1>2 DEF LongestAt, Inserts
<1>4. \A m \in Prefixes' : \A k \in entries'[m] : k <= max_keylen' /\ k <= meta_keylen'
  BY <1>2 DEF LongestOK
<1> QED
  BY <1>3, <1>4, GotoLongest

\* Steps of insert and remove.
LEMMA RowLongest ==
    ASSUME IdInv, LongestOK, Engine = "rocks", NEW t, Thread = {t}, RowStep(t)
    PROVE  LongestOK'
<1>1. /\ t \in Thread /\ call[t] \in Calls /\ LocalsAt(pc[t], call[t]) /\ TypeOK
      /\ LongestAt(pc[t], call[t])
  BY AtLabel DEF IdInv, LongestOK
<1>2. /\ max_keylen \in Nat /\ meta_keylen \in Nat /\ Prefixes \subseteq Nat
      /\ \A m \in Prefixes : entries[m] \subseteq Nat
      /\ \A m \in Prefixes : \A k \in entries[m] : k <= max_keylen /\ k <= meta_keylen
  BY <1>1, KeyAssumption, PrefixesNat DEF TypeOK, IsMap, LongestOK
<1>3. /\ ~Swap(t)
      /\ pc[t] \in RowLabels => call[t].m \in Prefixes /\ call[t].k \in Key /\ call[t].k \in Nat
  BY <1>1, KeyAssumption DEF Swap, LongestAt, LocalsAt
<1>4. CASE KeyLen(t)
  <2>1. pc[t] = "keylen" /\ UNCHANGED <<entries, Prefixes, keylens>>
    BY <1>4 DEF KeyLen, rows, Prefixes
  <2>2. PICK c \in Calls : c = call[t] /\ c.k \in Nat
    BY <1>1, <1>3, <2>1 DEF RowLabels
  <2>3. CASE c.k > max_keylen
    <3>1. Goto(t, "keylen_mem", c)
      BY <1>4, <2>2, <2>3 DEF KeyLen
    <3>2. LongestAt("keylen_mem", c)'
      BY <1>1, <1>2, <2>1, <2>2, <2>3 DEF LongestAt, keylens
    <3> QED
      BY <1>2, <2>1, <3>1, <3>2, GotoLongest DEF Labels, keylens
  <2>4. CASE ~(c.k > max_keylen)
    <3>1. Goto(t, "look", c)
      BY <1>4, <2>2, <2>4 DEF KeyLen
    <3>2. c.k <= max_keylen
      BY <1>2, <2>2, <2>4
    <3> QED
      BY <2>1, <3>1, <3>2, QuietLongest DEF Labels
  <2> QED
    BY <2>3, <2>4
<1>5. CASE KeyLenMem(t)
  <2>1. PICK c \in Calls : c = call[t] /\ c.k \in Nat /\ max_keylen < c.k
    BY <1>1, <1>3, <1>5 DEF KeyLenMem, RowLabels, LongestAt
  <2>2. /\ Goto(t, "keylen_disk", c) /\ max_keylen' = c.k /\ meta_keylen' = meta_keylen
        /\ UNCHANGED <<entries, Prefixes>>
    BY <1>5, <2>1 DEF KeyLenMem, rows, Prefixes
  <2>3. LongestAt("keylen_disk", c)'
    BY <2>2 DEF LongestAt
  <2>4. \A m \in Prefixes : \A k \in entries[m] : k <= c.k
    BY <1>2, <2>1
  <2> QED
    BY <1>2, <2>2, <2>3, <2>4, GotoLongest DEF Labels
<1>6. CASE KeyLenDisk(t)
  <2>1. PICK c \in Calls : c = call[t] /\ c.k = max_keylen
    BY <1>1, <1>6 DEF KeyLenDisk, LongestAt
  <2>2. /\ Goto(t, "look", c) /\ max_keylen' = c.k /\ meta_keylen' = c.k
        /\ UNCHANGED <<entries, Prefixes>>
    BY <1>6, <2>1 DEF KeyLenDisk, rows, Prefixes
  <2>3. LongestAt("look", c)'
    BY <1>2, <2>1, <2>2 DEF LongestAt
  <2> QED
    BY <1>2, <2>1, <2>2, <2>3, GotoLongest DEF Labels
<1>7. CASE Look(t)
  <2> DEFINE there == call[t].k \in entries[call[t].m]
             c     == [call[t] EXCEPT !.found = there]
  <2>1. /\ pc[t] = "look" /\ Goto(t, "put", c)
        /\ UNCHANGED <<entries, Prefixes, keylens>>
    BY <1>7 DEF Look, rows, Prefixes
  <2>2. there \in BOOLEAN
    OBVIOUS
  <2> HIDE DEF there
  <2>3. c \in Calls /\ c.op = call[t].op /\ c.k = call[t].k
    BY <1>1, <2>2 DEF Calls
  <2> HIDE DEF c
  <2>4. Inserts(c) => c.k <= max_keylen
    BY <1>1, <2>1, <2>3 DEF LongestAt, Inserts
  <2> QED
    BY <2>1, <2>3, <2>4, QuietLongest DEF Labels
<1>8. CASE Put(t)
  <2>1. /\ pc[t] = "put" /\ WriteRow(t, call[t], call[t].found)
        /\ call[t].m \in Prefixes /\ call[t].k \in Nat
    BY <1>3, <1>8 DEF Put, RowLabels
  <2>2. PICK label \in {"count", "next", "idle"}, c \in Calls :
          Goto(t, label, c) /\ c = call[t]
    BY <1>1, <2>1 DEF WriteRow, Return
  <2>3. /\ entries' = [entries EXCEPT ![c.m] = IF Inserts(c) THEN @ \cup {c.k} ELSE @ \ {c.k}]
        /\ UNCHANGED <<max_keylen, meta_keylen, Prefixes>>
    BY <2>1, <2>2 DEF WriteRow, keylens, Prefixes
  <2>4. meta_keylen = max_keylen /\ (Inserts(c) => c.k <= max_keylen)
    BY <1>1, <2>1, <2>2 DEF LongestAt
  <2>5. LongestAt(label, c)'
    BY <2>2, <2>3, <2>4 DEF LongestAt
  <2>6. \A m \in Prefixes : \A k \in entries'[m] : k <= max_keylen /\ k <= meta_keylen
    <3>1. ASSUME NEW m \in Prefixes, NEW k \in entries'[m]
          PROVE  k <= max_keylen /\ k <= meta_keylen
      <4>1. k \in entries[m] \/ (Inserts(c) /\ k = c.k)
        BY <1>1, <2>3, <3>1 DEF TypeOK, Prefixes
      <4> QED
        BY <1>2, <2>4, <4>1
    <3> QED
      BY <3>1
  <2> QED
    BY <2>2, <2>3, <2>5, <2>6, GotoLongest DEF Labels
<1> QED
  BY <1>3, <1>4, <1>5, <1>6, <1>7, <1>8 DEF RowStep

\* The other steps of the code, and those of a user: they write no row.
LEMMA OtherLongest ==
    ASSUME IdInv, LongestOK, Engine = "rocks", NEW t, Thread = {t},
           CountStep(t) \/ LoopStep(t) \/ AllocStep(t) \/ UserStep(t)
    PROVE  LongestOK'
<1>1. /\ t \in Thread /\ call[t] \in Calls /\ LocalsAt(pc[t], call[t]) /\ TypeOK
      /\ LongestAt(pc[t], call[t])
  BY AtLabel DEF IdInv, LongestOK
<1>2. Prefixes \subseteq Nat /\ \A m \in Prefixes : entries[m] \subseteq Key
  BY <1>1, PrefixesNat DEF TypeOK, IsMap
<1>3. \A op \in Ops : IF op \in {"remove", "clear"} THEN RowStart(op) = "look"
                      ELSE RowStart(op) = "keylen"
  BY DEF RowStart
<1>4. ASSUME NEW label \in Labels, NEW c \in Calls, Goto(t, label, c),
             UNCHANGED <<rows, keylens>>,
             pc[t] # "keylen_disk",
             label \notin {"swap", "keylen_mem", "keylen_disk", "put"},
             label = "look" => ~Inserts(c)
      PROVE  LongestOK'
  <2>1. UNCHANGED <<entries, Prefixes, keylens>>
    BY <1>4 DEF rows, Prefixes
  <2> QED
    BY <1>4, <2>1, QuietLongest
<1>5. CASE LockLen(t) \/ ReadLen(t) \/ WriteLen(t)
  <2>1. /\ pc[t] \in CountLabels /\ UNCHANGED <<entries, Prefixes, keylens>>
        /\ call[t].m \in Prefixes
    BY <1>1, <1>5 DEF LockLen, ReadLen, WriteLen, CountLabels, rows, TypeOK, LocalsAt, Prefixes
  <2>2. PICK label \in {"read_len", "write_len", "next", "idle"}, c \in Calls : Goto(t, label, c)
    <3>1. CASE ReadLen(t)
      <4> DEFINE n == len[call[t].m]
      <4>1. n \in Nat /\ Goto(t, "write_len", [call[t] EXCEPT !.got = n])
        BY <1>1, <2>1, <3>1, KeyAssumption DEF ReadLen, TypeOK, IsMap, Prefixes
      <4> HIDE DEF n
      <4>2. [call[t] EXCEPT !.got = n] \in Calls
        BY <1>1, <4>1 DEF Calls
      <4> QED
        BY <4>1, <4>2
    <3>2. CASE LockLen(t) \/ WriteLen(t)
      BY <1>1, <3>2 DEF LockLen, WriteLen, Return
    <3> QED
      BY <1>5, <3>1, <3>2
  <2> QED
    BY <2>1, <2>2, QuietLongest DEF Labels, CountLabels
<1>6. CASE NextKey(t)
  <2>1. pc[t] = "next" /\ UNCHANGED <<rows, keylens>> /\ call[t].op \in {"clear", "clone"}
    BY <1>1, <1>6 DEF NextKey, LocalsAt
  <2>2. CASE call[t].todo # {}
    <3> DEFINE k == Min(call[t].todo)
               c == [call[t] EXCEPT !.k = k, !.todo = @ \ {k}]
    <3>1. call[t].todo \in SUBSET Key /\ call[t].todo \in SUBSET Nat
      BY <1>1, KeyAssumption DEF Calls
    <3>2. k \in Key
      BY <2>2, <3>1, MinInSet
    <3>3. Goto(t, RowStart(call[t].op), c)
      BY <1>6, <2>2 DEF NextKey
    <3> HIDE DEF k
    <3>4. c \in Calls /\ c.op = call[t].op
      BY <1>1, <3>2 DEF Calls
    <3> HIDE DEF c
    <3>5. RowStart(call[t].op) = "keylen" \/ (RowStart(call[t].op) = "look" /\ ~Inserts(c))
      BY <1>3, <2>1, <3>4 DEF Ops, Inserts
    <3> QED
      BY <1>4, <2>1, <3>3, <3>4, <3>5 DEF Labels
  <2>3. CASE call[t].todo = {}
    <3>1. PICK label \in {"zero", "idle"} : Goto(t, label, call[t])
      BY <1>6, <2>3 DEF NextKey
    <3> QED
      BY <1>1, <1>4, <2>1, <3>1 DEF Labels
  <2> QED
    BY <2>2, <2>3
<1>7. CASE SetLenZero(t)
  <2>1. /\ pc[t] = "zero" /\ UNCHANGED <<max_keylen, meta_keylen>>
        /\ \A m \in Prefixes' : IF m \in Prefixes THEN entries'[m] = entries[m]
                                ELSE entries'[m] = {}
    BY <1>1, <1>7 DEF SetLenZero, keylens, MapInsert, TypeOK, Prefixes
  <2>2. PICK label \in {"next", "idle"}, c \in Calls : Goto(t, label, c)
    <3>1. CASE call[t].op = "clone"
      <4> DEFINE todo == entries[call[t].src]
      <4>1. todo \in SUBSET Key /\ Goto(t, "next", [call[t] EXCEPT !.todo = todo])
        BY <1>1, <1>2, <1>7, <3>1 DEF SetLenZero, LocalsAt
      <4> HIDE DEF todo
      <4>2. [call[t] EXCEPT !.todo = todo] \in Calls
        BY <1>1, <4>1 DEF Calls
      <4> QED
        BY <4>1, <4>2
    <3>2. CASE call[t].op # "clone"
      BY <1>1, <1>7, <3>2 DEF SetLenZero
    <3> QED
      BY <3>1, <3>2
  <2>3. LongestAt(label, c)'
    BY <1>1, <2>1, <2>2 DEF LongestAt
  <2>4. \A m \in Prefixes' : \A k \in entries'[m] : k <= max_keylen' /\ k <= meta_keylen'
    BY <2>1 DEF LongestOK
  <2> QED
    BY <2>2, <2>3, <2>4, GotoLongest DEF Labels
<1>8. CASE AllocStep(t)
  <2>1. /\ pc[t] \in AllocLabels /\ UNCHANGED <<rows, keylens>>
        /\ AllocatorOf(call[t]) \in Allocator
    BY <1>8, AllocLocals DEF AllocStep, AllocLock, AllocRead, AllocWrite, AllocLabels
  <2>2. PICK label \in {"alloc_read", "alloc_write", "zero", "idle"}, c \in Calls :
          Goto(t, label, c)
    <3>1. CASE AllocLock(t)
      BY <1>1, <3>1 DEF AllocLock
    <3>2. CASE AllocRead(t)
      <4> DEFINE n == next_id[AllocatorOf(call[t])]
      <4>1. n \in Nat /\ Goto(t, "alloc_write", [call[t] EXCEPT !.got = n])
        BY <1>1, <2>1, <3>2 DEF AllocRead, TypeOK
      <4> HIDE DEF n
      <4>2. [call[t] EXCEPT !.got = n] \in Calls
        BY <1>1, <4>1 DEF Calls
      <4> QED
        BY <4>1, <4>2
    <3>3. CASE AllocWrite(t)
      <4>1. [call[t] EXCEPT !.m = call[t].got] \in Calls
        BY <1>1 DEF Calls
      <4> QED
        BY <3>3, <4>1 DEF AllocWrite
    <3> QED
      BY <1>8, <3>1, <3>2, <3>3 DEF AllocStep
  <2> QED
    BY <1>4, <2>1, <2>2 DEF Labels, AllocLabels
<1>9. CASE UserStep(t)
  <2>1. ASSUME NEW c \in Calls, NEW label \in Labels, Begin(t, c, label),
               label \notin {"swap", "keylen_mem", "keylen_disk", "put"},
               label = "look" => ~Inserts(c)
        PROVE  LongestOK'
    BY <1>4, <2>1 DEF Begin
  <2>2. ASSUME NEW m \in Prefixes, NEW k \in Key, KeyCall(t, m, k)
        PROVE  LongestOK'
    <3>1. PICK op \in {"insert", "remove", "get_mut"}, label \in {"look", "keylen", "held"} :
            /\ Begin(t, Call(op, m, k, m, {}), label)
            /\ label = "look" => op = "remove"
      BY <1>3, <2>2 DEF KeyCall, Ops
    <3>2. Call(op, m, k, m, {}) \in Calls /\ Call(op, m, k, m, {}).op = op
      BY <1>2, CallType DEF Ops, Call
    <3> QED
      BY <2>1, <3>1, <3>2 DEF Labels, Inserts
  <2>3. ASSUME NEW m \in Prefixes, ClearCall(t, m)
        PROVE  LongestOK'
    <3>1. Call("clear", m, 0, m, entries[m]) \in Calls
      BY <1>2, CallType DEF Ops
    <3> QED
      BY <2>1, <2>3, <3>1 DEF ClearCall, Labels
  <2>4. ASSUME NEW m \in Prefixes, CloneCall(t, m)
        PROVE  LongestOK'
    <3>1. Call("clone", NoMap, 0, m, {}) \in Calls
      BY <1>2, CallType DEF Ops
    <3> QED
      BY <2>1, <2>4, <3>1 DEF CloneCall, Labels
  <2>5. CASE NewCall(t)
    <3>1. PICK op \in {"new", "alloc_ver_id"} :
            Begin(t, Call(op, NoMap, 0, NoMap, {}), "alloc")
      BY <2>5 DEF NewCall
    <3>2. Call(op, NoMap, 0, NoMap, {}) \in Calls
      BY CallType DEF Ops
    <3> QED
      BY <2>1, <3>1, <3>2 DEF Labels
  <2>6. CASE DropMut(t)
    <3>1. pc[t] = "held" /\ Goto(t, "keylen", call[t]) /\ UNCHANGED <<rows, keylens>>
      BY <1>3, <2>6 DEF DropMut, Ops
    <3> QED
      BY <1>1, <1>4, <3>1 DEF Labels
  <2> QED
    BY <1>9, <2>2, <2>3, <2>4, <2>5, <2>6 DEF UserStep
<1> QED
  BY <1>5, <1>6, <1>7, <1>8, <1>9 DEF CountStep, LoopStep

\* Every step, and a crash: what is in memory begins as what is on disk.
LEMMA StepLongest ==
    ASSUME IdInv, LongestOK, Engine = "rocks", NEW t, Thread = {t},
           [Next \/ Crash]_vars
    PROVE  LongestOK'
<1>1. CASE UNCHANGED vars
  <2>1. UNCHANGED <<entries, Prefixes, max_keylen, meta_keylen, pc, call>>
    BY <1>1 DEF vars, rows, keylens, Prefixes
  <2> QED
    BY <2>1 DEF LongestOK, LongestAt, Inserts
<1>2. CASE Next
  BY <1>2, RowLongest, OtherLongest DEF Next, CodeStep
<1>3. CASE Crash
  <2>1. /\ UNCHANGED <<entries, Prefixes, meta_keylen>> /\ max_keylen' = meta_keylen
        /\ \A u \in Thread : pc'[u] = "idle"
    BY <1>3 DEF Crash, rows, Prefixes
  <2>2. \A u \in Thread : LongestAt(pc[u], call[u])'
    BY <2>1 DEF LongestAt
  <2> QED
    BY <2>1, <2>2 DEF LongestOK
<1> QED
  BY <1>1, <1>2, <1>3

\* A backward scan finds the greatest key of a map that no call works on: on
\* sled whatever threads there are, and on RocksDB, in whose engine nothing
\* orders the threads that set the length of the longest key (`max_keylen`),
\* when one thread uses the database; also after a crash.
THEOREM LastIsGreatestHolds ==
    ASSUME Engine = "sled" \/ \E t : Thread = {t}
    PROVE  CrashSpec => []LastIsGreatest
<1> DEFINE Inv == IdInv /\ (Engine = "rocks" => LongestOK)
<1>1. Init => Inv
  <2>1. ASSUME Init
        PROVE  LongestOK
    <3>1. /\ Prefixes = {} /\ \A t \in Thread : pc[t] = "idle"
          /\ meta_keylen = max_keylen
      BY <2>1 DEF Init, Prefixes, EmptyMap
    <3> QED
      BY <3>1 DEF LongestOK, LongestAt
  <2> QED
    BY <2>1, InitIdInv
<1>2. Inv /\ [Next \/ Crash]_vars => Inv'
  <2>1. ASSUME Inv, [Next \/ Crash]_vars, Engine = "rocks"
        PROVE  LongestOK'
    <3>1. PICK t : Thread = {t}
      BY <2>1
    <3> QED
      BY <2>1, <3>1, StepLongest
  <2> QED
    BY <2>1, StepId
<1>3. Inv => LastIsGreatest
  <2> SUFFICES ASSUME Inv, NEW m \in Prefixes
               PROVE  Visible(m) = entries[m]
    BY DEF LastIsGreatest, Last
  <2>1. CASE Engine = "rocks"
    BY <2>1 DEF Visible, LongestOK
  <2> QED
    BY <2>1 DEF Visible
<1> HIDE DEF Inv
<1> QED
  BY <1>1, <1>2, <1>3, PTL DEF CrashSpec
=============================================================================

------------------------------ MODULE MapxEngine ------------------------------
(***************************************************************************)
(* The persistent map of vsdb (`Mapx`) on its storage engine, with threads *)
(* that interleave between single accesses of the engine, and crashes      *)
(* (core/src/common/engines/mod.rs, rocks_db.rs, sled_db.rs).              *)
(*                                                                         *)
(* A map is a prefix.  Its entries are rows of a data area of the engine,  *)
(* its length is a row of the meta area: two writes, which nothing makes   *)
(* one.  Ids come from counters in the meta area.  The RocksDB engine also *)
(* keeps the length of the longest key ever inserted, and begins backward  *)
(* scans at as many 0xFF bytes.                                            *)
(*                                                                         *)
(* Key k stands for the key of k bytes 0xFF, so keys are ordered like      *)
(* numbers, and they are the keys that a wrong bound cuts off.  Values are *)
(* left out.                                                               *)
(***************************************************************************)
EXTENDS Maps, Integers, FiniteSets, FiniteSetsExt

CONSTANTS
    Thread,         \* the threads of the process
    Key,            \* the raw keys
    Engine,         \* the storage engine: "rocks" or "sled"
    NoThread,       \* the holder of a free lock
    U64_MAX,        \* u64::MAX, the greatest length
    FIRST_BYTE,     \* the weight of the first byte of a prefix, 256^7
    DATA_SET_NUM,   \* the number of areas
    RESERVED_ID_CNT,\* the first prefix allocated
    MaxId           \* bound: the greatest prefix or version id allocated

ASSUME ThreadAssumption == NoThread \notin Thread
ASSUME KeyAssumption    == /\ Key \subseteq Nat /\ IsFiniteSet(Key)
                           /\ U64_MAX \in Nat /\ Cardinality(Key) <= U64_MAX
ASSUME EngineAssumption == /\ Engine \in {"rocks", "sled"}
                           /\ RESERVED_ID_CNT \in Nat /\ MaxId \in Nat
                           /\ FIRST_BYTE \in Nat \ {0}
                           /\ DATA_SET_NUM \in Nat \ {0}

VARIABLES
    entries,      \* on disk: prefix -> the keys of the map
    len,          \* on disk: prefix -> the length of the map
    next_id,      \* on disk: allocator -> the next id
    meta_keylen,  \* on disk: META_KEY_MAX_KEYLEN
    max_keylen,   \* in memory: the same, as the threads see it
    LEN_LK,       \* area -> the thread that holds its lock
    ALLOC_LK,     \* allocator -> the thread that holds its lock
    issued,       \* history: allocator -> the ids that calls returned
    pc,           \* thread -> what it does next
    call          \* thread -> its call, with its local variables

rows    == <<entries, len>>
keylens == <<meta_keylen, max_keylen>>
alloc   == <<next_id, ALLOC_LK, issued>>
vars    == <<rows, keylens, alloc, LEN_LK, pc, call>>

\* The allocators of prefixes, and of version ids; the one of branch ids is
\* like the latter.
Allocator == {"prefix", "version"}
First(a)  == IF a = "prefix" THEN RESERVED_ID_CNT ELSE 0
Prefixes  == DOMAIN len

-----------------------------------------------------------------------------
\* area_idx: the first byte of the prefix, which is the most significant one.
area_idx(p) == (p \div FIRST_BYTE) % DATA_SET_NUM
Area == 0 .. DATA_SET_NUM - 1

\* The keys a backward scan finds, and the greatest of them, or -1.  It begins
\* at max_keylen bytes 0xFF on RocksDB, at the end of the map on sled.
Visible(m) == IF Engine = "rocks" THEN {k \in entries[m] : k <= max_keylen}
                                  ELSE entries[m]
Last(m)    == IF Visible(m) = {} THEN -1 ELSE Max(Visible(m))

\* The rows that a call reads and that it writes.  The map that a clone fills
\* has rows once it exists.
AllOf(m)  == ({m} \cap Prefixes) \X Key
Writes(c) == CASE c.op \in {"insert", "remove", "get_mut"} -> {<<c.m, c.k>>}
               [] c.op \in {"clear", "clone"}              -> AllOf(c.m)
               [] OTHER                                    -> {}
Reads(c)  == IF c.op = "clone" THEN AllOf(c.src) ELSE {}

\* What `shadow` calls a race-free environment, and what `&mut` enforces when
\* there are no shadows: no call writes what another one reads or writes.
Apart(c, d) == /\ Writes(c) \cap (Writes(d) \cup Reads(d)) = {}
               /\ Writes(d) \cap Reads(c) = {}
RaceFree(t, c) == \A u \in Thread \ {t} : pc[u] # "idle" => Apart(c, call[u])

\* A call: the map, the key at work, the source of a clone, whether the key was
\* there, the number read under a lock, the keys a loop has yet to do.
NoMap == -1
Call(op, m, k, src, todo) ==
    [op |-> op, m |-> m, k |-> k, src |-> src,
     found |-> FALSE, got |-> 0, todo |-> todo]
NoCall == Call("none", NoMap, 0, NoMap, {})

\* Thread t goes on at `label` with locals c, or returns.
Goto(t, label, c) ==
    /\ pc' = [pc EXCEPT ![t] = label]
    /\ call' = [call EXCEPT ![t] = IF label = "idle" THEN NoCall ELSE c]

-----------------------------------------------------------------------------
Init ==
    /\ entries = EmptyMap
    /\ len = EmptyMap
    /\ next_id = [a \in Allocator |-> First(a)]
    /\ meta_keylen = 0
    /\ max_keylen = 0
    /\ LEN_LK = [a \in Area |-> NoThread]
    /\ ALLOC_LK = [a \in Allocator |-> NoThread]
    /\ issued = [a \in Allocator |-> {}]
    /\ pc = [t \in Thread |-> "idle"]
    /\ call = [t \in Thread |-> NoCall]

(***************************************************************************)
(* A thread calls the map.                                                 *)
(***************************************************************************)
Begin(t, c, label) ==
    /\ pc[t] = "idle"
    /\ RaceFree(t, c)
    /\ Goto(t, label, c)
    /\ UNCHANGED <<rows, keylens, alloc, LEN_LK>>

\* The first access to a row: sled exchanges it in one step, RocksDB reads it
\* and then writes it, and looks at the length of the key before an insertion.
RowStart(op) == CASE Engine = "sled"            -> "swap"
                  [] op \in {"remove", "clear"} -> "look"
                  [] OTHER                      -> "keylen"

\* insert, remove and get_mut, which gives nothing for a key that is not there.
KeyCall(t, m, k) ==
    \/ Begin(t, Call("insert", m, k, m, {}), RowStart("insert"))
    \/ Begin(t, Call("remove", m, k, m, {}), RowStart("remove"))
    \/ k \in entries[m] /\ Begin(t, Call("get_mut", m, k, m, {}), "held")

\* clear: its iterator shows the map as it is when it is made.
ClearCall(t, m) == Begin(t, Call("clear", m, 0, m, entries[m]), "next")

\* The bound on ids: room for all calls that are to allocate one.
Allocating(t) == pc[t] \in {"alloc", "alloc_read", "alloc_write"}
Room(a)       == next_id[a] + Cardinality({t \in Thread : Allocating(t)}) <= MaxId

\* new, and the allocation of a version id.
NewCall(t) ==
    \/ Room("prefix") /\ Begin(t, Call("new", NoMap, 0, NoMap, {}), "alloc")
    \/ Room("version") /\ Begin(t, Call("alloc_ver_id", NoMap, 0, NoMap, {}), "alloc")

\* clone of map m: a new map, then an insertion for each entry of m.
CloneCall(t, m) == Room("prefix") /\ Begin(t, Call("clone", NoMap, 0, m, {}), "alloc")

\* ValueMut::drop: the copy that the caller held is inserted.
DropMut(t) ==
    /\ pc[t] = "held"
    /\ Goto(t, RowStart("get_mut"), call[t])
    /\ UNCHANGED <<rows, keylens, alloc, LEN_LK>>

(***************************************************************************)
(* Steps of insert and remove.                                             *)
(***************************************************************************)
Inserts(c) == c.op \in {"insert", "get_mut", "clone"}
Return(c)  == IF c.op \in {"clear", "clone"} THEN "next" ELSE "idle"

\* The longest key: compared, then set in memory, then on disk.
KeyLen(t) ==
    /\ pc[t] = "keylen"
    /\ Goto(t, IF call[t].k > max_keylen THEN "keylen_mem" ELSE "look", call[t])
    /\ UNCHANGED <<rows, keylens, alloc, LEN_LK>>
\* KeyLenMemOnly is a faulty variant: the length on disk is not written.
KeyLenMemOnly(t) ==
    /\ pc[t] = "keylen_mem"
    /\ max_keylen' = call[t].k
    /\ Goto(t, "look", call[t])
    /\ UNCHANGED <<rows, meta_keylen, alloc, LEN_LK>>
KeyLenMem(t) ==
    /\ pc[t] = "keylen_mem"
    /\ max_keylen' = call[t].k
    /\ Goto(t, "keylen_disk", call[t])
    /\ UNCHANGED <<rows, meta_keylen, alloc, LEN_LK>>
KeyLenDisk(t) ==
    /\ pc[t] = "keylen_disk"
    /\ meta_keylen' = call[t].k
    /\ Goto(t, "look", call[t])
    /\ UNCHANGED <<rows, max_keylen, alloc, LEN_LK>>

\* The row is there, or not; then it is written, or deleted.
Look(t) ==
    /\ pc[t] = "look"
    /\ Goto(t, "put", [call[t] EXCEPT !.found = call[t].k \in entries[call[t].m]])
    /\ UNCHANGED <<rows, keylens, alloc, LEN_LK>>

\* Faulty variant of Counts: the rows of a clone are not counted.
CountsNoClone(c, there)  == IF Inserts(c) THEN ~there /\ c.op # "clone"
                                          ELSE there /\ c.op = "remove"

\* Whether the length must follow; a clear sets it once, at its end.
Counts(c, there) == IF Inserts(c) THEN ~there ELSE there /\ c.op = "remove"

WriteRow(t, c, there) ==
    /\ entries' = [entries EXCEPT ![c.m] = IF Inserts(c) THEN @ \cup {c.k}
                                                         ELSE @ \ {c.k}]
    /\ Goto(t, IF Counts(c, there) THEN "count" ELSE Return(c), c)
    /\ UNCHANGED <<len, keylens, alloc, LEN_LK>>
Put(t)  == pc[t] = "put"  /\ WriteRow(t, call[t], call[t].found)
Swap(t) == pc[t] = "swap" /\ WriteRow(t, call[t], call[t].k \in entries[call[t].m])

\* Faulty variant of LockLen: the lock is not waited for.
TakeLen(t) ==
    /\ pc[t] = "count"
    /\ LEN_LK' = [LEN_LK EXCEPT ![area_idx(call[t].m)] = t]
    /\ Goto(t, "read_len", call[t])
    /\ UNCHANGED <<rows, keylens, alloc>>

\* increase_instance_len, decrease_instance_len: under the lock of the area.
LockLen(t) ==
    LET a == area_idx(call[t].m)
    IN  /\ pc[t] = "count"
        /\ LEN_LK[a] = NoThread
        /\ LEN_LK' = [LEN_LK EXCEPT ![a] = t]
        /\ Goto(t, "read_len", call[t])
        /\ UNCHANGED <<rows, keylens, alloc>>
ReadLen(t) ==
    /\ pc[t] = "read_len"
    /\ Goto(t, "write_len", [call[t] EXCEPT !.got = len[call[t].m]])
    /\ UNCHANGED <<rows, keylens, alloc, LEN_LK>>

\* Faulty variant of Stepped: without the width of the number.
Unbounded(n, up) == IF up THEN n + 1 ELSE n - 1

\* A length wraps at u64::MAX and at zero in a release build.
Stepped(n, up) == IF up THEN (IF n = U64_MAX THEN 0 ELSE n + 1)
                        ELSE (IF n = 0 THEN U64_MAX ELSE n - 1)
WriteLen(t) ==
    LET c == call[t]
    IN  /\ pc[t] = "write_len"
        /\ len' = [len EXCEPT ![c.m] = Stepped(c.got, Inserts(c))]
        /\ LEN_LK' = [LEN_LK EXCEPT ![area_idx(c.m)] = NoThread]
        /\ Goto(t, Return(c), c)
        /\ UNCHANGED <<entries, keylens, alloc>>

(***************************************************************************)
(* Steps of clear, clone, new and the allocators.                          *)
(***************************************************************************)
\* Faulty variant of NextKey: the key is not taken off the list.
NextKeyAgain(t) ==
    LET c == call[t]
    IN  /\ pc[t] = "next"
        /\ IF c.todo # {}
           THEN Goto(t, RowStart(c.op), [c EXCEPT !.k = Min(c.todo)])
           ELSE Goto(t, IF c.op = "clear" THEN "zero" ELSE "idle", c)
        /\ UNCHANGED <<rows, keylens, alloc, LEN_LK>>

\* The next key of a clear or a clone, or the end of the loop.
NextKey(t) ==
    LET c == call[t]
    IN  /\ pc[t] = "next"
        /\ \/ /\ c.todo # {}
              /\ Goto(t, RowStart(c.op), [c EXCEPT !.k = Min(c.todo),
                                                   !.todo = @ \ {Min(c.todo)}])
           \/ /\ c.todo = {}
              /\ Goto(t, IF c.op = "clear" THEN "zero" ELSE "idle", c)
        /\ UNCHANGED <<rows, keylens, alloc, LEN_LK>>

\* set_instance_len(.., 0), without a lock.  A new map comes into being here,
\* and a clone makes the iterator of its source.
SetLenZero(t) ==
    LET c == call[t]
    IN  /\ pc[t] = "zero"
        /\ len' = MapInsert(len, c.m, 0)
        /\ entries' = IF c.m \in Prefixes THEN entries ELSE MapInsert(entries, c.m, {})
        /\ IF c.op = "clone"
           THEN Goto(t, "next", [c EXCEPT !.todo = entries[c.src]])
           ELSE Goto(t, "idle", c)
        /\ UNCHANGED <<keylens, alloc, LEN_LK>>

AllocatorOf(c) == IF c.op = "alloc_ver_id" THEN "version" ELSE "prefix"

\* Faulty variant of AllocLock: the lock is not waited for.
TakeAlloc(t) ==
    /\ pc[t] = "alloc"
    /\ ALLOC_LK' = [ALLOC_LK EXCEPT ![AllocatorOf(call[t])] = t]
    /\ Goto(t, "alloc_read", call[t])
    /\ UNCHANGED <<rows, keylens, next_id, issued, LEN_LK>>

AllocLock(t) ==
    LET a == AllocatorOf(call[t])
    IN  /\ pc[t] = "alloc"
        /\ ALLOC_LK[a] = NoThread
        /\ ALLOC_LK' = [ALLOC_LK EXCEPT ![a] = t]
        /\ Goto(t, "alloc_read", call[t])
        /\ UNCHANGED <<rows, keylens, next_id, issued, LEN_LK>>
AllocRead(t) ==
    /\ pc[t] = "alloc_read"
    /\ Goto(t, "alloc_write", [call[t] EXCEPT !.got = next_id[AllocatorOf(call[t])]])
    /\ UNCHANGED <<rows, keylens, alloc, LEN_LK>>

\* The id is stored as used before the call returns it.
AllocWrite(t) ==
    LET c == call[t]
        a == AllocatorOf(c)
    IN  /\ pc[t] = "alloc_write"
        /\ next_id' = [next_id EXCEPT ![a] = c.got + 1]
        /\ issued' = [issued EXCEPT ![a] = @ \cup {c.got}]
        /\ ALLOC_LK' = [ALLOC_LK EXCEPT ![a] = NoThread]
        /\ Goto(t, IF a = "prefix" THEN "zero" ELSE "idle", [c EXCEPT !.m = c.got])
        /\ UNCHANGED <<rows, keylens, LEN_LK>>

-----------------------------------------------------------------------------
\* A step of the code of thread t, without waiting for a lock; a step of a user.
RowStep(t)   == KeyLen(t) \/ KeyLenMem(t) \/ KeyLenDisk(t) \/ Look(t) \/ Put(t) \/ Swap(t)
CountStep(t) == LockLen(t) \/ ReadLen(t) \/ WriteLen(t)
LoopStep(t)  == NextKey(t) \/ SetLenZero(t)
AllocStep(t) == AllocLock(t) \/ AllocRead(t) \/ AllocWrite(t)
CodeStep(t)  == RowStep(t) \/ CountStep(t) \/ LoopStep(t) \/ AllocStep(t)
UserStep(t)  == \/ \E m \in Prefixes : \/ \E k \in Key : KeyCall(t, m, k)
                                       \/ ClearCall(t, m)
                                       \/ CloneCall(t, m)
                \/ NewCall(t)
                \/ DropMut(t)

Next == \E t \in Thread : CodeStep(t) \/ UserStep(t)

\* The process ends at any point and is started again: the writes made so far
\* are in the log of RocksDB, the rest is lost.  Sled writes its log now and
\* then, so that more is lost: not modelled.
Crash ==
    /\ Engine = "rocks"
    /\ max_keylen' = meta_keylen
    /\ LEN_LK' = [a \in Area |-> NoThread]
    /\ ALLOC_LK' = [a \in Allocator |-> NoThread]
    /\ pc' = [t \in Thread |-> "idle"]
    /\ call' = [t \in Thread |-> NoCall]
    /\ UNCHANGED <<rows, meta_keylen, next_id, issued>>

Spec      == Init /\ [][Next]_vars
CrashSpec == Init /\ [][Next \/ Crash]_vars

\* A thread that can go on does; a lock that is free again and again is given
\* to it in the end, as the mutexes of parking_lot see to.
Fairness == \A t \in Thread : /\ WF_vars(CodeStep(t))
                              /\ SF_vars(LockLen(t))
                              /\ SF_vars(AllocLock(t))
FairSpec == Spec /\ Fairness

-----------------------------------------------------------------------------
Busy(t) == pc[t] # "idle"

Labels == {"idle", "held", "keylen", "keylen_mem", "keylen_disk", "look", "put",
           "swap", "count", "read_len", "write_len", "next", "zero",
           "alloc", "alloc_read", "alloc_write"}
Ops    == {"insert", "remove", "get_mut", "clear", "clone", "new", "alloc_ver_id",
           "none"}
Calls  == [op : Ops, m : Nat \cup {NoMap}, k : Key \cup {0}, src : Nat \cup {NoMap},
           found : BOOLEAN, got : Nat, todo : SUBSET Key]

TypeOK ==
    /\ IsMap(len, Nat, 0 .. U64_MAX)
    /\ IsMap(entries, Nat, SUBSET Key)
    /\ DOMAIN entries = Prefixes
    /\ next_id \in [Allocator -> Nat]
    /\ meta_keylen \in Key \cup {0}
    /\ max_keylen \in Key \cup {0}
    /\ LEN_LK \in [Area -> Thread \cup {NoThread}]
    /\ ALLOC_LK \in [Allocator -> Thread \cup {NoThread}]
    /\ issued \in [Allocator -> SUBSET Nat]
    /\ pc \in [Thread -> Labels]
    /\ call \in [Thread -> Calls]

\* When no call works on a map, its length is the number of its entries: the
\* counters, "not atomic" before version 0.34.0 (CHANGELOG.md), can be used by
\* several threads, on handles made by `shadow` too.
LenAtRest ==
    \A m \in Prefixes :
        (\A t \in Thread : Busy(t) => call[t].m # m)
        => len[m] = Cardinality(entries[m])

\* A clone that is complete equals its source, as PartialEq compares the two.
CloneEqual ==
    \A t \in Thread :
        pc[t] = "next" /\ call[t].op = "clone" /\ call[t].todo = {} =>
            /\ entries[call[t].m] = entries[call[t].src]
            /\ len[call[t].m] = len[call[t].src]

\* No id is returned twice, by two threads or before and after a crash, and the
\* assertion in `new` holds: a new prefix has no rows.
IdsFresh ==
    /\ \A t \in Thread : pc[t] = "alloc_write" =>
           call[t].got \notin issued[AllocatorOf(call[t])]
    /\ \A t \in Thread : pc[t] = "zero" /\ call[t].op \in {"new", "clone"} =>
           call[t].m \notin Prefixes

\* A backward scan on RocksDB finds the greatest key of a map that no call works
\* on.
LastIsGreatest ==
    \A m \in Prefixes : (\A t \in Thread : Busy(t) => call[t].m # m) =>
        Last(m) = IF entries[m] = {} THEN -1 ELSE Max(entries[m])

\* Every call returns once its caller lets go of the references it returned.
CallsReturn ==
    \A t \in Thread : (pc[t] \notin {"idle", "held"}) ~> (pc[t] \in {"idle", "held"})
=============================================================================

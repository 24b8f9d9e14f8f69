# VSDB, specified and checked in TLA+

VSDB describes itself as "a 'Git' in the form of KV-database": persistent maps
and vectors whose content is kept per version, with branches over the versions
that are created, merged, rebased, pruned and thrown away like those of git. Its
users are block chains, where branches are forks and versions are blocks.

This directory holds TLA+ modules for it, the TLC configurations that check
them on small instances, and theorems proved with TLAPS for every instance.

    tlc -config MapxRawVs_snapshots.cfg MCMapxRawVs     # and the other .cfg files
    tlc -config MapxEngine_threads.cfg MCMapxEngine
    tlapm MapxRawVs_proofs.tla                          # and the other *_proofs.tla

`PROJECT.json` lists the runs with their modules, the findings, the hazards with
their lines, and for every definition the source lines it models.

## 1. The system

### Components

| Component | Code | State | Operations |
|---|---|---|---|
| Engines | `core/src/common/engines/rocks_db.rs`, `sled_db.rs` | column families / trees of raw keys with an 8-byte prefix per map; allocators of prefixes, branch ids and version ids; per-map lengths; the longest key length (RocksDB) | get, insert, remove, iter, range, flush, `alloc_*_id` |
| `Mapx` (engine-independent map) | `core/src/common/engines/mod.rs`, `core/src/basic/mapx_raw/mod.rs` | a prefix; entries and length live in the engine | get, get_mut, insert, entry, remove, iter, range, get_le, get_ge, clear, `clone` (copies the entries), `shadow` (same prefix) |
| **`MapxRawVs` (versioned map)** | `core/src/versioned/mapx_raw/backend.rs`, `mod.rs` | on disk: names of branches and versions to ids, branch to its versions, key to version to value; in memory: ids to names, version to change set, default branch | about 50: reads and writes by branch and version, `version_*`, `branch_*`, `prune` |
| `VsMgmt` trait, macros | `core/src/versioned/mod.rs` | none | the version and branch operations as an interface; forwarding to a versioned value, to an option of one, or to nothing |
| `derive(Vs)` | `derive/src/lib.rs` | none | one call fans out over the fields of a structure |
| `MapxRawMkVs` (versioned multi-key map) | `wrappers/src/versioned_multi_key/mapx_raw/*` | on disk: names, branches, version to change set (a tree of keys, with values); in memory: key to version to value | as `MapxRawVs`, and removal and iteration by key prefix |
| Multi-key maps | `wrappers/src/basic_multi_key/*` | nested maps | get, insert, remove by full or partial key, iteration |
| Vectors | `wrappers/src/basic/vecx*`, `wrappers/src/versioned/vecx` | a map from indices | push, pop, insert, remove, swap_remove, update, mutable references |
| Typed maps, `Orphan` | rest of `wrappers/src/basic`, `wrappers/src/versioned` | the raw map below | encode, forward, decode |
| Encodings | `wrappers/src/common/ende.rs` | none | keys to byte strings, values to bytes |
| Common | `core/src/common/mod.rs` | the engine (one per process), a pool of one thread for dropping old data, the data directory | reserved ids, base directory, flush |
| Tries | `utils/*` | | adapted third-party code |

### How they interact

A versioned map is made of four `Mapx` on disk and three maps in memory behind
read-write locks. All instances of a process share one engine, and so the
allocators of ids. `clone` makes a deep copy of the outer maps; `shadow` a
second handle on the same ones. Serializing an instance stores the prefixes of
its maps; deserializing derives the maps in memory from those on disk. Writers
take `&mut self`, so that two threads meet in a map only through handles that
`shadow` makes ("safe to use in a race-free environment"); they meet in the
engine all the time. `prune` and `version_clean_up_globally` take the locks of
the change sets with `try_write` and give up with "lock busy" (one time in
sixteen, at random, they wait). Dropped
data goes to the trash thread. Wrappers encode and forward; the derive macro
calls the same operation on each field of a structure, one after the other. The
multi-key map is a second copy of the versioned map's code, with what is on disk
and what is in memory exchanged.

### What is hard, and what makes each part correct

* **Versioned map.** The content of a version is spread over the layers of all
  older versions on its branch; branches share versions; six maps are redundant
  with one another; `prune`, `rebase`, `revert` and clean-up move and destroy
  values of versions that other branches may need. Correct if each branch looks
  to a reader like a line of full copies (`ImplementsSnapshots`), the redundant
  maps agree (`ChangeSetExact`, `NamesConsistent`, `VersionsKnown`), branches
  that meet have the same past (`SharedHistory`), versions that were given up
  never return (`OrphansStayOrphans`), and maintenance leaves what branches read
  as it was (`CompactKeepsHeads`, `PruneReserves`).
* **Multi-key map.** The same, with values kept twice, in change sets and in
  layers, and a removal by key prefix that reaches inherited keys in memory
  only. Correct if the two copies differ by marks and by nothing else
  (`ChangesInLayers`, `OnlyMarksInMemory`), no reorganisation or restart loses
  what is read (`ReorganiseKeepsValues`), and a removal removes what it says
  (`PrefixRemovalHides`).
* **Derive.** A call that fails in one field has changed the fields before it.
  Correct if a structure answers like one value (`LikeOneValue`), its fields
  stay in step (`AgreementKept`) and a call that fails changes nothing
  (`FailureAtomic`).
* **Vectors.** An operation in the middle is many calls of a map; the length of
  a versioned vector is that of the default branch whatever branch is asked for.
  Correct if each operation does what it does to a sequence (`ImplementsSeq`),
  what is assigned to an element is kept (`AssignmentKept`, which is false of
  `get_mut`), little is lost when an operation is cut short (`AtMostOneLost`),
  no version has a gap (`Dense`) and history is left alone (`HistoryKept`).
* **Mapx and engines.** Data and length are two separate writes; the length,
  the longest key length and the allocators are counters read and written back;
  mutable references write a copy back when dropped. Correct if the length is
  the number of entries (`LenAtRest`), a clone equals its source (`CloneEqual`),
  ids are fresh (`IdsFresh`), the end of a map is found (`LastIsGreatest`) and
  nobody waits for ever (`CallsReturn`).
* **Order.** All maps of an area are one sorted sequence of byte strings, and
  bounds are made by appending bytes. Correct if a range yields what is in it
  (`RangeExact`) and the order of bytes is that of the keys. For numbers it is
  so among those of the same sign (`NeighboursBySign`), and not across signs,
  although the code says it of signed integers too; see the observations.
* **Crashes.** One operation is many disk writes, in an order; a restart
  rebuilds the maps in memory from whatever was written. Correct if these agree
  (`RestartRecovers`), no version is left half there (`WholeVersions`), and
  branches that the operation is not about are left alone (`CutStaysLocal`).

## 2. The modules

| Module | Content |
|---|---|
| `Maps` | maps as functions: insert, remove (`Mapx`, `HashMap`, `BTreeMap` as the versioned maps use them) |
| `MapxRawVs` | the versioned map: state, every operation, invariants, action properties |
| `VersionedSnapshots` | abstract: a branch is a line of full snapshots |
| `MapxRawVsSnapshots` | the refinement mapping from the first to the second |
| `MapxRawVsDisk` | the disk writes of each operation of `MapxRawVs`, and a crash between any two |
| `MapxRawMk` | the tree of maps of a multi-key map, as operators |
| `MapxRawMkVs` | the versioned multi-key map: composes `MapxRawMk` and `MapxRawVs` |
| `VsParts` | every operation of `VsMgmt` on one versioned value by name, failures included |
| `VsDerive` | structures over fields of several kinds: composes instances of `VsParts` |
| `VecxVs` | the versioned vector, on `MapxRawVs` |
| `VecSeq` | abstract: a vector is a sequence |
| `Vecx` | vectors on disk, call by call of their map, shown to implement `VecSeq` |
| `MapxOrd` | byte order, key encoding and ranges on both engines |
| `MapxEngine` | `Mapx` on its engine: single accesses, threads, locks, crashes |
| `MC*` | instances for TLC: symmetry, small values |
| `Maps_proofs` | lemmas about maps and about the greatest of a set of numbers |
| `MapxRawVs_proofs` | theorems about the versioned map: types and histories; redundant maps; what readers see, and the refinement |
| `MapxRawMkVs_proofs`, `VsDerive_proofs`, `VecxVs_proofs`, `Vecx_proofs`, `MapxEngine_proofs`, `MapxOrd_proofs` | theorems about the module of the name |

### `MapxRawVs`

Variables have the names of the fields of `MapxRawVs` in `backend.rs`;
`next_br_id` and `next_ver_id` are the two allocators of the engine. Ids are
naturals; `usize::MAX` is a constant, so that wrapping can be met with small
numbers. A key, a value or a name is a model
value, and `NULL` is the empty value `[]` that marks a deletion.

One action is one API call, with everything it does:

| Action | Code (`backend.rs` unless said otherwise) |
|---|---|
| `Insert`, `Remove` | `insert_by_branch`, `remove_by_branch`, `write_by_branch_version` |
| `VersionCreate`, `VersionPop` | `version_create_by_branch`, `version_pop_by_branch` |
| `VersionRebase`, `VersionRevert` | `version_rebase_by_branch`, `version_revert_globally` |
| `BranchCreate`, `BranchCreateFails` | `branch_create*`, with or without a new version, from the newest or a named version, forced or not; the second is a forced call that fails after it removed the branch it replaces |
| `BranchRemove`, `BranchTruncate`, `BranchTruncateTo`, `BranchKeepOnly` | `branch_remove`, `branch_truncate*`, `branch_keep_only` |
| `BranchMergeTo`, `BranchMergeToForce` | `branch_merge_to*`, `do_branch_merge_to` |
| `BranchSetDefault`, `BranchSwap` | `branch_set_default`, `branch_swap` |
| `CleanUp`, `Prune` | `version_clean_up_globally`, `prune`, `do_prune` |
| `Clear`, `Restart` | `clear`; `Serialize`/`Deserialize` of `mod.rs` with the rebuilding in `backend.rs` |

Operations on the default branch are those on a branch with `default_branch` as
the argument; `Branches` holds the ids a name resolves to and the default id,
which may be that of a removed branch. Reads (`Get`, `GetByBranch`) are
operators. Loops of the code that move values version by version are set
expressions: `MergeInto` leaves the newest value because the loop runs upwards.
A call that fails without a change is no step.

`Next` leaves out two things on purpose. `branch_merge_to_force` carries the
warning that it corrupts other branches, so it is in `UnsafeSpec` only; the
invariants that survive it are checked there, with crashes (`DiskSpec`), and proved. `version_rebase` puts a
duty on its caller; it is taken within `RebaseDuty`, which is the duty the code
needs. The comment states a weaker one, see the observations below.

The code has error paths in the middle of clean-up, rebase, revert and prune
(`layered_kv.get(k)?`, `remove(ver)?`, a name that is not found). They are not
modelled as steps because `ChangeSetExact`, `NamesConsistent` and
`VersionsKnown` say that each of these lookups succeeds, and the runs `disk` and
`snapshots` check the three. `1 + reserved` wraps as in a release build; a debug build
panics there.

### `VersionedSnapshots` and the refinement

The abstract state is one variable, branch to version to complete content.
There are no layers, change sets, names or default branch. Its actions are a
user's view: write the newest version, create, go back, remove, revert, merge,
squash. `MapxRawVsSnapshots!content` computes it from the layers with the code's
own read, and the property `ImplementsSnapshots` says that every step of the
code is one of these or leaves all content alone. All steps but a write and a
revert are in `Rearrange`: after them every version shows what some version
showed before. Two places of the abstract
specification are looser than a plain copy, because the code is: a write to a
version that a second branch also has, below a newer version, shows there unless
the key was written again; and a revert uncovers, key by key, the content of the
version before or nothing.

### `MapxRawVsDisk`

`Disk` is what an instance has on disk: the four maps and the allocators. For
each operation an operator (`WriteRows`, `NewVersion`, `NewBranch`, `Truncated`,
`TruncatedTo`, `Removed`, `Merged`, `Swapped`, `Rebased`, `Reverted`,
`CleanedUp`, `Pruned`) is the sequence of the writes it makes, in the order of
the code, and `After` is the disk after a sequence of them. An operation is a
step of `MapxRawVs`, whole, or is cut short: `CutShort` makes some of the
writes, but not all, and derives the maps in memory as `Restart` does. That is
enough, without a state between two writes, because a map has one writer and
what is in memory is lost with the process. `WritesMakeTheStep` ties the two:
all the writes of an operation do on disk what its action in `MapxRawVs` does.
`cut` remembers what was cut short, for the properties. No action reads it, so
the run takes states that differ only in `cut` for one (`VIEW vars`); the
properties that mention `cut'` are properties of steps, and every step is checked.

A creation that is forced is a removal and a creation, `branch_keep_only` is
removals and a clean-up, and a prune is a clean-up and `Pruned`; each part is
cut short on its own. `clear`, which the code says is for testing, is not. The
row and the length of a `Mapx` are one write here; `MapxEngine` takes them
apart. Steps after a crash are explored where the derived maps agree
(constraint `Recovered`), since an operation of `MapxRawVs` is a step only
where its lookups succeed.

What a crash leaves:

* `RestartRecovers`: after a crash in a write of data, a merge, a truncation, a
  rebase, a revert, a clean-up or a prune the maps agree, so that later
  operations do not fail half-way. Creations, removals and swaps are the
  exceptions: between the two writes of a name and of what it names there is a
  version or branch without a name, a name without a branch, or one branch with
  two names.
* `WholeVersions`: where no values move, every version still on a branch reads
  as before. `branch_truncate_to` owes this to its descending order
  (B:1113). `branch_truncate` and with it `branch_remove` clear upwards, from the oldest
  version, and are left out: what is left of the branch reads otherwise.
* `CutStaysLocal`: branches that the operation is not about are untouched.
* A rebase, revert or prune moves values one by one and a crash can lose values;
  see the observations.

### `MapxRawMkVs`, with `MapxRawMk`

The code of the multi-key map for branches and versions is that of `MapxRawVs`,
copied, and so is the model: `Vs` is `MapxRawVs` with `ver_to_change_set`
replaced by `changed`, the keys of each change set. Each action is that of `Vs`,
and says in addition what becomes of the values in the change sets. What this
backend does otherwise is written out: `Write`, `BatchRemove` (a key that is too
short), `VersionRebase`, `Prune` and `Restart`, which builds `layered_kv` from
the change sets on disk. `MapxRawMk` has the operations of the tree of maps in
which a change set is kept. The tree is the function from its paths: a full path
leads to a value, a shorter one to a map (`SUBMAP`), which stays when a removal
leaves nothing in it.

### `VsParts` and `VsDerive`

A part is a versioned value without its data. `VsParts` has every operation of
`VsMgmt` by name, as an operator from a part to the part after the call and
whether it succeeded; a failed call may have changed the part. The sets of
versions are computed by the operators of `MapxRawVs`, which it instantiates at
the part. `VsDerive` gives a structure fields of the kinds the code
distinguishes (`versioned`, `nope` for types outside vsdb, `none` and `some` for
options), does each operation on each field until one fails (`FanOut`), and
answers questions as the macro does (`FirstOf`). The environment may fill an
option and may call an operation on one field alone.

### `VecxVs`

A versioned vector is a versioned map from indices, so the module extends
`MapxRawVs` and replaces the writes. `VecLen` is the length of the *default*
branch, which the code uses also where a branch is named. `WriteVec` asks two
duties of callers, and the run shows that they are enough: `OwnDuty`, to write
a branch only if its newest version is its own, and `LengthDuty`, to write it
only if it is as long as the default branch. Neither is in the code, which
checks nothing of the kind: without the first a write changes the history of
another branch, without the second it leaves a gap or overwrites an element,
and neither property says anything of those cases. `version_revert_globally` is left
out of `VecNext`: it takes the changes of a version out from below newer ones,
and a vector then has gaps.

### `Vecx`, with `VecSeq`

An operation of a vector is put down in `asked`, as its caller asked for it, and
fills `todo` with the calls of the map it will make; `MapCall` makes the next
one, and the last takes the operation out of `asked`. `rows` and `length` are what
is on disk at any moment. A vector is a `VecxRaw` or a `Vecx` (`typed`), which
differ in one thing: `get_mut` of a `Vecx` does not write back what was assigned.
`borrow` is the mutable reference there may be; Rust lets no operation begin
before it is dropped.

A caller of `VecSeq` asks for an operation (`Ask`), and the answer is what that
operation makes of the sequence (`Answer`): a step that changes nothing, or does
what another operation does, is no answer. `ImplementsSeq` maps `asked` to the
operation asked for, and `rows` to the sequence, as of the beginning of an
operation while that is under way. The assignment to what `get_mut` of a
`Vecx` returns is the one exception (`ToAssign`): it is not passed on to `VecSeq`
(`OfSeq`), so that `ImplementsSeq` says that it changes nothing. What its caller
expects is `AssignmentKept`, and that is the finding `claim_get_mut`. *Assumption*: a scan yields the rows as they
were when it began. RocksDB's iterators are snapshots. Sled promises less; that
a row which is written during an insertion's scan is not seen again is assumed.

### `MapxOrd`

Byte strings, their order, the encoding of numbers, and both engines' ranges:
the bounds they make of `Included`, `Excluded` and `Unbounded` ends, forwards
and backwards. A state is the rows of one area and the longest key length.
Iterators are sets here, since what matters is which rows lie between the
bounds; their order is that of the engine. `get_le`, `get_ge`, `first` and `last`
are the first item of such an iterator.

### `MapxEngine`

A call of a `Mapx` is a sequence of accesses to the engine, one action each, and
threads take turns between any two of them. `pc` says what a thread does next,
`call` holds its local variables. On disk are `entries` (rows of the data
areas), `len` (rows of the meta area), the allocators `next_id` and
`meta_keylen`; in memory are `max_keylen` and the locks. `issued` is a history
variable: the ids that were returned.

| Steps | Code |
|---|---|
| `KeyCall`, `ClearCall`, `NewCall`, `CloneCall`, `DropMut` | a user calls `insert`, `remove`, `get_mut`, `clear`, `new`, `alloc_ver_id`, `clone`; drops a `ValueMut` |
| `KeyLen`, `KeyLenMem`, `KeyLenDisk` | `RocksEngine::insert`, lines 299-301, and `set_max_key_len` |
| `Look`, `Put` | `get_cf`, then `put_cf` or `delete_cf` (RocksDB) |
| `Swap` | the single `insert` or `remove` of a sled tree |
| `LockLen`, `ReadLen`, `WriteLen` | `increase_instance_len`, `decrease_instance_len` |
| `NextKey`, `SetLenZero` | the loops of `clear` and `clone`, `set_instance_len(.., 0)` |
| `AllocLock`, `AllocRead`, `AllocWrite` | `alloc_prefix`, `alloc_ver_id`; `alloc_br_id` is the same again |
| `Crash` | the process ends, and `RocksEngine::new` |

*Keys.* Key `k` is the key of `k` bytes 0xFF. Such keys are ordered as numbers
are, their order is that of their lengths, and they are the ones a bound of too
few 0xFF bytes cuts off; any other key lies below every such bound of its length.

*Who may call.* `RaceFree` is what `shadow` asks for and `&mut` enforces: a call
begins only if it writes no row that a running one reads or writes. Threads may
work on different keys of the same map, which is what makes the length counter
interesting. A `ValueMut` keeps its row for itself until it is dropped.

*Crashes.* Each access of RocksDB is in its log when it returns, and the log has
the order of the accesses for all column families; a crash of the process
therefore keeps what was written and loses the rest. Sled writes its log in
intervals, so `Crash` is for RocksDB only.

*Numbers.* 2^64, 256^7, the first prefix (4,096,000,000) and the number of areas
are constants (`U64_MAX`, `FIRST_BYTE`, `RESERVED_ID_CNT`, `DATA_SET_NUM`), so
that wrapping and more than one area can be met with small numbers. The
theorems hold for all of them.

## 3. What is checked

| Run | Instance | Shows |
|---|---|---|
| `disk` | `DiskSpec`, 1 key, 1 value and the deletion mark, 2 branch names, 2 branch ids, 3 versions, a crash at any write; 19,454 states | `TypeOK`, `ChangeSetExact`, `OrphansStayOrphans` hold after any sequence of calls, forced merges and crashes included; `RestartRecovers`, `WholeVersions`, `CutStaysLocal`, `WritesMakeTheStep` |
| `snapshots` | `Spec`, 1 key, 1 value and the deletion mark, 3 branch ids and 2 versions or 2 and 3 (`FewIds`); 19,999 states | `ImplementsSnapshots`, `NamesConsistent`, `VersionsKnown`, `SharedHistory`, `CompactKeepsHeads`, `PruneReserves`, `MergeCatchesUp` |
| `mk` | 1 key of two parts, prefixes `<<>>`, `<<1>>` and one that fits no key, 1 value, 2 branch ids, 3 versions; 40,634 states | `TypeOK`, `ChangesInLayers`, `OnlyMarksInMemory`, `NamesKnown`, `ReorganiseKeepsValues`, `PrefixRemovalHides` |
| `derive` | fields: outside vsdb, versioned, option; 2 branch names, 3 branch ids, 2 versions; 17,173 states | `TypeOK`, `LikeOneValue`, `AgreementKept`, `FailureAtomic` |
| `vector_versions` | 2 indices, 1 value, 2 branch ids, 3 versions; 108,414 states | `Dense`, `HistoryKept` |
| `vector` | both vector types, 3 values, up to 5 elements; 67,422 states | `TypeOK`, `AtMostOneLost`, `ImplementsSeq` |
| `order` | bytes of one bit; maps of unsigned numbers, byte strings and signed numbers; 4,102 states | `TypeOK`, `RangeExact`, `NeighboursBySign` |
| `engine_threads` | sled, 2 threads, 2 keys, prefixes 1 and 2, 3 version ids, with fairness; 59,716 states | `LenAtRest`, `CloneEqual`, `IdsFresh`, `CallsReturn` |
| `engine_crash` | RocksDB, 1 thread and crashes; 42,597 states | `TypeOK`, `LastIsGreatest` |
| `claim_last`, `claim_iteration`, `claim_get_mut` | RocksDB, 2 threads; multi-key map, 2 versions; the instance of `vector` | the findings below |

*Bounds of the versioned maps.* Three versions are the least with which a prune
has an oldest version, one to merge and one to reserve; with which two branches
share a version and have one each; and with which the middle of three layers is
reverted. Three branch ids (`snapshots`) let a forced creation replace one branch
by a child of another; two suffice for everything that relates
two branches. The constraint `FewIds` stops where both the last branch id and the
last version id are given, so that `snapshots` takes a minute: a replacement is
met with two versions, a prune with two branches.
Keys do not interact except through change sets, which are compared per key, so
one key is enough for the content; a value and the deletion mark tell the older
of two writes from the newer. `USIZE_MAX` makes the reserve of a prune wrap.
`MaxBrId` and `MaxVerId` bound the allocators. The properties of `snapshots`
were also run once without `FewIds` (57,133 states), and once so with two values
(68,121 states), without an error. In `mk` a value and the deletion mark are the two writes to be told
apart; a key of two parts has prefixes that cover it and one that does not. A
vector of two indices has a first element, a last one, and a gap if the first
is missing.

*Bounds of a structure.* Fields that do nothing before and after the versioned
one, an option that is empty and filled later, and versioned fields that answer
differently once a call was made on one alone. The constraint `InStep` stops at
states in which fields disagree: the properties speak of calls made while they
agree, and each such call is checked, with the state it leads to. Two versions
are enough for names to be taken, lists to have an order and a prune to merge.

*Bounds of `Vecx`.* Five elements leave four to be moved by an operation, with
two calls of the map cut short anywhere between; three values tell a moved
element from a lost and a doubled one.

*Bounds of `MapxOrd`.* A byte of one bit has the two bytes the code writes itself, 0x00 and
the greatest; numbers have two bytes, so that a carry crosses a byte. The byte
keys are the empty one, one of a byte, and its two extensions, among them the one with
0x00 appended that the bounds are made of. The maps are neighbours in the store
and the one of byte strings lies between the others.

*Bounds of the engine.* Two threads are the least that can race, and each lock
is held by one and wanted by one; two keys are a shorter and a longer one, and
two rows of one map; two prefixes are a map and its clone. `U64_MAX = 2` is the
size of the greatest map, and wraps one step below zero. `FIRST_BYTE = 4` puts
both maps in the first area, as in practice: the area is the first byte of a
big-endian prefix, which is 0 for the first 2^56 of them. `MaxId` bounds both
allocators. Sled is the default engine of the wrappers. On RocksDB a call has more
steps, and two threads have ten times the states, too many to check liveness in:
there one thread is run with crashes (`engine_crash`), two in `claim_last`, and
`IdsFresh`, `LenAtRest` and `CloneEqual` are theorems for both engines and any number of
threads. `LastIsGreatest` is checked on RocksDB only; on sled an iteration sees
every row, by definition.

*Deadlock* is checked. *Fairness*: in all modules but `MapxEngine` none is
assumed and no liveness is claimed, since an operation runs to its end when it is
called and nothing obliges a user to call one. For `CallsReturn` of `MapxEngine`
(`FairSpec`), a thread in the code of the library goes on (weak fairness of
`CodeStep`, the scheduler of the operating system), and a thread that finds a
lock free again and again gets it (strong fairness of `LockLen` and
`AllocLock`), which parking_lot promises by handing a mutex over to the waiter
that slept too long. Weak fairness alone is not enough: TLC then finds a thread
that is passed over for ever. Nothing obliges a user to call or to drop a
reference.

`SYMMETRY` permutes version names, values and the branch names other than the
initial one in `MapxRawVs`, version names in the modules on top of it, values in
`Vecx`, and threads in `claim_last`, none of which the code compares; the run
that checks liveness has no symmetry.

### Findings

1. `claim_last`: threads that insert into different maps race for the longest
   key length, which every backward iteration on RocksDB starts from. Once it is
   too small, `last()` and `iter().rev()` miss the longest 0xFF keys of all maps,
   until a longer key is inserted. One thread alone is safe, crashes included
   (`engine_crash`).
2. `claim_get_mut`: what is assigned through `get_mut` of a `Vecx` is lost, since
   the write of the copy is commented out
   (`wrappers/src/basic/mapx_ord_rawkey/mod.rs:272`), while
   `wrappers/tests/basic_vecx_test.rs:55-56` asserts that it is read back. The same
   code serves `get_mut` of `Mapx`, `MapxOrd` and `MapxOrdRawKey`
   (`basic_mapx_test.rs:59` asserts it there).
3. `claim_iteration`: iteration over a versioned multi-key map passes over
   deletion marks and goes on to older versions, so it yields keys that `get`
   does not find.

### Observations

Met while modelling and not the subject of a run. B is
`core/src/versioned/mapx_raw/backend.rs`.

* After a pop of its newest version a branch writes to one its base branch has
  too, and changes history there, which the comment at B:256 says should be
  immutable (B:313). `OwnDuty` is the way round it, and the abstract write of
  `VersionedSnapshots` allows it.
* `KeyEnDeOrdered` is for keys whose "serialized order keep consistent with their
  original format" (`wrappers/src/common/ende.rs:270`), and signed integers have it
  in two's complement (`ende.rs:361`): negative keys come after all others, and
  `get_le`, `get_ge`, `first`, `last` and `range` of a map that holds both answer by
  that order. `NeighboursBySign` is about keys of one sign.
* A vector writes a branch at the length of the default branch
  (`wrappers/src/versioned/vecx/mod.rs:145`), and `last_by_branch` reads there:
  where the two lengths differ, a push leaves a gap or overwrites, and the read
  unwraps `None`. `LengthDuty` is the way round it.
* An option of a structure that is given a value late lacks the branches of the
  other fields (`core/src/versioned/mod.rs:1094`); `AgreementKept` is about calls while
  the fields agree.
* The default branch can be removed; `branch_get_default_name` then unwraps
  `None` (B:1265).
* Versions that a prune merged keep their names for ever (B:1434).
* The duty stated on `version_rebase_by_branch` (B:662) lets another branch have the
  base version itself, whose content the rebase then changes; `RebaseDuty` does not.
* A prune takes the merged versions off all branches before it moves their
  values (B:1434): after a crash between, these are orphans, and the next
  clean-up deletes what all branches read. A value that a rebase or prune moves
  is for a moment in no version (B:697, B:1447).
* A crash in `version_create`, `branch_create`, `branch_remove` or `branch_swap`
  leaves names that do not match (B:580, B:1005, B:1050, B:1304); `version_list`
  then unwraps `None`, and a name without a branch can be neither used nor
  removed. A crash in `branch_truncate` leaves the newer versions of the branch
  without the older ones (B:1090).
* A crash between the write of a row and that of the length leaves a wrong
  length for ever (`core/src/common/engines/mod.rs:219`); `do_prune` trusts
  `is_empty`, which is `len == 0`. A length that is too small wraps later.
* `NULL_ID` lies in the range that is allocated (B:1507), 40,959,999 allocations
  from its start.
* The fields of a structure come apart when a prune of `usize::MAX` or a forced
  creation fails in the middle; the assertion in `branch_get_default`
  (`derive/src/lib.rs:1506`) may then fail.
* Of an option, `version_list` and `version_list_by_branch` drop the list
  (`core/src/versioned/mod.rs:1170`), and `branch_is_empty`,
  `version_has_change_set` and the trie root drop the answer.
* A removal in a vector that is cut short leaves a length that is the index of
  its last element: the next push overwrites it (`wrappers/src/basic/vecx_raw/mod.rs:115`).
* `Vec<int>::into_bytes` transmutes a vector and leaves its length (`wrappers/src/common/ende.rs:382`); a big number is
  written into an empty buffer (`ende.rs:485`).
* An iterator of RocksDB that is used from both ends yields every entry twice
  (`core/src/common/engines/rocks_db.rs:346`).

## 4. What is proved

`MapxRawVs_proofs`, for every set of keys, values and names, every bound, and
every `USIZE_MAX` in `Nat`. Assumptions: `NullAssumption` (the
empty value is no other value), `MasterAssumption` (the initial branch name is a
name), `NumberAssumption` (the three numbers are naturals).

| Theorem | Statement |
|---|---|
| `TypeCorrect` | `UnsafeSpec => [](TypeOK /\ HaveChangeSets)` |
| `SharedHistoryHolds` | `Spec => []SharedHistory` |
| `MergeTakesAll` | `Spec => MergeCatchesUp` |
| `OrphansNeverReturn` | `UnsafeSpec => OrphansStayOrphans` |
| `NamesConsistentHolds` | `UnsafeSpec => []NamesConsistent` |
| `VersionsKnownHolds` | `UnsafeSpec => []VersionsKnown` |
| `ChangeSetExactHolds` | `UnsafeSpec => []ChangeSetExact` |
| `HeadsKept` | `Spec => CompactKeepsHeads` |
| `PruneReservesHolds` | `Spec => PruneReserves` |
| `SnapshotsImplemented` | `Spec => ImplementsSnapshots` |

*Types and histories.* `TypeOK` alone is not inductive: the type of the change sets
after a prune needs that the version it merges into has one, which is
`HaveChangeSets`; the two are proved together, action by action (lemmas
`...Type` and `...Have`). Both survive a forced merge. `SharedHistory` does not,
and is proved for `Spec`. Most actions only take versions off branches, from the
top, from all branches at once, or wholly; lemmas `...Shared` show that each of
these keeps prefixes equal. A new version is newer than all others, by `TypeOK`.
A merge that `branch_merge_to` allows makes the target equal to the source: with
`SharedHistory`, the newest version of the target being on the source makes all
of the target an initial part of the source. That lemma is also the heart of
`MergeTakesAll`: it is why the code may compare newest versions only. `RebaseDuty` is what
keeps `SharedHistory` under a rebase. `OrphansNeverReturn` goes through the
actions and shows of each that the versions on branches afterwards were on one
before, or come from the allocator; it needs no invariant but types.

*Redundant maps.* The inductive invariant is `DataInv`, the conjunction of
`TypeOK`, `VersionsKnown`, `NamesConsistent` and `ChangeSetExact`. Names and ids
are a map and the map `Back`; a name is entered with an id that the allocator has
not given (`InsertBack`), and ids are taken out with the names they have
(`RemoveBack`). Change sets are `Exact` with respect to the layers, and an
operation on values does one of four things to the two: it writes one value, takes
out all values of some versions (`Without`, clean-up and revert), moves the
values of some versions into another (`Moved`, rebase and prune), or takes the
deletion marks out of the oldest version (`Lost`, prune). Each is
shown once, as a lemma about functions, to keep exact what was exact. The three together are why the
error paths in the middle of operations, left out of the model, are dead code.

*What readers see.* A read is expressed by `Shown`: of the values of a key, the
newest in a set of versions. All that a compaction does is then three facts
about `Shown`. Values of versions outside the set do not matter
(`PurgeShows`: clean-up). If the versions `M` come next after `to` (`Follow`),
then moving their values there, newest last, shows the same to every set that has `to`
and all of `M` (`ShownMoved`: rebase and prune). And a deletion mark in the oldest
version shows what no value shows (`ShownWithoutNull`: prune drops them). That the
versions of a prune do follow the oldest on every branch is `PrunePlace`, which rests on
`SharedHistory`, and of a rebase `RebasePlace`, which rests on `RebaseDuty`.
`HeadsKept` is these at the newest version. The refinement needs them at every
version that remains: `Merges` says it for each initial part of a branch, and one
lemma for each kind of step of the snapshots (`GoBackStep`, `WriteShows`,
`CreateVersionShows`, `CreateBranchShows`, `RemoveShows`, `RevertShows`,
`MergeShows`, `SquashShows`) takes it from there; `NextRefines` goes through the
actions, with `DataInv` and `SharedHistory`.

`MapxRawMkVs_proofs`, for every `key_size`, every set of keys of that many parts,
every set of prefixes and values, and every bound. Assumptions: `KeySizeAssumption`
(there is at least one part, a key has as many parts as the map says, a prefix
fewer) and `NumberAssumption` (`USIZE_MAX` is a natural number).

| Theorem | Statement |
|---|---|
| `TypeCorrect` | `Spec => []TypeOK` |
| `NamesKnownHolds` | `Spec => []NamesKnown` |
| `ChangesInLayersHolds` | `Spec => []ChangesInLayers` |
| `OnlyMarksInMemoryHolds` | `Spec => []OnlyMarksInMemory` |
| `PrefixRemovalHidesHolds` | `Spec => PrefixRemovalHides` |
| `ReorganiseKeepsValuesHolds` | `Spec => ReorganiseKeepsValues` |

*The argument.* Here change sets and layers need not say the same, as a removal by
prefix marks keys in memory only, so `ChangeSetExact` is replaced by two
inclusions. The inductive invariant `Inv` is `Versions` (ids are allocated, names
lead back and forth, versions on branches have change sets and those have names)
and `Data`: the change sets are trees over the keys (`TreesOf`), the layers have
what the change sets have, with the same values (`Agrees`), and what they have
beyond that of versions on branches are marks (`MarksBeyond`). The last speaks of
branches only: a version that a pop has left behind is nobody's to read. It is
inductive because no call takes a key out of a change set and leaves its value in
the layers, and because a version on no branch never comes back to one.

The calls are of five sorts, and each sort is shown once to keep `Inv`: those that
only move versions or names (`Moves`), those that create a version (`Creates`),
those that put keys into one version and take whole versions out (`Puts`, for
writes, removal by prefix, rebase and prune), those that take versions out
(`Drops`, for clean-up and revert), and a restart. Change sets are trees, so
`InsertKeys` and `RemoveKeys` say what their operations do to the keys at full
depth: maps of lower levels that are created or left empty do not matter.

What a branch reads is `Seen`: the value of the newest version of its line that has
the key, or the mark. `JoinSees` is the heart of rebase and prune: putting the
newest values of some versions into the version that directly precedes them shows
the same to a branch that has all of these (`Upon`), which `RebaseDuty` gives for a
rebase and counting gives for a prune (`PruneUpon`: the versions to merge are among
the oldest of every branch), and to one that has neither (`Beside`). A
restart keeps only what is in change sets. By `MarksBeyond` it loses marks and
never a value, and a mark that is lost can hide no value that was read: hence the
property is about keys that a branch reads a value of.

`VecxVs_proofs`, with the assumption `IndexAssumption` (keys are the indices below
a bound) besides:

| Theorem | Statement |
|---|---|
| `VecIsMap` | `VecSpec => Spec` |
| `DenseHolds` | `VecSpec => []Dense` |
| `HistoryKeptHolds` | `VecSpec => HistoryKept` |

*The argument.* A step of a vector is one of the map, so that all that is
proved of `MapxRawVs` holds of vectors. A write replaces one index in one version (`WritesShow`, where
`OwnDuty` makes it one), and `LengthDuty` makes that index the next, the last or
one in use. Every other step is a `Rearrange` of the snapshots, by the lemmas of the
refinement, and then every version shows what one showed before
(`NothingNew`): no gap can come of it. A revert is no such step, which is why it
makes gaps.

`MapxEngine_proofs`, for every set of threads, every finite set of keys, both
engines and all numbers. Assumptions: `ThreadAssumption` (the holder of a free
lock is no thread), `KeyAssumption` (keys are finitely many lengths, no more
than `U64_MAX`), `EngineAssumption` (the types of the other constants).

| Theorem | Statement |
|---|---|
| `EngineTypeCorrect` | `CrashSpec => []TypeOK` |
| `IdsFreshHolds` | `CrashSpec => []IdsFresh` |
| `LenAtRestHolds` | `Spec => []LenAtRest` |
| `CloneEqualHolds` | `Spec => []CloneEqual` |
| `LastIsGreatestHolds` | `CrashSpec => []LastIsGreatest`, if the engine is sled or there is one thread |

*The argument.* The inductive invariant `IdInv` adds to `TypeOK` what the locals
of a thread are at each label (`LocalsOK`: a length that is about to be written
was read within its width, the map of a call exists), and `IdsOK`: issued ids
and prefixes of maps lie below the next id; whoever has read the next id holds
the lock, and it is still the next one; and the prefix of a map in the making
belongs to no other thread. Steps that only move one thread are covered by
`GotoKeeps`; a crash drops all locals, so it cannot break what is on disk.

`LenAtRest` needs more, and holds only without crashes and with an environment
whose calls do not write each other's rows (a crash between the two
writes breaks it for ever). A thread writes a row first and the length later, so at most moments the
length of a map is not the number of its rows. `LenInv` says what it is then:
the number of the keys in `Counted`, which are those of the rows with each
`Pending` key, one whose row is written and not yet counted, switched over. It
adds to `IdInv` that running calls are `Disjoint`, what a thread knows at its
label (`KnowsAt`: a length read under the lock of the area is still the length;
the row is as the thread saw or left it; a clear has all remaining rows before
it), and leaves out maps that are being cleared, whose length is wrong until
`set_instance_len` at the end. `SteppedCount` shows that a count takes one key into or
out of `Counted`, and that the length does not wrap, because there are at most
`U64_MAX` keys. With no call at work on a map, nothing is pending and `Counted`
is the set of its rows.

For `CloneEqual`, `CopyInv` adds to `LenInv` that what a clone has yet to insert is what
its map lacks of the source (`CopiedOK`). Other threads do not disturb it, because the rows
that a clone writes are all of its map and those it reads all of the source, and
calls are `Disjoint`. At the end nothing is pending, and the lengths agree as the rows do.

`LastIsGreatest` is false with two threads on RocksDB, which is the first finding; hence
the hypothesis of the theorem. It says something of RocksDB only. One thread records the length of a key in memory and then on
disk before it writes the row (`LongestAt`), so that a crash between leaves a
bound that is too great but never one that is too small. Sled needs no bound.

`MapxOrd_proofs`, for every width of a byte (`BYTE_MAX`), every set of maps, of
any types, whose prefixes have one length, and every set of byte keys, finite or
not. Assumptions: `ByteAssumption`, `MapsAssumption`, `KeyAssumption`,
`TypeAssumption` (the types of the constants). Numbers have two bytes.

| Theorem | Statement |
|---|---|
| `OrdTypeCorrect` | `Spec => []TypeOK` |
| `RangesHold` | `Spec => []RangeExact` |
| `NeighboursHold` | `Spec => []NeighboursBySign` |

*The argument.* `TypeOK` is inductive and all that the other two need: every row
is that of a key of a map, and the key is no longer than the longest so far. A
row determines its map and key, since prefixes have one length (`RowOfKey`), and
a common prefix does not count in the order (`PrefixLess`). Two facts carry the
bounds the engines make. The string that follows a key directly is the key with
a zero byte appended, so that what begins or ends there excludes just the key
(`Successor`). And a string of greatest bytes as long as the longest key is
below no key of the map (`Highest`), so that a backward iteration that begins
there misses nothing. For numbers, division with remainder has one result, the
order of two-byte strings is that of the words they stand for (`WordOrder`), and
the encoding keeps it among numbers of one sign (`NumberOrder`); the least and
the greatest key of a range are then the neighbours.

`Vecx_proofs`, for every set of values and every `MaxLen` in `Nat`
(`BoundAssumption`).

| Theorem | Statement |
|---|---|
| `VecTypeCorrect` | `Spec => []TypeOK` |
| `AtMostOneLostHolds` | `Spec => []AtMostOneLost` |
| `SequenceImplemented` | `Spec => ImplementsSeq` |

*The argument.* `VecInv` says where an operation is. At rest nothing is asked, and
the rows are those of a sequence, `Elements`, without a gap. Otherwise `Underway` says
of the one operation that is asked for that the rows and the calls that are left are
those of one of five ways: one call is left
(`OneCall`); an insertion has moved the elements from `a` up (`MovingUp`); a
removal has begun (`Removing`), or moved those up to `a` down (`MovingDown`); a swap
has removed none, one or both ends (`Swapping`). In each the rows are given index
by index as a function of the vector before, so that a call takes each to itself
with another `a`, to the next or to the end (`CallLeads`). At the end the rows are
those of what the operation makes of the vector before (`Made`, `Done`), which is its
`Result` in `VecSeq`, but for the assignment through `get_mut` of a `Vecx`, which makes
nothing of it. `StepImplements` takes it from there: to begin an operation is to
`Ask`, its last call is the `Answer`, and every other step is a stutter. `AtMostOneLost`
is read off: in each way a function that takes no two elements to one row `Finds` all
elements that are to be kept, but for one.

`VsDerive_proofs`, for every number of fields of any kinds, every set of names and
every `USIZE_MAX`. Assumption: `KindsAssumption` (the fields are a sequence of the
three kinds). `LikeOneValue` needs a field that is versioned and no option, as an
option drops its list of versions.

| Theorem | Statement |
|---|---|
| `TypeCorrect` | `Spec => []TypeOK` |
| `FailureAtomicHolds` | `Spec => FailureAtomic` |
| `AgreementIsKept` | `Spec => AgreementKept` |
| `AnswersLikeOneValue` | `Spec => []LikeOneValue`, if some field is of kind `"versioned"` |

*The argument.* `PartInv` adds to `PartOK` that no two names mean one branch or
version; every operation of the trait keeps it (lemmas `...Inv`). Two parts are
`Alike` if they have the same names, in the same order, the same versions on
branches of the same name, and the same default branch; `ViewIsAlike` shows that this
is what a user can tell. Their ids need not be the same, as a field may have had
failed creations, and calls, of its own. What the operations compute from ids must
therefore depend on nothing but names and order: which version is the newest
(`SameNewest`), which are up to one (`SameUpTo`), the common prefix that a merge
starts from (`SameMerged`), and the versions old enough to be pruned, which are
found by counting (`SameMergeable`). From these, each operation `Matches` itself: on
two parts that are alike it succeeds on both, and leaves them alike, or fails on
both. Each but a prune and a forced creation does nothing when it fails (`Kept`).
`FanOutGood` puts the fields together: if one field that has versions fails, so would all,
and the first to be called has changed nothing. A rebase is within the duty of
its caller (`InDuty`).

*Model-checked only.* What `MapxRawVsDisk` says of crashes (`RestartRecovers`,
`WholeVersions`, `CutStaysLocal`, `WritesMakeTheStep`, and the invariants with
crashes): the state after a crash is a fold over the first of the writes of an
operation, and what a fold over a log of any length computes needs induction over
data. The refinement of steps that end without a crash is proved, in
`MapxRawVs_proofs`. `CallsReturn` of the engine, being liveness.

## 5. Not modelled, and why

* Other instances that share the allocators: they only make ids skip numbers.
* Of the versioned maps: `clone` and `shadow` with their aliases, threads and
  the locks of `do_prune`: planned, below. Crashes between the disk writes of
  the multi-key map, whose order is that of `MapxRawVs` but for the values.
* Iterators of the versioned map. They yield nothing for the branch or version
  whose id is `NULL_ID`, which the allocators do not skip.
* Versioned typed maps, two- and three-key maps and the orphan value: each call
  encodes its arguments, makes the same call on `MapxRawVs`, `MapxRawMkVs` or
  `MapxRaw`, and decodes the result. There is no state or control of their own.
* Values, and strings, arrays and big numbers as keys: the encoding is serde's
  or the bytes themselves.
* Of the engine: flush, what a crash of sled or of the whole machine loses.
  `entry` and the mutable iterators are made of calls that are modelled.
* Iterators that are advanced from both ends at once, and beside writers.
* The data directory, logging, statistics: pure input and output.
* The trie utilities: adapted third-party code.

## 6. Plan

Done: `MapxRawVs` with its refinement, `VecxVs`, `Vecx` with `VecSeq`, `VsDerive`
with `VsParts`, `MapxOrd` and `MapxRawMkVs`, each with theorems for all its properties;
`MapxEngine` with theorems and liveness; `MapxRawVsDisk`.

Left, in this order:

1. Theorems about crashes: `WritesMakeTheStep` and `CutStaysLocal` of
   `MapxRawVsDisk`.
2. `MapxRawVsHandles`: `clone`, `shadow`, the locks of `do_prune`, readers
   beside a prune. Properties: no deadlock, no read of a half-pruned state.

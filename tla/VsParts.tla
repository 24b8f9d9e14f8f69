------------------------------- MODULE VsParts -------------------------------
(***************************************************************************)
(* The operations of trait VsMgmt on one versioned value, by name, as the  *)
(* user of the trait sees them (core/src/versioned/mapx_raw/mod.rs).       *)
(*                                                                         *)
(* A part is the state of one versioned value without its data: which      *)
(* branches and versions there are and how they are named.  Each operation *)
(* that changes a part is an operator that returns the part after the call *)
(* and whether the call succeeded; a failed call may have changed the part *)
(* already.  The algorithms on version sets are those of MapxRawVs.        *)
(***************************************************************************)
EXTENDS Maps, Integers, FiniteSets, FiniteSetsExt

CONSTANTS BrName, VerName, MASTER, USIZE_MAX   \* see MapxRawVs

\* A new value: the initial branch, without a version.
New == [default  |-> 0,                             \* id of the default branch
        brs      |-> MapInsert(EmptyMap, MASTER, 0),    \* branch name -> id
        vers     |-> MapInsert(EmptyMap, 0, {}),        \* branch id -> version ids
        names    |-> EmptyMap,                          \* version name -> id
        chgsets  |-> {},                \* ids of the versions with a change set
        next_br  |-> 1,
        next_ver |-> 0]

\* MapxRawVs at part p; what reads its data is not used here.
Of(p) == INSTANCE MapxRawVs WITH
    Key <- {}, Value <- {}, NULL <- "none", MaxBrId <- 0, MaxVerId <- 0,
    default_branch <- p.default, br_name_to_br_id <- p.brs,
    br_id_to_br_name <- AntiFunction(p.brs), br_to_its_vers <- p.vers,
    ver_name_to_ver_id <- p.names, ver_id_to_ver_name <- AntiFunction(p.names),
    ver_to_change_set <- [v \in p.chgsets |-> {}], layered_kv <- EmptyMap,
    next_br_id <- p.next_br, next_ver_id <- p.next_ver

Vers(p, b) == Of(p)!Vers(b)

\* The names of the versions S.
NamesOf(p, S) == {n \in DOMAIN p.names : p.names[n] \in S}

-----------------------------------------------------------------------------
(***************************************************************************)
(* Results, and the resolution of names.                                   *)
(***************************************************************************)
Done(p)   == [ok |-> TRUE, part |-> p]
Failed(p) == [ok |-> FALSE, part |-> p]

\* branch_get_id_by_name, version_get_id_by_name: Op is for the id of name n.
OnBranch(p, n, Op(_))  == IF n \in DOMAIN p.brs THEN Op(p.brs[n]) ELSE Failed(p)
OnVersion(p, n, Op(_)) == IF n \in DOMAIN p.names THEN Op(p.names[n]) ELSE Failed(p)

(***************************************************************************)
(* Versions.                                                               *)
(***************************************************************************)
AddVersion(p, b, n) ==
    IF n \in DOMAIN p.names \/ b \notin DOMAIN p.vers THEN Failed(p)
    ELSE Done([p EXCEPT !.vers[b] = @ \cup {p.next_ver},
                        !.names = MapInsert(@, n, p.next_ver),
                        !.chgsets = @ \cup {p.next_ver},
                        !.next_ver = @ + 1])

version_create(p, n)              == AddVersion(p, p.default, n)
version_create_by_branch(p, n, b) == OnBranch(p, b, LAMBDA i : AddVersion(p, i, n))

SetVers(p, b, S) ==
    IF b \in DOMAIN p.vers THEN Done([p EXCEPT !.vers[b] = S]) ELSE Failed(p)

Pop(p, b) == SetVers(p, b, {v \in p.vers[b] : ~Of(p)!IsLast(v, p.vers[b])})

version_pop(p)              == Pop(p, p.default)
version_pop_by_branch(p, b) == OnBranch(p, b, LAMBDA i : Pop(p, i))

\* The versions S and their names are gone.
Forget(p, S) == [p EXCEPT !.chgsets = @ \ S, !.names = MapRemove(@, NamesOf(p, S))]

Rebase(p, base, b) ==
    LET newer == Of(p)!Newer(b, base)
    IN  IF base \notin Vers(p, b) THEN Failed(p)
        ELSE Done([Forget(p, newer) EXCEPT !.vers[b] = @ \ newer])

version_rebase(p, n) == OnVersion(p, n, LAMBDA v : Rebase(p, v, p.default))
version_rebase_by_branch(p, n, b) ==
    OnVersion(p, n, LAMBDA v : OnBranch(p, b, LAMBDA i : Rebase(p, v, i)))

\* A version that a prune merged has a name still, but no change set.
version_revert_globally(p, n) ==
    OnVersion(p, n, LAMBDA v :
        IF v \notin p.chgsets THEN Failed(p)
        ELSE Done([Forget(p, {v}) EXCEPT !.vers = [b \in DOMAIN @ |-> @[b] \ {v}]]))

\* Faulty variant of CleanedUp: the other branches are not looked at.
CleanedUpDefault(p) == Forget(p, p.chgsets \ Vers(p, p.default))

CleanedUp(p)                 == Forget(p, p.chgsets \ UNION Range(p.vers))
version_clean_up_globally(p) == Done(CleanedUp(p))

(***************************************************************************)
(* Branches.                                                               *)
(***************************************************************************)
WithoutBranches(p, S) ==
    [p EXCEPT !.vers = MapRemove(@, S),
              !.brs  = MapRemove(@, {n \in DOMAIN @ : @[n] \in S})]

branch_remove(p, n) == OnBranch(p, n, LAMBDA b : Done(WithoutBranches(p, {b})))

\* do_branch_create_by_base_branch_version: branch n, from version `base` of
\* branch b, with a version `name` on top; both are sets of at most one.
Create(p, n, name, b, base, force) ==
    LET q    == IF force THEN branch_remove(p, n).part ELSE p
        made == [q EXCEPT !.brs = MapInsert(@, n, q.next_br),
                          !.vers = MapInsert(@, q.next_br,
                                     UNION {Of(q)!UpTo(q.vers[b], v) : v \in base}),
                          !.next_br = @ + 1]
    IN  IF n \in DOMAIN q.brs \/ ~(base \subseteq Vers(q, b)) \/ b \notin DOMAIN q.vers
        THEN Failed(q)
        ELSE IF name = {} THEN Done(made)
             ELSE AddVersion(made, q.next_br, CHOOSE m \in name : TRUE)

\* Faulty variant of CreateFrom: the branch is made first.
CreateFromUnchecked(p, n, name, b, base, force) == Create(p, n, name, b, base, force)

\* The name of the version is looked at before the branch is made.
CreateFrom(p, n, name, b, base, force) ==
    IF name \cap DOMAIN p.names # {} THEN Failed(p)
    ELSE Create(p, n, name, b, base, force)

\* The base version is the newest of the base branch, if that has any.
CreateOn(p, n, name, b, force) ==
    IF b \notin DOMAIN p.vers THEN Failed(p)
    ELSE CreateFrom(p, n, name, b, {v \in p.vers[b] : Of(p)!IsLast(v, p.vers[b])}, force)

branch_create(p, n, m, force) == CreateOn(p, n, {m}, p.default, force)
branch_create_by_base_branch(p, n, m, bn, force) ==
    OnBranch(p, bn, LAMBDA b : CreateOn(p, n, {m}, b, force))
branch_create_by_base_branch_version(p, n, m, bn, bv, force) ==
    OnBranch(p, bn, LAMBDA b :
        OnVersion(p, bv, LAMBDA v : CreateFrom(p, n, {m}, b, {v}, force)))
branch_create_without_new_version(p, n, force) == CreateOn(p, n, {}, p.default, force)
branch_create_by_base_branch_without_new_version(p, n, bn, force) ==
    OnBranch(p, bn, LAMBDA b : CreateOn(p, n, {}, b, force))
branch_create_by_base_branch_version_without_new_version(p, n, bn, bv, force) ==
    OnBranch(p, bn, LAMBDA b :
        OnVersion(p, bv, LAMBDA v : CreateFrom(p, n, {}, b, {v}, force)))

\* All names are resolved before a branch is removed.
branch_keep_only(p, ns) ==
    IF ~(ns \subseteq DOMAIN p.brs) THEN Failed(p)
    ELSE Done(CleanedUp(WithoutBranches(p, Range(p.brs) \ {p.brs[n] : n \in ns})))

branch_truncate(p, n) == OnBranch(p, n, LAMBDA b : SetVers(p, b, {}))
branch_truncate_to(p, n, m) ==
    OnBranch(p, n, LAMBDA b :
        OnVersion(p, m, LAMBDA v : SetVers(p, b, Of(p)!UpTo(p.vers[b], v))))
branch_pop_version(p, n) == OnBranch(p, n, LAMBDA b : Pop(p, b))

Merge(p, b, t) == SetVers(p, t, Of(p)!MergedVers(p.vers[b], p.vers[t]))

\* The newest version of the target must be on the branch merged into it.
branch_merge_to(p, n, tn) ==
    OnBranch(p, n, LAMBDA b : OnBranch(p, tn, LAMBDA t :
        IF \A h \in p.vers[t] : Of(p)!IsLast(h, p.vers[t]) => h \in p.vers[b]
        THEN Merge(p, b, t) ELSE Failed(p)))
branch_merge_to_force(p, n, tn) ==
    OnBranch(p, n, LAMBDA b : OnBranch(p, tn, LAMBDA t : Merge(p, b, t)))

branch_set_default(p, n) == OnBranch(p, n, LAMBDA b : Done([p EXCEPT !.default = b]))

branch_swap(p, m, n) ==
    OnBranch(p, m, LAMBDA i : OnBranch(p, n, LAMBDA j :
        Done([p EXCEPT !.brs = MapInsert(MapInsert(@, m, j), n, i),
                       !.default = CASE @ = i -> j [] @ = j -> i [] OTHER -> @])))

\* Cleans up before it looks at the number of versions to reserve, whose sum
\* with one wraps.
prune(p, num) ==
    LET reserved == (1 + num) % (USIZE_MAX + 1)
        q        == CleanedUp(p)
        merged   == Of(q)!Mergeable(reserved)
    IN  IF reserved = 0 THEN Failed(q)
        ELSE Done([q EXCEPT !.vers = [b \in DOMAIN @ |-> @[b] \ merged],
                            !.chgsets = @ \ merged])

-----------------------------------------------------------------------------
(***************************************************************************)
(* Questions.                                                              *)
(***************************************************************************)
IdOf(f, n) == {f[m] : m \in {n} \cap DOMAIN f}

version_exists(p, n) == IdOf(p.names, n) \cap Vers(p, p.default) # {}
version_exists_on_branch(p, n, b) ==
    \E i \in IdOf(p.brs, b) : IdOf(p.names, n) \cap Vers(p, i) # {}
version_exists_globally(p, n) == IdOf(p.names, n) \cap p.chgsets # {}
branch_exists(p, n)           == n \in DOMAIN p.brs
branch_has_versions(p, n)     == \E b \in IdOf(p.brs, n) : Vers(p, b) # {}

\* The lists, as sets of names; the first two may fail.
version_list(p) ==
    [ok |-> p.default \in DOMAIN p.vers, names |-> NamesOf(p, Vers(p, p.default))]
version_list_by_branch(p, n) ==
    [ok |-> n \in DOMAIN p.brs,
     names |-> UNION {NamesOf(p, Vers(p, b)) : b \in IdOf(p.brs, n)}]
version_list_globally(p) == NamesOf(p, p.chgsets)
branch_list(p)           == DOMAIN p.brs

\* The name of the default branch; empty where the code unwraps no name and panics.
branch_get_default(p) == {n \in DOMAIN p.brs : p.brs[n] = p.default}
=============================================================================

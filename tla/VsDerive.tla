------------------------------- MODULE VsDerive -------------------------------
(***************************************************************************)
(* A structure that derives Vs (derive/src/lib.rs): every operation of     *)
(* VsMgmt is done on its fields, one after the other, until one fails.     *)
(*                                                                         *)
(* A field is a versioned value, a value of a type outside vsdb, for which *)
(* all operations do nothing and succeed, or an option of a versioned      *)
(* value (core/src/versioned/mod.rs).  Nothing keeps the fields in step    *)
(* but that the same calls are made on all of them.                        *)
(***************************************************************************)
EXTENDS Maps, Integers, Sequences, FiniteSets, FiniteSetsExt

CONSTANTS
    BrName, VerName, MASTER, USIZE_MAX,   \* see MapxRawVs
    Kinds,                \* the fields in order: "versioned", "nope" or "none"
    MaxBrId, MaxVerId     \* bounds on the ids each field allocates

ASSUME KindsAssumption == Kinds \in Seq({"versioned", "nope", "none"})

VARIABLES
    fields,   \* the structure: for each field its kind and part
    call,     \* what the last call was: "plain", "forced", "prune" or "other"
    ok        \* whether it succeeded

vars == <<fields, call, ok>>

P == INSTANCE VsParts

-----------------------------------------------------------------------------
(***************************************************************************)
(* One field.                                                              *)
(***************************************************************************)
\* An option that is filled is of kind "some", one that is not of kind "none".
Present(f) == f.kind \in {"versioned", "some"}

\* A value outside vsdb: nothing is done, and that succeeds.
Nope(f) == [ok |-> TRUE, field |-> f]

\* A versioned value, in an option or not: the call is passed on; r is what
\* becomes of the part and whether the call succeeds.
Forwarded(f, r) == [ok |-> r.ok, field |-> [f EXCEPT !.part = r.part]]

OnField(f, r) == IF Present(f) THEN Forwarded(f, r) ELSE Nope(f)

\* Questions of a field, with the answer its part gives: what is not there has
\* every version and branch, and lists nothing.
Holds(f, q)  == Present(f) => q
Names(f, l)  == IF Present(f) THEN l ELSE {}
Listed(f, l) == IF Present(f) THEN l ELSE [ok |-> TRUE, names |-> {}]

\* version_list and version_list_by_branch of an option: the list is asked for,
\* and dropped.
ListedOption(f, l) == IF f.kind = "some" THEN [l EXCEPT !.names = {}] ELSE Listed(f, l)

(***************************************************************************)
(* All fields.                                                             *)
(***************************************************************************)
\* Faulty variant of FanOut: the last field is left out.
FanOutButLast(s, r) ==
    [ok     |-> \A i \in DOMAIN s : r[i].ok,
     fields |-> [i \in DOMAIN s |-> IF i < Len(s) THEN r[i].field ELSE s[i]]]

\* The structure after a call, where r is what each field answers when it is
\* reached: no field before it has failed.
FanOut(s, r) ==
    [ok     |-> \A i \in DOMAIN s : r[i].ok,
     fields |-> [i \in DOMAIN s |->
                   IF \A j \in 1 .. i - 1 : r[j].ok THEN r[i].field ELSE s[i]]]

OnAll(s, Op(_)) == FanOut(s, [i \in DOMAIN s |-> OnField(s[i], Op(s[i].part))])

version_create(s, n) == OnAll(s, LAMBDA p : P!version_create(p, n))
version_create_by_branch(s, n, b) ==
    OnAll(s, LAMBDA p : P!version_create_by_branch(p, n, b))
version_pop(s)              == OnAll(s, P!version_pop)
version_pop_by_branch(s, b) == OnAll(s, LAMBDA p : P!version_pop_by_branch(p, b))
version_rebase(s, n)        == OnAll(s, LAMBDA p : P!version_rebase(p, n))
version_rebase_by_branch(s, n, b) ==
    OnAll(s, LAMBDA p : P!version_rebase_by_branch(p, n, b))
version_clean_up_globally(s)  == OnAll(s, P!version_clean_up_globally)
version_revert_globally(s, n) == OnAll(s, LAMBDA p : P!version_revert_globally(p, n))

branch_create(s, n, m, force) ==
    OnAll(s, LAMBDA p : P!branch_create(p, n, m, force))
branch_create_by_base_branch(s, n, m, b, force) ==
    OnAll(s, LAMBDA p : P!branch_create_by_base_branch(p, n, m, b, force))
branch_create_by_base_branch_version(s, n, m, b, v, force) ==
    OnAll(s, LAMBDA p : P!branch_create_by_base_branch_version(p, n, m, b, v, force))
branch_create_without_new_version(s, n, force) ==
    OnAll(s, LAMBDA p : P!branch_create_without_new_version(p, n, force))
branch_create_by_base_branch_without_new_version(s, n, b, force) ==
    OnAll(s, LAMBDA p :
        P!branch_create_by_base_branch_without_new_version(p, n, b, force))
branch_create_by_base_branch_version_without_new_version(s, n, b, v, force) ==
    OnAll(s, LAMBDA p :
        P!branch_create_by_base_branch_version_without_new_version(p, n, b, v, force))

branch_remove(s, n)             == OnAll(s, LAMBDA p : P!branch_remove(p, n))
branch_keep_only(s, ns)         == OnAll(s, LAMBDA p : P!branch_keep_only(p, ns))
branch_truncate(s, n)           == OnAll(s, LAMBDA p : P!branch_truncate(p, n))
branch_truncate_to(s, n, m)     == OnAll(s, LAMBDA p : P!branch_truncate_to(p, n, m))
branch_pop_version(s, n)        == OnAll(s, LAMBDA p : P!branch_pop_version(p, n))
branch_merge_to(s, m, n)        == OnAll(s, LAMBDA p : P!branch_merge_to(p, m, n))
branch_merge_to_force(s, m, n)  == OnAll(s, LAMBDA p : P!branch_merge_to_force(p, m, n))
branch_set_default(s, n)        == OnAll(s, LAMBDA p : P!branch_set_default(p, n))
branch_swap(s, m, n)            == OnAll(s, LAMBDA p : P!branch_swap(p, m, n))
prune(s, num)                   == OnAll(s, LAMBDA p : P!prune(p, num))

(***************************************************************************)
(* Questions: what all fields have; the list of the first that has one.    *)
(***************************************************************************)
version_exists(s, n) ==
    \A i \in DOMAIN s : Holds(s[i], P!version_exists(s[i].part, n))
version_exists_on_branch(s, n, b) ==
    \A i \in DOMAIN s : Holds(s[i], P!version_exists_on_branch(s[i].part, n, b))
version_exists_globally(s, n) ==
    \A i \in DOMAIN s : Holds(s[i], P!version_exists_globally(s[i].part, n))
branch_exists(s, n) ==
    \A i \in DOMAIN s : Holds(s[i], P!branch_exists(s[i].part, n))
branch_has_versions(s, n) ==
    \A i \in DOMAIN s : Holds(s[i], P!branch_has_versions(s[i].part, n))

\* Faulty variant of FirstOf: only the first field is asked.
FirstOfFields(l) == l[1]

\* Of the answers l of the fields, the first that is an error or not empty.
FirstOf(l) ==
    LET stop == {i \in DOMAIN l : ~l[i].ok \/ l[i].names # {}}
    IN  IF stop = {} THEN [ok |-> TRUE, names |-> {}] ELSE l[Min(stop)]

version_list(s) == FirstOf([i \in DOMAIN s |-> ListedOption(s[i], P!version_list(s[i].part))])
version_list_by_branch(s, b) ==
    FirstOf([i \in DOMAIN s |->
        ListedOption(s[i], P!version_list_by_branch(s[i].part, b))])
version_list_globally(s) ==
    FirstOf([i \in DOMAIN s |->
        [ok |-> TRUE, names |-> Names(s[i], P!version_list_globally(s[i].part))]]).names
branch_list(s) ==
    FirstOf([i \in DOMAIN s |->
        [ok |-> TRUE, names |-> Names(s[i], P!branch_list(s[i].part))]]).names

\* The default branches the fields name; the code asserts that there are no two.
branch_get_default(s) == {Names(s[i], P!branch_get_default(s[i].part)) : i \in DOMAIN s} \ {{}}

-----------------------------------------------------------------------------
Init ==
    /\ fields = [i \in DOMAIN Kinds |-> [kind |-> Kinds[i], part |-> P!New]]
    /\ call = "other"
    /\ ok = TRUE

\* A call of kind c with result r, within the bounds.
Call(c, r) ==
    /\ \A i \in DOMAIN r.fields : /\ r.fields[i].part.next_br <= MaxBrId + 1
                                  /\ r.fields[i].part.next_ver <= MaxVerId + 1
    /\ fields' = r.fields
    /\ call' = c
    /\ ok' = r.ok

CreateVersion ==
    \E n \in VerName : \/ Call("plain", version_create(fields, n))
                       \/ \E b \in BrName :
                             Call("plain", version_create_by_branch(fields, n, b))

DropVersion ==
    \/ Call("plain", version_pop(fields))
    \/ \E b \in BrName : Call("plain", version_pop_by_branch(fields, b))
    \/ \E b \in BrName : Call("plain", branch_pop_version(fields, b))
    \/ \E n \in VerName : Call("plain", version_revert_globally(fields, n))
    \/ Call("plain", version_clean_up_globally(fields))

\* The duty of a caller of version_rebase (see MapxRawVs), in every field, for
\* the branch called b or, if that is {}, the default branch.
InDuty(n, b) ==
    \A i \in DOMAIN fields :
        LET p == fields[i].part
            ids == IF b = {} THEN {p.default} ELSE UNION {P!IdOf(p.brs, c) : c \in b}
        IN  \A v \in P!IdOf(p.names, n) : \A id \in ids : P!Of(p)!RebaseDuty(id, v)

RebaseVersion ==
    \E n \in VerName :
        \/ InDuty(n, {}) /\ Call("plain", version_rebase(fields, n))
        \/ \E b \in BrName :
             InDuty(n, {b}) /\ Call("plain", version_rebase_by_branch(fields, n, b))

CreateBranch ==
    \E n \in BrName, force \in BOOLEAN :
        LET Created(r) == Call(IF force THEN "forced" ELSE "plain", r)
        IN  \/ Created(branch_create_without_new_version(fields, n, force))
            \/ \E m \in VerName : Created(branch_create(fields, n, m, force))
            \/ \E b \in BrName :
                 \/ Created(branch_create_by_base_branch_without_new_version(
                              fields, n, b, force))
                 \/ \E m \in VerName :
                      \/ Created(branch_create_by_base_branch(fields, n, m, b, force))
                      \/ Created(branch_create_by_base_branch_version_without_new_version(
                                   fields, n, b, m, force))
                      \/ \E v \in VerName :
                           Created(branch_create_by_base_branch_version(
                                     fields, n, m, b, v, force))

DropBranch ==
    \/ \E n \in BrName : \/ Call("plain", branch_remove(fields, n))
                         \/ Call("plain", branch_truncate(fields, n))
                         \/ \E m \in VerName :
                               Call("plain", branch_truncate_to(fields, n, m))
    \/ \E ns \in SUBSET BrName : Call("plain", branch_keep_only(fields, ns))

MergeBranch == \E m, n \in BrName : \/ Call("plain", branch_merge_to(fields, m, n))
                                    \/ Call("plain", branch_merge_to_force(fields, m, n))

RenameBranch == \/ \E n \in BrName : Call("plain", branch_set_default(fields, n))
                \/ \E m, n \in BrName : Call("plain", branch_swap(fields, m, n))

PruneVersions == \E num \in 0 .. USIZE_MAX : Call("prune", prune(fields, num))

\* The program gives an empty option a new value.
FillOption ==
    /\ \E i \in DOMAIN fields :
          /\ fields[i].kind = "none"
          /\ fields' = [fields EXCEPT ![i].kind = "some"]
    /\ call' = "other"
    /\ ok' = TRUE

\* A field is a value of its own, on which other calls may be made.
DirectCall ==
    /\ \E i \in DOMAIN fields, n \in VerName :
          LET p == P!version_create(fields[i].part, n).part
          IN  /\ Present(fields[i])
              /\ p.next_ver <= MaxVerId + 1
              /\ fields' = [fields EXCEPT ![i].part = p]
    /\ call' = "other"
    /\ ok' = TRUE

\* The derived operations.
Derived == \/ CreateVersion \/ DropVersion \/ RebaseVersion
           \/ CreateBranch \/ DropBranch \/ MergeBranch \/ RenameBranch
           \/ PruneVersions

Next == Derived \/ FillOption \/ DirectCall

Spec == Init /\ [][Next]_vars

-----------------------------------------------------------------------------
\* What a user of part p can tell: the default branch, the versions of each
\* branch, all versions and their order.
View(p) ==
    [default  |-> P!branch_get_default(p),
     branches |-> [b \in DOMAIN p.brs |-> P!version_list_by_branch(p, b)],
     versions |-> P!version_list_globally(p),
     names    |-> DOMAIN p.names,
     order    |-> {mn \in (DOMAIN p.names) \X (DOMAIN p.names) :
                     p.names[mn[1]] < p.names[mn[2]]}]

Parts(s) == {s[i].part : i \in {i \in DOMAIN s : Present(s[i])}}

\* The fields of s that have versions cannot be told apart.
Agree(s) == \A p, q \in Parts(s) : View(p) = View(q)

\* Every id in a part is one its allocators gave, every version on a branch
\* has a change set and every version with a change set a name.
PartOK(p) ==
    /\ Range(p.brs) = DOMAIN p.vers
    /\ DOMAIN p.vers \cup {p.default} \subseteq 0 .. p.next_br - 1
    /\ UNION Range(p.vers) \subseteq p.chgsets
    /\ p.chgsets \subseteq Range(p.names)
    /\ Range(p.names) \subseteq 0 .. p.next_ver - 1

TypeOK ==
    /\ [i \in DOMAIN fields |-> fields[i].kind]
         \in [DOMAIN Kinds -> {"versioned", "nope", "none", "some"}]
    /\ \A i \in DOMAIN fields : PartOK(fields[i].part)
    /\ call \in {"plain", "forced", "prune", "other"}
    /\ ok \in BOOLEAN

\* While its fields agree, a structure answers every question as each of its
\* versioned fields would.
LikeOneValue ==
    Agree(fields) => \A p \in Parts(fields) :
        /\ version_list_globally(fields) = P!version_list_globally(p)
        /\ branch_list(fields) = P!branch_list(p)
        /\ branch_get_default(fields) = {P!branch_get_default(p)} \ {{}}
        /\ \A n \in VerName :
             /\ version_exists(fields, n) = P!version_exists(p, n)
             /\ version_exists_globally(fields, n) = P!version_exists_globally(p, n)
        /\ \A b \in BrName :
             /\ branch_exists(fields, b) = P!branch_exists(p, b)
             /\ branch_has_versions(fields, b) = P!branch_has_versions(p, b)
             /\ version_list_by_branch(fields, b) = P!version_list_by_branch(p, b)

\* Fields that agree still agree after a call on the structure, whether it
\* succeeds or fails, but for the two calls that may fail half-way: a forced
\* creation of a branch and a prune.
AgreementKept ==
    [][Agree(fields) /\ call' # "other" /\ (ok' \/ call' = "plain") => Agree(fields')]_vars

\* On fields that agree, any other call that fails changes nothing in any of
\* them.
FailureAtomic ==
    [][Agree(fields) /\ call' = "plain" /\ ~ok' => fields' = fields]_vars
=============================================================================

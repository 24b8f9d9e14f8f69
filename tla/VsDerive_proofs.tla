---------------------------- MODULE VsDerive_proofs ----------------------------
(***************************************************************************)
(* Theorems about VsDerive, for any number of fields.                      *)
(*                                                                         *)
(* The fields of a structure agree when the parts they hold cannot be told *)
(* apart by name; ids may differ, since a field may have had calls of its  *)
(* own.  First each operation of the trait is shown to keep the invariant  *)
(* of a part (the lemmas named ...Inv); then to give the same outcome on   *)
(* two parts that look the same (...Matches, ...Alike); then to do nothing *)
(* when it fails, where that is so (...Kept, ...Regular).  The operations  *)
(* of the structure follow from these (...Good).                           *)
(***************************************************************************)
EXTENDS VsDerive, Maps_proofs, FiniteSetTheorems

-----------------------------------------------------------------------------
(***************************************************************************)
(* One part.                                                               *)
(***************************************************************************)
IsRecord(p) ==
    p = [default |-> p.default, brs |-> p.brs, vers |-> p.vers, names |-> p.names,
         chgsets |-> p.chgsets, next_br |-> p.next_br, next_ver |-> p.next_ver]

\* What every operation keeps of a part: PartOK, and that no two names mean
\* the same version or branch.
PartInv(p) ==
    /\ IsRecord(p)
    /\ p.next_br \in Nat /\ p.next_ver \in Nat
    /\ p.default \in Nat /\ p.default < p.next_br
    /\ p.brs \in [DOMAIN p.brs -> DOMAIN p.vers]
    /\ p.vers \in [DOMAIN p.vers -> SUBSET p.chgsets]
    /\ p.names \in [DOMAIN p.names -> Nat]
    /\ \A b \in DOMAIN p.vers : b \in Nat /\ b < p.next_br
    /\ \A b \in DOMAIN p.vers : \E n \in DOMAIN p.brs : p.brs[n] = b
    /\ \A v \in p.chgsets : \E n \in DOMAIN p.names : p.names[n] = v
    /\ \A n \in DOMAIN p.names : p.names[n] < p.next_ver
    /\ \A m, n \in DOMAIN p.brs : p.brs[m] = p.brs[n] => m = n
    /\ \A m, n \in DOMAIN p.names : p.names[m] = p.names[n] => m = n

\* PartOK is a part of it.
LEMMA InvIsOK ==
  ASSUME NEW p, PartInv(p)
  PROVE  PartOK(p)
<1>1. Range(p.brs) = DOMAIN p.vers
  BY DEF PartInv, Range
<1>2. DOMAIN p.vers \cup {p.default} \subseteq 0 .. p.next_br - 1
  BY DEF PartInv
<1>3. UNION Range(p.vers) \subseteq p.chgsets
  BY DEF PartInv, Range
<1>4. p.chgsets \subseteq Range(p.names)
  BY DEF PartInv, Range
<1>5. Range(p.names) \subseteq 0 .. p.next_ver - 1
  BY DEF PartInv, Range
<1>. QED  BY <1>1, <1>2, <1>3, <1>4, <1>5 DEF PartOK

\* A new value.
LEMMA NewInv == PartInv(P!New)
BY DEF PartInv, IsRecord, P!New, P!MapInsert, P!EmptyMap

\* A version id that no name has is added to branch b.
LEMMA AddVersionInv ==
  ASSUME NEW p, PartInv(p), NEW b, NEW n
  PROVE  PartInv(P!AddVersion(p, b, n).part)
<1>1. CASE n \in DOMAIN p.names \/ b \notin DOMAIN p.vers
  BY <1>1 DEF P!AddVersion, P!Failed
<1>2. CASE n \notin DOMAIN p.names /\ b \in DOMAIN p.vers
  <2> DEFINE q == P!AddVersion(p, b, n).part
  <2>1. q = [default |-> p.default, brs |-> p.brs,
             vers |-> [p.vers EXCEPT ![b] = @ \cup {p.next_ver}],
             names |-> P!MapInsert(p.names, n, p.next_ver),
             chgsets |-> p.chgsets \cup {p.next_ver},
             next_br |-> p.next_br, next_ver |-> p.next_ver + 1]
    BY <1>2 DEF P!AddVersion, P!Done, PartInv, IsRecord
  <2>. QED  BY <1>2, <2>1 DEF PartInv, IsRecord, P!MapInsert
<1>. QED  BY <1>1, <1>2

\* A branch is given other versions that have change sets.
LEMMA SetVersInv ==
  ASSUME NEW p, PartInv(p), NEW b, NEW S,
         b \in DOMAIN p.vers => S \in SUBSET p.chgsets
  PROVE  PartInv(P!SetVers(p, b, S).part)
<1>1. CASE b \notin DOMAIN p.vers
  BY <1>1 DEF P!SetVers, P!Failed
<1>2. CASE b \in DOMAIN p.vers
  <2> DEFINE q == P!SetVers(p, b, S).part
  <2>1. q = [default |-> p.default, brs |-> p.brs, vers |-> [p.vers EXCEPT ![b] = S],
             names |-> p.names, chgsets |-> p.chgsets,
             next_br |-> p.next_br, next_ver |-> p.next_ver]
    BY <1>2 DEF P!SetVers, P!Done, PartInv, IsRecord
  <2>. QED  BY <1>2, <2>1 DEF PartInv, IsRecord
<1>. QED  BY <1>1, <1>2

\* Without its newest version a branch has versions that have change sets.
LEMMA PopInv ==
  ASSUME NEW p, PartInv(p), NEW b
  PROVE  PartInv(P!Pop(p, b).part)
BY SetVersInv DEF P!Pop, PartInv

\* What a merge moves onto a branch has change sets.
LEMMA MergeInv ==
  ASSUME NEW p, PartInv(p), NEW b \in DOMAIN p.vers, NEW t
  PROVE  PartInv(P!Merge(p, b, t).part)
<1> DEFINE S == P!Of(p)!MergedVers(p.vers[b], p.vers[t])
<1>1. t \in DOMAIN p.vers => S \in SUBSET p.chgsets
  BY DEF P!Of!MergedVers, PartInv
<1>. QED  BY <1>1, SetVersInv DEF P!Merge

\* The fields of a part without the versions S.
LEMMA ForgetIs ==
  ASSUME NEW p, IsRecord(p), NEW S
  PROVE  P!Forget(p, S) =
           [default |-> p.default, brs |-> p.brs, vers |-> p.vers,
            names |-> P!MapRemove(p.names, P!NamesOf(p, S)),
            chgsets |-> p.chgsets \ S,
            next_br |-> p.next_br, next_ver |-> p.next_ver]
<1> DEFINE q == P!Forget(p, S)
<1>1. DOMAIN p = {"default", "brs", "vers", "names", "chgsets", "next_br", "next_ver"}
  BY DEF IsRecord
<1>2. q = [x \in DOMAIN p |-> q[x]]
  BY <1>1 DEF P!Forget
<1>3. /\ q.default = p.default /\ q.brs = p.brs /\ q.vers = p.vers
      /\ q.names = P!MapRemove(p.names, P!NamesOf(p, S)) /\ q.chgsets = p.chgsets \ S
      /\ q.next_br = p.next_br /\ q.next_ver = p.next_ver
  BY <1>1 DEF P!Forget
<1>. QED  BY <1>1, <1>2, <1>3

\* A part without the versions S, with `vers` left on its branches.
Without(p, S, vers) ==
    [default |-> p.default, brs |-> p.brs, vers |-> vers,
     names |-> P!MapRemove(p.names, P!NamesOf(p, S)), chgsets |-> p.chgsets \ S,
     next_br |-> p.next_br, next_ver |-> p.next_ver]

\* Forgetting versions does not touch the branches, which may be set as well.
LEMMA ForgetWith ==
  ASSUME NEW p, PartInv(p), NEW S
  PROVE  /\ P!Forget(p, S) = Without(p, S, p.vers)
         /\ P!Forget(p, S).vers = p.vers
         /\ \A vers : [P!Forget(p, S) EXCEPT !.vers = vers] = Without(p, S, vers)
<1>1. PICK f : f = P!Forget(p, S)
  OBVIOUS
<1>2. f = [default |-> p.default, brs |-> p.brs, vers |-> p.vers,
           names |-> P!MapRemove(p.names, P!NamesOf(p, S)),
           chgsets |-> p.chgsets \ S,
           next_br |-> p.next_br, next_ver |-> p.next_ver]
  BY <1>1, ForgetIs DEF PartInv
<1>3. ASSUME NEW vers
      PROVE  [f EXCEPT !.vers = vers] = Without(p, S, vers)
  BY <1>2 DEF Without
<1>. QED  BY <1>1, <1>2, <1>3 DEF Without

\* Versions can be forgotten when no branch is left with one of them.
LEMMA WithoutVersInv ==
  ASSUME NEW p, PartInv(p), NEW S, NEW vers \in [DOMAIN p.vers -> SUBSET (p.chgsets \ S)]
  PROVE  PartInv(Without(p, S, vers))
<1>1. PICK q : q = Without(p, S, vers)
  OBVIOUS
<1>2. /\ q.default = p.default /\ q.brs = p.brs /\ q.vers = vers
      /\ q.chgsets = p.chgsets \ S
      /\ q.next_br = p.next_br /\ q.next_ver = p.next_ver
      /\ IsRecord(q)
  BY <1>1 DEF Without, IsRecord
<1>3. /\ DOMAIN q.names = {n \in DOMAIN p.names : p.names[n] \notin S}
      /\ \A n \in DOMAIN q.names : q.names[n] = p.names[n]
      /\ q.names \in [DOMAIN q.names -> Nat]
  BY <1>1 DEF Without, P!MapRemove, P!Restrict, P!NamesOf, PartInv
<1>4. PartInv(q)
  BY <1>2, <1>3 DEF PartInv
<1>. QED  BY <1>1, <1>4

\* A rebase of branch b to its version v.
LEMMA RebaseIs ==
  ASSUME NEW p, PartInv(p), NEW b, NEW v \in P!Vers(p, b),
         NEW S, S = P!Of(p)!Newer(b, v), NEW vers, vers = [p.vers EXCEPT ![b] = @ \ S]
  PROVE  P!Rebase(p, v, b) = P!Done(Without(p, S, vers))
<1>1. PICK f : f = P!Forget(p, S)
  OBVIOUS
<1>2. P!Rebase(p, v, b) = P!Done([f EXCEPT !.vers = [f.vers EXCEPT ![b] = f.vers[b] \ S]])
  BY <1>1 DEF P!Rebase
<1>3. f.vers = p.vers
  BY <1>1, ForgetWith
<1>4. [f EXCEPT !.vers = vers] = Without(p, S, vers)
  BY <1>1, ForgetWith
<1>. QED  BY <1>2, <1>3, <1>4

\* Within the duty of its caller, a rebase takes versions that no other
\* branch has.
LEMMA RebaseInv ==
  ASSUME NEW p, PartInv(p), NEW v \in Nat, NEW b, P!Of(p)!RebaseDuty(b, v)
  PROVE  PartInv(P!Rebase(p, v, b).part)
<1> DEFINE newer == P!Of(p)!Newer(b, v)
           vers  == [p.vers EXCEPT ![b] = @ \ newer]
<1>1. CASE v \notin P!Vers(p, b)
  BY <1>1 DEF P!Rebase, P!Failed
<1>2. CASE v \in P!Vers(p, b)
  <2>1. b \in DOMAIN p.vers
    BY <1>2 DEF P!Vers, P!Of!Vers
  <2>4. P!Rebase(p, v, b).part = Without(p, newer, vers)
    BY <1>2, RebaseIs DEF P!Done
  <2>5. newer = {w \in p.vers[b] : w > v}
    BY <2>1 DEF P!Of!Newer, P!Of!Vers
  <2>6. ASSUME NEW c \in DOMAIN p.vers \ {b}
        PROVE  p.vers[c] \cap newer = {}
    <3>1. \A w \in p.vers[c] : w < v
      BY DEF P!Of!RebaseDuty, P!Of!Vers
    <3>2. \A w \in p.vers[c] : w \in Nat
      BY DEF PartInv
    <3>. QED  BY <2>5, <3>1, <3>2
  <2>7. vers \in [DOMAIN p.vers -> SUBSET (p.chgsets \ newer)]
    BY <2>1, <2>6 DEF PartInv
  <2>. QED  BY <2>4, <2>7, WithoutVersInv
<1>. QED  BY <1>1, <1>2

\* What the branches have without the versions S.
OffAll(p, S) == [b \in DOMAIN p.vers |-> p.vers[b] \ S]

\* The versions taken off are on no branch.
LEMMA OffAllType ==
  ASSUME NEW p, PartInv(p), NEW S
  PROVE  OffAll(p, S) \in [DOMAIN p.vers -> SUBSET (p.chgsets \ S)]
BY DEF PartInv, OffAll

\* The part after version_revert_globally.
Reverted(p, v) == [P!Forget(p, {v}) EXCEPT !.vers = [b \in DOMAIN @ |-> @[b] \ {v}]]

\* A revert, written out.
LEMMA RevertedIs ==
  ASSUME NEW p, PartInv(p), NEW v
  PROVE  Reverted(p, v) = Without(p, {v}, OffAll(p, {v}))
<1>1. PICK f : f = P!Forget(p, {v})
  OBVIOUS
<1>2. f.vers = p.vers
  BY <1>1, ForgetWith
<1>3. Reverted(p, v) = [f EXCEPT !.vers = OffAll(p, {v})]
  BY <1>1, <1>2 DEF Reverted, OffAll
<1>. QED  BY <1>1, <1>3, ForgetWith

\* A revert takes the version off all branches.
LEMMA RevertInv ==
  ASSUME NEW p, PartInv(p), NEW v
  PROVE  PartInv(Reverted(p, v))
<1>1. OffAll(p, {v}) \in [DOMAIN p.vers -> SUBSET (p.chgsets \ {v})]
  BY OffAllType
<1>2. PartInv(Without(p, {v}, OffAll(p, {v})))
  BY <1>1, WithoutVersInv
<1>. QED  BY <1>2, RevertedIs

\* The versions with a change set that no branch has.
Unused(p) == p.chgsets \ UNION P!Range(p.vers)

\* A clean-up, written out: the branches stay as they are.
LEMMA CleanedUpIs ==
  ASSUME NEW p, PartInv(p)
  PROVE  P!CleanedUp(p) = Without(p, Unused(p), p.vers)
BY ForgetWith DEF P!CleanedUp, Unused

\* A clean-up forgets versions that no branch has.
LEMMA CleanedUpInv ==
  ASSUME NEW p, PartInv(p)
  PROVE  PartInv(P!CleanedUp(p))
<1>1. p.vers \in [DOMAIN p.vers -> SUBSET (p.chgsets \ Unused(p))]
  BY DEF PartInv, P!Range, Unused
<1>. QED  BY <1>1, CleanedUpIs, WithoutVersInv

\* The fields of a part without the branches S.
LEMMA WithoutIs ==
  ASSUME NEW p, IsRecord(p), NEW S
  PROVE  P!WithoutBranches(p, S) =
           [default |-> p.default,
            brs |-> P!MapRemove(p.brs, {n \in DOMAIN p.brs : p.brs[n] \in S}),
            vers |-> P!MapRemove(p.vers, S), names |-> p.names,
            chgsets |-> p.chgsets, next_br |-> p.next_br, next_ver |-> p.next_ver]
<1> DEFINE q == P!WithoutBranches(p, S)
<1>1. DOMAIN p = {"default", "brs", "vers", "names", "chgsets", "next_br", "next_ver"}
  BY DEF IsRecord
<1>2. q = [x \in DOMAIN p |-> q[x]]
  BY <1>1 DEF P!WithoutBranches
<1>3. /\ q.default = p.default
      /\ q.brs = P!MapRemove(p.brs, {n \in DOMAIN p.brs : p.brs[n] \in S})
      /\ q.vers = P!MapRemove(p.vers, S)
      /\ q.names = p.names /\ q.chgsets = p.chgsets
      /\ q.next_br = p.next_br /\ q.next_ver = p.next_ver
  BY <1>1 DEF P!WithoutBranches
<1>. QED  BY <1>1, <1>2, <1>3

\* The branches go with their names; the default branch may be among them.
LEMMA WithoutInv ==
  ASSUME NEW p, PartInv(p), NEW S
  PROVE  PartInv(P!WithoutBranches(p, S))
<1>0. PICK q : q = P!WithoutBranches(p, S)
  OBVIOUS
<1>1. q = [default |-> p.default,
           brs |-> P!MapRemove(p.brs, {n \in DOMAIN p.brs : p.brs[n] \in S}),
           vers |-> P!MapRemove(p.vers, S), names |-> p.names,
           chgsets |-> p.chgsets, next_br |-> p.next_br, next_ver |-> p.next_ver]
  BY <1>0, WithoutIs DEF PartInv
<1>2. /\ DOMAIN q.vers = DOMAIN p.vers \ S
      /\ \A b \in DOMAIN q.vers : q.vers[b] = p.vers[b]
      /\ q.vers \in [DOMAIN q.vers -> SUBSET p.chgsets]
  BY <1>1 DEF P!MapRemove, P!Restrict, PartInv
<1>3. /\ DOMAIN q.brs = {n \in DOMAIN p.brs : p.brs[n] \notin S}
      /\ \A n \in DOMAIN q.brs : q.brs[n] = p.brs[n]
  BY <1>1 DEF P!MapRemove, P!Restrict, PartInv
<1>4. q.brs \in [DOMAIN q.brs -> DOMAIN q.vers]
  BY <1>1, <1>2, <1>3 DEF P!MapRemove, P!Restrict, PartInv
<1>5. IsRecord(q)
  BY <1>1 DEF IsRecord
<1>6. /\ q.default = p.default /\ q.names = p.names /\ q.chgsets = p.chgsets
      /\ q.next_br = p.next_br /\ q.next_ver = p.next_ver
  BY <1>1
<1>7. PartInv(q)
  BY <1>2, <1>3, <1>4, <1>5, <1>6 DEF PartInv
<1>. QED  BY <1>0, <1>7

\* A branch that nothing names is added: branch id next_br, with versions S.
Added(p, n, S) ==
    [default |-> p.default, brs |-> P!MapInsert(p.brs, n, p.next_br),
     vers |-> P!MapInsert(p.vers, p.next_br, S), names |-> p.names,
     chgsets |-> p.chgsets, next_br |-> p.next_br + 1, next_ver |-> p.next_ver]

\* A branch with a new id, of a name that is free.
LEMMA AddedInv ==
  ASSUME NEW p, PartInv(p), NEW n, n \notin DOMAIN p.brs, NEW S \in SUBSET p.chgsets
  PROVE  PartInv(Added(p, n, S))
<1>1. PICK q : q = Added(p, n, S)
  OBVIOUS
<1>2. /\ q.default = p.default /\ q.names = p.names /\ q.chgsets = p.chgsets
      /\ q.next_br = p.next_br + 1 /\ q.next_ver = p.next_ver
      /\ IsRecord(q)
  BY <1>1 DEF Added, IsRecord
<1>3. /\ DOMAIN q.brs = DOMAIN p.brs \cup {n}
      /\ \A m \in DOMAIN p.brs : q.brs[m] = p.brs[m]
      /\ q.brs[n] = p.next_br
      /\ q.brs = [m \in DOMAIN q.brs |-> q.brs[m]]
  BY <1>1 DEF Added, P!MapInsert
<1>4. p.next_br \notin DOMAIN p.vers
  BY DEF PartInv
<1>5. /\ DOMAIN q.vers = DOMAIN p.vers \cup {p.next_br}
      /\ \A b \in DOMAIN p.vers : q.vers[b] = p.vers[b]
      /\ q.vers[p.next_br] = S
      /\ q.vers = [b \in DOMAIN q.vers |-> q.vers[b]]
  BY <1>1, <1>4 DEF Added, P!MapInsert
<1>6. q.vers \in [DOMAIN q.vers -> SUBSET q.chgsets]
  <2>1. \A b \in DOMAIN p.vers : p.vers[b] \in SUBSET p.chgsets
    BY DEF PartInv
  <2>2. \A b \in DOMAIN q.vers : q.vers[b] \in SUBSET q.chgsets
    BY <1>2, <1>5, <2>1
  <2>. QED  BY <1>5, <2>2
<1>7. \A m \in DOMAIN p.brs : p.brs[m] \in DOMAIN p.vers
  BY DEF PartInv
<1>8. q.brs \in [DOMAIN q.brs -> DOMAIN q.vers]
  <2>1. \A m \in DOMAIN q.brs : q.brs[m] \in DOMAIN q.vers
    BY <1>7, <1>3, <1>5
  <2>. QED  BY <1>3, <2>1
<1>9. \A l, m \in DOMAIN q.brs : q.brs[l] = q.brs[m] => l = m
  <2>1. \A l, m \in DOMAIN p.brs : p.brs[l] = p.brs[m] => l = m
    BY DEF PartInv
  <2>2. \A m \in DOMAIN p.brs : q.brs[m] # p.next_br
    BY <1>7, <1>3, <1>4
  <2>. QED  BY <1>3, <2>1, <2>2
<1>10. \A b \in DOMAIN q.vers : \E m \in DOMAIN q.brs : q.brs[m] = b
  BY <1>3, <1>5 DEF PartInv
<1>11. \A b \in DOMAIN q.vers : b \in Nat /\ b < q.next_br
  BY <1>2, <1>5 DEF PartInv
<1>12. PartInv(q)
  BY <1>2, <1>6, <1>8, <1>9, <1>10, <1>11 DEF PartInv
<1>. QED  BY <1>1, <1>12

\* The part in which a creation of branch n makes it: a forced one removes the
\* branch of that name.
Cleared(p, n, force) == IF force THEN P!branch_remove(p, n).part ELSE p

\* The versions a branch made from branch b starts with.
Based(p, b, base) == UNION {P!Of(p)!UpTo(p.vers[b], v) : v \in base}

\* A removal, written out.
LEMMA RemoveIs ==
  ASSUME NEW p, NEW n
  PROVE  P!branch_remove(p, n) = IF n \in DOMAIN p.brs
                                 THEN P!Done(P!WithoutBranches(p, {p.brs[n]}))
                                 ELSE P!Failed(p)
BY DEF P!branch_remove, P!OnBranch

\* A branch can be removed, or is not there.
LEMMA RemoveInv ==
  ASSUME NEW p, PartInv(p), NEW n
  PROVE  PartInv(P!branch_remove(p, n).part)
<1>1. PartInv(P!WithoutBranches(p, {p.brs[n]}))
  BY WithoutInv
<1>. QED  BY <1>1, RemoveIs DEF P!Done, P!Failed

\* That is done before a forced creation.
LEMMA ClearedInv ==
  ASSUME NEW p, PartInv(p), NEW n, NEW force
  PROVE  PartInv(Cleared(p, n, force))
BY RemoveInv DEF Cleared

\* A creation, written out: the branch is made in a part that is cleared.
LEMMA CreateIs ==
  ASSUME NEW p, PartInv(p), NEW n, NEW name, NEW b, NEW base, NEW force,
         NEW q, q = Cleared(p, n, force),
         NEW made, made = Added(q, n, Based(q, b, base))
  PROVE  P!Create(p, n, name, b, base, force) =
           IF n \in DOMAIN q.brs \/ ~(base \subseteq P!Vers(q, b)) \/ b \notin DOMAIN q.vers
           THEN P!Failed(q)
           ELSE IF name = {} THEN P!Done(made)
                ELSE P!AddVersion(made, q.next_br, CHOOSE m \in name : TRUE)
<1>1. PartInv(q)
  BY ClearedInv
<1>2. PICK r : r = [q EXCEPT !.brs = P!MapInsert(@, n, q.next_br),
                            !.vers = P!MapInsert(@, q.next_br, Based(q, b, base)),
                            !.next_br = @ + 1]
  OBVIOUS
<1>3. DOMAIN q = {"default", "brs", "vers", "names", "chgsets", "next_br", "next_ver"}
  BY <1>1 DEF PartInv, IsRecord
<1>4. r = [x \in DOMAIN q |-> r[x]]
  BY <1>2, <1>3
<1>5. /\ r.default = q.default /\ r.brs = P!MapInsert(q.brs, n, q.next_br)
      /\ r.vers = P!MapInsert(q.vers, q.next_br, Based(q, b, base))
      /\ r.names = q.names /\ r.chgsets = q.chgsets
      /\ r.next_br = q.next_br + 1 /\ r.next_ver = q.next_ver
  BY <1>2, <1>3
<1>6. r = made
  BY <1>3, <1>4, <1>5 DEF Added
<1>. QED  BY <1>2, <1>6 DEF P!Create, Cleared, Based

\* The new branch starts with versions of the one it is made from.
LEMMA CreateInv ==
  ASSUME NEW p, PartInv(p), NEW n, NEW name, NEW b, NEW base, NEW force
  PROVE  PartInv(P!Create(p, n, name, b, base, force).part)
<1>1. PICK q : q = Cleared(p, n, force)
  OBVIOUS
<1>2. PartInv(q)
  BY <1>1, ClearedInv
<1>3. PICK made : made = Added(q, n, Based(q, b, base))
  OBVIOUS
<1>4. CASE n \in DOMAIN q.brs \/ ~(base \subseteq P!Vers(q, b)) \/ b \notin DOMAIN q.vers
  BY <1>1, <1>2, <1>3, <1>4, CreateIs DEF P!Failed
<1>5. CASE ~(n \in DOMAIN q.brs \/ ~(base \subseteq P!Vers(q, b)) \/ b \notin DOMAIN q.vers)
  <2>1. Based(q, b, base) \in SUBSET q.chgsets
    BY <1>2, <1>5 DEF Based, P!Of!UpTo, PartInv
  <2>2. PartInv(made)
    BY <1>2, <1>3, <1>5, <2>1, AddedInv
  <2>3. PartInv(P!AddVersion(made, q.next_br, CHOOSE m \in name : TRUE).part)
    BY <2>2, AddVersionInv
  <2>. QED  BY <1>1, <1>3, <1>5, <2>2, <2>3, CreateIs DEF P!Done
<1>. QED  BY <1>4, <1>5

\* So it does when the name of the version is looked at first.
LEMMA CreateFromInv ==
  ASSUME NEW p, PartInv(p), NEW n, NEW name, NEW b, NEW base, NEW force
  PROVE  PartInv(P!CreateFrom(p, n, name, b, base, force).part)
BY CreateInv DEF P!CreateFrom, P!Failed

\* So it does when it is made from the newest version.
LEMMA CreateOnInv ==
  ASSUME NEW p, PartInv(p), NEW n, NEW name, NEW b, NEW force
  PROVE  PartInv(P!CreateOn(p, n, name, b, force).part)
BY CreateFromInv DEF P!CreateOn, P!Failed

\* Branches are removed, and then a clean-up follows.
LEMMA KeepOnlyInv ==
  ASSUME NEW p, PartInv(p), NEW ns
  PROVE  PartInv(P!branch_keep_only(p, ns).part)
<1> DEFINE S == P!Range(p.brs) \ {p.brs[n] : n \in ns}
<1>1. PartInv(P!CleanedUp(P!WithoutBranches(p, S)))
  BY WithoutInv, CleanedUpInv
<1>. QED  BY <1>1 DEF P!branch_keep_only, P!Failed, P!Done

\* The default branch is one that has a name.
LEMMA SetDefaultInv ==
  ASSUME NEW p, PartInv(p), NEW n \in DOMAIN p.brs
  PROVE  PartInv([p EXCEPT !.default = p.brs[n]])
<1>1. PICK q : q = [p EXCEPT !.default = p.brs[n]]
  OBVIOUS
<1>2. q = [default |-> p.brs[n], brs |-> p.brs, vers |-> p.vers, names |-> p.names,
           chgsets |-> p.chgsets, next_br |-> p.next_br, next_ver |-> p.next_ver]
  BY <1>1 DEF PartInv, IsRecord
<1>3. p.brs[n] \in Nat /\ p.brs[n] < p.next_br
  BY DEF PartInv
<1>4. IsRecord(q)
  BY <1>2 DEF IsRecord
<1>5. /\ q.default = p.brs[n] /\ q.brs = p.brs /\ q.vers = p.vers /\ q.names = p.names
      /\ q.chgsets = p.chgsets /\ q.next_br = p.next_br /\ q.next_ver = p.next_ver
  BY <1>2
<1>6. PartInv(q)
  BY <1>3, <1>4, <1>5 DEF PartInv
<1>. QED  BY <1>1, <1>6

\* The part after the branches m and n exchanged their names.
Swapped(p, m, n) ==
    [default |-> CASE p.default = p.brs[m] -> p.brs[n]
                   [] p.default = p.brs[n] -> p.brs[m]
                   [] OTHER -> p.default,
     brs |-> P!MapInsert(P!MapInsert(p.brs, m, p.brs[n]), n, p.brs[m]),
     vers |-> p.vers, names |-> p.names, chgsets |-> p.chgsets,
     next_br |-> p.next_br, next_ver |-> p.next_ver]

\* A swap, written out.
LEMMA SwapIs ==
  ASSUME NEW p, PartInv(p), NEW m, NEW n
  PROVE  P!branch_swap(p, m, n) = IF {m, n} \subseteq DOMAIN p.brs
                                  THEN P!Done(Swapped(p, m, n)) ELSE P!Failed(p)
<1>1. PICK q : q = [p EXCEPT !.brs = P!MapInsert(P!MapInsert(@, m, p.brs[n]), n, p.brs[m]),
                            !.default = CASE @ = p.brs[m] -> p.brs[n]
                                          [] @ = p.brs[n] -> p.brs[m]
                                          [] OTHER -> @]
  OBVIOUS
<1>2. DOMAIN p = {"default", "brs", "vers", "names", "chgsets", "next_br", "next_ver"}
  BY DEF PartInv, IsRecord
<1>3. q = [x \in DOMAIN p |-> q[x]]
  BY <1>1, <1>2
<1>4. /\ q.default = CASE p.default = p.brs[m] -> p.brs[n]
                       [] p.default = p.brs[n] -> p.brs[m]
                       [] OTHER -> p.default
      /\ q.brs = P!MapInsert(P!MapInsert(p.brs, m, p.brs[n]), n, p.brs[m])
      /\ q.vers = p.vers /\ q.names = p.names /\ q.chgsets = p.chgsets
      /\ q.next_br = p.next_br /\ q.next_ver = p.next_ver
  BY <1>1, <1>2
<1>5. q = Swapped(p, m, n)
  BY <1>2, <1>3, <1>4 DEF Swapped
<1>. QED  BY <1>1, <1>5 DEF P!branch_swap, P!OnBranch

\* Two names for two ids before and after a swap.
LEMMA SwapInv ==
  ASSUME NEW p, PartInv(p), NEW m, NEW n
  PROVE  PartInv(P!branch_swap(p, m, n).part)
<1>1. CASE ~({m, n} \subseteq DOMAIN p.brs)
  BY <1>1, SwapIs DEF P!Failed
<1>2. CASE {m, n} \subseteq DOMAIN p.brs
  <2>1. PICK q : q = Swapped(p, m, n)
    OBVIOUS
  <2>2. /\ q.vers = p.vers /\ q.names = p.names /\ q.chgsets = p.chgsets
        /\ q.next_br = p.next_br /\ q.next_ver = p.next_ver
        /\ IsRecord(q)
    BY <2>1 DEF Swapped, IsRecord
  <2>3. /\ DOMAIN q.brs = DOMAIN p.brs
        /\ \A l \in DOMAIN p.brs : q.brs[l] = IF l = n THEN p.brs[m]
                                              ELSE IF l = m THEN p.brs[n] ELSE p.brs[l]
        /\ q.brs = [l \in DOMAIN q.brs |-> q.brs[l]]
    BY <1>2, <2>1 DEF Swapped, P!MapInsert
  <2>4. \A l \in DOMAIN p.brs : p.brs[l] \in DOMAIN p.vers
    BY DEF PartInv
  <2>5. q.brs \in [DOMAIN q.brs -> DOMAIN q.vers]
    BY <1>2, <2>2, <2>3, <2>4
  <2>6. q.default \in {p.default, p.brs[m], p.brs[n]}
    BY <2>1 DEF Swapped
  <2>7. q.default \in Nat /\ q.default < q.next_br
    BY <1>2, <2>2, <2>4, <2>6 DEF PartInv
  <2>8. \A k, l \in DOMAIN q.brs : q.brs[k] = q.brs[l] => k = l
    <3>1. \A k, l \in DOMAIN p.brs : p.brs[k] = p.brs[l] => k = l
      BY DEF PartInv
    <3>. QED  BY <1>2, <2>3, <3>1
  <2>9. \A b \in DOMAIN q.vers : \E l \in DOMAIN q.brs : q.brs[l] = b
    <3>1. \A b \in DOMAIN p.vers : \E l \in DOMAIN p.brs : p.brs[l] = b
      BY DEF PartInv
    <3>. QED  BY <1>2, <2>2, <2>3, <3>1
  <2>10. PartInv(q)
    BY <2>2, <2>5, <2>7, <2>8, <2>9 DEF PartInv
  <2>. QED  BY <1>2, <2>1, <2>10, SwapIs DEF P!Done
<1>. QED  BY <1>1, <1>2

\* The versions S are merged away: their names stay.
MergedAway(p, S) ==
    [default |-> p.default, brs |-> p.brs, vers |-> OffAll(p, S), names |-> p.names,
     chgsets |-> p.chgsets \ S, next_br |-> p.next_br, next_ver |-> p.next_ver]

\* A prune, written out: it cleans up even if it then fails.
LEMMA PruneIs ==
  ASSUME NEW p, PartInv(p), NEW num, NEW r, r = (1 + num) % (USIZE_MAX + 1),
         NEW q, q = P!CleanedUp(p)
  PROVE  P!prune(p, num) =
           IF r = 0 THEN P!Failed(q)
           ELSE P!Done(MergedAway(q, P!Of(q)!Mergeable(r)))
<1>1. PICK S : S = P!Of(q)!Mergeable(r)
  OBVIOUS
<1>2. DOMAIN q = {"default", "brs", "vers", "names", "chgsets", "next_br", "next_ver"}
  BY CleanedUpInv DEF PartInv, IsRecord
<1>3. PICK t : t = [q EXCEPT !.vers = [b \in DOMAIN @ |-> @[b] \ S],
                            !.chgsets = @ \ S]
  OBVIOUS
<1>4. t = [x \in DOMAIN q |-> t[x]]
  BY <1>2, <1>3
<1>5. /\ t.default = q.default /\ t.brs = q.brs /\ t.vers = OffAll(q, S)
      /\ t.names = q.names /\ t.chgsets = q.chgsets \ S
      /\ t.next_br = q.next_br /\ t.next_ver = q.next_ver
  BY <1>2, <1>3 DEF OffAll
<1>6. t = MergedAway(q, S)
  BY <1>2, <1>4, <1>5 DEF MergedAway
<1>. QED  BY <1>1, <1>3, <1>6 DEF P!prune

\* The versions a prune merges are taken off all branches.
LEMMA PruneInv ==
  ASSUME NEW p, PartInv(p), NEW num
  PROVE  PartInv(P!prune(p, num).part)
<1>1. PICK q : q = P!CleanedUp(p)
  OBVIOUS
<1>2. PartInv(q)
  BY <1>1, CleanedUpInv
<1>3. ASSUME NEW S
      PROVE  PartInv(MergedAway(q, S))
  <2>1. PICK t : t = MergedAway(q, S)
    OBVIOUS
  <2>2. OffAll(q, S) \in [DOMAIN q.vers -> SUBSET (q.chgsets \ S)]
    BY <1>2, OffAllType
  <2>3. /\ t.default = q.default /\ t.brs = q.brs /\ t.vers = OffAll(q, S)
        /\ t.names = q.names /\ t.chgsets = q.chgsets \ S
        /\ t.next_br = q.next_br /\ t.next_ver = q.next_ver
        /\ IsRecord(t)
    BY <2>1 DEF MergedAway, IsRecord
  <2>4. PartInv(t)
    BY <1>2, <2>2, <2>3 DEF PartInv
  <2>. QED  BY <2>1, <2>4
<1>. QED  BY <1>1, <1>2, <1>3, PruneIs DEF P!Done, P!Failed

-----------------------------------------------------------------------------
(***************************************************************************)
(* Two parts that cannot be told apart, name by name.                      *)
(***************************************************************************)
\* The version sets S of p and T of q have the same names.
SameSet(p, q, S, T) == \A n \in DOMAIN p.names : p.names[n] \in S <=> q.names[n] \in T

\* Branch id i of p and j of q have the same name, or none.
SameBranch(p, q, i, j) == \A b \in DOMAIN p.brs : p.brs[b] = i <=> q.brs[b] = j

Alike(p, q) ==
    /\ DOMAIN p.brs = DOMAIN q.brs
    /\ DOMAIN p.names = DOMAIN q.names
    /\ SameBranch(p, q, p.default, q.default)
    /\ \A b \in DOMAIN p.brs : SameSet(p, q, p.vers[p.brs[b]], q.vers[q.brs[b]])
    /\ SameSet(p, q, p.chgsets, q.chgsets)
    /\ \A m, n \in DOMAIN p.names : p.names[m] < p.names[n] <=> q.names[m] < q.names[n]

\* Calls on two parts with the results r and t: on parts that are alike both
\* succeed or both fail, and the parts after a success are alike.
Matches(p, q, r, t) ==
    Alike(p, q) => r.ok = t.ok /\ (r.ok => Alike(r.part, t.part))

\* Branches of the same name have versions of the same names.
LEMMA SameVers ==
  ASSUME NEW p, PartInv(p), NEW q, PartInv(q), Alike(p, q),
         NEW i, NEW j, SameBranch(p, q, i, j)
  PROVE  /\ i \in DOMAIN p.vers <=> j \in DOMAIN q.vers
         /\ i \in DOMAIN p.vers => SameSet(p, q, p.vers[i], q.vers[j])
         /\ SameSet(p, q, P!Vers(p, i), P!Vers(q, j))
<1>1. i \in DOMAIN p.vers <=> \E b \in DOMAIN p.brs : p.brs[b] = i
  BY DEF PartInv
<1>2. j \in DOMAIN q.vers <=> \E b \in DOMAIN q.brs : q.brs[b] = j
  BY DEF PartInv
<1>3. i \in DOMAIN p.vers <=> j \in DOMAIN q.vers
  BY <1>1, <1>2 DEF Alike, SameBranch
<1>4. i \in DOMAIN p.vers => SameSet(p, q, p.vers[i], q.vers[j])
  BY <1>1 DEF Alike, SameBranch
<1>. QED  BY <1>3, <1>4 DEF SameSet, P!Vers, P!Of!Vers

\* The ids of the same branch name, or of the default branches, are the same.
LEMMA SameNamed ==
  ASSUME NEW p, PartInv(p), NEW q, PartInv(q), Alike(p, q)
  PROVE  /\ SameBranch(p, q, p.default, q.default)
         /\ \A b \in DOMAIN p.brs : SameBranch(p, q, p.brs[b], q.brs[b])
BY DEF Alike, SameBranch, PartInv

\* Every version on a branch has a name.
LEMMA Named ==
  ASSUME NEW p, PartInv(p), NEW v, v \in p.chgsets \/ \E i \in DOMAIN p.vers : v \in p.vers[i]
  PROVE  \E n \in DOMAIN p.names : p.names[n] = v
<1>1. v \in p.chgsets
  BY DEF PartInv
<1>. QED  BY <1>1 DEF PartInv

\* Which versions are the newest, up to a version, or newer than one.
LEMMA SameNewest ==
  ASSUME NEW p, PartInv(p), NEW q, PartInv(q), Alike(p, q),
         NEW S \in SUBSET p.chgsets, NEW T \in SUBSET q.chgsets, SameSet(p, q, S, T),
         NEW n \in DOMAIN p.names
  PROVE  P!Of(p)!IsLast(p.names[n], S) <=> P!Of(q)!IsLast(q.names[n], T)
<1>1. \A v \in S : \E m \in DOMAIN p.names : p.names[m] = v /\ q.names[m] \in T
  BY DEF PartInv, SameSet
<1>2. \A v \in T : \E m \in DOMAIN p.names : q.names[m] = v /\ p.names[m] \in S
  BY DEF PartInv, SameSet, Alike
<1>3. \A m \in DOMAIN p.names : p.names[m] \in Nat /\ q.names[m] \in Nat
  BY DEF PartInv, Alike
<1>4. \A m \in DOMAIN p.names : p.names[m] <= p.names[n] <=> q.names[m] <= q.names[n]
  BY <1>3 DEF Alike
<1>5. p.names[n] \in S <=> q.names[n] \in T
  BY DEF SameSet
<1>. QED  BY <1>1, <1>2, <1>3, <1>4, <1>5 DEF P!Of!IsLast

\* The versions up to one of the same name have the same names.
LEMMA SameUpTo ==
  ASSUME NEW p, PartInv(p), NEW q, PartInv(q), Alike(p, q),
         NEW S, NEW T, SameSet(p, q, S, T), NEW n \in DOMAIN p.names
  PROVE  SameSet(p, q, P!Of(p)!UpTo(S, p.names[n]), P!Of(q)!UpTo(T, q.names[n]))
<1>1. \A m \in DOMAIN p.names : p.names[m] \in Nat /\ q.names[m] \in Nat
  BY DEF PartInv, Alike
<1>2. \A m \in DOMAIN p.names : p.names[m] <= p.names[n] <=> q.names[m] <= q.names[n]
  BY <1>1 DEF Alike
<1>. QED  BY <1>2 DEF SameSet, P!Of!UpTo

\* A new version is newer than those there are, in both parts.
LEMMA AddVersionMatches ==
  ASSUME NEW p, PartInv(p), NEW q, PartInv(q), NEW n,
         NEW i, NEW j, Alike(p, q) => SameBranch(p, q, i, j)
  PROVE  Matches(p, q, P!AddVersion(p, i, n), P!AddVersion(q, j, n))
<1> SUFFICES ASSUME Alike(p, q)
             PROVE  LET r == P!AddVersion(p, i, n)
                        t == P!AddVersion(q, j, n)
                    IN  r.ok = t.ok /\ (r.ok => Alike(r.part, t.part))
  BY DEF Matches
<1>1. DOMAIN p.names = DOMAIN q.names /\ (i \in DOMAIN p.vers <=> j \in DOMAIN q.vers)
  BY SameVers DEF Alike
<1>2. CASE n \in DOMAIN p.names \/ i \notin DOMAIN p.vers
  BY <1>1, <1>2 DEF P!AddVersion, P!Failed
<1>3. CASE n \notin DOMAIN p.names /\ i \in DOMAIN p.vers
  <2>1. PICK r : r = P!AddVersion(p, i, n).part
    OBVIOUS
  <2>2. PICK t : t = P!AddVersion(q, j, n).part
    OBVIOUS
  <2>3. /\ r.default = p.default /\ r.brs = p.brs
        /\ r.vers = [p.vers EXCEPT ![i] = @ \cup {p.next_ver}]
        /\ r.names = P!MapInsert(p.names, n, p.next_ver)
        /\ r.chgsets = p.chgsets \cup {p.next_ver}
    BY <1>3, <2>1 DEF P!AddVersion, P!Done, PartInv, IsRecord
  <2>4. /\ t.default = q.default /\ t.brs = q.brs
        /\ t.vers = [q.vers EXCEPT ![j] = @ \cup {q.next_ver}]
        /\ t.names = P!MapInsert(q.names, n, q.next_ver)
        /\ t.chgsets = q.chgsets \cup {q.next_ver}
    BY <1>1, <1>3, <2>2 DEF P!AddVersion, P!Done, PartInv, IsRecord
  <2>5. /\ DOMAIN r.names = DOMAIN p.names \cup {n} /\ DOMAIN t.names = DOMAIN r.names
        /\ r.names[n] = p.next_ver /\ t.names[n] = q.next_ver
        /\ \A m \in DOMAIN p.names : r.names[m] = p.names[m] /\ t.names[m] = q.names[m]
    BY <1>1, <1>3, <2>3, <2>4 DEF P!MapInsert
  <2>6. /\ p.next_ver \in Nat /\ q.next_ver \in Nat
        /\ \A m \in DOMAIN p.names : /\ p.names[m] \in Nat /\ p.names[m] < p.next_ver
                                     /\ q.names[m] \in Nat /\ q.names[m] < q.next_ver
    BY <1>1 DEF PartInv
  <2>7. p.next_ver \notin p.chgsets /\ q.next_ver \notin q.chgsets
    BY <1>1, <2>6, Named
  <2>8. SameSet(r, t, r.chgsets, t.chgsets)
    BY <2>3, <2>4, <2>5, <2>6, <2>7 DEF Alike, SameSet
  <2>9. \A l, m \in DOMAIN r.names : r.names[l] < r.names[m] <=> t.names[l] < t.names[m]
    BY <2>5, <2>6 DEF Alike
  <2>10. ASSUME NEW b \in DOMAIN p.brs
         PROVE  SameSet(r, t, r.vers[p.brs[b]], t.vers[q.brs[b]])
    <3>1. /\ p.brs[b] \in DOMAIN p.vers /\ q.brs[b] \in DOMAIN q.vers
          /\ p.vers[p.brs[b]] \subseteq p.chgsets /\ q.vers[q.brs[b]] \subseteq q.chgsets
      BY DEF PartInv, Alike
    <3>2. SameSet(p, q, p.vers[p.brs[b]], q.vers[q.brs[b]])
      BY DEF Alike
    <3>3. p.brs[b] = i <=> q.brs[b] = j
      BY DEF SameBranch
    <3>4. CASE p.brs[b] = i
      <4>1. /\ r.vers[p.brs[b]] = p.vers[p.brs[b]] \cup {p.next_ver}
            /\ t.vers[q.brs[b]] = q.vers[q.brs[b]] \cup {q.next_ver}
        BY <2>3, <2>4, <3>1, <3>3, <3>4
      <4>. QED  BY <2>5, <2>6, <2>7, <3>1, <3>2, <4>1 DEF SameSet
    <3>5. CASE p.brs[b] # i
      <4>1. r.vers[p.brs[b]] = p.vers[p.brs[b]] /\ t.vers[q.brs[b]] = q.vers[q.brs[b]]
        BY <2>3, <2>4, <3>1, <3>3, <3>5
      <4>. QED  BY <2>5, <2>6, <2>7, <3>1, <3>2, <4>1 DEF SameSet
    <3>. QED  BY <3>4, <3>5
  <2>11. Alike(r, t)
    <3>1. DOMAIN r.brs = DOMAIN t.brs /\ SameBranch(r, t, r.default, t.default)
      BY <2>3, <2>4 DEF Alike, SameBranch
    <3>2. \A b \in DOMAIN r.brs : SameSet(r, t, r.vers[r.brs[b]], t.vers[t.brs[b]])
      BY <2>3, <2>4, <2>10
    <3>3. DOMAIN r.names = DOMAIN t.names
      BY <2>5
    <3>. QED  BY <2>8, <2>9, <3>1, <3>2, <3>3 DEF Alike
  <2>12. P!AddVersion(p, i, n).ok /\ P!AddVersion(q, j, n).ok
    BY <1>1, <1>3 DEF P!AddVersion, P!Done
  <2>. QED  BY <2>1, <2>2, <2>11, <2>12
<1>. QED  BY <1>2, <1>3

\* Branches of the same name get versions of the same names.
LEMMA SetVersMatches ==
  ASSUME NEW p, PartInv(p), NEW q, PartInv(q),
         NEW i, NEW j, Alike(p, q) => SameBranch(p, q, i, j),
         NEW S, NEW T, Alike(p, q) /\ i \in DOMAIN p.vers => SameSet(p, q, S, T)
  PROVE  Matches(p, q, P!SetVers(p, i, S), P!SetVers(q, j, T))
<1> SUFFICES ASSUME Alike(p, q)
             PROVE  LET r == P!SetVers(p, i, S)
                        t == P!SetVers(q, j, T)
                    IN  r.ok = t.ok /\ (r.ok => Alike(r.part, t.part))
  BY DEF Matches
<1>1. i \in DOMAIN p.vers <=> j \in DOMAIN q.vers
  BY SameVers
<1>2. CASE i \notin DOMAIN p.vers
  BY <1>1, <1>2 DEF P!SetVers, P!Failed
<1>3. CASE i \in DOMAIN p.vers
  <2>1. PICK r : r = P!SetVers(p, i, S).part
    OBVIOUS
  <2>2. PICK t : t = P!SetVers(q, j, T).part
    OBVIOUS
  <2>3. /\ r.default = p.default /\ r.brs = p.brs /\ r.vers = [p.vers EXCEPT ![i] = S]
        /\ r.names = p.names /\ r.chgsets = p.chgsets
    BY <1>3, <2>1 DEF P!SetVers, P!Done, PartInv, IsRecord
  <2>4. /\ t.default = q.default /\ t.brs = q.brs /\ t.vers = [q.vers EXCEPT ![j] = T]
        /\ t.names = q.names /\ t.chgsets = q.chgsets
    BY <1>1, <1>3, <2>2 DEF P!SetVers, P!Done, PartInv, IsRecord
  <2>5. ASSUME NEW b \in DOMAIN p.brs
        PROVE  SameSet(p, q, r.vers[p.brs[b]], t.vers[q.brs[b]])
    <3>1. p.brs[b] \in DOMAIN p.vers /\ q.brs[b] \in DOMAIN q.vers
      BY DEF PartInv, Alike
    <3>2. SameSet(p, q, p.vers[p.brs[b]], q.vers[q.brs[b]])
      BY DEF Alike
    <3>3. p.brs[b] = i <=> q.brs[b] = j
      BY DEF SameBranch
    <3>. QED  BY <1>3, <2>3, <2>4, <3>1, <3>2, <3>3
  <2>6. Alike(r, t)
    BY <2>3, <2>4, <2>5 DEF Alike, SameBranch, SameSet
  <2>7. P!SetVers(p, i, S).ok /\ P!SetVers(q, j, T).ok
    BY <1>1, <1>3 DEF P!SetVers, P!Done
  <2>. QED  BY <2>1, <2>2, <2>6, <2>7
<1>. QED  BY <1>2, <1>3

\* The newest versions of two branches of the same name have the same name.
LEMMA PopMatches ==
  ASSUME NEW p, PartInv(p), NEW q, PartInv(q),
         NEW i, NEW j, Alike(p, q) => SameBranch(p, q, i, j)
  PROVE  Matches(p, q, P!Pop(p, i), P!Pop(q, j))
<1> DEFINE S == {v \in p.vers[i] : ~P!Of(p)!IsLast(v, p.vers[i])}
           T == {v \in q.vers[j] : ~P!Of(q)!IsLast(v, q.vers[j])}
<1>1. ASSUME Alike(p, q), i \in DOMAIN p.vers
      PROVE  SameSet(p, q, S, T)
  <2>1. /\ p.vers[i] \in SUBSET p.chgsets /\ q.vers[j] \in SUBSET q.chgsets
        /\ SameSet(p, q, p.vers[i], q.vers[j])
    BY <1>1, SameVers DEF PartInv
  <2>2. ASSUME NEW n \in DOMAIN p.names
        PROVE  /\ p.names[n] \in p.vers[i] <=> q.names[n] \in q.vers[j]
               /\ P!Of(p)!IsLast(p.names[n], p.vers[i])
                    <=> P!Of(q)!IsLast(q.names[n], q.vers[j])
    <3>1. p.names[n] \in p.vers[i] <=> q.names[n] \in q.vers[j]
      BY <2>1 DEF SameSet
    <3>10. PICK X, Y : X = p.vers[i] /\ Y = q.vers[j]
      OBVIOUS
    <3>11. X \in SUBSET p.chgsets /\ Y \in SUBSET q.chgsets /\ SameSet(p, q, X, Y)
      BY <2>1, <3>10
    <3>12. P!Of(p)!IsLast(p.names[n], X) <=> P!Of(q)!IsLast(q.names[n], Y)
      BY <1>1, <3>11, SameNewest
    <3>2. P!Of(p)!IsLast(p.names[n], p.vers[i])
            <=> P!Of(q)!IsLast(q.names[n], q.vers[j])
      BY <3>10, <3>12
    <3>. QED  BY <3>1, <3>2
  <2>. QED  BY <2>2 DEF SameSet
<1>. HIDE DEF S, T
<1>2. Matches(p, q, P!SetVers(p, i, S), P!SetVers(q, j, T))
  BY <1>1, SetVersMatches
<1>. QED  BY <1>2 DEF P!Pop, S, T

\* Merging: what two version sets have in common.
LEMMA SameMerged ==
  ASSUME NEW p, PartInv(p), NEW q, PartInv(q), Alike(p, q),
         NEW S \in SUBSET p.chgsets, NEW T \in SUBSET q.chgsets, SameSet(p, q, S, T),
         NEW S2 \in SUBSET p.chgsets, NEW T2 \in SUBSET q.chgsets, SameSet(p, q, S2, T2)
  PROVE  SameSet(p, q, P!Of(p)!MergedVers(S, S2), P!Of(q)!MergedVers(T, T2))
<1> DEFINE C == P!Of(p)!CommonPrefix({S, S2})
           D == P!Of(q)!CommonPrefix({T, T2})
<1>1. C = {v \in S \cap S2 : P!Of(p)!UpTo(S, v) = P!Of(p)!UpTo(S2, v)}
  BY DEF P!Of!CommonPrefix
<1>2. D = {v \in T \cap T2 : P!Of(q)!UpTo(T, v) = P!Of(q)!UpTo(T2, v)}
  BY DEF P!Of!CommonPrefix
<1>3. \A m \in DOMAIN p.names : p.names[m] \in Nat /\ q.names[m] \in Nat
  BY DEF PartInv, Alike
<1>4. \A m \in DOMAIN p.names : /\ p.names[m] \in S <=> q.names[m] \in T
                                /\ p.names[m] \in S2 <=> q.names[m] \in T2
  BY DEF SameSet
<1>5. \A m, n \in DOMAIN p.names : /\ p.names[m] <= p.names[n] <=> q.names[m] <= q.names[n]
                                   /\ p.names[m] < p.names[n] <=> q.names[m] < q.names[n]
  BY <1>3 DEF Alike
<1>6. \A v \in S \cup S2 : \E m \in DOMAIN p.names : p.names[m] = v
  BY Named
<1>7. \A v \in T \cup T2 : \E m \in DOMAIN p.names : q.names[m] = v
  BY Named DEF Alike
<1>8. ASSUME NEW n \in DOMAIN p.names
      PROVE  p.names[n] \in C <=> q.names[n] \in D
  <2>1. P!Of(p)!UpTo(S, p.names[n]) = P!Of(p)!UpTo(S2, p.names[n])
          <=> \A m \in DOMAIN p.names : p.names[m] <= p.names[n] =>
                (p.names[m] \in S <=> p.names[m] \in S2)
    BY <1>6 DEF P!Of!UpTo
  <2>2. P!Of(q)!UpTo(T, q.names[n]) = P!Of(q)!UpTo(T2, q.names[n])
          <=> \A m \in DOMAIN p.names : q.names[m] <= q.names[n] =>
                (q.names[m] \in T <=> q.names[m] \in T2)
    BY <1>7 DEF P!Of!UpTo
  <2>. QED  BY <1>1, <1>2, <1>4, <1>5, <2>1, <2>2
<1>. HIDE DEF C, D
<1>9. S \ C # {} <=> T \ D # {}
  BY <1>4, <1>6, <1>7, <1>8
<1>10. S2 \ C # {} <=> T2 \ D # {}
  BY <1>4, <1>6, <1>7, <1>8
<1>11. ASSUME NEW n \in DOMAIN p.names
       PROVE  (\A u \in S2 : u < p.names[n]) <=> (\A u \in T2 : u < q.names[n])
  BY <1>4, <1>5, <1>6, <1>7
<1>. QED  BY <1>4, <1>8, <1>9, <1>10, <1>11 DEF P!Of!MergedVers, SameSet, C, D

\* So both merges move the same versions, or fail alike.
LEMMA MergeMatches ==
  ASSUME NEW p, PartInv(p), NEW q, PartInv(q),
         NEW i \in DOMAIN p.vers, NEW j \in DOMAIN q.vers, SameBranch(p, q, i, j),
         NEW u \in DOMAIN p.vers, NEW w \in DOMAIN q.vers, SameBranch(p, q, u, w)
  PROVE  Matches(p, q, P!Merge(p, i, u), P!Merge(q, j, w))
<1> DEFINE S == P!Of(p)!MergedVers(p.vers[i], p.vers[u])
           T == P!Of(q)!MergedVers(q.vers[j], q.vers[w])
<1>1. ASSUME Alike(p, q)
      PROVE  SameSet(p, q, S, T)
  <2>1. /\ p.vers[i] \in SUBSET p.chgsets /\ q.vers[j] \in SUBSET q.chgsets
        /\ p.vers[u] \in SUBSET p.chgsets /\ q.vers[w] \in SUBSET q.chgsets
    BY DEF PartInv
  <2>2. SameSet(p, q, p.vers[i], q.vers[j]) /\ SameSet(p, q, p.vers[u], q.vers[w])
    BY <1>1, SameVers
  <2>. QED  BY <1>1, <2>1, <2>2, SameMerged
<1>. HIDE DEF S, T
<1>2. Matches(p, q, P!SetVers(p, u, S), P!SetVers(q, w, T))
  BY <1>1, SetVersMatches
<1>. QED  BY <1>2 DEF P!Merge, S, T

\* Versions of the same names are forgotten, and what is left on the branches
\* has the same names.
LEMMA WithoutAlike ==
  ASSUME NEW p, PartInv(p), NEW q, PartInv(q), Alike(p, q),
         NEW S, NEW T, SameSet(p, q, S, T),
         NEW pv, NEW qv,
         \A b \in DOMAIN p.brs : SameSet(p, q, pv[p.brs[b]], qv[q.brs[b]])
  PROVE  Alike(Without(p, S, pv), Without(q, T, qv))
<1>1. PICK r : r = Without(p, S, pv)
  OBVIOUS
<1>2. PICK t : t = Without(q, T, qv)
  OBVIOUS
<1>3. /\ r.default = p.default /\ r.brs = p.brs /\ r.vers = pv
      /\ r.chgsets = p.chgsets \ S
  BY <1>1 DEF Without
<1>4. /\ t.default = q.default /\ t.brs = q.brs /\ t.vers = qv
      /\ t.chgsets = q.chgsets \ T
  BY <1>2 DEF Without
<1>5. /\ DOMAIN r.names = {n \in DOMAIN p.names : p.names[n] \notin S}
      /\ \A n \in DOMAIN r.names : r.names[n] = p.names[n]
  BY <1>1 DEF Without, P!MapRemove, P!Restrict, P!NamesOf
<1>6. /\ DOMAIN t.names = {n \in DOMAIN q.names : q.names[n] \notin T}
      /\ \A n \in DOMAIN t.names : t.names[n] = q.names[n]
  BY <1>2 DEF Without, P!MapRemove, P!Restrict, P!NamesOf
<1>7. DOMAIN r.names = DOMAIN t.names
  BY <1>5, <1>6 DEF Alike, SameSet
<1>8. SameSet(r, t, r.chgsets, t.chgsets)
  BY <1>3, <1>4, <1>5, <1>6, <1>7 DEF Alike, SameSet
<1>9. \A b \in DOMAIN r.brs : SameSet(r, t, r.vers[r.brs[b]], t.vers[t.brs[b]])
  BY <1>3, <1>4, <1>5, <1>6, <1>7 DEF SameSet
<1>10. \A m, n \in DOMAIN r.names : r.names[m] < r.names[n] <=> t.names[m] < t.names[n]
  BY <1>5, <1>6, <1>7 DEF Alike
<1>11. DOMAIN r.brs = DOMAIN t.brs /\ SameBranch(r, t, r.default, t.default)
  BY <1>3, <1>4 DEF Alike, SameBranch
<1>12. Alike(r, t)
  BY <1>7, <1>8, <1>9, <1>10, <1>11 DEF Alike
<1>. QED  BY <1>1, <1>2, <1>12

\* A rebase takes versions of the same names from both parts.
LEMMA RebaseMatches ==
  ASSUME NEW p, PartInv(p), NEW q, PartInv(q),
         NEW i, NEW j, Alike(p, q) => SameBranch(p, q, i, j),
         NEW n \in DOMAIN p.names, n \in DOMAIN q.names
  PROVE  Matches(p, q, P!Rebase(p, p.names[n], i), P!Rebase(q, q.names[n], j))
<1> SUFFICES ASSUME Alike(p, q)
             PROVE  LET r == P!Rebase(p, p.names[n], i)
                        t == P!Rebase(q, q.names[n], j)
                    IN  r.ok = t.ok /\ (r.ok => Alike(r.part, t.part))
  BY DEF Matches
<1>1. SameSet(p, q, P!Vers(p, i), P!Vers(q, j)) /\ SameBranch(p, q, i, j)
  BY SameVers
<1>2. p.names[n] \in P!Vers(p, i) <=> q.names[n] \in P!Vers(q, j)
  BY <1>1 DEF SameSet
<1>3. CASE p.names[n] \notin P!Vers(p, i)
  BY <1>2, <1>3 DEF P!Rebase, P!Failed
<1>4. CASE p.names[n] \in P!Vers(p, i)
  <2>1. PICK S : S = P!Of(p)!Newer(i, p.names[n])
    OBVIOUS
  <2>2. PICK T : T = P!Of(q)!Newer(j, q.names[n])
    OBVIOUS
  <2>3. PICK pv : pv = [p.vers EXCEPT ![i] = @ \ S]
    OBVIOUS
  <2>4. PICK qv : qv = [q.vers EXCEPT ![j] = @ \ T]
    OBVIOUS
  <2>5. P!Rebase(p, p.names[n], i) = P!Done(Without(p, S, pv))
    BY <1>4, <2>1, <2>3, RebaseIs
  <2>6. P!Rebase(q, q.names[n], j) = P!Done(Without(q, T, qv))
    BY <1>2, <1>4, <2>2, <2>4, RebaseIs
  <2>7. SameSet(p, q, S, T)
    <3>1. \A m \in DOMAIN p.names : p.names[m] > p.names[n] <=> q.names[m] > q.names[n]
      BY DEF Alike, PartInv
    <3>. QED  BY <1>1, <2>1, <2>2, <3>1 DEF SameSet, P!Of!Newer, P!Vers
  <2>8. ASSUME NEW b \in DOMAIN p.brs
        PROVE  SameSet(p, q, pv[p.brs[b]], qv[q.brs[b]])
    <3>1. p.brs[b] \in DOMAIN p.vers /\ q.brs[b] \in DOMAIN q.vers
      BY DEF PartInv, Alike
    <3>2. SameSet(p, q, p.vers[p.brs[b]], q.vers[q.brs[b]])
      BY DEF Alike
    <3>3. p.brs[b] = i <=> q.brs[b] = j
      BY <1>1 DEF SameBranch
    <3>4. CASE p.brs[b] = i
      <4>1. /\ pv[p.brs[b]] = p.vers[p.brs[b]] \ S
            /\ qv[q.brs[b]] = q.vers[q.brs[b]] \ T
        BY <2>3, <2>4, <3>1, <3>3, <3>4
      <4>. QED  BY <2>7, <3>2, <4>1 DEF SameSet
    <3>5. CASE p.brs[b] # i
      <4>1. pv[p.brs[b]] = p.vers[p.brs[b]] /\ qv[q.brs[b]] = q.vers[q.brs[b]]
        BY <2>3, <2>4, <3>1, <3>3, <3>5
      <4>. QED  BY <3>2, <4>1
    <3>. QED  BY <3>4, <3>5
  <2>9. Alike(Without(p, S, pv), Without(q, T, qv))
    BY <2>7, <2>8, WithoutAlike
  <2>. QED  BY <2>5, <2>6, <2>9 DEF P!Done
<1>. QED  BY <1>3, <1>4

\* Versions of the same names taken off all branches.
LEMMA SameOffAll ==
  ASSUME NEW p, PartInv(p), NEW q, PartInv(q), Alike(p, q),
         NEW S, NEW T, SameSet(p, q, S, T)
  PROVE  \A b \in DOMAIN p.brs :
            SameSet(p, q, OffAll(p, S)[p.brs[b]], OffAll(q, T)[q.brs[b]])
<1> TAKE b \in DOMAIN p.brs
<1>1. p.brs[b] \in DOMAIN p.vers /\ q.brs[b] \in DOMAIN q.vers
  BY DEF PartInv, Alike
<1>2. SameSet(p, q, p.vers[p.brs[b]], q.vers[q.brs[b]])
  BY DEF Alike
<1>3. /\ OffAll(p, S)[p.brs[b]] = p.vers[p.brs[b]] \ S
      /\ OffAll(q, T)[q.brs[b]] = q.vers[q.brs[b]] \ T
  BY <1>1 DEF OffAll
<1>. QED  BY <1>2, <1>3 DEF SameSet

\* A version of the same name is taken off both.
LEMMA RevertAlike ==
  ASSUME NEW p, PartInv(p), NEW q, PartInv(q), Alike(p, q), NEW n \in DOMAIN p.names
  PROVE  Alike(Reverted(p, p.names[n]), Reverted(q, q.names[n]))
<1>1. PICK S : S = {p.names[n]}
  OBVIOUS
<1>2. PICK T : T = {q.names[n]}
  OBVIOUS
<1>3. SameSet(p, q, S, T)
  BY <1>1, <1>2 DEF SameSet, Alike, PartInv
<1>4. Alike(Without(p, S, OffAll(p, S)), Without(q, T, OffAll(q, T)))
  BY <1>3, SameOffAll, WithoutAlike
<1>. QED  BY <1>1, <1>2, <1>4, RevertedIs

\* No branch has a version of a name in one part if and only if none has it in
\* the other.
LEMMA CleanedUpAlike ==
  ASSUME NEW p, PartInv(p), NEW q, PartInv(q), Alike(p, q)
  PROVE  Alike(P!CleanedUp(p), P!CleanedUp(q))
<1>1. ASSUME NEW n \in DOMAIN p.names
      PROVE  p.names[n] \in UNION P!Range(p.vers) <=> q.names[n] \in UNION P!Range(q.vers)
  <2>1. p.names[n] \in UNION P!Range(p.vers)
          <=> \E b \in DOMAIN p.brs : p.names[n] \in p.vers[p.brs[b]]
    BY DEF P!Range, PartInv
  <2>2. q.names[n] \in UNION P!Range(q.vers)
          <=> \E b \in DOMAIN q.brs : q.names[n] \in q.vers[q.brs[b]]
    BY DEF P!Range, PartInv
  <2>. QED  BY <2>1, <2>2 DEF Alike, SameSet
<1>2. SameSet(p, q, Unused(p), Unused(q))
  BY <1>1 DEF Unused, SameSet, Alike
<1>3. \A b \in DOMAIN p.brs : SameSet(p, q, p.vers[p.brs[b]], q.vers[q.brs[b]])
  BY DEF Alike
<1>4. Alike(Without(p, Unused(p), p.vers), Without(q, Unused(q), q.vers))
  BY <1>2, <1>3, WithoutAlike
<1>. QED  BY <1>4, CleanedUpIs

\* Branches of the same names are removed.
LEMMA WithoutBranchesAlike ==
  ASSUME NEW p, PartInv(p), NEW q, PartInv(q), Alike(p, q), NEW S, NEW T,
         \A b \in DOMAIN p.brs : p.brs[b] \in S <=> q.brs[b] \in T
  PROVE  /\ Alike(P!WithoutBranches(p, S), P!WithoutBranches(q, T))
         /\ P!WithoutBranches(p, S).names = p.names
         /\ P!WithoutBranches(q, T).names = q.names
         /\ P!WithoutBranches(p, S).chgsets = p.chgsets
         /\ DOMAIN P!WithoutBranches(p, S).brs = {b \in DOMAIN p.brs : p.brs[b] \notin S}
         /\ \A i, j : SameBranch(p, q, i, j) =>
              SameBranch(P!WithoutBranches(p, S), P!WithoutBranches(q, T), i, j)
<1>1. PICK r : r = P!WithoutBranches(p, S)
  OBVIOUS
<1>2. PICK t : t = P!WithoutBranches(q, T)
  OBVIOUS
<1>3. r = [default |-> p.default,
           brs |-> P!MapRemove(p.brs, {n \in DOMAIN p.brs : p.brs[n] \in S}),
           vers |-> P!MapRemove(p.vers, S), names |-> p.names,
           chgsets |-> p.chgsets, next_br |-> p.next_br, next_ver |-> p.next_ver]
  BY <1>1, WithoutIs DEF PartInv
<1>4. t = [default |-> q.default,
           brs |-> P!MapRemove(q.brs, {n \in DOMAIN q.brs : q.brs[n] \in T}),
           vers |-> P!MapRemove(q.vers, T), names |-> q.names,
           chgsets |-> q.chgsets, next_br |-> q.next_br, next_ver |-> q.next_ver]
  BY <1>2, WithoutIs DEF PartInv
<1>5. /\ r.default = p.default /\ r.names = p.names /\ r.chgsets = p.chgsets
      /\ DOMAIN r.brs = {b \in DOMAIN p.brs : p.brs[b] \notin S}
      /\ \A b \in DOMAIN r.brs : r.brs[b] = p.brs[b]
      /\ \A i \in DOMAIN p.vers \ S : r.vers[i] = p.vers[i]
  BY <1>3 DEF P!MapRemove, P!Restrict
<1>6. /\ t.default = q.default /\ t.names = q.names /\ t.chgsets = q.chgsets
      /\ DOMAIN t.brs = {b \in DOMAIN q.brs : q.brs[b] \notin T}
      /\ \A b \in DOMAIN t.brs : t.brs[b] = q.brs[b]
      /\ \A j \in DOMAIN q.vers \ T : t.vers[j] = q.vers[j]
  BY <1>4 DEF P!MapRemove, P!Restrict
<1>7. DOMAIN r.brs = DOMAIN t.brs
  BY <1>5, <1>6 DEF Alike
<1>8. \A i, j : SameBranch(p, q, i, j) => SameBranch(r, t, i, j)
  BY <1>5, <1>6, <1>7 DEF SameBranch
<1>9. ASSUME NEW b \in DOMAIN r.brs
      PROVE  SameSet(r, t, r.vers[r.brs[b]], t.vers[t.brs[b]])
  <2>1. p.brs[b] \in DOMAIN p.vers \ S /\ q.brs[b] \in DOMAIN q.vers \ T
    BY <1>5, <1>6, <1>7 DEF PartInv
  <2>2. SameSet(p, q, p.vers[p.brs[b]], q.vers[q.brs[b]])
    BY <1>5 DEF Alike
  <2>. QED  BY <1>5, <1>6, <1>7, <2>1, <2>2 DEF SameSet
<1>10. SameBranch(r, t, r.default, t.default)
  BY <1>5, <1>6, <1>8 DEF Alike
<1>11. Alike(r, t)
  BY <1>5, <1>6, <1>7, <1>9, <1>10 DEF Alike, SameSet
<1>. QED  BY <1>1, <1>2, <1>5, <1>6, <1>8, <1>11

\* Branch n is added, with versions of the same names.
LEMMA AddedAlike ==
  ASSUME NEW p, PartInv(p), NEW q, PartInv(q), Alike(p, q),
         NEW n, n \notin DOMAIN p.brs, NEW S, NEW T, SameSet(p, q, S, T)
  PROVE  /\ Alike(Added(p, n, S), Added(q, n, T))
         /\ SameBranch(Added(p, n, S), Added(q, n, T), p.next_br, q.next_br)
<1>1. PICK r : r = Added(p, n, S)
  OBVIOUS
<1>2. PICK t : t = Added(q, n, T)
  OBVIOUS
<1>3. /\ r.default = p.default /\ r.names = p.names /\ r.chgsets = p.chgsets
      /\ DOMAIN r.brs = DOMAIN p.brs \cup {n} /\ r.brs[n] = p.next_br
      /\ \A b \in DOMAIN p.brs : r.brs[b] = p.brs[b]
      /\ r.vers = P!MapInsert(p.vers, p.next_br, S)
  BY <1>1 DEF Added, P!MapInsert
<1>4. /\ t.default = q.default /\ t.names = q.names /\ t.chgsets = q.chgsets
      /\ DOMAIN t.brs = DOMAIN q.brs \cup {n} /\ t.brs[n] = q.next_br
      /\ \A b \in DOMAIN q.brs : b # n => t.brs[b] = q.brs[b]
      /\ t.vers = P!MapInsert(q.vers, q.next_br, T)
  BY <1>2 DEF Added, P!MapInsert
<1>5. DOMAIN p.brs = DOMAIN q.brs /\ DOMAIN p.names = DOMAIN q.names
  BY DEF Alike
<1>6. /\ \A b \in DOMAIN p.brs : /\ p.brs[b] \in DOMAIN p.vers /\ p.brs[b] # p.next_br
                                 /\ q.brs[b] \in DOMAIN q.vers /\ q.brs[b] # q.next_br
      /\ p.default # p.next_br /\ q.default # q.next_br
  BY <1>5 DEF PartInv
<1>7. SameBranch(r, t, p.next_br, q.next_br)
  BY <1>3, <1>4, <1>5, <1>6 DEF SameBranch
<1>8. SameBranch(r, t, r.default, t.default)
  BY <1>3, <1>4, <1>5, <1>6 DEF SameBranch, Alike
<1>9. ASSUME NEW b \in DOMAIN r.brs
      PROVE  SameSet(r, t, r.vers[r.brs[b]], t.vers[t.brs[b]])
  <2>1. CASE b = n
    <3>1. r.vers[r.brs[b]] = S /\ t.vers[t.brs[b]] = T
      BY <1>3, <1>4, <2>1 DEF P!MapInsert
    <3>. QED  BY <1>3, <1>4, <3>1 DEF SameSet
  <2>2. CASE b # n
    <3>1. r.vers[r.brs[b]] = p.vers[p.brs[b]] /\ t.vers[t.brs[b]] = q.vers[q.brs[b]]
      BY <1>3, <1>4, <1>5, <1>6, <2>2 DEF P!MapInsert
    <3>2. SameSet(p, q, p.vers[p.brs[b]], q.vers[q.brs[b]])
      BY <1>3, <2>2 DEF Alike
    <3>. QED  BY <1>3, <1>4, <3>1, <3>2 DEF SameSet
  <2>. QED  BY <2>1, <2>2
<1>10. Alike(r, t)
  BY <1>3, <1>4, <1>5, <1>8, <1>9 DEF Alike, SameSet
<1>. QED  BY <1>1, <1>2, <1>7, <1>10

\* A branch of the same name is removed from both, or from neither.
LEMMA RemoveMatches ==
  ASSUME NEW p, PartInv(p), NEW q, PartInv(q), NEW n
  PROVE  Matches(p, q, P!branch_remove(p, n), P!branch_remove(q, n))
<1> SUFFICES ASSUME Alike(p, q)
             PROVE  LET r == P!branch_remove(p, n)
                        t == P!branch_remove(q, n)
                    IN  r.ok = t.ok /\ (r.ok => Alike(r.part, t.part))
  BY DEF Matches
<1>1. DOMAIN p.brs = DOMAIN q.brs
  BY DEF Alike
<1>2. CASE n \notin DOMAIN p.brs
  BY <1>1, <1>2, RemoveIs DEF P!Failed
<1>3. CASE n \in DOMAIN p.brs
  <2>1. \A b \in DOMAIN p.brs : p.brs[b] \in {p.brs[n]} <=> q.brs[b] \in {q.brs[n]}
    BY <1>3, SameNamed DEF SameBranch
  <2>2. Alike(P!WithoutBranches(p, {p.brs[n]}), P!WithoutBranches(q, {q.brs[n]}))
    BY <2>1, WithoutBranchesAlike
  <2>. QED  BY <1>1, <1>3, <2>2, RemoveIs DEF P!Done
<1>. QED  BY <1>2, <1>3

\* A forced creation removes the same branch of both.
LEMMA ClearedAlike ==
  ASSUME NEW p, PartInv(p), NEW q, PartInv(q), Alike(p, q), NEW n, NEW force
  PROVE  /\ Alike(Cleared(p, n, force), Cleared(q, n, force))
         /\ Cleared(p, n, force).names = p.names /\ Cleared(q, n, force).names = q.names
         /\ \A i, j : SameBranch(p, q, i, j) =>
              SameBranch(Cleared(p, n, force), Cleared(q, n, force), i, j)
<1>1. DOMAIN p.brs = DOMAIN q.brs
  BY DEF Alike
<1>2. CASE ~force \/ n \notin DOMAIN p.brs
  BY <1>1, <1>2, RemoveIs DEF Cleared, P!Failed
<1>3. CASE force /\ n \in DOMAIN p.brs
  <2>1. \A b \in DOMAIN p.brs : p.brs[b] \in {p.brs[n]} <=> q.brs[b] \in {q.brs[n]}
    BY <1>3, SameNamed DEF SameBranch
  <2>2. /\ Cleared(p, n, force) = P!WithoutBranches(p, {p.brs[n]})
        /\ Cleared(q, n, force) = P!WithoutBranches(q, {q.brs[n]})
    BY <1>1, <1>3, RemoveIs DEF Cleared, P!Done
  <2>. QED  BY <2>1, <2>2, WithoutBranchesAlike
<1>. QED  BY <1>2, <1>3

\* A branch made in both parts has the same name, the same versions below it
\* and the same version on top.
LEMMA CreateMatches ==
  ASSUME NEW p, PartInv(p), NEW q, PartInv(q), NEW n, NEW name, NEW force,
         NEW i, NEW j, Alike(p, q) => SameBranch(p, q, i, j),
         NEW B \in SUBSET DOMAIN p.names, B \subseteq DOMAIN q.names
  PROVE  Matches(p, q, P!Create(p, n, name, i, {p.names[m] : m \in B}, force),
                       P!Create(q, n, name, j, {q.names[m] : m \in B}, force))
<1>1. PICK base : base = {p.names[m] : m \in B}
  OBVIOUS
<1>2. PICK qbase : qbase = {q.names[m] : m \in B}
  OBVIOUS
<1> SUFFICES ASSUME Alike(p, q)
             PROVE  LET r == P!Create(p, n, name, i, base, force)
                        t == P!Create(q, n, name, j, qbase, force)
                    IN  r.ok = t.ok /\ (r.ok => Alike(r.part, t.part))
  BY <1>1, <1>2 DEF Matches
<1>3. PICK c : c = Cleared(p, n, force)
  OBVIOUS
<1>4. PICK d : d = Cleared(q, n, force)
  OBVIOUS
<1>5. /\ PartInv(c) /\ PartInv(d) /\ Alike(c, d)
      /\ c.names = p.names /\ d.names = q.names
      /\ SameBranch(c, d, i, j)
  BY <1>3, <1>4, ClearedInv, ClearedAlike
<1>6. /\ i \in DOMAIN c.vers <=> j \in DOMAIN d.vers
      /\ i \in DOMAIN c.vers => SameSet(c, d, c.vers[i], d.vers[j])
      /\ SameSet(c, d, P!Vers(c, i), P!Vers(d, j))
  BY <1>5, SameVers
<1>7. base \subseteq P!Vers(c, i) <=> qbase \subseteq P!Vers(d, j)
  BY <1>1, <1>2, <1>5, <1>6 DEF SameSet
<1>8. PICK S : S = Based(c, i, base)
  OBVIOUS
<1>9. PICK T : T = Based(d, j, qbase)
  OBVIOUS
<1>10. PICK made : made = Added(c, n, S)
  OBVIOUS
<1>11. PICK qmade : qmade = Added(d, n, T)
  OBVIOUS
<1>12. CASE n \in DOMAIN c.brs \/ ~(base \subseteq P!Vers(c, i)) \/ i \notin DOMAIN c.vers
  <2>1. n \in DOMAIN d.brs \/ ~(qbase \subseteq P!Vers(d, j)) \/ j \notin DOMAIN d.vers
    BY <1>5, <1>6, <1>7, <1>12 DEF Alike
  <2>2. P!Create(p, n, name, i, base, force) = P!Failed(c)
    BY <1>3, <1>8, <1>10, <1>12, CreateIs
  <2>3. P!Create(q, n, name, j, qbase, force) = P!Failed(d)
    BY <1>4, <1>9, <1>11, <2>1, CreateIs
  <2>. QED  BY <2>2, <2>3 DEF P!Failed
<1>13. CASE ~(n \in DOMAIN c.brs \/ ~(base \subseteq P!Vers(c, i)) \/ i \notin DOMAIN c.vers)
  <2>1. ~(n \in DOMAIN d.brs \/ ~(qbase \subseteq P!Vers(d, j)) \/ j \notin DOMAIN d.vers)
    BY <1>5, <1>6, <1>7, <1>13 DEF Alike
  <2>2. SameSet(c, d, S, T)
    <3>1. ASSUME NEW m \in B
          PROVE  SameSet(c, d, P!Of(c)!UpTo(c.vers[i], p.names[m]),
                               P!Of(d)!UpTo(d.vers[j], q.names[m]))
      BY <1>5, <1>6, <1>13, SameUpTo
    <3>2. ASSUME NEW l \in DOMAIN c.names
          PROVE  c.names[l] \in S <=> d.names[l] \in T
      <4>1. c.names[l] \in S
              <=> \E m \in B : c.names[l] \in P!Of(c)!UpTo(c.vers[i], p.names[m])
        BY <1>1, <1>8 DEF Based
      <4>2. d.names[l] \in T
              <=> \E m \in B : d.names[l] \in P!Of(d)!UpTo(d.vers[j], q.names[m])
        BY <1>2, <1>9 DEF Based
      <4>3. ASSUME NEW m \in B
            PROVE  c.names[l] \in P!Of(c)!UpTo(c.vers[i], p.names[m])
                     <=> d.names[l] \in P!Of(d)!UpTo(d.vers[j], q.names[m])
        BY <3>1 DEF SameSet
      <4>. QED  BY <4>1, <4>2, <4>3
    <3>. QED  BY <3>2 DEF SameSet
  <2>3. Alike(made, qmade) /\ SameBranch(made, qmade, c.next_br, d.next_br)
    BY <1>5, <1>10, <1>11, <1>13, <2>2, AddedAlike
  <2>4. PartInv(made) /\ PartInv(qmade)
    <3>1. S \in SUBSET c.chgsets /\ T \in SUBSET d.chgsets
      BY <1>5, <1>8, <1>9, <1>13, <2>1 DEF Based, P!Of!UpTo, PartInv
    <3>. QED  BY <1>5, <1>10, <1>11, <1>13, <2>1, <3>1, AddedInv
  <2>20. PICK m : m = CHOOSE l \in name : TRUE
    OBVIOUS
  <2>5. P!Create(p, n, name, i, base, force) =
          IF name = {} THEN P!Done(made) ELSE P!AddVersion(made, c.next_br, m)
    BY <2>20, <1>3, <1>8, <1>10, <1>13, CreateIs
  <2>6. P!Create(q, n, name, j, qbase, force) =
          IF name = {} THEN P!Done(qmade) ELSE P!AddVersion(qmade, d.next_br, m)
    BY <2>20, <1>4, <1>9, <1>11, <2>1, CreateIs
  <2>7. Matches(made, qmade, P!AddVersion(made, c.next_br, m),
                             P!AddVersion(qmade, d.next_br, m))
    BY <2>3, <2>4, AddVersionMatches
  <2>8. CASE name = {}
    BY <2>3, <2>5, <2>6, <2>8 DEF P!Done
  <2>9. CASE name # {}
    <3>1. PICK r, t : /\ r = P!AddVersion(made, c.next_br, m)
                      /\ t = P!AddVersion(qmade, d.next_br, m)
      OBVIOUS
    <3>2. r.ok = t.ok /\ (r.ok => Alike(r.part, t.part))
      BY <2>3, <2>7, <3>1 DEF Matches
    <3>3. P!Create(p, n, name, i, base, force) = r /\ P!Create(q, n, name, j, qbase, force) = t
      BY <2>5, <2>6, <2>9, <3>1
    <3>. QED  BY <3>2, <3>3
  <2>. QED  BY <2>8, <2>9
<1>. QED  BY <1>12, <1>13

\* The name of the version is looked up in both.
LEMMA CreateFromMatches ==
  ASSUME NEW p, PartInv(p), NEW q, PartInv(q), NEW n, NEW name, NEW force,
         NEW i, NEW j, Alike(p, q) => SameBranch(p, q, i, j),
         NEW B \in SUBSET DOMAIN p.names, B \subseteq DOMAIN q.names
  PROVE  Matches(p, q, P!CreateFrom(p, n, name, i, {p.names[m] : m \in B}, force),
                       P!CreateFrom(q, n, name, j, {q.names[m] : m \in B}, force))
<1>1. PICK base, qbase : base = {p.names[m] : m \in B} /\ qbase = {q.names[m] : m \in B}
  OBVIOUS
<1>2. Matches(p, q, P!Create(p, n, name, i, base, force),
                    P!Create(q, n, name, j, qbase, force))
  BY <1>1, CreateMatches
<1>3. Alike(p, q) => DOMAIN p.names = DOMAIN q.names
  BY DEF Alike
<1>4. Matches(p, q, P!CreateFrom(p, n, name, i, base, force),
                    P!CreateFrom(q, n, name, j, qbase, force))
  BY <1>2, <1>3 DEF P!CreateFrom, P!Failed, Matches
<1>. QED  BY <1>1, <1>4

\* The branch is made from the newest version, if there is one.
LEMMA CreateOnMatches ==
  ASSUME NEW p, PartInv(p), NEW q, PartInv(q), NEW n, NEW name, NEW force,
         NEW i, NEW j, Alike(p, q) => SameBranch(p, q, i, j)
  PROVE  Matches(p, q, P!CreateOn(p, n, name, i, force), P!CreateOn(q, n, name, j, force))
<1> SUFFICES ASSUME Alike(p, q)
             PROVE  Matches(p, q, P!CreateOn(p, n, name, i, force),
                                  P!CreateOn(q, n, name, j, force))
  BY DEF Matches
<1>1. /\ i \in DOMAIN p.vers <=> j \in DOMAIN q.vers
      /\ i \in DOMAIN p.vers => SameSet(p, q, p.vers[i], q.vers[j])
  BY SameVers
<1>2. CASE i \notin DOMAIN p.vers
  BY <1>1, <1>2 DEF P!CreateOn, P!Failed, Matches
<1>3. CASE i \in DOMAIN p.vers
  <2>1. PICK S, T : S = p.vers[i] /\ T = q.vers[j]
    OBVIOUS
  <2>2. S \in SUBSET p.chgsets /\ T \in SUBSET q.chgsets /\ SameSet(p, q, S, T)
    BY <1>1, <1>3, <2>1 DEF PartInv
  <2>3. PICK B : B = {m \in DOMAIN p.names : P!Of(p)!IsLast(p.names[m], S)}
    OBVIOUS
  <2>4. DOMAIN p.names = DOMAIN q.names
    BY DEF Alike
  <2>5. \A m \in DOMAIN p.names : P!Of(p)!IsLast(p.names[m], S)
                                    <=> P!Of(q)!IsLast(q.names[m], T)
    BY <2>2, SameNewest
  <2>6. {v \in S : P!Of(p)!IsLast(v, S)} = {p.names[m] : m \in B}
    <3>1. \A v \in S : \E m \in DOMAIN p.names : p.names[m] = v
      BY <2>2, Named
    <3>2. \A v : P!Of(p)!IsLast(v, S) => v \in S
      BY DEF P!Of!IsLast
    <3>. QED  BY <2>3, <3>1, <3>2
  <2>7. {v \in T : P!Of(q)!IsLast(v, T)} = {q.names[m] : m \in B}
    <3>1. \A v \in T : \E m \in DOMAIN q.names : q.names[m] = v
      BY <2>2, Named
    <3>2. \A v : P!Of(q)!IsLast(v, T) => v \in T
      BY DEF P!Of!IsLast
    <3>. QED  BY <2>3, <2>4, <2>5, <3>1, <3>2
  <2>8. Matches(p, q, P!CreateFrom(p, n, name, i, {p.names[m] : m \in B}, force),
                      P!CreateFrom(q, n, name, j, {q.names[m] : m \in B}, force))
    BY <2>3, <2>4, CreateFromMatches
  <2>9. P!CreateOn(p, n, name, i, force) =
          P!CreateFrom(p, n, name, i, {v \in S : P!Of(p)!IsLast(v, S)}, force)
    BY <1>3, <2>1 DEF P!CreateOn
  <2>10. P!CreateOn(q, n, name, j, force) =
          P!CreateFrom(q, n, name, j, {v \in T : P!Of(q)!IsLast(v, T)}, force)
    BY <1>1, <1>3, <2>1 DEF P!CreateOn
  <2>. QED  BY <2>6, <2>7, <2>8, <2>9, <2>10
<1>. QED  BY <1>2, <1>3

-----------------------------------------------------------------------------
(***************************************************************************)
(* Two parts that are alike have the same versions to prune.               *)
(***************************************************************************)
LEMMA SameShared ==
  ASSUME NEW p, PartInv(p), NEW q, PartInv(q), Alike(p, q)
  PROVE  /\ SameSet(p, q, P!Of(p)!SharedVers, P!Of(q)!SharedVers)
         /\ P!Of(p)!SharedVers \subseteq p.chgsets /\ P!Of(q)!SharedVers \subseteq q.chgsets
<1> DEFINE U(b) == p.vers[p.brs[b]]
           W(b) == q.vers[q.brs[b]]
<1>1. P!Range(p.vers) = {U(b) : b \in DOMAIN p.brs}
  BY DEF P!Range, PartInv
<1>2. P!Range(q.vers) = {W(b) : b \in DOMAIN p.brs}
  BY DEF P!Range, PartInv, Alike
<1>3. \A b \in DOMAIN p.brs : SameSet(p, q, U(b), W(b))
  BY DEF Alike
<1>4. \A b \in DOMAIN p.brs : U(b) \subseteq p.chgsets /\ W(b) \subseteq q.chgsets
  BY DEF PartInv, Alike
<1>. HIDE DEF U, W
<1>5. \A b \in DOMAIN p.brs : U(b) = {} <=> W(b) = {}
  <2> TAKE b \in DOMAIN p.brs
  <2>1. \A v \in U(b) : \E n \in DOMAIN p.names : p.names[n] = v
    BY <1>4, Named
  <2>2. \A v \in W(b) : \E n \in DOMAIN p.names : q.names[n] = v
    BY <1>4, Named DEF Alike
  <2>. QED  BY <1>3, <2>1, <2>2 DEF SameSet
<1>6. ASSUME NEW v
      PROVE  v \in P!Of(p)!SharedVers
               <=> /\ \E b \in DOMAIN p.brs : v \in U(b)
                   /\ \A a, b \in DOMAIN p.brs : U(a) # {} /\ U(b) # {} =>
                        v \in U(a) /\ P!Of(p)!UpTo(U(a), v) = P!Of(p)!UpTo(U(b), v)
  BY <1>1 DEF P!Of!SharedVers, P!Of!CommonPrefix, P!Range, P!Of!Range
<1>7. ASSUME NEW v
      PROVE  v \in P!Of(q)!SharedVers
               <=> /\ \E b \in DOMAIN p.brs : v \in W(b)
                   /\ \A a, b \in DOMAIN p.brs : W(a) # {} /\ W(b) # {} =>
                        v \in W(a) /\ P!Of(q)!UpTo(W(a), v) = P!Of(q)!UpTo(W(b), v)
  BY <1>2 DEF P!Of!SharedVers, P!Of!CommonPrefix, P!Range, P!Of!Range
<1>8. ASSUME NEW n \in DOMAIN p.names, NEW a \in DOMAIN p.brs, NEW b \in DOMAIN p.brs
      PROVE  P!Of(p)!UpTo(U(a), p.names[n]) = P!Of(p)!UpTo(U(b), p.names[n])
               <=> P!Of(q)!UpTo(W(a), q.names[n]) = P!Of(q)!UpTo(W(b), q.names[n])
  <2>1. \A m \in DOMAIN p.names : p.names[m] <= p.names[n] <=> q.names[m] <= q.names[n]
    BY DEF Alike, PartInv
  <2>2. P!Of(p)!UpTo(U(a), p.names[n]) = P!Of(p)!UpTo(U(b), p.names[n])
          <=> \A m \in DOMAIN p.names : p.names[m] <= p.names[n] =>
                (p.names[m] \in U(a) <=> p.names[m] \in U(b))
    <3>1. \A v \in U(a) \cup U(b) : \E m \in DOMAIN p.names : p.names[m] = v
      BY <1>4, Named
    <3>. QED  BY <3>1 DEF P!Of!UpTo
  <2>3. P!Of(q)!UpTo(W(a), q.names[n]) = P!Of(q)!UpTo(W(b), q.names[n])
          <=> \A m \in DOMAIN p.names : q.names[m] <= q.names[n] =>
                (q.names[m] \in W(a) <=> q.names[m] \in W(b))
    <3>1. \A v \in W(a) \cup W(b) : \E m \in DOMAIN p.names : q.names[m] = v
      BY <1>4, Named DEF Alike
    <3>. QED  BY <3>1 DEF P!Of!UpTo
  <2>. QED  BY <1>3, <2>1, <2>2, <2>3 DEF SameSet
<1>9. ASSUME NEW n \in DOMAIN p.names
      PROVE  p.names[n] \in P!Of(p)!SharedVers <=> q.names[n] \in P!Of(q)!SharedVers
  <2>1. \A b \in DOMAIN p.brs : p.names[n] \in U(b) <=> q.names[n] \in W(b)
    BY <1>3 DEF SameSet
  <2>. QED  BY <1>5, <1>6, <1>7, <1>8, <2>1
<1>. QED  BY <1>4, <1>6, <1>7, <1>9 DEF SameSet

\* There are as many versions as names of them.
LEMMA CountNames ==
  ASSUME NEW p, PartInv(p), NEW S \in SUBSET p.chgsets,
         NEW N, N = {m \in DOMAIN p.names : p.names[m] \in S}
  PROVE  Cardinality(N) = P!Of(p)!Cardinality(S)
<1> DEFINE f == [v \in S |-> CHOOSE m \in DOMAIN p.names : p.names[m] = v]
<1>1. \A v \in S : \E m \in DOMAIN p.names : p.names[m] = v
  BY Named
<1>2. \A v \in S : f[v] \in N /\ p.names[f[v]] = v
  BY <1>1
<1>3. \A m \in N : p.names[m] \in S /\ f[p.names[m]] = m
  <2>1. \A m, n \in DOMAIN p.names : p.names[m] = p.names[n] => m = n
    BY DEF PartInv
  <2>. QED  BY <1>2, <2>1
<1>4. f \in [S -> N]
  BY <1>2
<1>. HIDE DEF f
<1>5. f \in Bijection(S, N)
  BY <1>2, <1>3, <1>4 DEF Bijection, Injection, Surjection, IsInjective
<1>6. IsFiniteSet(S)
  <2>1. S \subseteq 0 .. p.next_ver
    BY <1>1 DEF PartInv
  <2>2. IsFiniteSet(0 .. p.next_ver)
    <3>1. 0 \in Int /\ p.next_ver \in Int
      BY DEF PartInv
    <3>. QED  BY <3>1, FS_Interval
  <2>. QED  BY <2>1, <2>2, FS_Subset
<1>7. Cardinality(N) = Cardinality(S)
  BY <1>5, <1>6, FS_Bijection DEF ExistsBijection
<1>. QED  BY <1>7 DEF P!Of!Cardinality, Cardinality

\* Of the shared versions, the same are old enough to be merged: as many newer
\* ones have names in both parts.
LEMMA SameMergeable ==
  ASSUME NEW p, PartInv(p), NEW q, PartInv(q), Alike(p, q), NEW r
  PROVE  SameSet(p, q, P!Of(p)!Mergeable(r), P!Of(q)!Mergeable(r))
<1> DEFINE S == P!Of(p)!SharedVers
           T == P!Of(q)!SharedVers
<1>1. SameSet(p, q, S, T) /\ S \subseteq p.chgsets /\ T \subseteq q.chgsets
  BY SameShared
<1>. HIDE DEF S, T
<1>2. \A v \in S : \E m \in DOMAIN p.names : p.names[m] = v
  BY <1>1, Named
<1>3. \A v \in T : \E m \in DOMAIN p.names : q.names[m] = v
  BY <1>1, Named DEF Alike
<1>4. \A m, n \in DOMAIN p.names : p.names[m] < p.names[n] <=> q.names[m] < q.names[n]
  BY DEF Alike
<1>5. \A m \in DOMAIN p.names : p.names[m] \in S <=> q.names[m] \in T
  BY <1>1 DEF SameSet
<1>6. ASSUME NEW n \in DOMAIN p.names
      PROVE  P!Of(p)!Cardinality({w \in S : w > p.names[n]})
               = P!Of(q)!Cardinality({w \in T : w > q.names[n]})
  <2>1. PICK X, Y : X = {w \in S : w > p.names[n]} /\ Y = {w \in T : w > q.names[n]}
    OBVIOUS
  <2>2. X \in SUBSET p.chgsets /\ Y \in SUBSET q.chgsets
    BY <1>1, <2>1
  <2>3. PICK N : N = {m \in DOMAIN p.names : p.names[m] \in X}
    OBVIOUS
  <2>4. N = {m \in DOMAIN q.names : q.names[m] \in Y}
    <3>1. \A m \in DOMAIN p.names : p.names[m] > p.names[n] <=> q.names[m] > q.names[n]
      BY <1>4 DEF PartInv, Alike
    <3>. QED  BY <1>5, <2>1, <2>3, <3>1 DEF Alike
  <2>5. Cardinality(N) = P!Of(p)!Cardinality(X) /\ Cardinality(N) = P!Of(q)!Cardinality(Y)
    BY <2>2, <2>3, <2>4, CountNames
  <2>. QED  BY <2>1, <2>5
<1>7. ASSUME NEW n \in DOMAIN p.names
      PROVE  p.names[n] \in P!Of(p)!Mergeable(r) <=> q.names[n] \in P!Of(q)!Mergeable(r)
  <2>1. (\E u \in S : u < p.names[n]) <=> (\E u \in T : u < q.names[n])
    BY <1>2, <1>3, <1>4, <1>5
  <2>. QED  BY <1>5, <1>6, <2>1 DEF P!Of!Mergeable, S, T
<1>. QED  BY <1>7 DEF SameSet

\* Both parts are cleaned up, and the same versions merged away.
LEMMA PruneMatches ==
  ASSUME NEW p, PartInv(p), NEW q, PartInv(q), NEW num
  PROVE  Matches(p, q, P!prune(p, num), P!prune(q, num))
<1> SUFFICES ASSUME Alike(p, q)
             PROVE  LET r == P!prune(p, num)
                        t == P!prune(q, num)
                    IN  r.ok = t.ok /\ (r.ok => Alike(r.part, t.part))
  BY DEF Matches
<1>1. PICK r : r = (1 + num) % (USIZE_MAX + 1)
  OBVIOUS
<1>2. PICK c, d : c = P!CleanedUp(p) /\ d = P!CleanedUp(q)
  OBVIOUS
<1>3. PartInv(c) /\ PartInv(d) /\ Alike(c, d)
  BY <1>2, CleanedUpInv, CleanedUpAlike
<1>4. PICK S, T : S = P!Of(c)!Mergeable(r) /\ T = P!Of(d)!Mergeable(r)
  OBVIOUS
<1>5. SameSet(c, d, S, T)
  BY <1>3, <1>4, SameMergeable
<1>6. Alike(MergedAway(c, S), MergedAway(d, T))
  <2>1. PICK e, f : e = MergedAway(c, S) /\ f = MergedAway(d, T)
    OBVIOUS
  <2>2. /\ e.default = c.default /\ e.brs = c.brs /\ e.vers = OffAll(c, S)
        /\ e.names = c.names /\ e.chgsets = c.chgsets \ S
        /\ f.default = d.default /\ f.brs = d.brs /\ f.vers = OffAll(d, T)
        /\ f.names = d.names /\ f.chgsets = d.chgsets \ T
    BY <2>1 DEF MergedAway
  <2>3. \A b \in DOMAIN c.brs : SameSet(c, d, OffAll(c, S)[c.brs[b]], OffAll(d, T)[d.brs[b]])
    BY <1>3, <1>5, SameOffAll
  <2>4. Alike(e, f)
    BY <1>3, <1>5, <2>2, <2>3 DEF Alike, SameSet, SameBranch
  <2>. QED  BY <2>1, <2>4
<1>7. P!prune(p, num) = IF r = 0 THEN P!Failed(c) ELSE P!Done(MergedAway(c, S))
  BY <1>1, <1>2, <1>4, PruneIs
<1>8. P!prune(q, num) = IF r = 0 THEN P!Failed(d) ELSE P!Done(MergedAway(d, T))
  BY <1>1, <1>2, <1>4, PruneIs
<1>9. CASE r = 0
  BY <1>7, <1>8, <1>9 DEF P!Failed
<1>10. CASE r # 0
  BY <1>6, <1>7, <1>8, <1>10 DEF P!Done
<1>. QED  BY <1>9, <1>10

-----------------------------------------------------------------------------
(***************************************************************************)
(* The operations of the trait on a part.                                  *)
(***************************************************************************)
\* A call on part p with result r keeps the invariant; a plain one that fails
\* leaves the part as it is.
Kept(p, r, plain) == PartInv(r.part) /\ (plain /\ ~r.ok => r.part = p)

Regular(p, q, r, t, plain) == Kept(p, r, plain) /\ Matches(p, q, r, t)

\* A call that fails at once.
LEMMA RegularFailed ==
  ASSUME NEW p, PartInv(p), NEW q, NEW plain
  PROVE  Regular(p, q, P!Failed(p), P!Failed(q), plain)
BY DEF Regular, Kept, Matches, P!Failed

\* A name is resolved first: x and y are the results for its id.
LEMMA ByBranch ==
  ASSUME NEW p, PartInv(p), NEW q, PartInv(q), NEW b, NEW x, NEW y, NEW plain,
         b \in DOMAIN p.brs => Kept(p, x, plain),
         b \in DOMAIN p.brs /\ b \in DOMAIN q.brs => Matches(p, q, x, y)
  PROVE  Regular(p, q, IF b \in DOMAIN p.brs THEN x ELSE P!Failed(p),
                       IF b \in DOMAIN q.brs THEN y ELSE P!Failed(q), plain)
<1>1. CASE b \notin DOMAIN p.brs
  BY <1>1 DEF Regular, Kept, Matches, P!Failed, Alike
<1>2. CASE b \in DOMAIN p.brs /\ b \in DOMAIN q.brs
  BY <1>2 DEF Regular
<1>3. CASE b \in DOMAIN p.brs /\ b \notin DOMAIN q.brs
  BY <1>3 DEF Regular, Matches, Alike
<1>. QED  BY <1>1, <1>2, <1>3

\* The same for the name of a version.
LEMMA ByVersion ==
  ASSUME NEW p, PartInv(p), NEW q, PartInv(q), NEW n, NEW x, NEW y, NEW plain,
         n \in DOMAIN p.names => Kept(p, x, plain),
         n \in DOMAIN p.names /\ n \in DOMAIN q.names => Matches(p, q, x, y)
  PROVE  Regular(p, q, IF n \in DOMAIN p.names THEN x ELSE P!Failed(p),
                       IF n \in DOMAIN q.names THEN y ELSE P!Failed(q), plain)
<1>1. CASE n \notin DOMAIN p.names
  BY <1>1 DEF Regular, Kept, Matches, P!Failed, Alike
<1>2. CASE n \in DOMAIN p.names /\ n \in DOMAIN q.names
  BY <1>2 DEF Regular
<1>3. CASE n \in DOMAIN p.names /\ n \notin DOMAIN q.names
  BY <1>3 DEF Regular, Matches, Alike
<1>. QED  BY <1>1, <1>2, <1>3

\* A version is added, or nothing done.
LEMMA AddVersionKept ==
  ASSUME NEW p, PartInv(p), NEW i, NEW n
  PROVE  Kept(p, P!AddVersion(p, i, n), TRUE)
BY AddVersionInv DEF Kept, P!AddVersion, P!Failed, P!Done

\* A branch is given its versions, or nothing done.
LEMMA SetVersKept ==
  ASSUME NEW p, PartInv(p), NEW i, NEW S, i \in DOMAIN p.vers => S \in SUBSET p.chgsets
  PROVE  Kept(p, P!SetVers(p, i, S), TRUE)
BY SetVersInv DEF Kept, P!SetVers, P!Failed, P!Done

\* Creating a version.
LEMMA CreateVersionRegular ==
  ASSUME NEW p, PartInv(p), NEW q, PartInv(q), NEW n, NEW b
  PROVE  /\ Regular(p, q, P!version_create(p, n), P!version_create(q, n), TRUE)
         /\ Regular(p, q, P!version_create_by_branch(p, n, b),
                          P!version_create_by_branch(q, n, b), TRUE)
<1>1. Regular(p, q, P!version_create(p, n), P!version_create(q, n), TRUE)
  <2>1. Matches(p, q, P!AddVersion(p, p.default, n), P!AddVersion(q, q.default, n))
    BY SameNamed, AddVersionMatches
  <2>. QED  BY <2>1, AddVersionKept DEF P!version_create, Regular
<1>2. Regular(p, q, P!version_create_by_branch(p, n, b),
                    P!version_create_by_branch(q, n, b), TRUE)
  <2>1. PICK x, y : x = P!AddVersion(p, p.brs[b], n) /\ y = P!AddVersion(q, q.brs[b], n)
    OBVIOUS
  <2>2. b \in DOMAIN p.brs /\ b \in DOMAIN q.brs => Matches(p, q, x, y)
    BY <2>1, SameNamed, AddVersionMatches
  <2>3. Kept(p, x, TRUE)
    BY <2>1, AddVersionKept
  <2>. QED  BY <2>1, <2>2, <2>3, ByBranch DEF P!version_create_by_branch, P!OnBranch
<1>. QED  BY <1>1, <1>2

\* Removing the newest version of a branch.
LEMMA PopRegular ==
  ASSUME NEW p, PartInv(p), NEW q, PartInv(q), NEW b
  PROVE  /\ Regular(p, q, P!version_pop(p), P!version_pop(q), TRUE)
         /\ Regular(p, q, P!version_pop_by_branch(p, b), P!version_pop_by_branch(q, b), TRUE)
         /\ Regular(p, q, P!branch_pop_version(p, b), P!branch_pop_version(q, b), TRUE)
<1>1. \A i : Kept(p, P!Pop(p, i), TRUE)
  <2> TAKE i
  <2>1. PICK S : S = {v \in p.vers[i] : ~P!Of(p)!IsLast(v, p.vers[i])}
    OBVIOUS
  <2>2. i \in DOMAIN p.vers => S \in SUBSET p.chgsets
    BY <2>1 DEF PartInv
  <2>. QED  BY <2>1, <2>2, SetVersKept DEF P!Pop
<1>2. Regular(p, q, P!version_pop(p), P!version_pop(q), TRUE)
  <2>1. Matches(p, q, P!Pop(p, p.default), P!Pop(q, q.default))
    BY SameNamed, PopMatches
  <2>. QED  BY <1>1, <2>1 DEF P!version_pop, Regular
<1>3. PICK x, y : x = P!Pop(p, p.brs[b]) /\ y = P!Pop(q, q.brs[b])
  OBVIOUS
<1>4. b \in DOMAIN p.brs /\ b \in DOMAIN q.brs => Matches(p, q, x, y)
  BY <1>3, SameNamed, PopMatches
<1>5. Kept(p, x, TRUE)
  BY <1>1, <1>3
<1>6. Regular(p, q, P!version_pop_by_branch(p, b), P!version_pop_by_branch(q, b), TRUE)
  BY <1>3, <1>4, <1>5, ByBranch DEF P!version_pop_by_branch, P!OnBranch
<1>7. Regular(p, q, P!branch_pop_version(p, b), P!branch_pop_version(q, b), TRUE)
  BY <1>3, <1>4, <1>5, ByBranch DEF P!branch_pop_version, P!OnBranch
<1>. QED  BY <1>2, <1>6, <1>7

\* A rebase within the duty of its caller.
LEMMA RebaseKept ==
  ASSUME NEW p, PartInv(p), NEW n \in DOMAIN p.names, NEW i,
         P!Of(p)!RebaseDuty(i, p.names[n])
  PROVE  Kept(p, P!Rebase(p, p.names[n], i), TRUE)
<1>1. p.names[n] \in Nat
  BY DEF PartInv
<1>2. PartInv(P!Rebase(p, p.names[n], i).part)
  BY <1>1, RebaseInv
<1>. QED  BY <1>2 DEF Kept, P!Rebase, P!Failed, P!Done

\* A rebase of the default branch.
LEMMA RebaseRegular ==
  ASSUME NEW p, PartInv(p), NEW q, PartInv(q), NEW n,
         n \in DOMAIN p.names => P!Of(p)!RebaseDuty(p.default, p.names[n])
  PROVE  Regular(p, q, P!version_rebase(p, n), P!version_rebase(q, n), TRUE)
<1>1. PICK x, y : x = P!Rebase(p, p.names[n], p.default) /\ y = P!Rebase(q, q.names[n], q.default)
  OBVIOUS
<1>2. n \in DOMAIN p.names => Kept(p, x, TRUE)
  BY <1>1, RebaseKept
<1>3. n \in DOMAIN p.names /\ n \in DOMAIN q.names => Matches(p, q, x, y)
  BY <1>1, SameNamed, RebaseMatches
<1>. QED  BY <1>1, <1>2, <1>3, ByVersion DEF P!version_rebase, P!OnVersion

\* A rebase of a branch, by its name.
LEMMA RebaseByBranchRegular ==
  ASSUME NEW p, PartInv(p), NEW q, PartInv(q), NEW n, NEW b,
         n \in DOMAIN p.names /\ b \in DOMAIN p.brs =>
           P!Of(p)!RebaseDuty(p.brs[b], p.names[n])
  PROVE  Regular(p, q, P!version_rebase_by_branch(p, n, b),
                       P!version_rebase_by_branch(q, n, b), TRUE)
<1>1. PICK x, y : x = P!Rebase(p, p.names[n], p.brs[b]) /\ y = P!Rebase(q, q.names[n], q.brs[b])
  OBVIOUS
<1>2. n \in DOMAIN p.names /\ b \in DOMAIN p.brs => Kept(p, x, TRUE)
  BY <1>1, RebaseKept
<1>3. n \in DOMAIN p.names /\ n \in DOMAIN q.names /\ b \in DOMAIN p.brs /\ b \in DOMAIN q.brs
        => Matches(p, q, x, y)
  BY <1>1, SameNamed, RebaseMatches
<1>4. PICK u, w : /\ u = IF b \in DOMAIN p.brs THEN x ELSE P!Failed(p)
                  /\ w = IF b \in DOMAIN q.brs THEN y ELSE P!Failed(q)
  OBVIOUS
<1>5. n \in DOMAIN p.names => Kept(p, u, TRUE)
  BY <1>2, <1>4 DEF Kept, P!Failed
<1>6. n \in DOMAIN p.names /\ n \in DOMAIN q.names => Matches(p, q, u, w)
  BY <1>3, <1>4 DEF Matches, P!Failed, Alike
<1>. QED  BY <1>1, <1>4, <1>5, <1>6, ByVersion
          DEF P!version_rebase_by_branch, P!OnVersion, P!OnBranch

\* A revert of a version on all branches.
LEMMA RevertRegular ==
  ASSUME NEW p, PartInv(p), NEW q, PartInv(q), NEW n
  PROVE  Regular(p, q, P!version_revert_globally(p, n), P!version_revert_globally(q, n), TRUE)
<1>1. PICK x, y :
        /\ x = IF p.names[n] \notin p.chgsets THEN P!Failed(p)
               ELSE P!Done(Reverted(p, p.names[n]))
        /\ y = IF q.names[n] \notin q.chgsets THEN P!Failed(q)
               ELSE P!Done(Reverted(q, q.names[n]))
  OBVIOUS
<1>2. PartInv(Reverted(p, p.names[n]))
  BY RevertInv
<1>3. Kept(p, x, TRUE)
  BY <1>1, <1>2 DEF Kept, P!Failed, P!Done
<1>4. ASSUME n \in DOMAIN p.names, n \in DOMAIN q.names, Alike(p, q)
      PROVE  x.ok = y.ok /\ (x.ok => Alike(x.part, y.part))
  <2>1. p.names[n] \in p.chgsets <=> q.names[n] \in q.chgsets
    BY <1>4 DEF Alike, SameSet
  <2>2. Alike(Reverted(p, p.names[n]), Reverted(q, q.names[n]))
    BY <1>4, RevertAlike
  <2>. QED  BY <1>1, <2>1, <2>2 DEF P!Failed, P!Done
<1>5. n \in DOMAIN p.names /\ n \in DOMAIN q.names => Matches(p, q, x, y)
  BY <1>4 DEF Matches
<1>. QED  BY <1>1, <1>3, <1>5, ByVersion
          DEF P!version_revert_globally, P!OnVersion, Reverted

\* A clean-up, which cannot fail.
LEMMA CleanUpRegular ==
  ASSUME NEW p, PartInv(p), NEW q, PartInv(q)
  PROVE  Regular(p, q, P!version_clean_up_globally(p), P!version_clean_up_globally(q), TRUE)
BY CleanedUpInv, CleanedUpAlike DEF Regular, Kept, Matches, P!version_clean_up_globally, P!Done

\* A creation keeps the invariant, even one that fails half-way.
LEMMA CreateFromKept ==
  ASSUME NEW p, PartInv(p), NEW n, NEW name, NEW i, NEW base, NEW force
  PROVE  Kept(p, P!CreateFrom(p, n, name, i, base, force), FALSE)
BY CreateFromInv DEF Kept

\* One that is not forced, of at most one new version, fails before it made
\* the branch or not at all.
LEMMA CreateFromPlain ==
  ASSUME NEW p, PartInv(p), NEW n, NEW name, NEW i, NEW base,
         name = {} \/ \E m : name = {m}
  PROVE  Kept(p, P!CreateFrom(p, n, name, i, base, FALSE), TRUE)
<1>1. PICK r : r = P!CreateFrom(p, n, name, i, base, FALSE)
  OBVIOUS
<1>2. PartInv(r.part)
  BY <1>1, CreateFromInv
<1>3. CASE name \cap DOMAIN p.names # {}
  BY <1>1, <1>2, <1>3 DEF Kept, P!CreateFrom, P!Failed
<1>4. CASE name \cap DOMAIN p.names = {}
  <2>1. Cleared(p, n, FALSE) = p
    BY DEF Cleared
  <2>2. PICK made : made = Added(p, n, Based(p, i, base))
    OBVIOUS
  <2>3. r = IF n \in DOMAIN p.brs \/ ~(base \subseteq P!Vers(p, i)) \/ i \notin DOMAIN p.vers
            THEN P!Failed(p)
            ELSE IF name = {} THEN P!Done(made)
                 ELSE P!AddVersion(made, p.next_br, CHOOSE m \in name : TRUE)
    <3>1. PICK f : f = FALSE
      OBVIOUS
    <3>2. PICK q : q = Cleared(p, n, f)
      OBVIOUS
    <3>3. q = p
      BY <3>1, <3>2 DEF Cleared
    <3>4. made = Added(q, n, Based(q, i, base))
      BY <2>2, <3>3
    <3>5. r = P!Create(p, n, name, i, base, f)
      BY <1>1, <1>4, <3>1 DEF P!CreateFrom
    <3>6. P!Create(p, n, name, i, base, f) =
            IF n \in DOMAIN q.brs \/ ~(base \subseteq P!Vers(q, i)) \/ i \notin DOMAIN q.vers
            THEN P!Failed(q)
            ELSE IF name = {} THEN P!Done(made)
                 ELSE P!AddVersion(made, q.next_br, CHOOSE m \in name : TRUE)
      BY <3>2, <3>4, CreateIs
    <3>. QED  BY <3>3, <3>5, <3>6
  <2>4. ASSUME NEW m, name = {m}
        PROVE  P!AddVersion(made, p.next_br, CHOOSE l \in name : TRUE).ok
    <3>1. (CHOOSE l \in name : TRUE) = m
      BY <2>4
    <3>2. made.names = p.names /\ p.next_br \in DOMAIN made.vers
      BY <2>2 DEF Added, P!MapInsert
    <3>. QED  BY <1>4, <2>4, <3>1, <3>2 DEF P!AddVersion, P!Done
  <2>5. r.ok \/ r = P!Failed(p)
    BY <2>3, <2>4 DEF P!Done
  <2>6. Kept(p, r, TRUE)
    BY <1>2, <2>5 DEF Kept, P!Failed
  <2>. QED  BY <1>1, <2>6
<1>. QED  BY <1>3, <1>4

\* A creation from a version, forced or not.
LEMMA CreateFromRegular ==
  ASSUME NEW p, PartInv(p), NEW q, PartInv(q), NEW n, NEW name, NEW force \in BOOLEAN,
         name = {} \/ \E m : name = {m},
         NEW i, NEW j, Alike(p, q) => SameBranch(p, q, i, j),
         NEW B \in SUBSET DOMAIN p.names, B \subseteq DOMAIN q.names,
         NEW base, base = {p.names[m] : m \in B},
         NEW qbase, qbase = {q.names[m] : m \in B}
  PROVE  Regular(p, q, P!CreateFrom(p, n, name, i, base, force),
                       P!CreateFrom(q, n, name, j, qbase, force), ~force)
<1>1. Kept(p, P!CreateFrom(p, n, name, i, base, force), ~force)
  <2>1. CASE force
    BY <2>1, CreateFromKept DEF Kept
  <2>2. CASE ~force
    BY <2>2, CreateFromPlain
  <2>. QED  BY <2>1, <2>2
<1>2. Matches(p, q, P!CreateFrom(p, n, name, i, base, force),
                    P!CreateFrom(q, n, name, j, qbase, force))
  BY CreateFromMatches
<1>. QED  BY <1>1, <1>2 DEF Regular

\* A creation from the newest version, forced or not.
LEMMA CreateOnRegular ==
  ASSUME NEW p, PartInv(p), NEW q, PartInv(q), NEW n, NEW name, NEW force \in BOOLEAN,
         name = {} \/ \E m : name = {m},
         NEW i, NEW j, Alike(p, q) => SameBranch(p, q, i, j)
  PROVE  Regular(p, q, P!CreateOn(p, n, name, i, force),
                       P!CreateOn(q, n, name, j, force), ~force)
<1>1. PICK base : base = {v \in p.vers[i] : P!Of(p)!IsLast(v, p.vers[i])}
  OBVIOUS
<1>2. Kept(p, P!CreateFrom(p, n, name, i, base, force), ~force)
  <2>1. CASE force
    BY <2>1, CreateFromKept DEF Kept
  <2>2. CASE ~force
    BY <2>2, CreateFromPlain
  <2>. QED  BY <2>1, <2>2
<1>3. Kept(p, P!CreateOn(p, n, name, i, force), ~force)
  <2>1. CASE i \notin DOMAIN p.vers
    BY <2>1 DEF P!CreateOn, Kept, P!Failed
  <2>2. CASE i \in DOMAIN p.vers
    BY <1>1, <1>2, <2>2 DEF P!CreateOn
  <2>. QED  BY <2>1, <2>2
<1>. QED  BY <1>3, CreateOnMatches DEF Regular

\* Creating a branch from the default branch.
LEMMA BranchCreateRegular ==
  ASSUME NEW p, PartInv(p), NEW q, PartInv(q), NEW n, NEW m, NEW force \in BOOLEAN
  PROVE  /\ Regular(p, q, P!branch_create(p, n, m, force),
                          P!branch_create(q, n, m, force), ~force)
         /\ Regular(p, q, P!branch_create_without_new_version(p, n, force),
                          P!branch_create_without_new_version(q, n, force), ~force)
<1>1. SameBranch(p, q, p.default, q.default) \/ ~Alike(p, q)
  BY SameNamed
<1>2. \A name : name = {} \/ (\E l : name = {l}) =>
        Regular(p, q, P!CreateOn(p, n, name, p.default, force),
                      P!CreateOn(q, n, name, q.default, force), ~force)
  BY <1>1, CreateOnRegular
<1>. QED  BY <1>2 DEF P!branch_create, P!branch_create_without_new_version

\* Creating a branch from another, with a version on top or not.
LEMMA BranchCreateByBaseRegular ==
  ASSUME NEW p, PartInv(p), NEW q, PartInv(q), NEW n, NEW b, NEW force \in BOOLEAN,
         NEW name, name = {} \/ \E m : name = {m}
  PROVE  Regular(p, q, P!OnBranch(p, b, LAMBDA i : P!CreateOn(p, n, name, i, force)),
                       P!OnBranch(q, b, LAMBDA i : P!CreateOn(q, n, name, i, force)), ~force)
<1>1. PICK x, y : /\ x = P!CreateOn(p, n, name, p.brs[b], force)
                  /\ y = P!CreateOn(q, n, name, q.brs[b], force)
  OBVIOUS
<1>2. b \in DOMAIN p.brs => (Alike(p, q) => SameBranch(p, q, p.brs[b], q.brs[b]))
  BY SameNamed
<1>3. b \in DOMAIN p.brs => Regular(p, q, x, y, ~force)
  BY <1>1, <1>2, CreateOnRegular
<1>4. b \in DOMAIN p.brs => Kept(p, x, ~force) /\ Matches(p, q, x, y)
  BY <1>3 DEF Regular
<1>. QED  BY <1>1, <1>4, ByBranch DEF P!OnBranch

\* Creating a branch from a version of another, with a version on top or not.
LEMMA BranchCreateByVersionRegular ==
  ASSUME NEW p, PartInv(p), NEW q, PartInv(q), NEW n, NEW b, NEW v, NEW force \in BOOLEAN,
         NEW name, name = {} \/ \E m : name = {m}
  PROVE  Regular(p, q,
           P!OnBranch(p, b, LAMBDA i : P!OnVersion(p, v, LAMBDA w :
             P!CreateFrom(p, n, name, i, {w}, force))),
           P!OnBranch(q, b, LAMBDA i : P!OnVersion(q, v, LAMBDA w :
             P!CreateFrom(q, n, name, i, {w}, force))), ~force)
<1>1. PICK x, y : /\ x = P!CreateFrom(p, n, name, p.brs[b], {p.names[v]}, force)
                  /\ y = P!CreateFrom(q, n, name, q.brs[b], {q.names[v]}, force)
  OBVIOUS
<1>2. b \in DOMAIN p.brs => (Alike(p, q) => SameBranch(p, q, p.brs[b], q.brs[b]))
  BY SameNamed
<1>3. ASSUME b \in DOMAIN p.brs, v \in DOMAIN p.names, v \in DOMAIN q.names
      PROVE  Regular(p, q, x, y, ~force)
  <2>1. PICK B : B = {v}
    OBVIOUS
  <2>2. PICK base, qbase : base = {p.names[v]} /\ qbase = {q.names[v]}
    OBVIOUS
  <2>3. base = {p.names[m] : m \in B} /\ qbase = {q.names[m] : m \in B}
    BY <2>1, <2>2
  <2>4. PICK i, j : i = p.brs[b] /\ j = q.brs[b]
    OBVIOUS
  <2>5. Alike(p, q) => SameBranch(p, q, i, j)
    BY <1>2, <1>3, <2>4
  <2>6. B \in SUBSET DOMAIN p.names /\ B \subseteq DOMAIN q.names
    BY <1>3, <2>1
  <2>7. Regular(p, q, P!CreateFrom(p, n, name, i, base, force),
                      P!CreateFrom(q, n, name, j, qbase, force), ~force)
    BY <2>3, <2>5, <2>6, CreateFromRegular
  <2>. QED  BY <1>1, <2>2, <2>4, <2>7
<1>4. Kept(p, x, ~force)
  <2>1. CASE force
    BY <1>1, <2>1, CreateFromKept DEF Kept
  <2>2. CASE ~force
    BY <1>1, <2>2, CreateFromPlain
  <2>. QED  BY <2>1, <2>2
<1>5. PICK u, w : /\ u = IF v \in DOMAIN p.names THEN x ELSE P!Failed(p)
                  /\ w = IF v \in DOMAIN q.names THEN y ELSE P!Failed(q)
  OBVIOUS
<1>6. b \in DOMAIN p.brs => Regular(p, q, u, w, ~force)
  BY <1>3, <1>4, <1>5, ByVersion DEF Regular
<1>7. b \in DOMAIN p.brs => Kept(p, u, ~force) /\ Matches(p, q, u, w)
  BY <1>6 DEF Regular
<1>. QED  BY <1>1, <1>5, <1>7, ByBranch DEF P!OnBranch, P!OnVersion

\* The other calls on branches.
LEMMA RemoveRegular ==
  ASSUME NEW p, PartInv(p), NEW q, PartInv(q), NEW n
  PROVE  Regular(p, q, P!branch_remove(p, n), P!branch_remove(q, n), TRUE)
<1>1. Kept(p, P!branch_remove(p, n), TRUE)
  BY RemoveInv, RemoveIs DEF Kept, P!Done, P!Failed
<1>. QED  BY <1>1, RemoveMatches DEF Regular

\* A branch is cut, to nothing or up to a version.
LEMMA TruncateRegular ==
  ASSUME NEW p, PartInv(p), NEW q, PartInv(q), NEW n, NEW m
  PROVE  /\ Regular(p, q, P!branch_truncate(p, n), P!branch_truncate(q, n), TRUE)
         /\ Regular(p, q, P!branch_truncate_to(p, n, m), P!branch_truncate_to(q, n, m), TRUE)
<1>1. Alike(p, q) /\ n \in DOMAIN p.brs => SameBranch(p, q, p.brs[n], q.brs[n])
  BY SameNamed
<1>2. Regular(p, q, P!branch_truncate(p, n), P!branch_truncate(q, n), TRUE)
  <2>1. PICK i, j, S : i = p.brs[n] /\ j = q.brs[n] /\ S = {}
    OBVIOUS
  <2>2. PICK x, y : x = P!SetVers(p, i, S) /\ y = P!SetVers(q, j, S)
    OBVIOUS
  <2>3. Kept(p, x, TRUE)
    BY <2>1, <2>2, SetVersKept
  <2>4. n \in DOMAIN p.brs => Matches(p, q, x, y)
    <3>1. SameSet(p, q, S, S)
      BY <2>1 DEF SameSet
    <3>. QED  BY <1>1, <2>1, <2>2, <3>1, SetVersMatches
  <2>. QED  BY <2>1, <2>2, <2>3, <2>4, ByBranch DEF P!branch_truncate, P!OnBranch
<1>3. Regular(p, q, P!branch_truncate_to(p, n, m), P!branch_truncate_to(q, n, m), TRUE)
  <2>1. PICK i, j : i = p.brs[n] /\ j = q.brs[n]
    OBVIOUS
  <2>2. PICK S, T : /\ S = P!Of(p)!UpTo(p.vers[i], p.names[m])
                    /\ T = P!Of(q)!UpTo(q.vers[j], q.names[m])
    OBVIOUS
  <2>3. PICK x, y : x = P!SetVers(p, i, S) /\ y = P!SetVers(q, j, T)
    OBVIOUS
  <2>4. Kept(p, x, TRUE)
    <3>1. i \in DOMAIN p.vers => S \in SUBSET p.chgsets
      BY <2>2 DEF PartInv, P!Of!UpTo
    <3>. QED  BY <2>3, <3>1, SetVersKept
  <2>5. ASSUME n \in DOMAIN p.brs, m \in DOMAIN p.names
        PROVE  Matches(p, q, x, y)
    <3>1. Alike(p, q) /\ i \in DOMAIN p.vers => SameSet(p, q, S, T)
      <4>1. Alike(p, q) /\ i \in DOMAIN p.vers => SameSet(p, q, p.vers[i], q.vers[j])
        BY <1>1, <2>1, <2>5, SameVers
      <4>2. PICK U, W : U = p.vers[i] /\ W = q.vers[j]
        OBVIOUS
      <4>. QED  BY <2>2, <2>5, <4>1, <4>2, SameUpTo
    <3>. QED  BY <1>1, <2>1, <2>3, <2>5, <3>1, SetVersMatches
  <2>6. PICK u, w : /\ u = IF m \in DOMAIN p.names THEN x ELSE P!Failed(p)
                    /\ w = IF m \in DOMAIN q.names THEN y ELSE P!Failed(q)
    OBVIOUS
  <2>7. Kept(p, u, TRUE)
    BY <2>4, <2>6 DEF Kept, P!Failed
  <2>8. n \in DOMAIN p.brs => Matches(p, q, u, w)
    BY <2>5, <2>6 DEF Matches, Alike, P!Failed
  <2>. QED  BY <2>1, <2>2, <2>3, <2>6, <2>7, <2>8, ByBranch
            DEF P!branch_truncate_to, P!OnBranch, P!OnVersion
<1>. QED  BY <1>2, <1>3

\* All branches but some are removed, and the versions on none of these.
LEMMA KeepOnlyRegular ==
  ASSUME NEW p, PartInv(p), NEW q, PartInv(q), NEW ns
  PROVE  Regular(p, q, P!branch_keep_only(p, ns), P!branch_keep_only(q, ns), TRUE)
<1>1. Kept(p, P!branch_keep_only(p, ns), TRUE)
  BY KeepOnlyInv DEF Kept, P!branch_keep_only, P!Done, P!Failed
<1>2. ASSUME Alike(p, q), ns \subseteq DOMAIN p.brs
      PROVE  Alike(P!branch_keep_only(p, ns).part, P!branch_keep_only(q, ns).part)
  <2>1. PICK S, T : /\ S = P!Range(p.brs) \ {p.brs[n] : n \in ns}
                    /\ T = P!Range(q.brs) \ {q.brs[n] : n \in ns}
    OBVIOUS
  <2>2. ASSUME NEW b \in DOMAIN p.brs
        PROVE  (p.brs[b] \in S <=> b \notin ns) /\ (q.brs[b] \in T <=> b \notin ns)
    <3>1. \A n \in ns : p.brs[n] = p.brs[b] => n = b
      BY <1>2 DEF PartInv
    <3>2. \A n \in ns : q.brs[n] = q.brs[b] => n = b
      BY <1>2 DEF PartInv, Alike
    <3>3. p.brs[b] \in P!Range(p.brs) /\ q.brs[b] \in P!Range(q.brs)
      BY <1>2 DEF P!Range, Alike
    <3>. QED  BY <2>1, <3>1, <3>2, <3>3
  <2>3. PICK c, d : c = P!WithoutBranches(p, S) /\ d = P!WithoutBranches(q, T)
    OBVIOUS
  <2>4. PartInv(c) /\ PartInv(d) /\ Alike(c, d)
    BY <1>2, <2>2, <2>3, WithoutInv, WithoutBranchesAlike
  <2>5. Alike(P!CleanedUp(c), P!CleanedUp(d))
    BY <2>4, CleanedUpAlike
  <2>6. P!branch_keep_only(p, ns) = P!Done(P!CleanedUp(c))
    BY <1>2, <2>1, <2>3 DEF P!branch_keep_only
  <2>7. P!branch_keep_only(q, ns) = P!Done(P!CleanedUp(d))
    BY <1>2, <2>1, <2>3 DEF P!branch_keep_only, Alike
  <2>. QED  BY <2>5, <2>6, <2>7 DEF P!Done
<1>3. Alike(p, q) => P!branch_keep_only(p, ns).ok = P!branch_keep_only(q, ns).ok
  BY DEF Alike, P!branch_keep_only, P!Done, P!Failed
<1>4. Matches(p, q, P!branch_keep_only(p, ns), P!branch_keep_only(q, ns))
  <2>1. P!branch_keep_only(p, ns).ok => ns \subseteq DOMAIN p.brs
    BY DEF P!branch_keep_only, P!Failed
  <2>. QED  BY <1>2, <1>3, <2>1 DEF Matches
<1>. QED  BY <1>1, <1>4 DEF Regular

\* The versions of a branch that one part has in common with another are the
\* same, so that both merge or neither does.
LEMMA MergeRegular ==
  ASSUME NEW p, PartInv(p), NEW q, PartInv(q), NEW n, NEW m
  PROVE  /\ Regular(p, q, P!branch_merge_to_force(p, n, m), P!branch_merge_to_force(q, n, m), TRUE)
         /\ Regular(p, q, P!branch_merge_to(p, n, m), P!branch_merge_to(q, n, m), TRUE)
<1>1. PICK i, j, u, w : i = p.brs[n] /\ j = q.brs[n] /\ u = p.brs[m] /\ w = q.brs[m]
  OBVIOUS
<1>2. PICK x, y : x = P!Merge(p, i, u) /\ y = P!Merge(q, j, w)
  OBVIOUS
<1>3. n \in DOMAIN p.brs => i \in DOMAIN p.vers
  BY <1>1 DEF PartInv
<1>4. m \in DOMAIN p.brs => u \in DOMAIN p.vers
  BY <1>1 DEF PartInv
<1>5. n \in DOMAIN q.brs => j \in DOMAIN q.vers
  BY <1>1 DEF PartInv
<1>6. m \in DOMAIN q.brs => w \in DOMAIN q.vers
  BY <1>1 DEF PartInv
<1>7. n \in DOMAIN p.brs => Kept(p, x, TRUE)
  BY <1>2, <1>3, MergeInv DEF Kept, P!Merge, P!SetVers, P!Done, P!Failed
<1>8. ASSUME Alike(p, q), n \in DOMAIN p.brs, m \in DOMAIN p.brs
      PROVE  /\ i \in DOMAIN p.vers /\ j \in DOMAIN q.vers /\ SameBranch(p, q, i, j)
             /\ u \in DOMAIN p.vers /\ w \in DOMAIN q.vers /\ SameBranch(p, q, u, w)
  BY <1>1, <1>3, <1>4, <1>5, <1>6, <1>8, SameNamed DEF Alike
<1>9. n \in DOMAIN p.brs /\ m \in DOMAIN p.brs => Matches(p, q, x, y)
  BY <1>2, <1>8, MergeMatches DEF Matches
<1>10. PICK S, T : S = p.vers[u] /\ T = q.vers[w]
  OBVIOUS
<1>11. PICK U, W : U = p.vers[i] /\ W = q.vers[j]
  OBVIOUS
<1>12. ASSUME Alike(p, q), n \in DOMAIN p.brs, m \in DOMAIN p.brs
       PROVE  (\A h \in S : P!Of(p)!IsLast(h, S) => h \in U)
                <=> (\A h \in T : P!Of(q)!IsLast(h, T) => h \in W)
  <2>1. SameSet(p, q, S, T) /\ SameSet(p, q, U, W)
    BY <1>8, <1>10, <1>11, <1>12, SameVers
  <2>2. S \in SUBSET p.chgsets /\ T \in SUBSET q.chgsets
    BY <1>8, <1>10, <1>12 DEF PartInv
  <2>3. \A l \in DOMAIN p.names : P!Of(p)!IsLast(p.names[l], S)
                                    <=> P!Of(q)!IsLast(q.names[l], T)
    BY <1>12, <2>1, <2>2, SameNewest
  <2>4. \A v \in S : \E l \in DOMAIN p.names : p.names[l] = v
    BY <2>2, Named
  <2>5. \A v \in T : \E l \in DOMAIN p.names : q.names[l] = v
    BY <1>12, <2>2, Named DEF Alike
  <2>. QED  BY <2>1, <2>3, <2>4, <2>5 DEF SameSet
<1>13. PICK x2, y2 :
         /\ x2 = IF \A h \in S : P!Of(p)!IsLast(h, S) => h \in U THEN x ELSE P!Failed(p)
         /\ y2 = IF \A h \in T : P!Of(q)!IsLast(h, T) => h \in W THEN y ELSE P!Failed(q)
  OBVIOUS
<1>14. n \in DOMAIN p.brs => Kept(p, x2, TRUE)
  BY <1>7, <1>13 DEF Kept, P!Failed
<1>15. n \in DOMAIN p.brs /\ m \in DOMAIN p.brs => Matches(p, q, x2, y2)
  BY <1>9, <1>12, <1>13 DEF Matches, P!Failed
<1>16. ASSUME NEW r, NEW t, n \in DOMAIN p.brs => Kept(p, r, TRUE),
              n \in DOMAIN p.brs /\ m \in DOMAIN p.brs => Matches(p, q, r, t)
       PROVE  Regular(p, q,
                IF n \in DOMAIN p.brs
                THEN IF m \in DOMAIN p.brs THEN r ELSE P!Failed(p) ELSE P!Failed(p),
                IF n \in DOMAIN q.brs
                THEN IF m \in DOMAIN q.brs THEN t ELSE P!Failed(q) ELSE P!Failed(q), TRUE)
  <2>1. PICK r2, t2 : /\ r2 = IF m \in DOMAIN p.brs THEN r ELSE P!Failed(p)
                      /\ t2 = IF m \in DOMAIN q.brs THEN t ELSE P!Failed(q)
    OBVIOUS
  <2>2. n \in DOMAIN p.brs => Kept(p, r2, TRUE)
    BY <1>16, <2>1 DEF Kept, P!Failed
  <2>3. n \in DOMAIN p.brs => Matches(p, q, r2, t2)
    BY <1>16, <2>1 DEF Matches, Alike, P!Failed
  <2>4. Regular(p, q, IF n \in DOMAIN p.brs THEN r2 ELSE P!Failed(p),
                      IF n \in DOMAIN q.brs THEN t2 ELSE P!Failed(q), TRUE)
    BY <2>2, <2>3, ByBranch
  <2>. QED  BY <2>1, <2>4
<1>17. Regular(p, q, P!branch_merge_to_force(p, n, m), P!branch_merge_to_force(q, n, m), TRUE)
  BY <1>1, <1>2, <1>7, <1>9, <1>16 DEF P!branch_merge_to_force, P!OnBranch
<1>18. Regular(p, q, P!branch_merge_to(p, n, m), P!branch_merge_to(q, n, m), TRUE)
  BY <1>1, <1>2, <1>10, <1>11, <1>13, <1>14, <1>15, <1>16 DEF P!branch_merge_to, P!OnBranch
<1>. QED  BY <1>17, <1>18

\* Another branch becomes the default.
LEMMA SetDefaultRegular ==
  ASSUME NEW p, PartInv(p), NEW q, PartInv(q), NEW n
  PROVE  Regular(p, q, P!branch_set_default(p, n), P!branch_set_default(q, n), TRUE)
<1>1. PICK c, d : c = [p EXCEPT !.default = p.brs[n]] /\ d = [q EXCEPT !.default = q.brs[n]]
  OBVIOUS
<1>2. PICK x, y : x = P!Done(c) /\ y = P!Done(d)
  OBVIOUS
<1>3. n \in DOMAIN p.brs => Kept(p, x, TRUE)
  BY <1>1, <1>2, SetDefaultInv DEF Kept, P!Done
<1>4. ASSUME n \in DOMAIN p.brs, n \in DOMAIN q.brs, Alike(p, q)
      PROVE  Alike(c, d)
  <2>1. c.default = p.brs[n] /\ d.default = q.brs[n]
    BY <1>1 DEF PartInv, IsRecord
  <2>2. /\ c.brs = p.brs /\ c.vers = p.vers /\ c.names = p.names /\ c.chgsets = p.chgsets
        /\ d.brs = q.brs /\ d.vers = q.vers /\ d.names = q.names /\ d.chgsets = q.chgsets
    BY <1>1 DEF PartInv, IsRecord
  <2>3. SameBranch(p, q, p.brs[n], q.brs[n])
    BY <1>4, SameNamed
  <2>. QED  BY <1>4, <2>1, <2>2, <2>3 DEF Alike, SameBranch, SameSet
<1>5. n \in DOMAIN p.brs /\ n \in DOMAIN q.brs => Matches(p, q, x, y)
  BY <1>2, <1>4 DEF Matches, P!Done
<1>. QED  BY <1>1, <1>2, <1>3, <1>5, ByBranch DEF P!branch_set_default, P!OnBranch

\* Two branches that exchange their names leave the default branch its name.
LEMMA SwapNames ==
  ASSUME NEW p, PartInv(p), NEW m \in DOMAIN p.brs, NEW n \in DOMAIN p.brs,
         NEW q, q = Swapped(p, m, n)
  PROVE  /\ q.vers = p.vers /\ q.names = p.names /\ q.chgsets = p.chgsets
         /\ DOMAIN q.brs = DOMAIN p.brs
         /\ \A l \in DOMAIN p.brs :
              /\ q.brs[l] = IF l = n THEN p.brs[m] ELSE IF l = m THEN p.brs[n] ELSE p.brs[l]
              /\ q.brs[l] = q.default <=> p.brs[l] = p.default
<1>1. q.vers = p.vers /\ q.names = p.names /\ q.chgsets = p.chgsets
  BY DEF Swapped
<1>2. /\ DOMAIN q.brs = DOMAIN p.brs
      /\ \A l \in DOMAIN p.brs :
           q.brs[l] = IF l = n THEN p.brs[m] ELSE IF l = m THEN p.brs[n] ELSE p.brs[l]
  BY DEF Swapped, P!MapInsert
<1>3. \A k, l \in DOMAIN p.brs : p.brs[k] = p.brs[l] => k = l
  BY DEF PartInv
<1>4. q.default = IF p.default = p.brs[m] THEN p.brs[n]
                  ELSE IF p.default = p.brs[n] THEN p.brs[m] ELSE p.default
  BY DEF Swapped
<1>5. \A l \in DOMAIN p.brs : q.brs[l] = q.default <=> p.brs[l] = p.default
  BY <1>2, <1>3, <1>4
<1>. QED  BY <1>1, <1>2, <1>5

\* Two branches exchange their names in both parts.
LEMMA SwapRegular ==
  ASSUME NEW p, PartInv(p), NEW q, PartInv(q), NEW m, NEW n
  PROVE  Regular(p, q, P!branch_swap(p, m, n), P!branch_swap(q, m, n), TRUE)
<1>1. Kept(p, P!branch_swap(p, m, n), TRUE)
  BY SwapInv, SwapIs DEF Kept, P!Done, P!Failed
<1>2. ASSUME Alike(p, q), m \in DOMAIN p.brs, n \in DOMAIN p.brs
      PROVE  Alike(Swapped(p, m, n), Swapped(q, m, n))
  <2>1. PICK c, d : c = Swapped(p, m, n) /\ d = Swapped(q, m, n)
    OBVIOUS
  <2>2. /\ c.vers = p.vers /\ c.names = p.names /\ c.chgsets = p.chgsets
        /\ DOMAIN c.brs = DOMAIN p.brs
        /\ \A l \in DOMAIN p.brs :
             /\ c.brs[l] = IF l = n THEN p.brs[m] ELSE IF l = m THEN p.brs[n] ELSE p.brs[l]
             /\ c.brs[l] = c.default <=> p.brs[l] = p.default
    BY <1>2, <2>1, SwapNames
  <2>3. /\ d.vers = q.vers /\ d.names = q.names /\ d.chgsets = q.chgsets
        /\ DOMAIN d.brs = DOMAIN q.brs
        /\ \A l \in DOMAIN q.brs :
             /\ d.brs[l] = IF l = n THEN q.brs[m] ELSE IF l = m THEN q.brs[n] ELSE q.brs[l]
             /\ d.brs[l] = d.default <=> q.brs[l] = q.default
    <3>1. m \in DOMAIN q.brs /\ n \in DOMAIN q.brs
      BY <1>2 DEF Alike
    <3>. QED  BY <2>1, <3>1, SwapNames
  <2>4. SameBranch(c, d, c.default, d.default)
    BY <1>2, <2>2, <2>3 DEF Alike, SameBranch
  <2>5. ASSUME NEW l \in DOMAIN c.brs
        PROVE  SameSet(c, d, c.vers[c.brs[l]], d.vers[d.brs[l]])
    <3>1. PICK k \in DOMAIN p.brs : c.brs[l] = p.brs[k] /\ d.brs[l] = q.brs[k]
      BY <1>2, <2>2, <2>3, <2>5 DEF Alike
    <3>2. SameSet(p, q, p.vers[p.brs[k]], q.vers[q.brs[k]])
      BY <1>2 DEF Alike
    <3>. QED  BY <2>2, <2>3, <3>1, <3>2 DEF SameSet
  <2>6. DOMAIN c.brs = DOMAIN d.brs /\ DOMAIN c.names = DOMAIN d.names
    BY <1>2, <2>2, <2>3 DEF Alike
  <2>7. SameSet(c, d, c.chgsets, d.chgsets)
    BY <1>2, <2>2, <2>3 DEF Alike, SameSet
  <2>8. \A k, l \in DOMAIN c.names : c.names[k] < c.names[l] <=> d.names[k] < d.names[l]
    BY <1>2, <2>2, <2>3 DEF Alike
  <2>9. Alike(c, d)
    BY <2>4, <2>5, <2>6, <2>7, <2>8 DEF Alike
  <2>. QED  BY <2>1, <2>9
<1>3. Matches(p, q, P!branch_swap(p, m, n), P!branch_swap(q, m, n))
  <2>1. PICK r, t : r = P!branch_swap(p, m, n) /\ t = P!branch_swap(q, m, n)
    OBVIOUS
  <2>2. PICK c, d : c = Swapped(p, m, n) /\ d = Swapped(q, m, n)
    OBVIOUS
  <2>3. r = IF m \in DOMAIN p.brs /\ n \in DOMAIN p.brs THEN P!Done(c) ELSE P!Failed(p)
    BY <2>1, <2>2, SwapIs
  <2>4. t = IF m \in DOMAIN q.brs /\ n \in DOMAIN q.brs THEN P!Done(d) ELSE P!Failed(q)
    BY <2>1, <2>2, SwapIs
  <2>5. Alike(p, q) => DOMAIN p.brs = DOMAIN q.brs
    BY DEF Alike
  <2>6. Matches(p, q, r, t)
    BY <1>2, <2>2, <2>3, <2>4, <2>5 DEF Matches, P!Done, P!Failed
  <2>. QED  BY <2>1, <2>6
<1>. QED  BY <1>1, <1>3 DEF Regular

\* A prune that fails has cleaned up.
LEMMA PruneRegular ==
  ASSUME NEW p, PartInv(p), NEW q, PartInv(q), NEW num
  PROVE  Regular(p, q, P!prune(p, num), P!prune(q, num), FALSE)
BY PruneInv, PruneMatches DEF Regular, Kept

-----------------------------------------------------------------------------
(***************************************************************************)
(* The structure.                                                          *)
(***************************************************************************)
FieldKinds == {"versioned", "nope", "none", "some"}
CallKinds  == {"plain", "forced", "prune", "other"}

\* What every step keeps of structure s: its fields, each with a part.
StructInv(s) ==
    /\ s = [i \in DOMAIN Kinds |-> s[i]]
    /\ \A i \in DOMAIN Kinds : /\ s[i] = [kind |-> s[i].kind, part |-> s[i].part]
                               /\ s[i].kind \in FieldKinds
                               /\ Kinds[i] = "versioned" => s[i].kind = "versioned"
                               /\ PartInv(s[i].part)

\* The parts of the fields that have versions are alike.
AllAlike(s) ==
    \A i, j \in DOMAIN s : Present(s[i]) /\ Present(s[j]) => Alike(s[i].part, s[j].part)

\* A call on structure s with result r: fields that are alike are after a
\* success, and a plain call that fails on such fields leaves all as they are.
Good(s, r, plain) ==
    /\ StructInv(r.fields)
    /\ r.ok \in BOOLEAN
    /\ AllAlike(s) => /\ r.ok => AllAlike(r.fields)
                      /\ plain /\ ~r.ok => r.fields = s

\* It is enough that the calls c on the parts are regular, in pairs.
LEMMA FanOutGood ==
  ASSUME NEW s, StructInv(s), NEW c, NEW plain,
         \A i, j \in DOMAIN s : Regular(s[i].part, s[j].part, c[i], c[j], plain),
         NEW r, r = FanOut(s, [i \in DOMAIN s |-> OnField(s[i], c[i])])
  PROVE  Good(s, r, plain)
<1>1. PICK l : l = [i \in DOMAIN s |-> OnField(s[i], c[i])]
  OBVIOUS
<1>2. DOMAIN s = DOMAIN Kinds /\ DOMAIN l = DOMAIN s
  BY <1>1 DEF StructInv
<1>3. /\ r.ok = \A i \in DOMAIN s : l[i].ok
      /\ r.fields = [i \in DOMAIN s |->
                      IF \A j \in 1 .. i - 1 : l[j].ok THEN l[i].field ELSE s[i]]
  BY <1>1 DEF FanOut
<1>4. \A i \in DOMAIN s : /\ ~Present(s[i]) => l[i].ok /\ l[i].field = s[i]
                          /\ Present(s[i]) => /\ l[i].ok = c[i].ok
                                              /\ l[i].field = [s[i] EXCEPT !.part = c[i].part]
  BY <1>1 DEF OnField, Nope, Forwarded
<1>5. \A i \in DOMAIN s : Kept(s[i].part, c[i], plain)
  BY DEF Regular
<1>6. \A i \in DOMAIN s : Present(s[i]) =>
        /\ l[i].field = [kind |-> s[i].kind, part |-> c[i].part]
        /\ l[i].field.kind = s[i].kind /\ l[i].field.part = c[i].part
  <2>1. ASSUME NEW i \in DOMAIN s, Present(s[i])
        PROVE  l[i].field = [kind |-> s[i].kind, part |-> c[i].part]
    BY <1>2, <1>4, <2>1 DEF StructInv
  <2>. QED  BY <2>1
<1>7. ASSUME NEW i \in DOMAIN s
      PROVE  /\ r.fields[i] = [kind |-> r.fields[i].kind, part |-> r.fields[i].part]
             /\ r.fields[i].kind = s[i].kind
             /\ PartInv(r.fields[i].part)
  <2>1. r.fields[i] = s[i] \/ r.fields[i] = l[i].field
    BY <1>3
  <2>2. CASE r.fields[i] = s[i] \/ ~Present(s[i])
    BY <1>2, <1>4, <2>1, <2>2 DEF StructInv
  <2>3. CASE r.fields[i] = l[i].field /\ Present(s[i])
    BY <1>5, <1>6, <2>3 DEF Kept
  <2>. QED  BY <2>1, <2>2, <2>3
<1>8. StructInv(r.fields)
  <2>1. r.fields = [i \in DOMAIN Kinds |-> r.fields[i]]
    BY <1>2, <1>3
  <2>. QED  BY <1>2, <1>7, <2>1 DEF StructInv
<1>9. r.ok \in BOOLEAN
  BY <1>3
<1>10. ASSUME AllAlike(s), r.ok
       PROVE  AllAlike(r.fields)
  <2>1. \A i \in DOMAIN s : l[i].ok
    BY <1>3, <1>10
  <2>2. \A i \in DOMAIN s : r.fields[i] = l[i].field
    <3>1. \A i \in DOMAIN s : \A j \in 1 .. i - 1 : j \in DOMAIN s
      BY <1>2, KindsAssumption
    <3>. QED  BY <1>3, <2>1, <3>1
  <2>3. ASSUME NEW i \in DOMAIN s, NEW j \in DOMAIN s,
               Present(r.fields[i]), Present(r.fields[j])
        PROVE  Alike(r.fields[i].part, r.fields[j].part)
    <3>1. Present(s[i]) /\ Present(s[j])
      BY <1>7, <2>3 DEF Present
    <3>2. Alike(c[i].part, c[j].part)
      BY <1>4, <1>10, <2>1, <3>1 DEF AllAlike, Regular, Matches
    <3>. QED  BY <1>6, <2>2, <3>1, <3>2
  <2>4. DOMAIN r.fields = DOMAIN s
    BY <1>3
  <2>. QED  BY <2>3, <2>4 DEF AllAlike
<1>11. ASSUME AllAlike(s), plain, ~r.ok
       PROVE  r.fields = s
  <2>1. PICK i \in DOMAIN s : ~l[i].ok
    BY <1>3, <1>11
  <2>2. Present(s[i]) /\ ~c[i].ok
    BY <1>4, <2>1
  <2>3. ASSUME NEW j \in DOMAIN s
        PROVE  l[j].field = s[j]
    <3>1. CASE ~Present(s[j])
      BY <1>4, <3>1
    <3>2. CASE Present(s[j])
      <4>1. c[i].ok = c[j].ok
        BY <1>11, <2>2, <3>2 DEF AllAlike, Regular, Matches
      <4>2. c[j].part = s[j].part
        BY <1>5, <1>11, <2>2, <4>1 DEF Kept
      <4>. QED  BY <1>2, <1>6, <3>2, <4>2 DEF StructInv
    <3>. QED  BY <3>1, <3>2
  <2>4. r.fields = [j \in DOMAIN s |-> s[j]]
    BY <1>3, <2>3
  <2>. QED  BY <1>2, <2>4 DEF StructInv
<1>. QED  BY <1>8, <1>9, <1>10, <1>11 DEF Good

\* A call that adds a version.
LEMMA CreateVersionGood ==
  ASSUME NEW s, StructInv(s), NEW n, NEW b
  PROVE  /\ Good(s, version_create(s, n), TRUE)
         /\ Good(s, version_create_by_branch(s, n, b), TRUE)
<1>0. \A i \in DOMAIN s : PartInv(s[i].part)
  BY DEF StructInv
<1>1. Good(s, version_create(s, n), TRUE)
  <2>1. PICK c : c = [i \in DOMAIN s |-> P!version_create(s[i].part, n)]
    OBVIOUS
  <2>2. version_create(s, n) = FanOut(s, [i \in DOMAIN s |-> OnField(s[i], c[i])])
    BY <2>1 DEF version_create, OnAll
  <2>3. \A i, j \in DOMAIN s : Regular(s[i].part, s[j].part, c[i], c[j], TRUE)
    BY <1>0, <2>1, CreateVersionRegular
  <2>. QED  BY <2>2, <2>3, FanOutGood
<1>2. Good(s, version_create_by_branch(s, n, b), TRUE)
  <2>1. PICK c : c = [i \in DOMAIN s |-> P!version_create_by_branch(s[i].part, n, b)]
    OBVIOUS
  <2>2. version_create_by_branch(s, n, b) = FanOut(s, [i \in DOMAIN s |-> OnField(s[i], c[i])])
    BY <2>1 DEF version_create_by_branch, OnAll
  <2>3. \A i, j \in DOMAIN s : Regular(s[i].part, s[j].part, c[i], c[j], TRUE)
    BY <1>0, <2>1, CreateVersionRegular
  <2>. QED  BY <2>2, <2>3, FanOutGood
<1>. QED  BY <1>1, <1>2

\* A call that removes versions.
LEMMA DropVersionGood ==
  ASSUME NEW s, StructInv(s), NEW n, NEW b
  PROVE  /\ Good(s, version_pop(s), TRUE)
         /\ Good(s, version_pop_by_branch(s, b), TRUE)
         /\ Good(s, branch_pop_version(s, b), TRUE)
         /\ Good(s, version_revert_globally(s, n), TRUE)
         /\ Good(s, version_clean_up_globally(s), TRUE)
<1>0. \A i \in DOMAIN s : PartInv(s[i].part)
  BY DEF StructInv
<1>1. Good(s, version_pop(s), TRUE)
  <2>1. PICK c : c = [i \in DOMAIN s |-> P!version_pop(s[i].part)]
    OBVIOUS
  <2>2. version_pop(s) = FanOut(s, [i \in DOMAIN s |-> OnField(s[i], c[i])])
    BY <2>1 DEF version_pop, OnAll
  <2>3. \A i, j \in DOMAIN s : Regular(s[i].part, s[j].part, c[i], c[j], TRUE)
    BY <1>0, <2>1, PopRegular
  <2>. QED  BY <2>2, <2>3, FanOutGood
<1>2. Good(s, version_pop_by_branch(s, b), TRUE)
  <2>1. PICK c : c = [i \in DOMAIN s |-> P!version_pop_by_branch(s[i].part, b)]
    OBVIOUS
  <2>2. version_pop_by_branch(s, b) = FanOut(s, [i \in DOMAIN s |-> OnField(s[i], c[i])])
    BY <2>1 DEF version_pop_by_branch, OnAll
  <2>3. \A i, j \in DOMAIN s : Regular(s[i].part, s[j].part, c[i], c[j], TRUE)
    BY <1>0, <2>1, PopRegular
  <2>. QED  BY <2>2, <2>3, FanOutGood
<1>3. Good(s, branch_pop_version(s, b), TRUE)
  <2>1. PICK c : c = [i \in DOMAIN s |-> P!branch_pop_version(s[i].part, b)]
    OBVIOUS
  <2>2. branch_pop_version(s, b) = FanOut(s, [i \in DOMAIN s |-> OnField(s[i], c[i])])
    BY <2>1 DEF branch_pop_version, OnAll
  <2>3. \A i, j \in DOMAIN s : Regular(s[i].part, s[j].part, c[i], c[j], TRUE)
    BY <1>0, <2>1, PopRegular
  <2>. QED  BY <2>2, <2>3, FanOutGood
<1>4. Good(s, version_revert_globally(s, n), TRUE)
  <2>1. PICK c : c = [i \in DOMAIN s |-> P!version_revert_globally(s[i].part, n)]
    OBVIOUS
  <2>2. version_revert_globally(s, n) = FanOut(s, [i \in DOMAIN s |-> OnField(s[i], c[i])])
    BY <2>1 DEF version_revert_globally, OnAll
  <2>3. \A i, j \in DOMAIN s : Regular(s[i].part, s[j].part, c[i], c[j], TRUE)
    BY <1>0, <2>1, RevertRegular
  <2>. QED  BY <2>2, <2>3, FanOutGood
<1>5. Good(s, version_clean_up_globally(s), TRUE)
  <2>1. PICK c : c = [i \in DOMAIN s |-> P!version_clean_up_globally(s[i].part)]
    OBVIOUS
  <2>2. version_clean_up_globally(s) = FanOut(s, [i \in DOMAIN s |-> OnField(s[i], c[i])])
    BY <2>1 DEF version_clean_up_globally, OnAll
  <2>3. \A i, j \in DOMAIN s : Regular(s[i].part, s[j].part, c[i], c[j], TRUE)
    BY <1>0, <2>1, CleanUpRegular
  <2>. QED  BY <2>2, <2>3, FanOutGood
<1>. QED  BY <1>1, <1>2, <1>3, <1>4, <1>5

\* A branch is made from another, or from a version of one, in both parts.
LEMMA BranchCreateByNameRegular ==
  ASSUME NEW p, PartInv(p), NEW q, PartInv(q), NEW n, NEW m, NEW b, NEW v,
         NEW force \in BOOLEAN
  PROVE  /\ Regular(p, q, P!branch_create_by_base_branch(p, n, m, b, force),
                          P!branch_create_by_base_branch(q, n, m, b, force), ~force)
         /\ Regular(p, q,
              P!branch_create_by_base_branch_without_new_version(p, n, b, force),
              P!branch_create_by_base_branch_without_new_version(q, n, b, force), ~force)
         /\ Regular(p, q, P!branch_create_by_base_branch_version(p, n, m, b, v, force),
                          P!branch_create_by_base_branch_version(q, n, m, b, v, force),
                          ~force)
         /\ Regular(p, q,
              P!branch_create_by_base_branch_version_without_new_version(p, n, b, v, force),
              P!branch_create_by_base_branch_version_without_new_version(q, n, b, v, force),
              ~force)
<1>1. PICK one, none : one = {m} /\ none = {}
  OBVIOUS
<1>2. one = {} \/ \E l : one = {l}
  BY <1>1
<1>3. none = {} \/ \E l : none = {l}
  BY <1>1
<1>4. Regular(p, q, P!branch_create_by_base_branch(p, n, m, b, force),
                    P!branch_create_by_base_branch(q, n, m, b, force), ~force)
  BY <1>1, <1>2, BranchCreateByBaseRegular
  DEF P!branch_create_by_base_branch, P!OnBranch
<1>5. Regular(p, q, P!branch_create_by_base_branch_without_new_version(p, n, b, force),
                    P!branch_create_by_base_branch_without_new_version(q, n, b, force), ~force)
  BY <1>1, <1>3, BranchCreateByBaseRegular
  DEF P!branch_create_by_base_branch_without_new_version, P!OnBranch
<1>6. Regular(p, q, P!branch_create_by_base_branch_version(p, n, m, b, v, force),
                    P!branch_create_by_base_branch_version(q, n, m, b, v, force), ~force)
  BY <1>1, <1>2, BranchCreateByVersionRegular
  DEF P!branch_create_by_base_branch_version, P!OnBranch, P!OnVersion
<1>7. Regular(p, q,
        P!branch_create_by_base_branch_version_without_new_version(p, n, b, v, force),
        P!branch_create_by_base_branch_version_without_new_version(q, n, b, v, force), ~force)
  BY <1>1, <1>3, BranchCreateByVersionRegular
  DEF P!branch_create_by_base_branch_version_without_new_version, P!OnBranch, P!OnVersion
<1>. QED  BY <1>4, <1>5, <1>6, <1>7

\* A call that makes a branch, forced or not.
LEMMA CreateBranchGood ==
  ASSUME NEW s, StructInv(s), NEW n, NEW m, NEW b, NEW v, NEW force \in BOOLEAN
  PROVE  /\ Good(s, branch_create(s, n, m, force), ~force)
         /\ Good(s, branch_create_without_new_version(s, n, force), ~force)
         /\ Good(s, branch_create_by_base_branch(s, n, m, b, force), ~force)
         /\ Good(s, branch_create_by_base_branch_without_new_version(s, n, b, force), ~force)
         /\ Good(s, branch_create_by_base_branch_version(s, n, m, b, v, force), ~force)
         /\ Good(s, branch_create_by_base_branch_version_without_new_version(s, n, b, v, force),
                 ~force)
<1>0. \A i \in DOMAIN s : PartInv(s[i].part)
  BY DEF StructInv
<1>1. Good(s, branch_create(s, n, m, force), ~force)
  <2>1. PICK c : c = [i \in DOMAIN s |-> P!branch_create(s[i].part, n, m, force)]
    OBVIOUS
  <2>2. branch_create(s, n, m, force) = FanOut(s, [i \in DOMAIN s |-> OnField(s[i], c[i])])
    BY <2>1 DEF branch_create, OnAll
  <2>3. \A i, j \in DOMAIN s : Regular(s[i].part, s[j].part, c[i], c[j], ~force)
    BY <1>0, <2>1, BranchCreateRegular
  <2>. QED  BY <2>2, <2>3, FanOutGood
<1>2. Good(s, branch_create_without_new_version(s, n, force), ~force)
  <2>1. PICK c : c = [i \in DOMAIN s |-> P!branch_create_without_new_version(s[i].part, n, force)]
    OBVIOUS
  <2>2. branch_create_without_new_version(s, n, force)
          = FanOut(s, [i \in DOMAIN s |-> OnField(s[i], c[i])])
    BY <2>1 DEF branch_create_without_new_version, OnAll
  <2>3. \A i, j \in DOMAIN s : Regular(s[i].part, s[j].part, c[i], c[j], ~force)
    BY <1>0, <2>1, BranchCreateRegular
  <2>. QED  BY <2>2, <2>3, FanOutGood
<1>3. Good(s, branch_create_by_base_branch(s, n, m, b, force), ~force)
  <2>1. PICK c : c = [i \in DOMAIN s |-> P!branch_create_by_base_branch(s[i].part, n, m, b, force)]
    OBVIOUS
  <2>2. branch_create_by_base_branch(s, n, m, b, force)
          = FanOut(s, [i \in DOMAIN s |-> OnField(s[i], c[i])])
    BY <2>1 DEF branch_create_by_base_branch, OnAll
  <2>3. \A i, j \in DOMAIN s : Regular(s[i].part, s[j].part, c[i], c[j], ~force)
    BY <1>0, <2>1, BranchCreateByNameRegular
  <2>. QED  BY <2>2, <2>3, FanOutGood
<1>4. Good(s, branch_create_by_base_branch_without_new_version(s, n, b, force), ~force)
  <2>1. PICK c : c = [i \in DOMAIN s |->
            P!branch_create_by_base_branch_without_new_version(s[i].part, n, b, force)]
    OBVIOUS
  <2>2. branch_create_by_base_branch_without_new_version(s, n, b, force)
          = FanOut(s, [i \in DOMAIN s |-> OnField(s[i], c[i])])
    BY <2>1 DEF branch_create_by_base_branch_without_new_version, OnAll
  <2>3. \A i, j \in DOMAIN s : Regular(s[i].part, s[j].part, c[i], c[j], ~force)
    BY <1>0, <2>1, BranchCreateByNameRegular
  <2>. QED  BY <2>2, <2>3, FanOutGood
<1>5. Good(s, branch_create_by_base_branch_version(s, n, m, b, v, force), ~force)
  <2>1. PICK c : c = [i \in DOMAIN s |->
            P!branch_create_by_base_branch_version(s[i].part, n, m, b, v, force)]
    OBVIOUS
  <2>2. branch_create_by_base_branch_version(s, n, m, b, v, force)
          = FanOut(s, [i \in DOMAIN s |-> OnField(s[i], c[i])])
    BY <2>1 DEF branch_create_by_base_branch_version, OnAll
  <2>3. \A i, j \in DOMAIN s : Regular(s[i].part, s[j].part, c[i], c[j], ~force)
    BY <1>0, <2>1, BranchCreateByNameRegular
  <2>. QED  BY <2>2, <2>3, FanOutGood
<1>6. Good(s, branch_create_by_base_branch_version_without_new_version(s, n, b, v, force), ~force)
  <2>1. PICK c : c = [i \in DOMAIN s |->
            P!branch_create_by_base_branch_version_without_new_version(s[i].part, n, b, v, force)]
    OBVIOUS
  <2>2. branch_create_by_base_branch_version_without_new_version(s, n, b, v, force)
          = FanOut(s, [i \in DOMAIN s |-> OnField(s[i], c[i])])
    BY <2>1 DEF branch_create_by_base_branch_version_without_new_version, OnAll
  <2>3. \A i, j \in DOMAIN s : Regular(s[i].part, s[j].part, c[i], c[j], ~force)
    BY <1>0, <2>1, BranchCreateByNameRegular
  <2>. QED  BY <2>2, <2>3, FanOutGood
<1>. QED  BY <1>1, <1>2, <1>3, <1>4, <1>5, <1>6

\* A call that removes branches or cuts one.
LEMMA DropBranchGood ==
  ASSUME NEW s, StructInv(s), NEW n, NEW m, NEW ns
  PROVE  /\ Good(s, branch_remove(s, n), TRUE)
         /\ Good(s, branch_truncate(s, n), TRUE)
         /\ Good(s, branch_truncate_to(s, n, m), TRUE)
         /\ Good(s, branch_keep_only(s, ns), TRUE)
<1>0. \A i \in DOMAIN s : PartInv(s[i].part)
  BY DEF StructInv
<1>1. Good(s, branch_remove(s, n), TRUE)
  <2>1. PICK c : c = [i \in DOMAIN s |-> P!branch_remove(s[i].part, n)]
    OBVIOUS
  <2>2. branch_remove(s, n) = FanOut(s, [i \in DOMAIN s |-> OnField(s[i], c[i])])
    BY <2>1 DEF branch_remove, OnAll
  <2>3. \A i, j \in DOMAIN s : Regular(s[i].part, s[j].part, c[i], c[j], TRUE)
    BY <1>0, <2>1, RemoveRegular
  <2>. QED  BY <2>2, <2>3, FanOutGood
<1>2. Good(s, branch_truncate(s, n), TRUE)
  <2>1. PICK c : c = [i \in DOMAIN s |-> P!branch_truncate(s[i].part, n)]
    OBVIOUS
  <2>2. branch_truncate(s, n) = FanOut(s, [i \in DOMAIN s |-> OnField(s[i], c[i])])
    BY <2>1 DEF branch_truncate, OnAll
  <2>3. \A i, j \in DOMAIN s : Regular(s[i].part, s[j].part, c[i], c[j], TRUE)
    BY <1>0, <2>1, TruncateRegular
  <2>. QED  BY <2>2, <2>3, FanOutGood
<1>3. Good(s, branch_truncate_to(s, n, m), TRUE)
  <2>1. PICK c : c = [i \in DOMAIN s |-> P!branch_truncate_to(s[i].part, n, m)]
    OBVIOUS
  <2>2. branch_truncate_to(s, n, m) = FanOut(s, [i \in DOMAIN s |-> OnField(s[i], c[i])])
    BY <2>1 DEF branch_truncate_to, OnAll
  <2>3. \A i, j \in DOMAIN s : Regular(s[i].part, s[j].part, c[i], c[j], TRUE)
    BY <1>0, <2>1, TruncateRegular
  <2>. QED  BY <2>2, <2>3, FanOutGood
<1>4. Good(s, branch_keep_only(s, ns), TRUE)
  <2>1. PICK c : c = [i \in DOMAIN s |-> P!branch_keep_only(s[i].part, ns)]
    OBVIOUS
  <2>2. branch_keep_only(s, ns) = FanOut(s, [i \in DOMAIN s |-> OnField(s[i], c[i])])
    BY <2>1 DEF branch_keep_only, OnAll
  <2>3. \A i, j \in DOMAIN s : Regular(s[i].part, s[j].part, c[i], c[j], TRUE)
    BY <1>0, <2>1, KeepOnlyRegular
  <2>. QED  BY <2>2, <2>3, FanOutGood
<1>. QED  BY <1>1, <1>2, <1>3, <1>4

\* A call that merges a branch into another.
LEMMA MergeBranchGood ==
  ASSUME NEW s, StructInv(s), NEW m, NEW n
  PROVE  /\ Good(s, branch_merge_to(s, m, n), TRUE)
         /\ Good(s, branch_merge_to_force(s, m, n), TRUE)
<1>0. \A i \in DOMAIN s : PartInv(s[i].part)
  BY DEF StructInv
<1>1. Good(s, branch_merge_to(s, m, n), TRUE)
  <2>1. PICK c : c = [i \in DOMAIN s |-> P!branch_merge_to(s[i].part, m, n)]
    OBVIOUS
  <2>2. branch_merge_to(s, m, n) = FanOut(s, [i \in DOMAIN s |-> OnField(s[i], c[i])])
    BY <2>1 DEF branch_merge_to, OnAll
  <2>3. \A i, j \in DOMAIN s : Regular(s[i].part, s[j].part, c[i], c[j], TRUE)
    BY <1>0, <2>1, MergeRegular
  <2>. QED  BY <2>2, <2>3, FanOutGood
<1>2. Good(s, branch_merge_to_force(s, m, n), TRUE)
  <2>1. PICK c : c = [i \in DOMAIN s |-> P!branch_merge_to_force(s[i].part, m, n)]
    OBVIOUS
  <2>2. branch_merge_to_force(s, m, n) = FanOut(s, [i \in DOMAIN s |-> OnField(s[i], c[i])])
    BY <2>1 DEF branch_merge_to_force, OnAll
  <2>3. \A i, j \in DOMAIN s : Regular(s[i].part, s[j].part, c[i], c[j], TRUE)
    BY <1>0, <2>1, MergeRegular
  <2>. QED  BY <2>2, <2>3, FanOutGood
<1>. QED  BY <1>1, <1>2

\* A call that changes what a name or the default branch is.
LEMMA RenameBranchGood ==
  ASSUME NEW s, StructInv(s), NEW m, NEW n
  PROVE  /\ Good(s, branch_set_default(s, n), TRUE)
         /\ Good(s, branch_swap(s, m, n), TRUE)
<1>0. \A i \in DOMAIN s : PartInv(s[i].part)
  BY DEF StructInv
<1>1. Good(s, branch_set_default(s, n), TRUE)
  <2>1. PICK c : c = [i \in DOMAIN s |-> P!branch_set_default(s[i].part, n)]
    OBVIOUS
  <2>2. branch_set_default(s, n) = FanOut(s, [i \in DOMAIN s |-> OnField(s[i], c[i])])
    BY <2>1 DEF branch_set_default, OnAll
  <2>3. \A i, j \in DOMAIN s : Regular(s[i].part, s[j].part, c[i], c[j], TRUE)
    BY <1>0, <2>1, SetDefaultRegular
  <2>. QED  BY <2>2, <2>3, FanOutGood
<1>2. Good(s, branch_swap(s, m, n), TRUE)
  <2>1. PICK c : c = [i \in DOMAIN s |-> P!branch_swap(s[i].part, m, n)]
    OBVIOUS
  <2>2. branch_swap(s, m, n) = FanOut(s, [i \in DOMAIN s |-> OnField(s[i], c[i])])
    BY <2>1 DEF branch_swap, OnAll
  <2>3. \A i, j \in DOMAIN s : Regular(s[i].part, s[j].part, c[i], c[j], TRUE)
    BY <1>0, <2>1, SwapRegular
  <2>. QED  BY <2>2, <2>3, FanOutGood
<1>. QED  BY <1>1, <1>2

\* A prune is not one of the plain calls.
LEMMA PruneGood ==
  ASSUME NEW s, StructInv(s), NEW num
  PROVE  Good(s, prune(s, num), FALSE)
<1>0. \A i \in DOMAIN s : PartInv(s[i].part)
  BY DEF StructInv
<1>1. Good(s, prune(s, num), FALSE)
  <2>1. PICK c : c = [i \in DOMAIN s |-> P!prune(s[i].part, num)]
    OBVIOUS
  <2>2. prune(s, num) = FanOut(s, [i \in DOMAIN s |-> OnField(s[i], c[i])])
    BY <2>1 DEF prune, OnAll
  <2>3. \A i, j \in DOMAIN s : Regular(s[i].part, s[j].part, c[i], c[j], FALSE)
    BY <1>0, <2>1, PruneRegular
  <2>. QED  BY <2>2, <2>3, FanOutGood
<1>. QED  BY <1>1

\* A rebase within the duty of its caller, of the default branch or of one.
LEMMA RebaseGood ==
  ASSUME NEW n, NEW b, StructInv(fields)
  PROVE  /\ InDuty(n, {}) => Good(fields, version_rebase(fields, n), TRUE)
         /\ InDuty(n, {b}) => Good(fields, version_rebase_by_branch(fields, n, b), TRUE)
<1>0. \A i \in DOMAIN fields : PartInv(fields[i].part)
  BY DEF StructInv
<1>1. ASSUME InDuty(n, {})
      PROVE  Good(fields, version_rebase(fields, n), TRUE)
  <2>1. PICK c : c = [i \in DOMAIN fields |-> P!version_rebase(fields[i].part, n)]
    OBVIOUS
  <2>2. version_rebase(fields, n)
          = FanOut(fields, [i \in DOMAIN fields |-> OnField(fields[i], c[i])])
    BY <2>1 DEF version_rebase, OnAll
  <2>3. \A i \in DOMAIN fields :
          n \in DOMAIN fields[i].part.names =>
            P!Of(fields[i].part)!RebaseDuty(fields[i].part.default, fields[i].part.names[n])
    BY <1>1 DEF InDuty, P!IdOf
  <2>4. \A i, j \in DOMAIN fields :
          Regular(fields[i].part, fields[j].part, c[i], c[j], TRUE)
    BY <1>0, <2>1, <2>3, RebaseRegular
  <2>. QED  BY <2>2, <2>4, FanOutGood
<1>2. ASSUME InDuty(n, {b})
      PROVE  Good(fields, version_rebase_by_branch(fields, n, b), TRUE)
  <2>1. PICK c : c = [i \in DOMAIN fields |->
                        P!version_rebase_by_branch(fields[i].part, n, b)]
    OBVIOUS
  <2>2. version_rebase_by_branch(fields, n, b)
          = FanOut(fields, [i \in DOMAIN fields |-> OnField(fields[i], c[i])])
    BY <2>1 DEF version_rebase_by_branch, OnAll
  <2>3. \A i \in DOMAIN fields :
          n \in DOMAIN fields[i].part.names /\ b \in DOMAIN fields[i].part.brs =>
            P!Of(fields[i].part)!RebaseDuty(fields[i].part.brs[b], fields[i].part.names[n])
    BY <1>2 DEF InDuty, P!IdOf
  <2>4. \A i, j \in DOMAIN fields :
          Regular(fields[i].part, fields[j].part, c[i], c[j], TRUE)
    BY <1>0, <2>1, <2>3, RebaseByBranchRegular
  <2>. QED  BY <2>2, <2>4, FanOutGood
<1>. QED  BY <1>1, <1>2

-----------------------------------------------------------------------------
(***************************************************************************)
(* What a user can tell of a part.                                         *)
(***************************************************************************)
\* The versions of a branch, by its name.
LEMMA ListIs ==
  ASSUME NEW p, PartInv(p), NEW b
  PROVE  P!version_list_by_branch(p, b) =
           IF b \in DOMAIN p.brs
           THEN [ok |-> TRUE,
                 names |-> {n \in DOMAIN p.names : p.names[n] \in p.vers[p.brs[b]]}]
           ELSE [ok |-> FALSE, names |-> {}]
<1>1. PICK S : S = {n \in DOMAIN p.names : p.names[n] \in p.vers[p.brs[b]]}
  OBVIOUS
<1>2. PICK U : U = UNION {P!NamesOf(p, P!Vers(p, i)) : i \in P!IdOf(p.brs, b)}
  OBVIOUS
<1>3. PICK e \in BOOLEAN : e <=> b \in DOMAIN p.brs
  OBVIOUS
<1>4. P!version_list_by_branch(p, b) = [ok |-> e, names |-> U]
  <2>1. (b \in DOMAIN p.brs) = e
    BY <1>3
  <2>. QED  BY <1>2, <2>1, Zenon DEF P!version_list_by_branch
<1>5. CASE b \in DOMAIN p.brs
  <2>1. P!Vers(p, p.brs[b]) = p.vers[p.brs[b]]
    BY <1>5 DEF PartInv, P!Vers, P!Of!Vers
  <2>2. P!IdOf(p.brs, b) = {p.brs[b]}
    BY <1>5 DEF P!IdOf
  <2>3. U = P!NamesOf(p, P!Vers(p, p.brs[b]))
    BY <1>2, <2>2
  <2>4. U = S
    BY <1>1, <2>1, <2>3 DEF P!NamesOf
  <2>5. e = TRUE
    BY <1>3, <1>5
  <2>. QED  BY <1>1, <1>4, <1>5, <2>4, <2>5
<1>6. CASE b \notin DOMAIN p.brs
  <2>1. P!IdOf(p.brs, b) = {}
    BY <1>6 DEF P!IdOf
  <2>2. U = {}
    BY <1>2, <2>1
  <2>3. e = FALSE
    BY <1>3, <1>6
  <2>. QED  BY <1>4, <1>6, <2>2, <2>3
<1>. QED  BY <1>5, <1>6

\* Two parts look the same if and only if they are alike.
LEMMA ViewIsAlike ==
  ASSUME NEW p, PartInv(p), NEW q, PartInv(q)
  PROVE  View(p) = View(q) <=> Alike(p, q)
<1> DEFINE Lists(r) == [b \in DOMAIN r.brs |-> P!version_list_by_branch(r, b)]
           Order(r) == {mn \in (DOMAIN r.names) \X (DOMAIN r.names) :
                          r.names[mn[1]] < r.names[mn[2]]}
           Defaults(r) == P!branch_get_default(r)
           All(r) == P!version_list_globally(r)
<1>1. View(p) = View(q)
        <=> /\ Defaults(p) = Defaults(q) /\ Lists(p) = Lists(q) /\ All(p) = All(q)
            /\ DOMAIN p.names = DOMAIN q.names /\ Order(p) = Order(q)
  <2>1. PICK a, l, v, o : a = Defaults(p) /\ l = Lists(p) /\ v = All(p) /\ o = Order(p)
    OBVIOUS
  <2>2. PICK a2, l2, v2, o2 : a2 = Defaults(q) /\ l2 = Lists(q) /\ v2 = All(q) /\ o2 = Order(q)
    OBVIOUS
  <2>3. View(p) = [default |-> a, branches |-> l, versions |-> v,
                   names |-> DOMAIN p.names, order |-> o]
    BY <2>1, Zenon DEF View
  <2>4. View(q) = [default |-> a2, branches |-> l2, versions |-> v2,
                   names |-> DOMAIN q.names, order |-> o2]
    BY <2>2, Zenon DEF View
  <2>5. View(p) = View(q)
          <=> /\ a = a2 /\ l = l2 /\ v = v2 /\ DOMAIN p.names = DOMAIN q.names /\ o = o2
    BY <2>3, <2>4
  <2>. QED  BY <2>1, <2>2, <2>5
<1>2. DOMAIN p.brs = DOMAIN q.brs =>
        (Defaults(p) = Defaults(q) <=> SameBranch(p, q, p.default, q.default))
  BY DEF P!branch_get_default, SameBranch
<1>3. DOMAIN p.names = DOMAIN q.names =>
        (All(p) = All(q) <=> SameSet(p, q, p.chgsets, q.chgsets))
  BY DEF P!version_list_globally, P!NamesOf, SameSet
<1>4. ASSUME DOMAIN p.names = DOMAIN q.names
      PROVE  Order(p) = Order(q)
               <=> \A m, n \in DOMAIN p.names : p.names[m] < p.names[n] <=> q.names[m] < q.names[n]
  <2>1. ASSUME Order(p) = Order(q), NEW m \in DOMAIN p.names, NEW n \in DOMAIN p.names
        PROVE  p.names[m] < p.names[n] <=> q.names[m] < q.names[n]
    <3>1. <<m, n>> \in Order(p) <=> p.names[m] < p.names[n]
      OBVIOUS
    <3>2. <<m, n>> \in Order(q) <=> q.names[m] < q.names[n]
      BY <1>4
    <3>. QED  BY <2>1, <3>1, <3>2
  <2>2. ASSUME \A m, n \in DOMAIN p.names : p.names[m] < p.names[n] <=> q.names[m] < q.names[n]
        PROVE  Order(p) = Order(q)
    BY <1>4, <2>2
  <2>. QED  BY <2>1, <2>2
<1>5. ASSUME DOMAIN p.names = DOMAIN q.names
      PROVE  Lists(p) = Lists(q)
               <=> /\ DOMAIN p.brs = DOMAIN q.brs
                   /\ \A b \in DOMAIN p.brs : SameSet(p, q, p.vers[p.brs[b]], q.vers[q.brs[b]])
  <2>1. Lists(p) = Lists(q)
          <=> /\ DOMAIN p.brs = DOMAIN q.brs
              /\ \A b \in DOMAIN p.brs : P!version_list_by_branch(p, b)
                                           = P!version_list_by_branch(q, b)
    <3>1. PICK l, k : l = Lists(p) /\ k = Lists(q)
      OBVIOUS
    <3>2. /\ DOMAIN l = DOMAIN p.brs
          /\ \A b \in DOMAIN p.brs : l[b] = P!version_list_by_branch(p, b)
          /\ l = [b \in DOMAIN l |-> l[b]]
      BY <3>1
    <3>3. /\ DOMAIN k = DOMAIN q.brs
          /\ \A b \in DOMAIN q.brs : k[b] = P!version_list_by_branch(q, b)
          /\ k = [b \in DOMAIN k |-> k[b]]
      BY <3>1
    <3>4. l = k => \A b \in DOMAIN p.brs : P!version_list_by_branch(p, b)
                                             = P!version_list_by_branch(q, b)
      BY <3>2, <3>3
    <3>5. ASSUME DOMAIN p.brs = DOMAIN q.brs,
                 \A b \in DOMAIN p.brs : P!version_list_by_branch(p, b)
                                           = P!version_list_by_branch(q, b)
          PROVE  l = k
      <4>1. DOMAIN l = DOMAIN k /\ \A b \in DOMAIN l : l[b] = k[b]
        BY <3>2, <3>3, <3>5
      <4>. QED  BY <3>2, <3>3, <4>1
    <3>. QED  BY <3>1, <3>2, <3>3, <3>4, <3>5
  <2>2. ASSUME DOMAIN p.brs = DOMAIN q.brs, NEW b \in DOMAIN p.brs
        PROVE  P!version_list_by_branch(p, b) = P!version_list_by_branch(q, b)
                 <=> SameSet(p, q, p.vers[p.brs[b]], q.vers[q.brs[b]])
    <3>1. PICK S, T : /\ S = {n \in DOMAIN p.names : p.names[n] \in p.vers[p.brs[b]]}
                      /\ T = {n \in DOMAIN q.names : q.names[n] \in q.vers[q.brs[b]]}
      OBVIOUS
    <3>2. /\ P!version_list_by_branch(p, b) = [ok |-> TRUE, names |-> S]
          /\ P!version_list_by_branch(q, b) = [ok |-> TRUE, names |-> T]
      BY <2>2, <3>1, ListIs
    <3>3. S = T <=> SameSet(p, q, p.vers[p.brs[b]], q.vers[q.brs[b]])
      BY <1>5, <3>1 DEF SameSet
    <3>4. [ok |-> TRUE, names |-> S] = [ok |-> TRUE, names |-> T] <=> S = T
      OBVIOUS
    <3>. QED  BY <3>2, <3>3, <3>4
  <2>. QED  BY <2>1, <2>2
<1>. HIDE DEF Lists, Order, Defaults, All
<1>6. CASE DOMAIN p.names = DOMAIN q.names
  BY <1>1, <1>2, <1>3, <1>4, <1>5, <1>6 DEF Alike
<1>7. CASE DOMAIN p.names # DOMAIN q.names
  BY <1>1, <1>7 DEF Alike
<1>. QED  BY <1>6, <1>7

\* The fields of a structure agree if and only if their parts are alike.
LEMMA AgreeIsAlike ==
  ASSUME NEW s, StructInv(s)
  PROVE  Agree(s) <=> AllAlike(s)
<1>1. \A i \in DOMAIN s : PartInv(s[i].part)
  BY DEF StructInv
<1>2. Agree(s) <=> \A i, j \in DOMAIN s :
        Present(s[i]) /\ Present(s[j]) => View(s[i].part) = View(s[j].part)
  BY DEF Agree, Parts
<1>. QED  BY <1>1, <1>2, ViewIsAlike DEF AllAlike

-----------------------------------------------------------------------------
(***************************************************************************)
(* The steps of the structure.                                             *)
(***************************************************************************)
Inv == /\ StructInv(fields)
       /\ call \in CallKinds
       /\ ok \in BOOLEAN

\* What a step does to fields that are alike.
InStepKept ==
    AllAlike(fields) => /\ call' # "other" /\ ok' => AllAlike(fields')
                        /\ call' = "plain" /\ ~ok' => fields' = fields

\* A call is such a step.
LEMMA CallKept ==
  ASSUME NEW c \in CallKinds, NEW r, NEW plain, plain <=> c = "plain",
         Good(fields, r, plain), Call(c, r)
  PROVE  Inv' /\ InStepKept
<1>1. fields' = r.fields /\ call' = c /\ ok' = r.ok
  BY DEF Call
<1>. QED  BY <1>1 DEF Good, Inv, InStepKept

\* A plain call is.
LEMMA PlainKept ==
  ASSUME NEW r, Good(fields, r, TRUE), Call("plain", r)
  PROVE  Inv' /\ InStepKept
BY CallKept DEF CallKinds

\* All fields start with new values.
LEMMA InitInv == Init => Inv
<1> SUFFICES ASSUME Init PROVE Inv
  OBVIOUS
<1>1. fields = [i \in DOMAIN Kinds |-> [kind |-> Kinds[i], part |-> P!New]]
  BY DEF Init
<1>2. PICK new : new = P!New
  OBVIOUS
<1>3. \A i \in DOMAIN Kinds : /\ fields[i] = [kind |-> fields[i].kind, part |-> fields[i].part]
                              /\ fields[i].kind = Kinds[i] /\ fields[i].part = new
  <2>1. \A i \in DOMAIN Kinds : fields[i] = [kind |-> Kinds[i], part |-> new]
    BY <1>1, <1>2
  <2>2. ASSUME NEW i \in DOMAIN Kinds
        PROVE  /\ fields[i] = [kind |-> fields[i].kind, part |-> fields[i].part]
               /\ fields[i].kind = Kinds[i] /\ fields[i].part = new
    <3>1. PICK f, k : f = fields[i] /\ k = Kinds[i]
      OBVIOUS
    <3>2. f = [kind |-> k, part |-> new]
      BY <2>1, <3>1
    <3>3. f.kind = k /\ f.part = new
      BY <3>2
    <3>. QED  BY <3>1, <3>2, <3>3
  <2>. QED  BY <2>2
<1>4. \A i \in DOMAIN Kinds : Kinds[i] \in FieldKinds
  BY KindsAssumption DEF FieldKinds
<1>5. fields = [i \in DOMAIN Kinds |-> fields[i]]
  BY <1>1
<1>6. StructInv(fields)
  BY <1>2, <1>3, <1>4, <1>5, NewInv DEF StructInv
<1>. QED  BY <1>6 DEF Inv, Init, CallKinds

\* A branch made by force, or not.
LEMMA CreatedKept ==
  ASSUME StructInv(fields), CreateBranch
  PROVE  Inv' /\ InStepKept
<1>1. PICK n \in BrName, force \in BOOLEAN :
        \E c, r :
          /\ c = IF force THEN "forced" ELSE "plain"
          /\ Call(c, r)
          /\ \/ r = branch_create_without_new_version(fields, n, force)
             \/ \E m \in VerName : r = branch_create(fields, n, m, force)
             \/ \E b \in BrName :
                  r = branch_create_by_base_branch_without_new_version(fields, n, b, force)
             \/ \E b \in BrName, m \in VerName :
                  r = branch_create_by_base_branch(fields, n, m, b, force)
             \/ \E b \in BrName, v \in VerName :
                  r = branch_create_by_base_branch_version_without_new_version(
                        fields, n, b, v, force)
             \/ \E b \in BrName, m \in VerName, v \in VerName :
                  r = branch_create_by_base_branch_version(fields, n, m, b, v, force)
  BY DEF CreateBranch
<1>2. PICK c, r : /\ c = IF force THEN "forced" ELSE "plain"
                  /\ Call(c, r)
                  /\ Good(fields, r, ~force)
  BY <1>1, CreateBranchGood
<1>3. c \in CallKinds /\ (~force <=> c = "plain")
  BY <1>2 DEF CallKinds
<1>. QED  BY <1>2, <1>3, CallKept

\* An option is filled.
LEMMA FillKept ==
  ASSUME Inv, FillOption
  PROVE  Inv' /\ InStepKept
<1>1. PICK i \in DOMAIN fields : /\ fields[i].kind = "none"
                                 /\ fields' = [fields EXCEPT ![i].kind = "some"]
  BY DEF FillOption
<1>2. call' = "other" /\ ok' = TRUE
  BY DEF FillOption
<1>3. PICK f : f = [fields[i] EXCEPT !.kind = "some"]
  OBVIOUS
<1>4. fields' = [fields EXCEPT ![i] = f]
  BY <1>1, <1>3
<1>5. DOMAIN fields = DOMAIN Kinds
  BY DEF Inv, StructInv
<1>6. f = [kind |-> "some", part |-> fields[i].part]
  BY <1>3, <1>5 DEF Inv, StructInv
<1>7. \A j \in DOMAIN Kinds : fields'[j] = IF j = i THEN f ELSE fields[j]
  BY <1>4, <1>5
<1>8. fields' = [j \in DOMAIN Kinds |-> fields'[j]]
  BY <1>4, <1>5
<1>9. Kinds[i] # "versioned"
  BY <1>1, <1>5 DEF Inv, StructInv
<1>10. StructInv(fields')
  BY <1>6, <1>7, <1>8, <1>9 DEF Inv, StructInv, FieldKinds
<1>. QED  BY <1>2, <1>10 DEF Inv, InStepKept, CallKinds

\* A call on one field.
LEMMA DirectKept ==
  ASSUME Inv, DirectCall
  PROVE  Inv' /\ InStepKept
<1>1. PICK i \in DOMAIN fields, n \in VerName :
        fields' = [fields EXCEPT ![i].part = P!version_create(fields[i].part, n).part]
  BY DEF DirectCall
<1>2. call' = "other" /\ ok' = TRUE
  BY DEF DirectCall
<1>3. DOMAIN fields = DOMAIN Kinds
  BY DEF Inv, StructInv
<1>4. PICK p : p = P!version_create(fields[i].part, n).part
  OBVIOUS
<1>5. PartInv(p)
  BY <1>3, <1>4, AddVersionInv DEF Inv, StructInv, P!version_create
<1>6. PICK f : f = [fields[i] EXCEPT !.part = p]
  OBVIOUS
<1>7. fields' = [fields EXCEPT ![i] = f]
  BY <1>1, <1>4, <1>6
<1>8. f = [kind |-> fields[i].kind, part |-> p]
  BY <1>3, <1>6 DEF Inv, StructInv
<1>9. \A j \in DOMAIN Kinds : fields'[j] = IF j = i THEN f ELSE fields[j]
  BY <1>3, <1>7
<1>10. fields' = [j \in DOMAIN Kinds |-> fields'[j]]
  BY <1>3, <1>7
<1>11. StructInv(fields')
  BY <1>3, <1>8, <1>9, <1>10, <1>5 DEF Inv, StructInv
<1>. QED  BY <1>2, <1>11 DEF Inv, InStepKept, CallKinds

\* Every step keeps the invariant, and does to fields that are alike what it
\* should.
LEMMA NextKept ==
  ASSUME Inv, Next
  PROVE  Inv' /\ InStepKept
<1>0. StructInv(fields)
  BY DEF Inv
<1>1. CASE CreateVersion
  BY <1>0, <1>1, CreateVersionGood, PlainKept DEF CreateVersion
<1>2. CASE DropVersion
  BY <1>0, <1>2, DropVersionGood, PlainKept DEF DropVersion
<1>3. CASE RebaseVersion
  BY <1>0, <1>3, RebaseGood, PlainKept DEF RebaseVersion
<1>4. CASE CreateBranch
  BY <1>0, <1>4, CreatedKept
<1>5. CASE DropBranch
  BY <1>0, <1>5, DropBranchGood, PlainKept DEF DropBranch
<1>6. CASE MergeBranch
  BY <1>0, <1>6, MergeBranchGood, PlainKept DEF MergeBranch
<1>7. CASE RenameBranch
  BY <1>0, <1>7, RenameBranchGood, PlainKept DEF RenameBranch
<1>8. CASE PruneVersions
  BY <1>0, <1>8, PruneGood, CallKept DEF PruneVersions, CallKinds
<1>9. CASE FillOption
  BY <1>9, FillKept
<1>10. CASE DirectCall
  BY <1>10, DirectKept
<1>. QED  BY <1>1, <1>2, <1>3, <1>4, <1>5, <1>6, <1>7, <1>8, <1>9, <1>10 DEF Next, Derived

\* The invariant holds in every state.
THEOREM InvHolds == Spec => []Inv
<1>1. Inv /\ [Next]_vars => Inv'
  BY NextKept DEF Inv, vars
<1>. QED  BY <1>1, InitInv, PTL DEF Spec

\* In every field, whatever is called and on whatever it fails, the ids are
\* ones its allocators gave, and the versions on branches have change sets and
\* names.
THEOREM TypeCorrect == Spec => []TypeOK
<1>1. Inv => TypeOK
  <2> SUFFICES ASSUME Inv PROVE TypeOK
    OBVIOUS
  <2>1. DOMAIN fields = DOMAIN Kinds
    BY DEF Inv, StructInv
  <2>2. \A i \in DOMAIN fields : PartOK(fields[i].part)
    BY <2>1, InvIsOK DEF Inv, StructInv
  <2>3. [i \in DOMAIN fields |-> fields[i].kind]
          \in [DOMAIN Kinds -> {"versioned", "nope", "none", "some"}]
    BY <2>1 DEF Inv, StructInv, FieldKinds
  <2>. QED  BY <2>2, <2>3 DEF TypeOK, Inv, CallKinds
<1>. QED  BY <1>1, InvHolds, PTL

\* A call on the structure that fails has changed no field, when the fields
\* agree and it is not a forced creation or a prune: the first field that has
\* versions fails, as a whole, before any is changed.
THEOREM FailureAtomicHolds == Spec => FailureAtomic
<1>1. Inv /\ [Next]_vars
        => [Agree(fields) /\ call' = "plain" /\ ~ok' => fields' = fields]_vars
  <2> SUFFICES ASSUME Inv, Next, Agree(fields), call' = "plain", ~ok'
               PROVE  fields' = fields
    OBVIOUS
  <2>. QED  BY NextKept, AgreeIsAlike DEF Inv, InStepKept
<1>. QED  BY <1>1, InvHolds, PTL DEF Spec, FailureAtomic

\* Fields that agree still agree after a call on all of them: each operation
\* of the trait gives the same outcome on two parts that look the same, though
\* their ids differ.
THEOREM AgreementIsKept == Spec => AgreementKept
<1>1. Inv /\ [Next]_vars
        => [Agree(fields) /\ call' # "other" /\ (ok' \/ call' = "plain") => Agree(fields')]_vars
  <2> SUFFICES ASSUME Inv, Next, Agree(fields), call' # "other", ok' \/ call' = "plain"
               PROVE  Agree(fields')
    OBVIOUS
  <2>1. StructInv(fields) /\ StructInv(fields') /\ InStepKept
    BY NextKept DEF Inv
  <2>2. AllAlike(fields)
    BY <2>1, AgreeIsAlike
  <2>3. AllAlike(fields')
    <3>1. CASE ok'
      BY <2>1, <2>2, <3>1 DEF InStepKept
    <3>2. CASE ~ok'
      BY <2>1, <2>2, <3>2 DEF InStepKept
    <3>. QED  BY <3>1, <3>2
  <2>. QED  BY <2>1, <2>3, AgreeIsAlike
<1>. QED  BY <1>1, InvHolds, PTL DEF Spec, AgreementKept

-----------------------------------------------------------------------------
(***************************************************************************)
(* The answers of the structure.                                           *)
(***************************************************************************)
\* Of answers that are all either x or an empty list, with x among them, the
\* first that counts is x.
LEMMA FirstOfIs ==
  ASSUME NEW N \in Nat, NEW l, DOMAIN l = 1 .. N,
         NEW o \in BOOLEAN, NEW S, NEW x, x = [ok |-> o, names |-> S],
         NEW e, e = [ok |-> TRUE, names |-> {}],
         \A i \in DOMAIN l : l[i] = x \/ l[i] = e,
         \E i \in DOMAIN l : l[i] = x
  PROVE  FirstOf(l) = x
<1>1. PICK stop : stop = {i \in DOMAIN l : ~l[i].ok \/ l[i].names # {}}
  OBVIOUS
<1>2. FirstOf(l) = IF stop = {} THEN [ok |-> TRUE, names |-> {}] ELSE l[Min(stop)]
  BY <1>1 DEF FirstOf
<1>3. CASE stop = {}
  <2>1. PICK i \in DOMAIN l : l[i] = x
    OBVIOUS
  <2>2. x.ok /\ x.names = {}
    BY <1>1, <1>3, <2>1
  <2>3. x = [ok |-> TRUE, names |-> {}]
    BY <2>2
  <2>. QED  BY <1>2, <1>3, <2>3
<1>4. CASE stop # {}
  <2>1. stop \in SUBSET Nat
    BY <1>1
  <2>2. Min(stop) \in stop
    BY <1>4, <2>1, MinInSet
  <2>3. PICK i \in DOMAIN l : i = Min(stop) /\ (~l[i].ok \/ l[i].names # {})
    BY <1>1, <2>2
  <2>4. l[i] # [ok |-> TRUE, names |-> {}]
    BY <2>3
  <2>. QED  BY <1>2, <1>4, <2>3, <2>4
<1>. QED  BY <1>3, <1>4

\* The same for lists that cannot fail.
LEMMA FirstListIs ==
  ASSUME NEW N \in Nat, NEW l, DOMAIN l = 1 .. N, NEW x,
         \A i \in DOMAIN l : l[i] = x \/ l[i] = {},
         \E i \in DOMAIN l : l[i] = x
  PROVE  FirstOf([i \in DOMAIN l |-> [ok |-> TRUE, names |-> l[i]]]).names = x
<1>1. PICK k : k = [i \in DOMAIN l |-> [ok |-> TRUE, names |-> l[i]]]
  OBVIOUS
<1>2. PICK o \in BOOLEAN : o = TRUE
  OBVIOUS
<1>3. PICK y, e : y = [ok |-> o, names |-> x] /\ e = [ok |-> TRUE, names |-> {}]
  OBVIOUS
<1>4. DOMAIN k = 1 .. N
  BY <1>1
<1>5. \A i \in DOMAIN k : k[i] = y \/ k[i] = e
  BY <1>1, <1>2, <1>3
<1>6. \E i \in DOMAIN k : k[i] = y
  BY <1>1, <1>2, <1>3
<1>7. FirstOf(k) = y
  BY <1>3, <1>4, <1>5, <1>6, FirstOfIs
<1>. QED  BY <1>1, <1>3, <1>7

\* Parts that are alike give the same answers.
LEMMA SameAnswers ==
  ASSUME NEW p, PartInv(p), NEW q, PartInv(q), Alike(p, q)
  PROVE  /\ P!version_list_globally(p) = P!version_list_globally(q)
         /\ P!branch_list(p) = P!branch_list(q)
         /\ P!branch_get_default(p) = P!branch_get_default(q)
         /\ \A n : /\ P!version_exists(p, n) <=> P!version_exists(q, n)
                   /\ P!version_exists_globally(p, n) <=> P!version_exists_globally(q, n)
         /\ \A b : /\ P!branch_exists(p, b) <=> P!branch_exists(q, b)
                   /\ P!branch_has_versions(p, b) <=> P!branch_has_versions(q, b)
                   /\ P!version_list_by_branch(p, b) = P!version_list_by_branch(q, b)
<1>1. P!version_list_globally(p) = P!version_list_globally(q)
  BY DEF P!version_list_globally, P!NamesOf, Alike, SameSet
<1>2. P!branch_list(p) = P!branch_list(q)
  BY DEF P!branch_list, Alike
<1>3. P!branch_get_default(p) = P!branch_get_default(q)
  BY DEF P!branch_get_default, Alike, SameBranch
<1>4. ASSUME NEW n
      PROVE  P!version_exists(p, n) <=> P!version_exists(q, n)
  <2>1. PICK S, T : S = P!Vers(p, p.default) /\ T = P!Vers(q, q.default)
    OBVIOUS
  <2>2. SameSet(p, q, S, T)
    BY <2>1, SameNamed, SameVers
  <2>3. P!version_exists(p, n) <=> n \in DOMAIN p.names /\ p.names[n] \in S
    BY <2>1 DEF P!version_exists, P!IdOf
  <2>4. P!version_exists(q, n) <=> n \in DOMAIN q.names /\ q.names[n] \in T
    BY <2>1 DEF P!version_exists, P!IdOf
  <2>. QED  BY <2>2, <2>3, <2>4 DEF Alike, SameSet
<1>5. ASSUME NEW n
      PROVE  P!version_exists_globally(p, n) <=> P!version_exists_globally(q, n)
  <2>1. P!version_exists_globally(p, n) <=> n \in DOMAIN p.names /\ p.names[n] \in p.chgsets
    BY DEF P!version_exists_globally, P!IdOf
  <2>2. P!version_exists_globally(q, n) <=> n \in DOMAIN q.names /\ q.names[n] \in q.chgsets
    BY DEF P!version_exists_globally, P!IdOf
  <2>. QED  BY <2>1, <2>2 DEF Alike, SameSet
<1>6. ASSUME NEW b
      PROVE  P!branch_exists(p, b) <=> P!branch_exists(q, b)
  BY DEF P!branch_exists, Alike
<1>7. ASSUME NEW b
      PROVE  P!version_list_by_branch(p, b) = P!version_list_by_branch(q, b)
  <2>1. PICK S, T : /\ S = {n \in DOMAIN p.names : p.names[n] \in p.vers[p.brs[b]]}
                    /\ T = {n \in DOMAIN q.names : q.names[n] \in q.vers[q.brs[b]]}
    OBVIOUS
  <2>2. b \in DOMAIN p.brs => S = T
    BY <2>1 DEF Alike, SameSet
  <2>3. b \in DOMAIN p.brs <=> b \in DOMAIN q.brs
    BY DEF Alike
  <2>4. P!version_list_by_branch(p, b)
          = IF b \in DOMAIN p.brs THEN [ok |-> TRUE, names |-> S] ELSE [ok |-> FALSE, names |-> {}]
    BY <2>1, ListIs
  <2>5. P!version_list_by_branch(q, b)
          = IF b \in DOMAIN q.brs THEN [ok |-> TRUE, names |-> T] ELSE [ok |-> FALSE, names |-> {}]
    BY <2>1, ListIs
  <2>6. CASE b \in DOMAIN p.brs
    <3>1. P!version_list_by_branch(p, b) = [ok |-> TRUE, names |-> S]
      BY <2>4, <2>6
    <3>2. P!version_list_by_branch(q, b) = [ok |-> TRUE, names |-> T]
      BY <2>3, <2>5, <2>6
    <3>. QED  BY <2>2, <2>6, <3>1, <3>2
  <2>7. CASE b \notin DOMAIN p.brs
    <3>1. P!version_list_by_branch(p, b) = [ok |-> FALSE, names |-> {}]
      BY <2>4, <2>7
    <3>2. P!version_list_by_branch(q, b) = [ok |-> FALSE, names |-> {}]
      BY <2>3, <2>5, <2>7
    <3>. QED  BY <3>1, <3>2
  <2>. QED  BY <2>6, <2>7
<1>8. ASSUME NEW b
      PROVE  P!branch_has_versions(p, b) <=> P!branch_has_versions(q, b)
  <2>1. P!branch_has_versions(p, b) <=> b \in DOMAIN p.brs /\ p.vers[p.brs[b]] # {}
    BY DEF P!branch_has_versions, P!IdOf, P!Vers, P!Of!Vers, PartInv
  <2>2. P!branch_has_versions(q, b) <=> b \in DOMAIN q.brs /\ q.vers[q.brs[b]] # {}
    BY DEF P!branch_has_versions, P!IdOf, P!Vers, P!Of!Vers, PartInv
  <2>3. ASSUME b \in DOMAIN p.brs
        PROVE  p.vers[p.brs[b]] # {} <=> q.vers[q.brs[b]] # {}
    <3>1. PICK S, T : S = p.vers[p.brs[b]] /\ T = q.vers[q.brs[b]]
      OBVIOUS
    <3>2. SameSet(p, q, S, T) /\ S \subseteq p.chgsets /\ T \subseteq q.chgsets
      BY <2>3, <3>1 DEF Alike, PartInv
    <3>3. \A v \in S : \E n \in DOMAIN p.names : p.names[n] = v
      BY <3>2, Named
    <3>4. \A v \in T : \E n \in DOMAIN p.names : q.names[n] = v
      BY <3>2, Named DEF Alike
    <3>. QED  BY <3>1, <3>2, <3>3, <3>4 DEF SameSet
  <2>. QED  BY <2>1, <2>2, <2>3 DEF Alike
<1>. QED  BY <1>1, <1>2, <1>3, <1>4, <1>5, <1>6, <1>7, <1>8

\* A structure with a versioned field answers as the part of any field that
\* has versions does, when these are alike.
LEMMA AnswersAsOne ==
  ASSUME StructInv(fields), AllAlike(fields), NEW p \in Parts(fields),
         NEW z \in DOMAIN Kinds, Kinds[z] = "versioned"
  PROVE  /\ version_list_globally(fields) = P!version_list_globally(p)
         /\ branch_list(fields) = P!branch_list(p)
         /\ branch_get_default(fields) = {P!branch_get_default(p)} \ {{}}
         /\ \A n : /\ version_exists(fields, n) = P!version_exists(p, n)
                   /\ version_exists_globally(fields, n) = P!version_exists_globally(p, n)
         /\ \A b : /\ branch_exists(fields, b) = P!branch_exists(p, b)
                   /\ branch_has_versions(fields, b) = P!branch_has_versions(p, b)
                   /\ version_list_by_branch(fields, b) = P!version_list_by_branch(p, b)
<1>1. /\ DOMAIN fields = DOMAIN Kinds
      /\ \A i \in DOMAIN fields : PartInv(fields[i].part)
      /\ z \in DOMAIN fields /\ fields[z].kind = "versioned" /\ Present(fields[z])
  BY DEF StructInv, Present
<1>2. PICK N \in Nat : DOMAIN fields = 1 .. N
  BY <1>1, KindsAssumption
<1>3. PICK y \in DOMAIN fields : Present(fields[y]) /\ p = fields[y].part
  BY DEF Parts
<1>4. PartInv(p)
  BY <1>1, <1>3
<1>5. \A i \in DOMAIN fields : Present(fields[i]) => Alike(p, fields[i].part)
  BY <1>3 DEF AllAlike
<1>6. ASSUME NEW i \in DOMAIN fields, Present(fields[i])
      PROVE  /\ P!version_list_globally(fields[i].part) = P!version_list_globally(p)
             /\ P!branch_list(fields[i].part) = P!branch_list(p)
             /\ P!branch_get_default(fields[i].part) = P!branch_get_default(p)
             /\ \A n : /\ P!version_exists(fields[i].part, n) <=> P!version_exists(p, n)
                       /\ P!version_exists_globally(fields[i].part, n)
                            <=> P!version_exists_globally(p, n)
             /\ \A b : /\ P!branch_exists(fields[i].part, b) <=> P!branch_exists(p, b)
                       /\ P!branch_has_versions(fields[i].part, b)
                            <=> P!branch_has_versions(p, b)
                       /\ P!version_list_by_branch(fields[i].part, b)
                            = P!version_list_by_branch(p, b)
  <2>1. PICK q : q = fields[i].part
    OBVIOUS
  <2>2. PartInv(q) /\ Alike(p, q)
    BY <1>1, <1>5, <1>6, <2>1
  <2>. QED  BY <1>4, <2>1, <2>2, SameAnswers
<1>7. version_list_globally(fields) = P!version_list_globally(p)
  <2>1. PICK l : l = [i \in DOMAIN fields |->
                        Names(fields[i], P!version_list_globally(fields[i].part))]
    OBVIOUS
  <2>2. DOMAIN l = 1 .. N
    BY <1>2, <2>1
  <2>3. \A i \in DOMAIN l : l[i] = P!version_list_globally(p) \/ l[i] = {}
    BY <1>6, <2>1 DEF Names
  <2>4. \E i \in DOMAIN l : l[i] = P!version_list_globally(p)
    BY <1>1, <1>6, <2>1 DEF Names
  <2>5. FirstOf([i \in DOMAIN l |-> [ok |-> TRUE, names |-> l[i]]]).names
          = P!version_list_globally(p)
    BY <2>2, <2>3, <2>4, FirstListIs
  <2>6. [i \in DOMAIN l |-> [ok |-> TRUE, names |-> l[i]]]
          = [i \in DOMAIN fields |->
              [ok |-> TRUE, names |-> Names(fields[i], P!version_list_globally(fields[i].part))]]
    BY <2>1
  <2>. QED  BY <2>5, <2>6 DEF version_list_globally
<1>8. branch_list(fields) = P!branch_list(p)
  <2>1. PICK l : l = [i \in DOMAIN fields |->
                        Names(fields[i], P!branch_list(fields[i].part))]
    OBVIOUS
  <2>2. DOMAIN l = 1 .. N
    BY <1>2, <2>1
  <2>3. \A i \in DOMAIN l : l[i] = P!branch_list(p) \/ l[i] = {}
    BY <1>6, <2>1 DEF Names
  <2>4. \E i \in DOMAIN l : l[i] = P!branch_list(p)
    BY <1>1, <1>6, <2>1 DEF Names
  <2>5. FirstOf([i \in DOMAIN l |-> [ok |-> TRUE, names |-> l[i]]]).names = P!branch_list(p)
    BY <2>2, <2>3, <2>4, FirstListIs
  <2>6. [i \in DOMAIN l |-> [ok |-> TRUE, names |-> l[i]]]
          = [i \in DOMAIN fields |->
              [ok |-> TRUE, names |-> Names(fields[i], P!branch_list(fields[i].part))]]
    BY <2>1
  <2>. QED  BY <2>5, <2>6 DEF branch_list
<1>9. branch_get_default(fields) = {P!branch_get_default(p)} \ {{}}
  <2>1. \A i \in DOMAIN fields :
          Names(fields[i], P!branch_get_default(fields[i].part))
            = IF Present(fields[i]) THEN P!branch_get_default(p) ELSE {}
    BY <1>6 DEF Names
  <2>. QED  BY <1>1, <2>1 DEF branch_get_default
<1>10. ASSUME NEW n
       PROVE  /\ version_exists(fields, n) = P!version_exists(p, n)
              /\ version_exists_globally(fields, n) = P!version_exists_globally(p, n)
  <2>1. /\ version_exists(fields, n) <=> P!version_exists(p, n)
        /\ version_exists_globally(fields, n) <=> P!version_exists_globally(p, n)
    BY <1>1, <1>6 DEF version_exists, version_exists_globally, Holds
  <2>. QED  BY <2>1 DEF version_exists, version_exists_globally,
                        P!version_exists, P!version_exists_globally
<1>11. ASSUME NEW b
       PROVE  /\ branch_exists(fields, b) = P!branch_exists(p, b)
              /\ branch_has_versions(fields, b) = P!branch_has_versions(p, b)
  <2>1. /\ branch_exists(fields, b) <=> P!branch_exists(p, b)
        /\ branch_has_versions(fields, b) <=> P!branch_has_versions(p, b)
    BY <1>1, <1>6 DEF branch_exists, branch_has_versions, Holds
  <2>2. branch_exists(fields, b) = P!branch_exists(p, b)
    <3>1. PICK u \in BOOLEAN : u <=> b \in DOMAIN p.brs
      OBVIOUS
    <3>2. P!branch_exists(p, b) = u
      BY <3>1 DEF P!branch_exists
    <3>3. branch_exists(fields, b) = u
      BY <2>1, <3>1 DEF branch_exists, P!branch_exists, Holds
    <3>. QED  BY <3>2, <3>3
  <2>3. branch_has_versions(fields, b) = P!branch_has_versions(p, b)
    BY <2>1 DEF branch_has_versions, P!branch_has_versions, Holds
  <2>. QED  BY <2>2, <2>3
<1>12. ASSUME NEW b
       PROVE  version_list_by_branch(fields, b) = P!version_list_by_branch(p, b)
  <2>1. PICK x, e : /\ x = P!version_list_by_branch(p, b)
                    /\ e = [ok |-> TRUE, names |-> {}]
    OBVIOUS
  <2>2. PICK o, S : o \in BOOLEAN /\ x = [ok |-> o, names |-> S] /\ (~o => S = {})
    <3>1. PICK T : T = {n \in DOMAIN p.names : p.names[n] \in p.vers[p.brs[b]]}
      OBVIOUS
    <3>2. x = IF b \in DOMAIN p.brs THEN [ok |-> TRUE, names |-> T]
              ELSE [ok |-> FALSE, names |-> {}]
      BY <1>4, <2>1, <3>1, ListIs
    <3>3. CASE b \in DOMAIN p.brs
      BY <3>2, <3>3
    <3>4. CASE b \notin DOMAIN p.brs
      BY <3>2, <3>4
    <3>. QED  BY <3>3, <3>4
  <2>3. PICK l : l = [i \in DOMAIN fields |->
                        ListedOption(fields[i], P!version_list_by_branch(fields[i].part, b))]
    OBVIOUS
  <2>4. DOMAIN l = 1 .. N
    BY <1>2, <2>3
  <2>5. ASSUME NEW i \in DOMAIN l
        PROVE  l[i] = x \/ l[i] = e
    <3>1. i \in DOMAIN fields
      BY <1>2, <2>4
    <3>2. CASE fields[i].kind = "some"
      <4>1. l[i] = [x EXCEPT !.names = {}]
        BY <1>6, <2>1, <2>3, <3>1, <3>2 DEF ListedOption, Present
      <4>2. l[i] = [ok |-> o, names |-> {}]
        BY <2>2, <4>1
      <4>3. CASE o
        BY <2>1, <4>2, <4>3
      <4>4. CASE ~o
        BY <2>2, <4>2, <4>4
      <4>. QED  BY <4>3, <4>4
    <3>3. CASE fields[i].kind # "some"
      BY <1>6, <2>1, <2>3, <3>1, <3>3 DEF ListedOption, Listed
    <3>. QED  BY <3>2, <3>3
  <2>6. l[z] = x /\ z \in DOMAIN l
    BY <1>1, <1>6, <2>1, <2>3 DEF ListedOption, Listed
  <2>7. FirstOf(l) = x
    BY <2>1, <2>2, <2>4, <2>5, <2>6, FirstOfIs
  <2>. QED  BY <2>1, <2>3, <2>7 DEF version_list_by_branch
<1>. QED  BY <1>7, <1>8, <1>9, <1>10, <1>11, <1>12

\* A structure that has a field that is versioned and no option answers every
\* question as each of its versioned fields would, as long as these agree.
THEOREM AnswersLikeOneValue ==
  ASSUME \E i \in DOMAIN Kinds : Kinds[i] = "versioned"
  PROVE  Spec => []LikeOneValue
<1>1. Inv => LikeOneValue
  <2> SUFFICES ASSUME Inv, Agree(fields) PROVE LikeOneValue
    BY DEF LikeOneValue
  <2>1. StructInv(fields) /\ AllAlike(fields)
    BY AgreeIsAlike DEF Inv
  <2>. QED  BY <2>1, AnswersAsOne DEF LikeOneValue
<1>. QED  BY <1>1, InvHolds, PTL
=============================================================================

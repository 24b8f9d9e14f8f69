-------------------------- MODULE VersionedSnapshots --------------------------
(***************************************************************************)
(* What a versioned map of vsdb promises: every branch is a line of        *)
(* complete snapshots, one per version, and only the newest is written.    *)
(* There are no layers, change sets or names here.                         *)
(*                                                                         *)
(* Branches can have versions in common.  A write to one of them through   *)
(* one branch is seen by the others at that version; at a newer version of *)
(* another branch it is seen unless the key was written again since, which *)
(* snapshots alone do not tell: both outcomes are allowed.                 *)
(***************************************************************************)
EXTENDS Maps, Integers, FiniteSetsExt

CONSTANTS Key, Value, NULL

VARIABLE snap   \* branch -> version -> the content: key -> value, or NULL

Nothing == [k \in Key |-> NULL]

Branches    == DOMAIN snap
Versions(b) == DOMAIN snap[b]
AllVersions == UNION {Versions(b) : b \in Branches}
UpTo(S, v)  == {w \in S : w <= v}

\* The initial parts of branch b, and the content at the end of one.
Parts(b)  == {{}} \cup {UpTo(Versions(b), v) : v \in Versions(b)}
End(b, S) == IF S = {} THEN Nothing ELSE snap[b][Max(S)]

Newer(v)   == \A w \in AllVersions : w < v
Without(R) == Restrict(snap, Branches \ R)

Init == snap = MapInsert(EmptyMap, 0, EmptyMap)

\* The newest version h of branch b takes the value x for key k.
Write(b, k, x) ==
    \E h \in Versions(b) :
      /\ DOMAIN snap' = Branches
      /\ h = Max(Versions(b))
      /\ \A c \in Branches :
           /\ DOMAIN snap'[c] = Versions(c)
           /\ \A w \in Versions(c) :
                LET sees == h \in Versions(c) /\ h <= w
                IN  \/ snap'[c][w] = snap[c][w] /\ ~(sees /\ w = h)
                    \/ snap'[c][w] = [snap[c][w] EXCEPT ![k] = x] /\ sees

\* A new version starts with the content of the newest one of its branch.
CreateVersion(b, v) ==
    /\ Newer(v)
    /\ snap' = [snap EXCEPT ![b] = MapInsert(@, v, End(b, Versions(b)))]

\* Branch n starts with an initial part S of branch b, perhaps with a new
\* version on top; the branches R make room for it.
CreateBranch(n, b, S, R) ==
    /\ b \notin R
    /\ n \notin Branches
    /\ \/ snap' = MapInsert(Without(R), n, Restrict(snap[b], S))
       \/ \E v \in DOMAIN snap'[n] :
            /\ Newer(v)
            /\ snap' = MapInsert(Without(R), n,
                                 MapInsert(Restrict(snap[b], S), v, End(b, S)))

\* Branch b goes back to an earlier state of its own.
GoBack(b, S) == snap' = [snap EXCEPT ![b] = Restrict(@, S)]

RemoveBranches(R) == snap' = Without(R)

\* Version v vanishes from every branch.  What a newer version shows of a key
\* stays, or becomes what the version before v shows: never anything else.
Revert(v) ==
    /\ DOMAIN snap' = Branches
    /\ \A b \in Branches :
         LET before == End(b, UpTo(Versions(b), v - 1))
         IN  /\ DOMAIN snap'[b] = Versions(b) \ {v}
             /\ \A w \in Versions(b) \ {v}, k \in Key :
                  \/ snap'[b][w][k] = snap[b][w][k]
                  \/ {v, w} \subseteq Versions(b) /\ v < w /\ snap'[b][w][k] = before[k]

\* The target, an earlier state of branch b, catches up with it.
Merge(b, t) ==
    /\ Versions(t) \in Parts(b)
    /\ snap' = [snap EXCEPT ![t] = snap[b]]

\* Consecutive versions of the branches B, on no other branch, become one: the
\* oldest of them, `base`, which takes the content of the newest.
Squash(B, base, merged) ==
    /\ \A b \in B : {v \in Versions(b) : base <= v /\ v <= Max(merged)}
                      = {base} \cup merged
    /\ \A b \in Branches \ B : Versions(b) \cap ({base} \cup merged) = {}
    /\ snap' = [b \in Branches |->
                  IF b \notin B THEN snap[b]
                  ELSE [v \in Versions(b) \ merged |->
                          snap[b][IF v = base THEN Max(merged) ELSE v]]]

\* The branches a step keeps, the versions that one of them has afterwards, and
\* those that it loses.
Kept     == Branches \cap DOMAIN snap'
After(b) == DOMAIN snap'[b]
Gone(b)  == Versions(b) \ After(b)

\* Steps after which no version shows a content that none showed before, but for
\* a new version that shows nothing.
Rearrange ==
    \/ RemoveBranches(Branches \ Kept)
    \/ \E b \in Kept : After(b) \in Parts(b) /\ GoBack(b, After(b))
    \/ \E b \in Kept : \E v \in After(b) \ Versions(b) : CreateVersion(b, v)
    \/ \E n \in DOMAIN snap' \ Branches, b \in Branches : \E S \in Parts(b) :
         \E R \in {{}} \cup {{r} : r \in Branches} : CreateBranch(n, b, S, R)
    \/ \E b, t \in Kept : Merge(b, t)
    \/ \E B \in SUBSET Kept : \E b \in B : \E base \in Versions(b) :
         Gone(b) # {} /\ Squash(B, base, Gone(b))
    \/ Init'

Next ==
    \/ Rearrange
    \/ \E b \in Branches, k \in Key, x \in Value \cup {NULL} : Write(b, k, x)
    \/ \E v \in AllVersions \ UNION {After(b) : b \in DOMAIN snap'} : Revert(v)

Spec == Init /\ [][Next]_snap
=============================================================================

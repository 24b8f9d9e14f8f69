-------------------------- MODULE MapxRawVsSnapshots --------------------------
(***************************************************************************)
(* The layered store of MapxRawVs shows what VersionedSnapshots promises.  *)
(***************************************************************************)
EXTENDS MapxRawVs

\* What get_by_branch_version finds, for each branch, version and key.
content == [b \in DOMAIN br_to_its_vers |->
              [v \in br_to_its_vers[b] |-> [k \in Key |-> Get(k, b, v)]]]

Snapshots == INSTANCE VersionedSnapshots WITH snap <- content

\* Layers, change sets, clean-up, prune, rebase and the merging of version sets
\* (backend.rs) behave to a reader like a line of full snapshots per branch.
ImplementsSnapshots == Snapshots!Spec
=============================================================================

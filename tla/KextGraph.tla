----------------------------- MODULE KextGraph -----------------------------
(***************************************************************************)
(* Pure operators over the dependency graph of prelinked kexts.            *)
(*                                                                         *)
(* A PRELINKED_KEXT carries a fixed-size array Dependencies[] of pointers  *)
(* to other kexts; the array is read in order and ends at the first NULL   *)
(* entry.  It is represented here as deps[k], the sequence of the entries  *)
(* before that NULL.  holds is the set of kexts whose LinkedVtables hold a  *)
(* vtable of the name being looked up.                                     *)
(***************************************************************************)
EXTENDS Naturals, Sequences, FiniteSets

LOCAL SeqExt == INSTANCE SequencesExt
LOCAL G == INSTANCE Graphs

(* The Dependencies[] arrays a kext set can have: for each kext, a         *)
(* sequence of at most maxDeps distinct other kexts.                       *)
DepArrays(kexts, maxDeps) ==
  {f \in [kexts -> SeqExt!SeqOf(kexts, maxDeps)] :
     \A k \in kexts : /\ ~SeqExt!Contains(f[k], k)
                     /\ Len(f[k]) = Cardinality(SeqExt!ToSet(f[k]))}

DepGraph(kexts, deps) ==
  [node |-> kexts,
   edge |-> {<<k, d>> \in kexts \X kexts : SeqExt!Contains(deps[k], d)}]

IsAcyclic(kexts, deps) == G!IsDag(DepGraph(kexts, deps))

(***************************************************************************)
(* Reference lookup: a depth-first search from kext k that looks at the    *)
(* kext's own table first, then at each dependency in array order, and     *)
(* never enters a kext twice in one query.  This is the search the spec    *)
(* describes ("walks the current kext first, then visits each dependency   *)
(* in order, skipping any dependency whose processed flag is set").        *)
(* Returns [found |-> the first kext holding the vtable or none, seen |->  *)
(* the kexts entered].                                                     *)
(***************************************************************************)
RECURSIVE DfsFrom(_, _, _, _, _), DfsDeps(_, _, _, _, _, _)

DfsFrom(deps, holds, none, k, seen) ==
  IF k \in holds
    THEN [found |-> k, seen |-> seen \cup {k}]
    ELSE DfsDeps(deps, holds, none, deps[k], 1, seen \cup {k})

DfsDeps(deps, holds, none, ds, i, seen) ==
  IF i > Len(ds) THEN [found |-> none, seen |-> seen]
  ELSE IF ds[i] \in seen THEN DfsDeps(deps, holds, none, ds, i + 1, seen)
  ELSE LET r == DfsFrom(deps, holds, none, ds[i], seen)
       IN  IF r.found # none THEN r
           ELSE DfsDeps(deps, holds, none, ds, i + 1, r.seen)

FirstHolder(deps, holds, none, root) == DfsFrom(deps, holds, none, root, {}).found
=============================================================================

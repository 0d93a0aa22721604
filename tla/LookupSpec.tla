----------------------------- MODULE LookupSpec -----------------------------
(***************************************************************************)
(* What a vtable lookup by name promises (spec 4.2): one query over a      *)
(* kext and its transitive dependencies answers, in one step, the first    *)
(* kext in depth-first order whose table holds the name, or NULL.          *)
(***************************************************************************)
EXTENDS KextGraph

CONSTANTS Kexts, NULL, NONE

VARIABLES deps, holds, root, answer

Init == answer = NONE

Answer ==
  /\ answer = NONE
  /\ answer' = FirstHolder(deps, holds, NULL, root)
  /\ UNCHANGED <<deps, holds, root>>

Spec == Init /\ [][Answer]_<<deps, holds, root, answer>>
=============================================================================

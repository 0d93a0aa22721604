-------------------------- MODULE MC_VtableLookup --------------------------
(***************************************************************************)
(* Model-checking instance of VtableLookup: three kexts, each with up to   *)
(* two dependencies, over every dependency array (cyclic ones included),   *)
(* every set of kexts holding the name and every root.                     *)
(***************************************************************************)
EXTENDS VtableLookup

MCKexts == {"k1", "k2", "k3"}
MCDepInputs == DepArrays(MCKexts, 2)

(* A recursion that passes the depth at which RecursionBounded fails is    *)
(* not followed further: without the bound a cyclic graph that recurses     *)
(* forever would give an infinite state space.                              *)
StackDepthBound == Len(stack) <= Cardinality(Kexts) + 1
=============================================================================

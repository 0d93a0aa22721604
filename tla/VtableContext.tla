---------------------------- MODULE VtableContext ----------------------------
(***************************************************************************)
(* The vtable lookup of VtableLookup over linked vtables that               *)
(* PrelinkedVtables built: the scanner builds every kext's LinkedVtables    *)
(* first, and the query's scan of a kext's own table                        *)
(* (InternalGetOcVtableByNameWorker, Vtables.c 44-53) then walks the block  *)
(* the build left, NumberOfVtables records by GET_NEXT_PRELINKED_VTABLE.    *)
(* The query looks for the vtable named Target.                            *)
(***************************************************************************)
EXTENDS PrelinkedVtables

CONSTANTS
  MaxDeps, DepInputs, NONE,
  Target      (* the vtable name the query looks for                     *)

VARIABLES deps, root, processed, stack, ret, phase

lkVars == <<deps, root, processed, stack, ret, phase>>
vars == <<lkVars, pvVars>>

(* The kexts whose own scan finds Target are those whose built block holds *)
(* a vtable of that name.                                                   *)
LK == INSTANCE VtableLookup WITH holds <- {k \in Kexts : OwnTableHas(k, Target)}

CtxInit == Init /\ LK!Init

(* The scanner builds the linked vtables before any lookup uses them.      *)
CtxNext ==
  \/ BuildStep /\ UNCHANGED lkVars
  \/ ~Building /\ UNCHANGED pvVars /\ LK!Next

CtxSpec == CtxInit /\ [][CtxNext]_vars /\ WF_vars(CtxNext)

-----------------------------------------------------------------------------
CtxTypeOK == TypeOK /\ LK!TypeOK

(* See VtableLookup: on an acyclic dependency graph every query returns.   *)
LookupTerminates == LK!LookupTerminates

(* The kexts the spec says hold Target: those whose C++ symbols declare a  *)
(* vtable of that name and whose vtables can be built.                     *)
RefHolders ==
  {k \in Kexts : RefBuilds(k) /\ \E j \in DOMAIN VtableSyms(k) : VtableSyms(k)[j].name = Target}

(* The build and the query together answer what a depth-first search over *)
(* the declared vtables answers (spec 4.2): the refinement of LookupSpec    *)
(* with the holders taken from the symbol tables rather than from the      *)
(* blocks the build wrote.                                                  *)
Abstract == INSTANCE LookupSpec WITH
  holds <- RefHolders, answer <- IF phase = "done" THEN ret ELSE NONE

RefinesLookupSpec == Abstract!Spec
=============================================================================

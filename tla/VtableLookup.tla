---------------------------- MODULE VtableLookup ----------------------------
(***************************************************************************)
(* InternalGetOcVtableByName / InternalGetOcVtableByNameWorker             *)
(* (Library/OcAppleKernelLib/Vtables.c).                                   *)
(*                                                                         *)
(* The worker marks its kext Processed, scans the kext's own linked        *)
(* vtables, then walks Dependencies[] in order, skipping Processed ones    *)
(* and recursing into the others through InternalGetOcVtableByName, the    *)
(* wrapper that calls the worker and then clears the Processed flag of     *)
(* every kext (InternalUnlockContextKexts).  The recursion is made         *)
(* explicit: stack holds one frame per active worker call, ret carries     *)
(* the value a returning call hands to its caller.                         *)
(*                                                                         *)
(* The vtable being searched for is abstracted to the set holds of kexts   *)
(* whose LinkedVtables contain a vtable of that name; the answer is the    *)
(* kext the returned vtable belongs to, or NULL.                           *)
(***************************************************************************)
EXTENDS KextGraph

CONSTANTS
  Kexts,      (* the kexts of the prelinked context                        *)
  MaxDeps,    (* ARRAY_SIZE (Kext->Dependencies)                            *)
  DepInputs,  (* the dependency arrays a run enumerates                     *)
  NULL,       (* a NULL vtable pointer                                     *)
  NONE        (* no value being returned                                    *)

ASSUME MaxDeps \in Nat
ASSUME DepInputs \subseteq DepArrays(Kexts, MaxDeps)
ASSUME {NULL, NONE} \cap Kexts = {}

VARIABLES
  deps,       (* Kext->Dependencies, per kext                              *)
  holds,      (* kexts whose own LinkedVtables hold the name                *)
  root,       (* the kext the query starts from                             *)
  processed,  (* Kext->Processed, per kext                                  *)
  stack,      (* active worker calls: [kext, next]; next = 0 before the     *)
              (* own table is scanned, else the next Dependencies index     *)
  ret,        (* value returned by the call that just finished, or NONE     *)
  phase       (* "idle" before the query, "busy", "done" after it           *)

vars == <<deps, holds, root, processed, stack, ret, phase>>

Top == stack[Len(stack)]

(* InternalUnlockContextKexts: every kext's Processed flag cleared.         *)
Unlocked == [k \in Kexts |-> FALSE]

(* Entry of InternalGetOcVtableByNameWorker: Kext->Processed = TRUE.        *)
Enter(k) ==
  /\ stack' = Append(stack, [kext |-> k, next |-> 0])
  /\ processed' = [processed EXCEPT ![k] = TRUE]

(* The worker returns v to its wrapper, which unlocks all kexts and hands  *)
(* v to its own caller.                                                     *)
Return(v) ==
  /\ stack' = SubSeq(stack, 1, Len(stack) - 1)
  /\ processed' = Unlocked
  /\ ret' = v
  /\ phase' = IF Len(stack) = 1 THEN "done" ELSE phase

SetNext(i) == stack' = [stack EXCEPT ![Len(stack)].next = i]

Init ==
  /\ deps \in DepInputs
  /\ holds \in SUBSET Kexts
  /\ root \in Kexts
  /\ processed = Unlocked
  /\ stack = <<>>
  /\ ret = NONE
  /\ phase = "idle"

(* The outer call InternalGetOcVtableByName (Context, Kext, Name).          *)
Query ==
  /\ phase = "idle"
  /\ Enter(root)
  /\ phase' = "busy"
  /\ UNCHANGED <<deps, holds, root, ret>>

(* The scan of Kext->LinkedVtables finds the name.                          *)
FoundInOwnTable ==
  /\ stack # <<>> /\ ret = NONE /\ Top.next = 0
  /\ Top.kext \in holds
  /\ Return(Top.kext)
  /\ UNCHANGED <<deps, holds, root>>

(* The scan of Kext->LinkedVtables ends without a match.                    *)
NotInOwnTable ==
  /\ stack # <<>> /\ ret = NONE /\ Top.next = 0
  /\ Top.kext \notin holds
  /\ SetNext(1)
  /\ UNCHANGED <<deps, holds, root, processed, ret, phase>>

(* Dependencies[Index] is NULL or Index = ARRAY_SIZE: the worker returns    *)
(* NULL.                                                                    *)
DepsExhausted ==
  /\ stack # <<>> /\ ret = NONE /\ Top.next >= 1
  /\ Top.next > Len(deps[Top.kext])
  /\ Return(NULL)
  /\ UNCHANGED <<deps, holds, root>>

(* Mutant: the skip advances the index twice.                              *)
SkipProcessedDepTwice ==
  /\ stack # <<>> /\ ret = NONE /\ Top.next >= 1
  /\ Top.next <= Len(deps[Top.kext])
  /\ processed[deps[Top.kext][Top.next]]
  /\ SetNext(Top.next + 2)
  /\ UNCHANGED <<deps, holds, root, processed, ret, phase>>

(* Dependency->Processed is set: continue with the next one.                *)
SkipProcessedDep ==
  /\ stack # <<>> /\ ret = NONE /\ Top.next >= 1
  /\ Top.next <= Len(deps[Top.kext])
  /\ processed[deps[Top.kext][Top.next]]
  /\ SetNext(Top.next + 1)
  /\ UNCHANGED <<deps, holds, root, processed, ret, phase>>

(* Vtable = InternalGetOcVtableByName (Context, Dependency, Name).          *)
CallDep ==
  /\ stack # <<>> /\ ret = NONE /\ Top.next >= 1
  /\ Top.next <= Len(deps[Top.kext])
  /\ ~processed[deps[Top.kext][Top.next]]
  /\ Enter(deps[Top.kext][Top.next])
  /\ UNCHANGED <<deps, holds, root, ret, phase>>

(* The dependency's lookup returned a vtable: return it.                    *)
DepFound ==
  /\ stack # <<>> /\ ret \notin {NONE, NULL}
  /\ Return(ret)
  /\ UNCHANGED <<deps, holds, root>>

(* Mutant: the worker gives up after the first dependency that fails.      *)
DepNotFoundStops ==
  /\ stack # <<>> /\ ret = NULL
  /\ Return(NULL)
  /\ UNCHANGED <<deps, holds, root>>

(* Mutant: the index is not advanced after a failed dependency.            *)
DepNotFoundRetries ==
  /\ stack # <<>> /\ ret = NULL
  /\ ret' = NONE
  /\ UNCHANGED <<deps, holds, root, processed, phase, stack>>

(* The dependency's lookup returned NULL: go on with the next dependency.   *)
DepNotFound ==
  /\ stack # <<>> /\ ret = NULL
  /\ SetNext(Top.next + 1)
  /\ ret' = NONE
  /\ UNCHANGED <<deps, holds, root, processed, phase>>

(* The query has answered; nothing more happens.                            *)
Finished ==
  /\ phase = "done"
  /\ UNCHANGED vars

Next ==
  \/ Query
  \/ FoundInOwnTable
  \/ NotInOwnTable
  \/ DepsExhausted
  \/ SkipProcessedDep
  \/ CallDep
  \/ DepFound
  \/ DepNotFound
  \/ Finished

(* The lookup runs to completion on one firmware thread: nothing else can  *)
(* preempt it, so the next step is always eventually taken.                *)
Spec == Init /\ [][Next]_vars /\ WF_vars(Next)

-----------------------------------------------------------------------------

TypeOK ==
  /\ deps \in DepInputs
  /\ holds \in SUBSET Kexts
  /\ root \in Kexts
  /\ processed \in [Kexts -> BOOLEAN]
  /\ stack \in Seq([kext : Kexts, next : 0..MaxDeps + 1])
  /\ \A i \in 1..Len(stack) : stack[i].next <= Len(deps[stack[i].kext]) + 1
  /\ ret \in Kexts \cup {NULL, NONE}
  /\ phase \in {"idle", "busy", "done"}

(* The spec (4.2, 5): the Processed flags are what keeps the recursion     *)
(* from entering a kext that is already being searched, so a query never   *)
(* has the same kext twice on its call stack and the recursion depth stays *)
(* within the number of kexts.  The code clears every flag each time a     *)
(* nested call returns through the unlocking wrapper (Vtables.c:65, 85).   *)
RecursionBounded == Len(stack) <= Cardinality(Kexts)

(* The query answers what the reference depth-first search answers, once   *)
(* it answers: the refinement of LookupSpec under the mapping that shows   *)
(* the answer once the outer call has returned.                             *)
Abstract == INSTANCE LookupSpec WITH
  answer <- IF phase = "done" THEN ret ELSE NONE

RefinesLookupSpec == Abstract!Spec

(* On a dependency graph without cycles every query returns (the recursion *)
(* of Vtables.c:55-69 ends).                                                *)
LookupTerminates ==
  IsAcyclic(Kexts, deps) => (phase = "busy" ~> phase = "done")
=============================================================================

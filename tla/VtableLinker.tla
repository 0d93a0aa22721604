---------------------------- MODULE VtableLinker ----------------------------
(***************************************************************************)
(* InternalPatchByVtables64 and the vtable patching it drives              *)
(* (Library/OcAppleKernelLib/Vtables.c).                                   *)
(*                                                                         *)
(* A kext being linked declares classes, one super-metaclass pointer       *)
(* (SMCP) symbol each, in symbol-table order.  Each class inherits from a  *)
(* class of the same kext, from OSObject (linked in a dependency), or from *)
(* a class whose vtable exists nowhere.  The linker walks the SMCP entries *)
(* in passes; an entry is patched once its super class vtable can be       *)
(* looked up, and a pass that patches nothing fails the link.              *)
(*                                                                         *)
(* Vtables have at most NumSlots slots.  A symbol name is a record         *)
(* [cls, slot, pad]; its address is the name itself and NULL stands for a  *)
(* NULL name or a zero address.  The slots of a class's unlinked vtable    *)
(* are one of SlotKinds:                                                   *)
(*   "own"      nonzero pointer to the class's own implementation          *)
(*   "stripped" nonzero pointer whose symbol was stripped                  *)
(*   "inherit"  zero slot with an extern relocation to the super class's   *)
(*              method of that slot                                        *)
(*   "stale"    zero slot relocated to a name no longer exported (the kext *)
(*              was built against an older super class)                    *)
(*   "pure"     zero slot relocated to the pure-virtual marker             *)
(*   "declared" zero slot relocated to the class's own method, declared    *)
(*              and never defined                                          *)
(* The metaclass vtables are not modelled slot by slot: their patch        *)
(* against the OSMetaClass vtable can fail, which fault "metapatch" picks. *)
(***************************************************************************)
EXTENDS Naturals, Sequences, FiniteSets, Functions

CONSTANTS
  Cls,        (* the classes the kext declares                              *)
  NumSlots,   (* maximum number of vtable slots                             *)
  NULL,       (* NULL name, zero address                                    *)
  FaultChoices, (* the faults the model may pick, a subset of Faults        *)
  FaultSlots  (* maximum number of vtable slots when a fault is picked      *)

ASSUME NumSlots \in Nat \ {0} /\ FaultSlots \in 1..NumSlots

Base == "OSObject"
Service == "IOService"
Missing == "Missing"
Deps == {Base, Service}
SlotKinds == {"own", "stripped", "inherit", "stale", "pure", "declared"}

(* Faults of the input that are not visible in the class graph:            *)
(*   novtable  a class's vtable symbols or patch data are unusable          *)
(*   final     OSObject's final-class symbol exists                         *)
(*   dupmeta   the class's metaclass vtable already exists in a dependency  *)
(*   metapatch patching the class's metaclass vtable fails                  *)
(*   missing   no OSMetaClass vtable can be found                           *)
NoFault == [cls |-> "none", kind |-> "none"]
FinalBase == [cls |-> Base, kind |-> "final"]
NoMeta == [cls |-> "OSMetaClass", kind |-> "missing"]
Faults == {NoFault, FinalBase, NoMeta}
            \cup [cls : Cls, kind : {"novtable", "dupmeta", "metapatch"}]

Name(c, i) == [cls |-> c, slot |-> i, pad |-> FALSE]
PadName(c, i) == [cls |-> c, slot |-> i, pad |-> TRUE]
PureVirtual == Name("__cxa_pure_virtual", 0)

(* MachoGetFunctionPrefixFromClassName: the bare "__ZN<len><class>"        *)
(* string, which is no method's full name.                                  *)
FunctionPrefix(c) == Name(c, 0)

MachoSymbolNameIsPadslot(n) == n # NULL /\ n.pad

(* The vtables linked in the dependencies: OSObject implements slot 1,      *)
(* IOService overrides it, and the later slots are reserved pad slots.      *)
DepEntries(d) ==
  [i \in 1..NumSlots |->
     IF i = 1 THEN [name |-> Name(d, 1), addr |-> Name(d, 1)]
              ELSE [name |-> PadName(d, i), addr |-> PadName(d, i)]]

NullEntry == [name |-> NULL, addr |-> NULL]

Names == [cls : Cls \cup Deps \cup {Missing, "Old", "__cxa_pure_virtual"},
          slot : 0..NumSlots, pad : BOOLEAN]

(* The kext's symbols that vtable relocations can name.                     *)
RelocNames == {Name(x, i) : x \in Cls \cup Deps \cup {Missing, "Old"}, i \in 1..NumSlots}
                \cup {PureVirtual}

VARIABLES
  order,      (* the classes in symbol-table (SMCP) order                   *)
  parent,     (* each class's super class                                   *)
  slots,      (* each class's unlinked vtable: a sequence of SlotKinds      *)
  fault,      (* one of Faults                                              *)
  symtab,     (* relocation symbol -> [state, value] in the kext's symtab   *)
  smcpLeft,   (* classes whose EntryWalker->Smcp is still non-NULL          *)
  linked,     (* class -> its linked vtable entries, once linked            *)
  numVtables, (* Kext->NumberOfVtables                                      *)
  idx,        (* EntryWalker index within the current pass                  *)
  progress,   (* SuccessfulIteration                                        *)
  numPatched, (* NumPatched                                                 *)
  oom,        (* the AllocatePool of LinkedVtables failed                   *)
  result      (* "prepare", "running", "ok" or "fail"                       *)

vars == <<order, parent, slots, fault, symtab, smcpLeft, linked, numVtables,
          idx, progress, numPatched, oom, result>>

NumTables == Len(order)
Cur == order[idx]

-----------------------------------------------------------------------------
(* The kext's symbols as resolved before vtable patching: a method of a     *)
(* class of the kext is defined locally when that class implements it; the  *)
(* dependencies export their slot-1 methods and the pure-virtual marker;    *)
(* everything else is still undefined, with a zero value.                   *)
SymState(n, sl) ==
  CASE n = PureVirtual -> "defined"
    [] n.cls \in Cls -> IF n.slot <= Len(sl[n.cls]) /\ sl[n.cls][n.slot] = "own"
                          THEN "local" ELSE "undefined"
    [] n.cls \in Deps /\ n.slot = 1 -> "defined"
    [] OTHER -> "undefined"

ResolvedSymtab(sl) ==
  [n \in RelocNames |->
     [state |-> SymState(n, sl),
      value |-> IF SymState(n, sl) = "undefined" THEN NULL ELSE n]]

(* The name of the symbol behind the extern relocation of slot i of c.     *)
RelocName(c, i) ==
  CASE slots[c][i] = "pure"     -> PureVirtual
    [] slots[c][i] = "declared" -> Name(c, i)
    [] slots[c][i] = "stale"    -> Name("Old", i)
    [] slots[c][i] = "inherit"  -> Name(parent[c], i)

IsDirect(c, i) == slots[c][i] \in {"own", "stripped"}

(* InternalInitializeVtablePatchData: the relocated zero slots, in slot     *)
(* order, up to the zero that no relocation covers.                         *)
SolveSymbols(c) ==
  SelectSeq([i \in 1..Len(slots[c]) |-> IF IsDirect(c, i) THEN NULL ELSE RelocName(c, i)],
            LAMBDA n : n # NULL)

(* InternalSolveSymbolValue64: the symbol becomes an absolute, defined one. *)
InternalSolveSymbolValue64(st, n, v) == [st EXCEPT ![n] = [state |-> "defined", value |-> v]]

(* Mutant: the solve step leaves the child symbol's value alone.          *)
PatchVtableSymbolWithoutSolve(pe, c, n, st) ==
  CASE pe.name = NULL \/ st[n].state = "local" \/ n = PureVirtual \/ n = pe.name
         -> [ok |-> TRUE, symtab |-> st]
    [] MachoSymbolNameIsPadslot(pe.name) -> [ok |-> FALSE, symtab |-> st]
    [] OTHER -> [ok |-> TRUE, symtab |-> st]

(* InternalPatchVtableSymbol: [ok, symtab] after patching the child symbol  *)
(* n of the vtable of class c against the parent entry pe.                  *)
InternalPatchVtableSymbol(pe, c, n, st) ==
  CASE pe.name = NULL                   -> [ok |-> TRUE, symtab |-> st]
    [] st[n].state = "local"            -> [ok |-> TRUE, symtab |-> st]
    [] n = PureVirtual                  -> [ok |-> TRUE, symtab |-> st]
    [] n = pe.name                      -> [ok |-> TRUE, symtab |-> st]
    [] MachoSymbolNameIsPadslot(pe.name) -> [ok |-> FALSE, symtab |-> st]
    [] st[n].state = "undefined" /\ n = FunctionPrefix(c)
                                        -> [ok |-> FALSE, symtab |-> st]
    [] OTHER -> [ok |-> TRUE, symtab |-> InternalSolveSymbolValue64(st, n, pe.addr)]

(* InternalInitializeVtableByEntriesAndRelocations64 for class c against   *)
(* the super vtable entries pe: [ok, entries, symtab].                      *)
PatchVtable(pe, c, st0) ==
  LET S == SolveSymbols(c)
      RECURSIVE Walk(_, _, _, _)
      Walk(i, si, acc, st) ==
        IF i > Len(pe) THEN [ok |-> TRUE, entries |-> acc, symtab |-> st]
        ELSE IF i <= Len(slots[c]) /\ IsDirect(c, i)
          THEN Walk(i + 1, si,
                    Append(acc, IF slots[c][i] = "own"
                                  THEN [name |-> Name(c, i), addr |-> Name(c, i)]
                                  ELSE NullEntry), st)
        ELSE IF si > Len(S) THEN [ok |-> TRUE, entries |-> acc, symtab |-> st]
        ELSE LET r == InternalPatchVtableSymbol(pe[i], c, S[si], st)
             IN IF ~r.ok THEN [ok |-> FALSE, entries |-> acc, symtab |-> st]
                ELSE Walk(i + 1, si + 1,
                          Append(acc, [name |-> S[si], addr |-> r.symtab[S[si]].value]),
                          r.symtab)
  IN Walk(1, 1, <<>>, st0)

-----------------------------------------------------------------------------
(* InternalGetOcVtableByName for a super class vtable: the kext's own      *)
(* linked vtables, then the dependencies.  VtableLookup checks this search *)
(* against its abstract answer.                                             *)
SuperEntries(c) ==
  CASE parent[c] \in Deps           -> DepEntries(parent[c])
    [] parent[c] \in DOMAIN linked  -> linked[parent[c]]
    [] OTHER                        -> NULL

Inputs == <<order, parent, slots, fault>>

(* The slot bound of a run: faults are combined with shorter vtables.       *)
SlotBound(f) == IF f = NoFault THEN NumSlots ELSE FaultSlots

Init ==
  /\ order \in {s \in [1..Cardinality(Cls) -> Cls] : Cardinality(Range(s)) = Cardinality(Cls)}
  /\ parent \in {p \in [Cls -> Cls \cup Deps \cup {Missing}] : \A c \in Cls : p[c] # c}
  /\ fault \in FaultChoices
  /\ slots \in [Cls -> UNION {[1..n -> SlotKinds] : n \in 0..SlotBound(fault)}]
  /\ symtab = ResolvedSymtab(slots)
  /\ smcpLeft = Cls
  /\ linked = [c \in {} |-> <<>>]
  /\ numVtables = 0
  /\ idx = 1
  /\ progress = FALSE
  /\ numPatched = 0
  /\ oom = FALSE
  /\ result = "prepare"

Unusable == \E c \in Cls : fault = [cls |-> c, kind |-> "novtable"]

(* Vtables.c 603-667: a class whose vtable symbols or patch data cannot be *)
(* read stops the link before anything is patched.                          *)
PrepareFails ==
  /\ result = "prepare"
  /\ Unusable
  /\ result' = "fail"
  /\ UNCHANGED <<Inputs, symtab, smcpLeft, linked, numVtables, idx, progress, numPatched, oom>>

(* Vtables.c 671-677: the LinkedVtables buffer cannot be allocated.         *)
AllocFails ==
  /\ result = "prepare"
  /\ ~Unusable
  /\ oom' = TRUE
  /\ result' = "fail"
  /\ UNCHANGED <<Inputs, symtab, smcpLeft, linked, numVtables, idx, progress, numPatched>>

Prepared ==
  /\ result = "prepare"
  /\ ~Unusable
  /\ result' = "running"
  /\ UNCHANGED <<Inputs, symtab, smcpLeft, linked, numVtables, idx, progress, numPatched, oom>>

Visiting == result = "running" /\ idx <= NumTables

(* Vtables.c 693-696: the entry was patched in an earlier pass.             *)
SkipPatched ==
  /\ Visiting
  /\ Cur \notin smcpLeft
  /\ idx' = idx + 1
  /\ UNCHANGED <<Inputs, symtab, smcpLeft, linked, numVtables, progress, numPatched, oom, result>>

(* Vtables.c 698-772: the super class vtable is not linked yet.             *)
SuperNotLinked ==
  /\ Visiting
  /\ Cur \in smcpLeft
  /\ SuperEntries(Cur) = NULL
  /\ idx' = idx + 1
  /\ UNCHANGED <<Inputs, symtab, smcpLeft, linked, numVtables, progress, numPatched, oom, result>>

IsFinal(c) == parent[c] = Base /\ fault = FinalBase

(* Vtables.c 776-804: the super class is declared final.                    *)
SuperIsFinal ==
  /\ Visiting
  /\ Cur \in smcpLeft
  /\ SuperEntries(Cur) # NULL
  /\ IsFinal(Cur)
  /\ result' = "fail"
  /\ UNCHANGED <<Inputs, symtab, smcpLeft, linked, numVtables, idx, progress, numPatched, oom>>

ClassPatch == PatchVtable(SuperEntries(Cur), Cur, symtab)

(* Vtables.c 808-820: patching the class vtable fails.                      *)
ClassPatchFails ==
  /\ Visiting
  /\ Cur \in smcpLeft
  /\ SuperEntries(Cur) # NULL /\ ~IsFinal(Cur)
  /\ ~ClassPatch.ok
  /\ result' = "fail"
  /\ UNCHANGED <<Inputs, symtab, smcpLeft, linked, numVtables, idx, progress, numPatched, oom>>

MetaFault(c) == fault \in {[cls |-> c, kind |-> "dupmeta"], NoMeta, [cls |-> c, kind |-> "metapatch"]}

(* Vtables.c 822-874: the metaclass vtable already exists, OSMetaClass's    *)
(* vtable is missing, or patching the metaclass vtable fails.  The class    *)
(* vtable's symbols have been patched by then.                              *)
MetaFails ==
  /\ Visiting
  /\ Cur \in smcpLeft
  /\ SuperEntries(Cur) # NULL /\ ~IsFinal(Cur)
  /\ ClassPatch.ok
  /\ MetaFault(Cur)
  /\ result' = "fail"
  /\ symtab' = ClassPatch.symtab
  /\ UNCHANGED <<Inputs, smcpLeft, linked, numVtables, idx, progress, numPatched, oom>>

(* Mutant: only one vtable is counted per linked class.                    *)
ClassLinkedCountsOne ==
  /\ Visiting
  /\ Cur \in smcpLeft
  /\ SuperEntries(Cur) # NULL /\ ~IsFinal(Cur)
  /\ ClassPatch.ok
  /\ ~MetaFault(Cur)
  /\ symtab' = ClassPatch.symtab
  /\ linked' = [c \in DOMAIN linked \cup {Cur} |->
                  IF c = Cur THEN ClassPatch.entries ELSE linked[c]]
  /\ numVtables' = numVtables + 1
  /\ smcpLeft' = smcpLeft \ {Cur}
  /\ numPatched' = numPatched + 1
  /\ progress' = TRUE
  /\ idx' = idx + 1
  /\ UNCHANGED <<Inputs, oom, result>>

(* Vtables.c 808-883: both vtables of the class are linked.                 *)
ClassLinked ==
  /\ Visiting
  /\ Cur \in smcpLeft
  /\ SuperEntries(Cur) # NULL /\ ~IsFinal(Cur)
  /\ ClassPatch.ok
  /\ ~MetaFault(Cur)
  /\ symtab' = ClassPatch.symtab
  /\ linked' = [c \in DOMAIN linked \cup {Cur} |->
                  IF c = Cur THEN ClassPatch.entries ELSE linked[c]]
  /\ numVtables' = numVtables + 2
  /\ smcpLeft' = smcpLeft \ {Cur}
  /\ numPatched' = numPatched + 1
  /\ progress' = TRUE
  /\ idx' = idx + 1
  /\ UNCHANGED <<Inputs, oom, result>>

(* Mutant: a pass that patched something ends the loop.                    *)
EndPassWithoutRetry ==
  /\ result = "running"
  /\ idx > NumTables
  /\ \/ ~progress /\ result' = "fail"
     \/ progress /\ result' = "ok"
  /\ UNCHANGED <<Inputs, symtab, smcpLeft, linked, numVtables, numPatched, oom, idx, progress>>

(* Mutant: a pass that patched nothing starts another one.                 *)
EndPassWithoutProgressCheck ==
  /\ result = "running"
  /\ idx > NumTables
  /\ \/ numPatched = NumTables /\ result' = "ok" /\ UNCHANGED <<idx, progress>>
     \/ numPatched < NumTables /\ idx' = 1 /\ progress' = FALSE /\ UNCHANGED result
  /\ UNCHANGED <<Inputs, symtab, smcpLeft, linked, numVtables, numPatched, oom>>

(* Vtables.c 685-692 and 885-892: the end of a pass.                        *)
EndPass ==
  /\ result = "running"
  /\ idx > NumTables
  /\ \/ ~progress /\ result' = "fail" /\ UNCHANGED <<idx, progress>>
     \/ progress /\ numPatched = NumTables /\ result' = "ok"
        /\ UNCHANGED <<idx, progress>>
     \/ progress /\ numPatched < NumTables
        /\ idx' = 1 /\ progress' = FALSE /\ UNCHANGED result
  /\ UNCHANGED <<Inputs, symtab, smcpLeft, linked, numVtables, numPatched, oom>>

Done ==
  /\ result \in {"ok", "fail"}
  /\ UNCHANGED vars

Next ==
  \/ PrepareFails \/ AllocFails \/ Prepared
  \/ SkipPatched \/ SuperNotLinked \/ SuperIsFinal
  \/ ClassPatchFails \/ MetaFails \/ ClassLinked
  \/ EndPass \/ Done

Spec == Init /\ [][Next]_vars /\ WF_vars(Next)

-----------------------------------------------------------------------------
Entry == [name : Names \cup {NULL}, addr : Names \cup {NULL}]

TypeOK ==
  /\ fault \in Faults
  /\ symtab \in [RelocNames -> [state : {"local", "defined", "undefined"},
                                value : Names \cup {NULL}]]
  /\ smcpLeft \subseteq Cls
  /\ DOMAIN linked = Cls \ smcpLeft
  /\ \A c \in DOMAIN linked : linked[c] \in Seq(Entry) /\ Len(linked[c]) <= NumSlots
  /\ numPatched = Cardinality(DOMAIN linked)
  /\ numVtables = 2 * numPatched
  /\ idx \in 1..NumTables + 1
  /\ progress \in BOOLEAN
  /\ oom \in BOOLEAN
  /\ result \in {"prepare", "running", "ok", "fail"}

(* The entries the super class of c hands down once c is linked.           *)
LinkedSuperEntries(c) ==
  IF parent[c] \in Deps THEN DepEntries(parent[c]) ELSE linked[parent[c]]

(* A class is linked only after its super class, and every slot of its     *)
(* linked vtable that it inherits through an extern relocation (the super   *)
(* class's method name or a stale one) holds the address of the super       *)
(* class's linked entry, unless that entry's symbol was stripped.  This is  *)
(* what InternalPatchVtableSymbol's rules and the pass order of             *)
(* InternalPatchByVtables64 together must give.                              *)
InheritedSlotsDispatchToSuper ==
  \A c \in DOMAIN linked :
     /\ parent[c] \in DOMAIN linked \cup Deps
     /\ \A i \in 1..Len(linked[c]) :
          (slots[c][i] \in {"inherit", "stale"} /\ LinkedSuperEntries(c)[i].name # NULL)
            => linked[c][i].addr = LinkedSuperEntries(c)[i].addr

(* Reference for the outcome of the link: walk each class's super chain up *)
(* to a dependency and patch the vtables from the top down.                 *)
RECURSIVE RefPatch(_, _)
RefPatch(c, fuel) ==
  CASE fuel = 0 \/ parent[c] = Missing -> [ok |-> FALSE]
    [] parent[c] \in Deps -> PatchVtable(DepEntries(parent[c]), c, ResolvedSymtab(slots))
    [] OTHER -> LET up == RefPatch(parent[c], fuel - 1)
                IN IF up.ok THEN PatchVtable(up.entries, c, ResolvedSymtab(slots)) ELSE up

RefLinkable ==
  /\ \/ fault = NoFault
     \/ fault = FinalBase /\ \A c \in Cls : parent[c] # Base
  /\ ~oom
  /\ \A c \in Cls : RefPatch(c, Cardinality(Cls)).ok

(* Whatever the symbol-table order of the classes, a finished link          *)
(* succeeds exactly when every class's super chain reaches a dependency,    *)
(* every vtable patch of the chain succeeds, and no fault stops it.         *)
LinkOutcome ==
  result \in {"ok", "fail"} => ((result = "ok") = RefLinkable)

(* InternalPatchByVtables64 always returns: each pass either patches a      *)
(* class or ends the loop.                                                   *)
LinkTerminates == <>(result \in {"ok", "fail"})

(* After a successful link, the value of the symbol behind every relocated  *)
(* vtable slot, which the relocation pass later writes into the slot, is    *)
(* the address recorded in that slot's linked entry.  The NOTE at           *)
(* Vtables.c 333-340 relies on this when it overwrites the symbol in place. *)
RelocationsMatchLinked ==
  result = "ok" =>
     \A c \in Cls : \A i \in 1..Len(linked[c]) :
        ~IsDirect(c, i) => symtab[RelocName(c, i)].value = linked[c][i].addr

(* Spec 4.3 rule 6: a link never succeeds when a class's vtable relocates a *)
(* slot to its own method, declared and never defined, and the super class  *)
(* has a named entry there.                                                 *)
DeclaredMethodRejected ==
  result = "ok" =>
     \A c \in Cls : \A i \in 1..Len(linked[c]) :
        slots[c][i] = "declared" => LinkedSuperEntries(c)[i].name = NULL

(* A successful link follows what the declarations ask of it: no declared,  *)
(* undefined method is linked over a named super entry, and every relocated *)
(* slot's symbol carries the address linked into that slot (Vtables.c      *)
(* 300-350).                                                                 *)
LinkFollowsDeclarations == DeclaredMethodRejected /\ RelocationsMatchLinked
=============================================================================

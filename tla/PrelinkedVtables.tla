-------------------------- MODULE PrelinkedVtables --------------------------
(***************************************************************************)
(* The linked vtables of the kexts of a prelinked kernel                   *)
(* (Library/OcAppleKernelLib/Vtables.c 92-234), built kext after kext by   *)
(* the prelinked-kext scanner, which is not in this repository and is      *)
(* modelled from the spec: it collects the vtable symbols of the kext's    *)
(* C++ symbols into the scratch lookup array                               *)
(* (InternalPrepareCreateVtablesPrelinked64), sizes each vtable            *)
(* (InternalGetVtableEntries64), allocates one block of header records     *)
(* with their entry arrays inline (spec 2, Prelinked Vtable), and fills it *)
(* (InternalCreateVtablesPrelinked64).  A kext whose vtables cannot be     *)
(* built exposes none.                                                      *)
(*                                                                         *)
(* The data of a vtable is a sequence of 64-bit words, the header words     *)
(* first; a word is 0 or a function address.  The block is a sequence of   *)
(* cells: a header [name, n] followed by n entries [addr, name].  A read or *)
(* a write outside its buffer sets oob.                                     *)
(***************************************************************************)
EXTENDS Naturals, Sequences, FiniteSets
LOCAL INSTANCE SequencesExt

CONSTANTS
  Kexts,        (* the kexts of the prelinked context                      *)
  BuildOrder,   (* the order the scanner builds them in                    *)
  ScratchCap,   (* lookup entries the scratch buffer holds (MaxSize /      *)
                (* the size of one lookup entry)                           *)
  VtableNames,  (* symbol names MachoSymbolNameIsVtable64 accepts          *)
  VtableAt,     (* address -> [words, max]: the data                       *)
                (* MachoGetFilePointerByAddress64 returns, and the MaxSize *)
                (* in bytes it reports                                     *)
  CxxSymbolAt,  (* address -> the C++ symbol InternalOcGetSymbolValue      *)
                (* finds there, or NULL                                    *)
  CxxInputs,    (* the C++ symbol slices of the kexts a run enumerates     *)
  NULL

(* VTABLE_HEADER_LEN_64 and VTABLE_ENTRY_SIZE_64.                          *)
HeaderLen == 2
EntrySize == 8

(* The data holds at least the words MaxSize reports; it may hold more.    *)
ASSUME \A a \in DOMAIN VtableAt : Len(VtableAt[a].words) >= VtableAt[a].max \div EntrySize

Junk == [junk |-> TRUE]

VARIABLES
  cxx,      (* per kext: its C++ symbols [name, value], the trailing slice  *)
            (* of LinkedSymbolTable                                        *)
  bk,       (* index in BuildOrder of the kext being built                 *)
  bPhase,   (* "prepare", "entries", "create" or "next"                    *)
  si,       (* Index of the loop running                                   *)
  lookups,  (* the scratch lookup array, reused from kext to kext          *)
  nv,       (* VtableIndex: the lookups collected                          *)
  counts,   (* NumEntries of each lookup, by InternalGetVtableEntries64    *)
  cursor,   (* VtableBuffer, a cell of the kext's block                    *)
  linked,   (* per kext: Kext->LinkedVtables                               *)
  numVt,    (* per kext: Kext->NumberOfVtables                             *)
  oob       (* some read or write left its buffer                          *)

pvVars == <<cxx, bk, bPhase, si, lookups, nv, counts, cursor, linked, numVt, oob>>

Cur == BuildOrder[bk]
Syms == cxx[Cur]

(* The word at 0-based index p of a vtable's data.                          *)
Word(w, p) == w[p + 1]

(* Mutant: the bound is tested after the read, as a while loop would.      *)
RECURSIVE EntriesFromUnchecked(_, _, _)
EntriesFromUnchecked(w, mw, idx) ==
  IF idx >= Len(w) THEN [ok |-> FALSE, n |-> 0, oob |-> TRUE]
  ELSE LET r == IF Word(w, idx) = 0
                THEN [ok |-> TRUE, n |-> idx + 1 - HeaderLen, oob |-> FALSE]
                ELSE EntriesFromUnchecked(w, mw, idx + 1)
       IN [r EXCEPT !.oob = @ \/ idx >= mw]

(* InternalGetVtableEntries64's do-while from Index = idx over MaxSize      *)
(* words: [ok, n].  n counts the entries up to and including the zero      *)
(* word that ends the scan.                                                 *)
RECURSIVE EntriesFrom(_, _, _)
EntriesFrom(w, mw, idx) ==
  IF idx >= mw THEN [ok |-> FALSE, n |-> 0, oob |-> FALSE]
  ELSE IF Word(w, idx) = 0 THEN [ok |-> TRUE, n |-> idx + 1 - HeaderLen, oob |-> FALSE]
  ELSE EntriesFrom(w, mw, idx + 1)

InternalGetVtableEntries64(d) == EntriesFrom(d.words, d.max \div EntrySize, HeaderLen)

(* The loop of InternalConstructVtablePrelinked64 from Index = idx: the     *)
(* entries up to the first zero word, each named by the C++ symbol at its   *)
(* address or [0, NULL] if there is none; a read at or past the mw words  *)
(* of MaxSize sets oob.                                                     *)
RECURSIVE ConstructFrom(_, _, _)
ConstructFrom(w, mw, idx) ==
  IF idx + HeaderLen >= mw THEN [entries |-> <<>>, oob |-> TRUE]
  ELSE LET v == Word(w, idx + HeaderLen)
           rest == ConstructFrom(w, mw, idx + 1)
       IN IF v = 0 THEN [entries |-> <<>>, oob |-> FALSE]
          ELSE [entries |-> <<IF CxxSymbolAt[v] # NULL
                                THEN [addr |-> v, name |-> CxxSymbolAt[v]]
                                ELSE [addr |-> 0, name |-> NULL]>> \o rest.entries,
                oob |-> rest.oob]

(* Writing the cells cs from position p of block b; cells outside b are     *)
(* not written.                                                             *)
WriteCells(b, p, cs) ==
  [q \in DOMAIN b |-> IF q - p + 1 \in DOMAIN cs THEN cs[q - p + 1] ELSE b[q]]

FitsAt(b, p, cs) == p >= 1 /\ p + Len(cs) - 1 <= Len(b)

Init ==
  /\ cxx \in CxxInputs
  /\ bk = 1 /\ bPhase = "prepare" /\ si = 1
  /\ lookups = [j \in 1..ScratchCap |-> NULL] /\ nv = 0
  /\ counts = <<>> /\ cursor = 1
  /\ linked = [k \in Kexts |-> <<>>] /\ numVt = [k \in Kexts |-> 0]
  /\ oob = FALSE

Building == bk <= Len(BuildOrder)

(* The build of the current kext fails: it keeps no vtables.                *)
BuildFails ==
  /\ bPhase' = "next"
  /\ UNCHANGED <<cxx, bk, si, lookups, nv, counts, cursor, linked, numVt, oob>>

(*** InternalPrepareCreateVtablesPrelinked64: one symbol per step. ***)

(* A symbol that is not a vtable is passed over.                            *)
PrepareSkip ==
  /\ Building /\ bPhase = "prepare" /\ si <= Len(Syms)
  /\ Syms[si].name \notin VtableNames
  /\ si' = si + 1
  /\ UNCHANGED <<cxx, bk, bPhase, lookups, nv, counts, cursor, linked, numVt, oob>>

(* A vtable symbol without a value, or one more than the scratch holds,    *)
(* fails the preparation.                                                   *)
PrepareFail ==
  /\ Building /\ bPhase = "prepare" /\ si <= Len(Syms)
  /\ Syms[si].name \in VtableNames
  /\ Syms[si].value = 0 \/ nv >= ScratchCap
  /\ BuildFails

(* Mutant: the scratch capacity is not checked.                            *)
PrepareAddUnchecked ==
  /\ Building /\ bPhase = "prepare" /\ si <= Len(Syms)
  /\ Syms[si].name \in VtableNames
  /\ Syms[si].value # 0
  /\ lookups' = IF nv + 1 <= ScratchCap
                THEN [lookups EXCEPT ![nv + 1] = [name |-> Syms[si].name, value |-> Syms[si].value]]
                ELSE lookups
  /\ oob' = (oob \/ nv + 1 > ScratchCap)
  /\ nv' = nv + 1 /\ si' = si + 1
  /\ UNCHANGED <<cxx, bk, bPhase, counts, cursor, linked, numVt>>

(* A vtable symbol is recorded in the next lookup entry.                    *)
PrepareAdd ==
  /\ Building /\ bPhase = "prepare" /\ si <= Len(Syms)
  /\ Syms[si].name \in VtableNames
  /\ Syms[si].value # 0 /\ nv < ScratchCap
  /\ lookups' = [lookups EXCEPT ![nv + 1] = [name |-> Syms[si].name, value |-> Syms[si].value]]
  /\ nv' = nv + 1 /\ si' = si + 1
  /\ UNCHANGED <<cxx, bk, bPhase, counts, cursor, linked, numVt, oob>>

(* The symbols are exhausted: *NumVtables = VtableIndex.                    *)
PrepareEnd ==
  /\ Building /\ bPhase = "prepare" /\ si > Len(Syms)
  /\ bPhase' = "entries" /\ si' = 1 /\ counts' = <<>>
  /\ UNCHANGED <<cxx, bk, lookups, nv, cursor, linked, numVt, oob>>

(*** The sizing loop of the scanner, one lookup per step. ***)

(* The vtable's data is found and InternalGetVtableEntries64 sizes it.      *)
SizeVtable ==
  /\ Building /\ bPhase = "entries" /\ si <= nv
  /\ lookups[si].value \in DOMAIN VtableAt
  /\ LET r == InternalGetVtableEntries64(VtableAt[lookups[si].value])
     IN /\ oob' = (oob \/ r.oob)
        /\ IF r.ok THEN /\ counts' = Append(counts, r.n)
                        /\ si' = si + 1
                        /\ UNCHANGED bPhase
                   ELSE /\ bPhase' = "next"
                        /\ UNCHANGED <<counts, si>>
  /\ UNCHANGED <<cxx, bk, lookups, nv, cursor, linked, numVt>>

(* MachoGetFilePointerByAddress64 finds no data at the vtable's address.    *)
VtableDataMissing ==
  /\ Building /\ bPhase = "entries" /\ si <= nv
  /\ lookups[si].value \notin DOMAIN VtableAt
  /\ BuildFails

(* One block: a header per vtable and the entries InternalGetVtableEntries64 *)
(* counted.                                                                 *)
AllocateVtables ==
  /\ Building /\ bPhase = "entries" /\ si > nv
  /\ LET Plus(a, b) == a + b
     IN linked' = [linked EXCEPT ![Cur] = [p \in 1..nv + FoldLeft(Plus, 0, counts) |-> Junk]]
  /\ bPhase' = "create" /\ si' = 1 /\ cursor' = 1
  /\ UNCHANGED <<cxx, bk, lookups, nv, counts, numVt, oob>>

(*** InternalCreateVtablesPrelinked64: one vtable per step. ***)

(* Mutant: the step forgets the header record.                              *)
NextVtableNoHeader(p, n) == p + n

(* GET_NEXT_PRELINKED_VTABLE: past the header and its NumEntries entries.   *)
NextVtable(p, n) == p + 1 + n

(* InternalConstructVtablePrelinked64 fills the vtable at VtableBuffer and  *)
(* the loop moves to the next one.                                          *)
CreateVtable ==
  /\ Building /\ bPhase = "create" /\ si <= nv
  /\ LET d == VtableAt[lookups[si].value]
         r == ConstructFrom(d.words, d.max \div EntrySize, 0)
         cells == <<[name |-> lookups[si].name, n |-> Len(r.entries)]>> \o r.entries
     IN /\ linked' = [linked EXCEPT ![Cur] = WriteCells(@, cursor, cells)]
        /\ oob' = (oob \/ r.oob \/ ~FitsAt(linked[Cur], cursor, cells))
        /\ cursor' = NextVtable(cursor, Len(r.entries))
  /\ si' = si + 1
  /\ UNCHANGED <<cxx, bk, bPhase, lookups, nv, counts, numVt>>

(* The block becomes Kext->LinkedVtables with NumberOfVtables = NumVtables. *)
CreateEnd ==
  /\ Building /\ bPhase = "create" /\ si > nv
  /\ numVt' = [numVt EXCEPT ![Cur] = nv]
  /\ bPhase' = "next"
  /\ UNCHANGED <<cxx, bk, si, lookups, nv, counts, cursor, linked, oob>>

(* The scanner goes on with the next kext, reusing the scratch lookups.     *)
NextKext ==
  /\ Building /\ bPhase = "next"
  /\ bk' = bk + 1 /\ bPhase' = "prepare" /\ si' = 1 /\ nv' = 0 /\ counts' = <<>>
  /\ UNCHANGED <<cxx, lookups, cursor, linked, numVt, oob>>

BuildStep ==
  \/ PrepareSkip \/ PrepareFail \/ PrepareAdd \/ PrepareEnd
  \/ SizeVtable \/ VtableDataMissing \/ AllocateVtables
  \/ CreateVtable \/ CreateEnd \/ NextKext

(*** InternalGetOcVtableByNameWorker's scan of Kext->LinkedVtables. ***)

(* The vtables met walking n records from cell p with                       *)
(* GET_NEXT_PRELINKED_VTABLE: [name, entries] each.                          *)
RECURSIVE WalkVtables(_, _, _)
WalkVtables(b, p, n) ==
  IF n = 0 \/ p \notin DOMAIN b \/ b[p] = Junk THEN <<>>
  ELSE <<[name |-> b[p].name, entries |-> SubSeq(b, p + 1, p + b[p].n)]>>
         \o WalkVtables(b, NextVtable(p, b[p].n), n - 1)

(* The scan finds a vtable of this name among the kext's NumberOfVtables.   *)
OwnTableHas(k, name) ==
  \E j \in DOMAIN WalkVtables(linked[k], 1, numVt[k]) :
    WalkVtables(linked[k], 1, numVt[k])[j].name = name

-----------------------------------------------------------------------------
(* What the build is meant to produce, stated from the inputs alone.        *)

IsVtableSym(s) == s.name \in VtableNames
VtableSyms(k) == SelectSeq(cxx[k], IsVtableSym)

(* The entries of a vtable: its words after the header up to the first     *)
(* zero, each resolved to its C++ symbol or marked stripped.                *)
RefEntries(d) ==
  LET body == SubSeq(d.words, HeaderLen + 1, Len(d.words))
      end == SelectInSeq(body, LAMBDA x : x = 0)
  IN [j \in 1..end - 1 |->
        IF CxxSymbolAt[body[j]] # NULL THEN [addr |-> body[j], name |-> CxxSymbolAt[body[j]]]
        ELSE [addr |-> 0, name |-> NULL]]

(* The kext's vtables can be built: each has a value, the scratch holds     *)
(* them all, and each has data ending in a zero word within MaxSize.        *)
RefBuilds(k) ==
  LET vs == VtableSyms(k)
  IN /\ Len(vs) <= ScratchCap
     /\ \A j \in DOMAIN vs :
          /\ vs[j].value \in DOMAIN VtableAt
          /\ LET w == VtableAt[vs[j].value].words
                 mw == VtableAt[vs[j].value].max \div EntrySize
             IN \E p \in HeaderLen..mw - 1 : p < Len(w) /\ w[p + 1] = 0

RefVtables(k) ==
  IF RefBuilds(k)
  THEN [j \in DOMAIN VtableSyms(k) |->
          [name |-> VtableSyms(k)[j].name, entries |-> RefEntries(VtableAt[VtableSyms(k)[j].value])]]
  ELSE <<>>

Built(k) == \E j \in 1..Len(BuildOrder) : BuildOrder[j] = k /\ j < bk

TypeOK ==
  /\ bk \in 1..Len(BuildOrder) + 1
  /\ bPhase \in {"prepare", "entries", "create", "next"}
  /\ nv \in 0..ScratchCap
  /\ counts \in Seq(Nat)
  /\ numVt \in [Kexts -> 0..ScratchCap]
  /\ oob \in BOOLEAN

Next == BuildStep \/ (~Building /\ UNCHANGED pvVars)

(* The scanner runs on the one firmware thread and nothing preempts it.     *)
Spec == Init /\ [][Next]_pvVars /\ WF_pvVars(Next)

(* Every read of vtable data stays inside the MaxSize the reader reported, *)
(* every lookup fits the scratch array, and every vtable written fits the   *)
(* block allocated from InternalGetVtableEntries64's counts (Vtables.c      *)
(* 121-140, 160-166, 197-198, 225-233).                                     *)
BuildStaysInBuffers == ~oob

(* Once a kext is built, walking its NumberOfVtables records with           *)
(* GET_NEXT_PRELINKED_VTABLE yields its vtable symbols in symbol order,     *)
(* each with the entries of its data up to the terminating zero, resolved   *)
(* or marked stripped; a kext whose vtables cannot be built has none.      *)
LinkedVtablesAsDeclared ==
  \A k \in Kexts : Built(k) => WalkVtables(linked[k], 1, numVt[k]) = RefVtables(k)
=============================================================================

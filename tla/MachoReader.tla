----------------------------- MODULE MachoReader -----------------------------
(***************************************************************************)
(* The Mach-O reader of OcMachoLib (Header.c): MachoInitializeContext with *)
(* the fat-binary filter, the load-command scan InternalGetNextCommand64,   *)
(* the segment and section walks and the accessors built on them, and the  *)
(* lazily cached symbol tables of InternalRetrieveSymtabs64.               *)
(*                                                                         *)
(* A file is a record: whether it is fat, its architecture table, the size *)
(* of the whole buffer and the 64-bit Mach-O header the x86_64 slice       *)
(* holds.  Offsets are in bytes from the start of that slice, as the       *)
(* reader computes them from Context->MachHeader.  Each accessor call is   *)
(* a sequence of steps, one load command per step, as the loops of the     *)
(* code visit them.  `reads` holds the byte ranges the last step read, and *)
(* the range a call hands back as readable.                                *)
(***************************************************************************)
EXTENDS Integers, Sequences, FiniteSets
LOCAL INSTANCE SequencesExt

CONSTANTS
  Files,    \* the buffers MachoInitializeContext may be given
  Calls,    \* the accessor calls a client makes: [fn, n, seg, sect]
  NULL

(* Sizes of the on-disk structures (IndustryStandard/AppleMachoImage.h).   *)
HeaderSize   == 32      \* MACH_HEADER_64
LcSize       == 8       \* MACH_LOAD_COMMAND
SegSize      == 72      \* MACH_SEGMENT_COMMAND_64 without its sections
SectSize     == 80      \* MACH_SECTION_64
SymtabSize   == 24      \* MACH_SYMTAB_COMMAND
DysymtabSize == 80      \* MACH_DYSYMTAB_COMMAND
UuidSize     == 24      \* MACH_UUID_COMMAND
NlistSize    == 16      \* MACH_NLIST_64
RelocSize    == 8       \* MACH_RELOCATION_INFO
FatHdrSize   == 8       \* MACH_FAT_HEADER
FatArchSize  == 20      \* MACH_FAT_ARCH
MachoPage    == 4096    \* MACHO_ALIGN rounds to this

(* A dereference of a NULL pointer, as a read of the byte before offset 0. *)
NullRead == <<-1, 0>>

SymtabUsers == {"SymbolTable", "IndirectSymbolTable"}

(* The load command type each accessor scans for.                          *)
WantOf(fn) ==
  CASE fn = "Uuid"          -> "uuid"
    [] fn \in SymtabUsers   -> "symtab"
    [] OTHER                -> "segment"

VARIABLES
  file,     \* the buffer handed to MachoInitializeContext
  slice,    \* where the filter left FileData/FileSize: [ok, base, size]
  phase,    \* "init", then "ready" (context built) or "invalid"
  call,     \* the accessor call in progress, or NULL
  ret,      \* the result of the last call that returned, or NULL
  cache,    \* Context->Symtab/DySymtab as command indices, or NULL
  reads     \* byte ranges read by the last step

vars == <<file, slice, phase, call, ret, cache, reads>>

M    == file.macho
Cmds == M.cmds

(* The command window ends CommandsSize bytes after the header.            *)
TopOfCommands == HeaderSize + M.sizeofcmds

(* Load commands follow one another, each CommandSize bytes long           *)
(* (NEXT_MACH_LOAD_COMMAND in the loops of Header.c).                      *)
CmdOff(k) == HeaderSize + FoldLeft(LAMBDA a, c : a + c.size, 0, SubSeq(Cmds, 1, k - 1))

(* The command starting at offset p, the first one when several do.        *)
CmdAt(p) == SelectInSeq([k \in DOMAIN Cmds |-> CmdOff(k)], LAMBDA o : o = p)

(* The loop's CommandsSize: the sum of the command sizes.                  *)
SizeOfCommands(cs) == FoldLeft(LAMBDA a, c : a + c.size, 0, cs)

CommandsSize == SizeOfCommands(Cmds)

(* MachoFilterFatArchitecture64: a fat buffer whose table fits is re-based *)
(* to its first x86_64 architecture if that one lies inside the buffer.    *)
(* Any other buffer is left as it is.                                       *)
FatFilter(f) ==
  LET i == SelectInSeq(f.archs, LAMBDA a : a.cpu = "x86_64")
      a == f.archs[i]
  IN IF /\ f.fat
        /\ f.outer >= FatHdrSize
        /\ FatHdrSize + Len(f.archs) * FatArchSize <= f.outer
        /\ i # 0
        /\ a.offset # 0
        /\ a.offset + a.size <= f.outer
     THEN [ok |-> TRUE, base |-> a.offset, size |-> a.size]
     ELSE [ok |-> FALSE, base |-> 0, size |-> f.outer]

(* One iteration of the load-command loop of MachoInitializeContext: the   *)
(* command's header lies below the top of the window, and its size is at   *)
(* least a load command and a multiple of 8.                               *)
CommandOkNoAlign(k) ==
  /\ CmdOff(k) + LcSize <= TopOfCommands
  /\ Cmds[k].size >= LcSize

CommandOkNoMinimum(k) ==
  /\ CmdOff(k) + LcSize <= TopOfCommands
  /\ Cmds[k].size % 8 = 0

CommandOk(k) ==
  /\ CmdOff(k) + LcSize <= TopOfCommands
  /\ Cmds[k].size >= LcSize
  /\ Cmds[k].size % 8 = 0

(* The loop returns FALSE at the first command that fails.                 *)
FirstBadCommand == SelectInSeq([k \in DOMAIN Cmds |-> CommandOk(k)], LAMBDA b : ~b)

(* The command headers the loop reads before it stops.                     *)
LoopReads ==
  { <<CmdOff(k), CmdOff(k) + LcSize>> :
      k \in { k \in DOMAIN Cmds : /\ FirstBadCommand = 0 \/ k <= FirstBadCommand
                                  /\ CmdOff(k) + LcSize <= TopOfCommands } }

(* MachoInitializeContext.  TopOfFile is taken from the buffer before the  *)
(* fat filter runs, the filter's verdict is not looked at, and the command *)
(* window is checked against that TopOfFile.                               *)
MachoInitializeContext ==
  /\ phase = "init"
  /\ LET s     == FatFilter(file)
         hdr   == s.size >= HeaderSize
         magic == hdr /\ (~file.fat \/ s.ok) /\ M.magic
         top   == magic /\ s.base + TopOfCommands <= file.outer
         ok    == /\ top
                  /\ FirstBadCommand = 0
                  /\ CommandsSize = M.sizeofcmds
                  /\ M.cpu = "x86_64"
                  /\ M.ftype \in {"kext", "execute"}
     IN /\ slice' = s
        /\ phase' = IF ok THEN "ready" ELSE "invalid"
        /\ reads' = (IF hdr THEN {<<0, HeaderSize>>} ELSE {})
                      \cup (IF top THEN LoopReads ELSE {})
  /\ UNCHANGED <<file, call, ret, cache>>

-----------------------------------------------------------------------------
(* Results: a section as <<segment command, section>> indices, a number,   *)
(* or a file range [lo, hi).  None is NULL or 0.                           *)
None      == [seg |-> 0, sect |-> 0, num |-> 0, lo |-> 0, hi |-> 0]
Num(x)    == [None EXCEPT !.num = x]
Sect(k, j) == [None EXCEPT !.seg = k, !.sect = j]

(* The call returns value v: the loop of the accessor has ended.           *)
Finish(c, v, rd) ==
  /\ call' = NULL
  /\ ret' = [fn |-> c.fn, n |-> c.n, val |-> v]
  /\ reads' = rd

(* The scan is at a command of the type it looks for.                      *)
Found(k) ==
  /\ call # NULL
  /\ call.pos < TopOfCommands
  /\ CmdAt(call.pos) = k
  /\ Cmds[k].type = call.want

(* InternalGetNextCommand64, one iteration of its loop: a command of       *)
(* another type is stepped over by its CommandSize.                        *)
ScanSkip ==
  /\ call # NULL
  /\ call.pos < TopOfCommands
  /\ LET k == CmdAt(call.pos)
     IN /\ k # 0
        /\ Cmds[k].type # call.want
        /\ call' = [call EXCEPT !.pos = @ + Cmds[k].size]
        /\ reads' = {<<call.pos, call.pos + LcSize>>}
  /\ UNCHANGED <<file, slice, phase, ret, cache>>

(* MachoGetNextSegment64 (after the scan found a segment command): the     *)
(* command holds its sections and its file range lies inside the file.    *)
SegmentIsSane(s) ==
  /\ s.size >= SegSize
  /\ SegSize + Len(s.sects) * SectSize <= s.size
  /\ s.fo + s.fsize <= slice.size

SegReads(p, s) ==
  IF s.size >= SegSize THEN {<<p, p + SegSize>>} ELSE {<<p, p + LcSize>>}

SectRead(p, j) == <<p + SegSize + (j - 1) * SectSize, p + SegSize + j * SectSize>>

(* InternalSectionIsSane.  The address range is bounded above by the top   *)
(* of the segment, and not below by its start.                             *)
SectionIsSane(x, s) ==
  /\ x.align <= 31
  /\ x.offset = 0 \/ x.offset >= s.fo
  /\ x.addr + x.size <= s.va + s.vsize
  /\ x.offset + x.size <= s.fo + s.fsize
  /\ x.nreloc # 0 => x.reloff + x.nreloc * RelocSize <= slice.size

(* MachoGetNextSection64 yields the sections in order up to the first that *)
(* is not sane; LastIterable(s) is the last it yields.                     *)
LastIterable(s) ==
  LET bad == SelectInSeq(s.sects, LAMBDA x : ~SectionIsSane(x, s))
  IN IF bad = 0 THEN Len(s.sects) ELSE bad - 1

(* The section headers the iteration reads to reach section j, or all of   *)
(* them when j = 0 (no section matched).                                   *)
IterReads(p, s, j) ==
  LET last == IF j # 0 THEN j
              ELSE IF LastIterable(s) < Len(s.sects) THEN LastIterable(s) + 1
              ELSE Len(s.sects)
  IN {SectRead(p, i) : i \in 1..last}

(* The sections a MachoGetNextSection64 loop over s visits, in order.      *)
Yielded(s) == SubSeq(s.sects, 1, LastIterable(s))

(* A segment walk goes on with the next command.                           *)
Continue(k, acc, rd) ==
  /\ call' = [call EXCEPT !.pos = @ + Cmds[k].size, !.acc = acc]
  /\ reads' = rd
  /\ UNCHANGED ret

(* The segment walk has ended (MachoGetNextSegment64 returned NULL): the   *)
(* accumulating accessors return what they have, the others NULL.  The    *)
(* VmSize overflow and MAX_UINT32 checks are left out: the model's sizes   *)
(* stay far below them.                                                    *)
WalkEnds(rd) ==
  Finish(call,
         CASE call.fn = "LastAddress" -> Num(call.acc)
           [] call.fn = "VmSize"      -> Num(call.acc)
           [] OTHER                   -> None,
         rd)

SegmentRejected ==
  /\ \E k \in DOMAIN Cmds :
       /\ Found(k)
       /\ call.want = "segment"
       /\ ~SegmentIsSane(Cmds[k])
       /\ WalkEnds(SegReads(call.pos, Cmds[k]))
  /\ UNCHANGED <<file, slice, phase, cache>>

AlignPage(x) == ((x + MachoPage - 1) \div MachoPage) * MachoPage

(* MachoGetLastAddress64 and MachoGetVmSize64, one segment each.           *)
LastAddressStep(k) ==
  LET s == Cmds[k]
  IN Continue(k, IF s.va + s.vsize > call.acc THEN s.va + s.vsize ELSE call.acc,
              SegReads(call.pos, s))

VmSizeStep(k) ==
  Continue(k, AlignPage(call.acc + Cmds[k].vsize), SegReads(call.pos, Cmds[k]))

(* MachoGetFilePointerByAddress64: the segment whose memory range holds    *)
(* the address gives the file offset and the MaxSize reported with it.     *)
FilePointerStep(k) ==
  LET s   == Cmds[k]
      a   == call.n
      off == a - s.va + s.fo
      max == s.vsize - (a - s.va)
  IN IF s.va <= a /\ a < s.va + s.vsize
     THEN Finish(call, [None EXCEPT !.lo = off, !.hi = off + max],
                 SegReads(call.pos, s) \cup {<<off, off + max>>})
     ELSE Continue(k, call.acc, SegReads(call.pos, s))

(* A section looked up by index without InternalSectionIsSane.            *)
SectionByIndexStepUnchecked(k) ==
  LET s   == Cmds[k]
      nxt == call.acc + Len(s.sects)
      j   == call.n - call.acc + 1
  IN IF call.n < nxt
     THEN Finish(call, Sect(k, j), SegReads(call.pos, s) \cup {SectRead(call.pos, j)})
     ELSE Continue(k, nxt, SegReads(call.pos, s))

(* MachoGetSectionByIndex64: acc is SectionIndex, the number of sections   *)
(* of the segments walked so far.                                          *)
SectionByIndexStep(k) ==
  LET s   == Cmds[k]
      nxt == call.acc + Len(s.sects)
      j   == call.n - call.acc + 1
  IN IF call.n < nxt
     THEN Finish(call, IF SectionIsSane(s.sects[j], s) THEN Sect(k, j) ELSE None,
                 SegReads(call.pos, s) \cup {SectRead(call.pos, j)})
     ELSE Continue(k, nxt, SegReads(call.pos, s))

(* MachoGetSectionByAddress64: in a segment whose memory range holds the   *)
(* address, the first yielded section holding it; else the walk goes on.   *)
SectionByAddressStep(k) ==
  LET s   == Cmds[k]
      a   == call.n
      hit == SelectInSeq(Yielded(s), LAMBDA x : x.addr <= a /\ a < x.addr + x.size)
      rd  == SegReads(call.pos, s)
  IN IF s.va <= a /\ a < s.va + s.vsize
     THEN IF hit # 0 THEN Finish(call, Sect(k, hit), rd \cup IterReads(call.pos, s, hit))
          ELSE Continue(k, call.acc, rd \cup IterReads(call.pos, s, 0))
     ELSE Continue(k, call.acc, rd)

(* MachoGetSegmentSectionByName64: MachoGetSegmentByName64 stops at the    *)
(* first segment of that name, MachoGetSectionByName64 searches only it.   *)
SegmentSectionByNameStep(k) ==
  LET s   == Cmds[k]
      hit == SelectInSeq(Yielded(s), LAMBDA x : x.name = call.sect)
      rd  == SegReads(call.pos, s)
  IN IF s.name = call.seg
     THEN Finish(call, IF hit # 0 THEN Sect(k, hit) ELSE None, rd \cup IterReads(call.pos, s, hit))
     ELSE Continue(k, call.acc, rd)

(* A sane segment handed to the loop body of the accessor in progress.     *)
SegmentVisited ==
  /\ \E k \in DOMAIN Cmds :
       /\ Found(k)
       /\ call.want = "segment"
       /\ SegmentIsSane(Cmds[k])
       /\ \/ call.fn = "LastAddress" /\ LastAddressStep(k)
          \/ call.fn = "VmSize" /\ VmSizeStep(k)
          \/ call.fn = "FilePointer" /\ FilePointerStep(k)
          \/ call.fn = "SectionByIndex" /\ SectionByIndexStep(k)
          \/ call.fn = "SectionByAddress" /\ SectionByAddressStep(k)
          \/ call.fn = "SegmentSectionByName" /\ SegmentSectionByNameStep(k)
  /\ UNCHANGED <<file, slice, phase, cache>>

(* MachoGetUuid64: the first uuid command, if it has the size of one.      *)
UuidFound ==
  /\ \E k \in DOMAIN Cmds :
       /\ Found(k)
       /\ call.want = "uuid"
       /\ Finish(call, IF Cmds[k].size = UuidSize THEN [None EXCEPT !.seg = k] ELSE None,
                 {<<call.pos, call.pos + LcSize>>})
  /\ UNCHANGED <<file, slice, phase, cache>>

-----------------------------------------------------------------------------
(* InternalRetrieveSymtabs64, the symtab command: its size, the symbol and *)
(* string tables inside the file, a non-empty string table ending in NUL.  *)
SymtabIsSane(st) ==
  /\ st.size = SymtabSize
  /\ st.symoff + st.nsyms * NlistSize <= slice.size
  /\ st.stroff + st.strsize <= slice.size
  /\ st.strsize # 0
  /\ st.strNul

SymtabReads(p, st) ==
  IF st.size # SymtabSize THEN {<<p, p + LcSize>>}
  ELSE {<<p, p + SymtabSize>>} \cup
       (IF /\ st.symoff + st.nsyms * NlistSize <= slice.size
           /\ st.stroff + st.strsize <= slice.size
           /\ st.strsize # 0
        THEN {<<st.stroff + st.strsize - 1, st.stroff + st.strsize>>} ELSE {})

(* The dysymtab command, checked against the symtab's symbol count; the    *)
(* indirect table is bounded with the size of an nlist entry.              *)
DysymtabIsSane(d, st) ==
  /\ d.size = DysymtabSize
  /\ d.ilocal + d.nlocal <= st.nsyms
  /\ d.iext + d.nextsym <= st.nsyms
  /\ d.iundef + d.nundef <= st.nsyms
  /\ d.indoff + d.nind * NlistSize <= slice.size
  /\ d.locreloff + d.nlocrel * RelocSize <= slice.size
  /\ d.extreloff + d.nextrel * RelocSize <= slice.size

(* MachoGetSymbolTable once the tables are known: every symbol is checked *)
(* with InternalSymbolIsSane before the count is returned.                 *)
UseSymbolTable(c, tabs, rd) ==
  LET st == Cmds[tabs.symtab]
  IN /\ c.fn = "SymbolTable"
     /\ Finish(c, IF st.nsyms # 0 /\ M.symsSane THEN Num(st.nsyms) ELSE None,
               rd \cup {<<st.symoff, st.symoff + st.nsyms * NlistSize>>})

(* MachoGetIndirectSymbolTable: the indirect table is reached through      *)
(* DySymtab, which is NULL when the file has no dynamic-linker flag.       *)
UseIndirectTable(c, tabs, rd) ==
  LET d == Cmds[tabs.dysymtab]
  IN /\ c.fn = "IndirectSymbolTable"
     /\ IF tabs.dysymtab = 0
        THEN Finish(c, None, rd \cup {NullRead})
        ELSE Finish(c, IF M.symsSane THEN Num(d.nind) ELSE None,
                    rd \cup {<<d.indoff, d.indoff + d.nind * NlistSize>>})

(* The accessor in progress uses the tables the retrieval left.            *)
UseSymtabs(c, tabs, rd) == UseSymbolTable(c, tabs, rd) \/ UseIndirectTable(c, tabs, rd)

(* A symtab with a dynamic-linker flag caches both tables at once, so the  *)
(* symtab is stored as soon as it passes.                                  *)
SymtabFoundEarlyCache(k) ==
  LET st == Cmds[k]
      rd == SymtabReads(call.pos, st)
  IN \/ /\ ~SymtabIsSane(st)
        /\ Finish(call, None, rd) /\ UNCHANGED cache
     \/ /\ SymtabIsSane(st) /\ M.dyld
        /\ cache' = [symtab |-> k, dysymtab |-> 0]
        /\ call' = [call EXCEPT !.want = "dysymtab", !.pos = HeaderSize, !.sym = k]
        /\ reads' = rd /\ UNCHANGED ret
     \/ /\ SymtabIsSane(st) /\ ~M.dyld
        /\ cache' = [symtab |-> k, dysymtab |-> 0]
        /\ UseSymtabs(call, cache', rd)

(* The symtab found: a bad one fails the call; with the dynamic-linker     *)
(* flag the scan starts again from the first command for the dysymtab;     *)
(* otherwise the tables are stored in the context and used.                *)
SymtabFound(k) ==
  LET st == Cmds[k]
      rd == SymtabReads(call.pos, st)
  IN \/ /\ ~SymtabIsSane(st)
        /\ Finish(call, None, rd) /\ UNCHANGED cache
     \/ /\ SymtabIsSane(st) /\ M.dyld
        /\ call' = [call EXCEPT !.want = "dysymtab", !.pos = HeaderSize, !.sym = k]
        /\ reads' = rd /\ UNCHANGED <<ret, cache>>
     \/ /\ SymtabIsSane(st) /\ ~M.dyld
        /\ cache' = [symtab |-> k, dysymtab |-> 0]
        /\ UseSymtabs(call, cache', rd)

(* The dysymtab stored with the two command pointers swapped.             *)
DysymtabFoundSwapped(k) ==
  LET d  == Cmds[k]
      rd == {<<call.pos, call.pos + (IF d.size = DysymtabSize THEN DysymtabSize ELSE LcSize)>>}
  IN \/ /\ ~DysymtabIsSane(d, Cmds[call.sym])
        /\ Finish(call, None, rd) /\ UNCHANGED cache
     \/ /\ DysymtabIsSane(d, Cmds[call.sym])
        /\ cache' = [symtab |-> k, dysymtab |-> call.sym]
        /\ UseSymtabs(call, cache', rd)

(* The dysymtab found: stored with the symtab only if it passes.           *)
DysymtabFound(k) ==
  LET d  == Cmds[k]
      rd == {<<call.pos, call.pos + (IF d.size = DysymtabSize THEN DysymtabSize ELSE LcSize)>>}
  IN \/ /\ ~DysymtabIsSane(d, Cmds[call.sym])
        /\ Finish(call, None, rd) /\ UNCHANGED cache
     \/ /\ DysymtabIsSane(d, Cmds[call.sym])
        /\ cache' = [symtab |-> call.sym, dysymtab |-> k]
        /\ UseSymtabs(call, cache', rd)

SymtabStep ==
  /\ \E k \in DOMAIN Cmds :
       /\ Found(k)
       /\ \/ call.want = "symtab" /\ SymtabFound(k)
          \/ call.want = "dysymtab" /\ DysymtabFound(k)
  /\ UNCHANGED <<file, slice, phase>>

(* The scan reached TopOfCommands without finding the command: the segment *)
(* walk ends, MachoGetUuid64 and the symbol-table retrieval fail.          *)
ScanEnd ==
  /\ call # NULL
  /\ call.pos >= TopOfCommands
  /\ IF call.want = "segment" THEN WalkEnds({}) ELSE Finish(call, None, {})
  /\ UNCHANGED <<file, slice, phase, cache>>

(* A client calls an accessor on the context.  The symbol-table accessors *)
(* use the tables cached in the context without a scan.                    *)
StartCall(c) ==
  /\ phase = "ready"
  /\ call = NULL
  /\ IF c.fn \in SymtabUsers /\ cache # NULL
     THEN UseSymtabs(c, cache, {})
     ELSE /\ call' = [fn |-> c.fn, n |-> c.n, seg |-> c.seg, sect |-> c.sect,
                      want |-> WantOf(c.fn), pos |-> HeaderSize, acc |-> 0, sym |-> 0]
          /\ reads' = {}
          /\ ret' = NULL
  /\ UNCHANGED <<file, slice, phase, cache>>

(* A buffer that is not a valid Mach-O leaves the client with no context.  *)
Rejected ==
  /\ phase = "invalid"
  /\ UNCHANGED vars

Init ==
  /\ file \in Files
  /\ slice = [ok |-> FALSE, base |-> 0, size |-> 0]
  /\ phase = "init"
  /\ call = NULL
  /\ ret = NULL
  /\ cache = NULL
  /\ reads = {}

(* The steps of an accessor call in progress.                              *)
CallStep == ScanSkip \/ ScanEnd \/ SegmentRejected \/ SegmentVisited \/ UuidFound \/ SymtabStep

Next ==
  \/ MachoInitializeContext
  \/ \E c \in Calls : StartCall(c)
  \/ CallStep
  \/ Rejected

(* An accessor runs to its return on the caller's thread.                  *)
Spec == Init /\ [][Next]_vars /\ WF_vars(CallStep)

-----------------------------------------------------------------------------
Fns   == {"LastAddress", "VmSize", "FilePointer", "SectionByIndex", "SectionByAddress",
          "SegmentSectionByName", "Uuid", "SymbolTable", "IndirectSymbolTable"}
Value == [seg : Nat, sect : Nat, num : Nat, lo : Int, hi : Int]

CmdsOfType(t) == {k \in DOMAIN Cmds : Cmds[k].type = t}

TypeOK ==
  /\ file \in Files
  /\ slice \in [ok : BOOLEAN, base : Nat, size : Nat]
  /\ phase \in {"init", "ready", "invalid"}
  /\ call \in {NULL} \cup [fn : Fns, n : Nat, seg : STRING, sect : STRING,
                           want : {"segment", "uuid", "symtab", "dysymtab"},
                           pos : Nat, acc : Nat, sym : Nat]
  /\ ret \in {NULL} \cup [fn : Fns, n : Nat, val : Value]
  /\ cache \in {NULL} \cup [symtab : CmdsOfType("symtab"), dysymtab : {0} \cup CmdsOfType("dysymtab")]
  /\ reads \subseteq Int \X Int

(* The Mach-O of spec 3: 64-bit magic, x86_64, a kext or an executable,    *)
(* each command at least 8 bytes and a multiple of 8, and the sizes adding *)
(* up to CommandsSize.                                                     *)
WellFormedMacho ==
  /\ M.magic
  /\ M.cpu = "x86_64"
  /\ M.ftype \in {"kext", "execute"}
  /\ \A k \in DOMAIN Cmds : Cmds[k].size >= LcSize /\ Cmds[k].size % 8 = 0
  /\ CommandsSize = M.sizeofcmds

X86Arch == SelectInSeq(file.archs, LAMBDA a : a.cpu = "x86_64")

(* Spec 4.1: the slice initialisation re-enters with, the x86_64 record of *)
(* a fat table that lies in the buffer, or the whole buffer.                *)
RefSlice ==
  IF file.fat
  THEN [base |-> file.archs[X86Arch].offset, size |-> file.archs[X86Arch].size]
  ELSE [base |-> 0, size |-> file.outer]

RefSliceExists ==
  file.fat => /\ FatHdrSize + Len(file.archs) * FatArchSize <= file.outer
              /\ X86Arch # 0
              /\ file.archs[X86Arch].offset # 0
              /\ file.archs[X86Arch].offset + file.archs[X86Arch].size <= file.outer

(* MachoInitializeContext builds a context exactly for the files spec 3    *)
(* and 4.1 call valid Mach-O: a context is only ever built on a well-formed *)
(* header read from the x86_64 slice, and every well-formed file whose     *)
(* commands lie inside that slice (spec 3, "each command fits inside the   *)
(* header command window") gets one.                                       *)
AcceptsWellFormed ==
  /\ phase = "ready" => /\ WellFormedMacho
                        /\ RefSliceExists
                        /\ slice.base = RefSlice.base /\ slice.size = RefSlice.size
  /\ phase = "invalid" => ~(/\ WellFormedMacho
                            /\ RefSliceExists
                            /\ HeaderSize + M.sizeofcmds <= RefSlice.size)

(* The segments the walk MachoGetNextSegment64 yields, in order: segment   *)
(* commands up to the first that is not sane.                              *)
WalkedSegments ==
  LET segs == SelectSeq([k \in DOMAIN Cmds |-> k], LAMBDA k : Cmds[k].type = "segment")
      bad  == SelectInSeq(segs, LAMBDA k : ~SegmentIsSane(Cmds[k]))
  IN IF bad = 0 THEN segs ELSE SubSeq(segs, 1, bad - 1)

(* Section ordinals: the sections of the walked segments, numbered across  *)
(* segments from 0 as the section indices of nlist entries are.            *)
Ordinals ==
  FlattenSeq([i \in DOMAIN WalkedSegments |->
                [j \in DOMAIN Cmds[WalkedSegments[i]].sects |-> <<WalkedSegments[i], j>>]])

(* MachoGetSectionByIndex64 returns the section of that ordinal across the *)
(* walked segments, and only if InternalSectionIsSane accepts it: a caller *)
(* resolving a symbol's section index gets the section the symbol means.   *)
SectionIndexIsOrdinal ==
  ret # NULL /\ ret.fn = "SectionByIndex" =>
    ret.val = IF ret.n < Len(Ordinals)
                 /\ LET o == Ordinals[ret.n + 1]
                    IN SectionIsSane(Cmds[o[1]].sects[o[2]], Cmds[o[1]])
              THEN Sect(Ordinals[ret.n + 1][1], Ordinals[ret.n + 1][2])
              ELSE None

FirstOfType(t) == SelectInSeq(Cmds, LAMBDA c : c.type = t)

(* The tables InternalRetrieveSymtabs64 leaves in the context, which every *)
(* later call uses unchecked, are the file's first symtab and (with the    *)
(* dynamic-linker flag) first dysymtab, and passed every check: a failure  *)
(* half way through the retrieval caches nothing.                          *)
CachedSymtabsChecked ==
  cache # NULL =>
    /\ cache.symtab = FirstOfType("symtab")
    /\ SymtabIsSane(Cmds[cache.symtab])
    /\ IF M.dyld
       THEN /\ cache.dysymtab = FirstOfType("dysymtab")
            /\ DysymtabIsSane(Cmds[cache.dysymtab], Cmds[cache.symtab])
       ELSE cache.dysymtab = 0

(* Every accessor returns: the command scans advance, so no load command   *)
(* makes InternalGetNextCommand64 loop.                                    *)
CallsReturn == call # NULL ~> call = NULL

(* Spec 4.1: every traversal re-validates what it returns, so callers may  *)
(* trust any non-null result absolutely.  No step of the reader reads      *)
(* outside the slice, the range MachoGetFilePointerByAddress64 reports as  *)
(* available lies inside it, and a returned section lies inside its        *)
(* segment's address range.                                                *)
AccessorsStayInBounds ==
  /\ \A r \in reads : 0 <= r[1] /\ r[2] <= slice.size
  /\ ret # NULL /\ ret.val.sect # 0 =>
       LET s == Cmds[ret.val.seg]
           x == s.sects[ret.val.sect]
       IN s.va <= x.addr /\ x.addr + x.size <= s.va + s.vsize

=============================================================================

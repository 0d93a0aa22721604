--------------------------- MODULE MC_MachoReader ---------------------------
(***************************************************************************)
(* Files for the Mach-O reader: a kext laid out as the prelinker sees one  *)
(* (__TEXT, __DATA with a zero-fill __bss, __LINKEDIT, symtab, dysymtab,   *)
(* uuid), the same kext in a fat file and variants each of which breaks    *)
(* one rule the reader checks, or one it does not.                         *)
(***************************************************************************)
EXTENDS MachoReader

Blank ==
  [type |-> "other", size |-> 8, name |-> "", va |-> 0, vsize |-> 0, fo |-> 0,
   fsize |-> 0, sects |-> <<>>, symoff |-> 0, nsyms |-> 0, stroff |-> 0,
   strsize |-> 0, strNul |-> TRUE, ilocal |-> 0, nlocal |-> 0, iext |-> 0,
   nextsym |-> 0, iundef |-> 0, nundef |-> 0, indoff |-> 0, nind |-> 0,
   locreloff |-> 0, nlocrel |-> 0, extreloff |-> 0, nextrel |-> 0]

Section(nm, a, sz, off) ==
  [name |-> nm, addr |-> a, size |-> sz, offset |-> off, align |-> 4, nreloc |-> 0, reloff |-> 0]

Segment(nm, a, vs, f, fs, ss) ==
  [Blank EXCEPT !.type = "segment", !.size = SegSize + Len(ss) * SectSize, !.name = nm,
                !.va = a, !.vsize = vs, !.fo = f, !.fsize = fs, !.sects = ss]

Text   == Segment("__TEXT", 0, 4096, 0, 4096, <<Section("__text", 1024, 512, 1024)>>)
Data   == Segment("__DATA", 4096, 8192, 4096, 4096,
                  <<Section("__data", 4096, 256, 4096), Section("__bss", 8192, 4096, 0)>>)
Link   == Segment("__LINKEDIT", 12288, 4096, 8192, 1024, <<>>)
Symtab == [Blank EXCEPT !.type = "symtab", !.size = 24, !.symoff = 8192, !.nsyms = 2,
                        !.stroff = 8224, !.strsize = 32]
Dysym  == [Blank EXCEPT !.type = "dysymtab", !.size = 80, !.nlocal = 1, !.iext = 1,
                        !.nextsym = 1, !.iundef = 2, !.indoff = 8256, !.nind = 1]
Uuid   == [Blank EXCEPT !.type = "uuid", !.size = 24]

KextCmds == <<Text, Data, Link, Symtab, Dysym, Uuid>>

Macho(cs) ==
  [magic |-> TRUE, cpu |-> "x86_64", ftype |-> "kext", dyld |-> TRUE,
   sizeofcmds |-> SizeOfCommands(cs), cmds |-> cs, symsSane |-> TRUE]

Thin(m)              == [fat |-> FALSE, archs |-> <<>>, outer |-> 9216, macho |-> m]
Fat(archs, out, m)   == [fat |-> TRUE, archs |-> archs, outer |-> out, macho |-> m]
Arch(cpu, off, sz)   == [cpu |-> cpu, offset |-> off, size |-> sz]

Kext == Macho(KextCmds)

(* __TEXT's first section has an alignment above 31, __DATA's first lies  *)
(* below the segment, and __LINKEDIT's file range passes the file's end.  *)
HostileCmds ==
  << [Text EXCEPT !.sects = <<[Section("__text", 1024, 512, 1024) EXCEPT !.align = 40],
                             Section("__const", 2048, 256, 2048)>>,
                  !.size = SegSize + 2 * SectSize],
     [Data EXCEPT !.sects[1] = Section("__data", 3000, 256, 4096)],
     [Link EXCEPT !.fsize = 4096],
     Symtab, Dysym, Uuid >>

MCFiles ==
  { Thin(Kext),
    \* spec 8 example 3: the x86_64 slice of a fat file
    Fat(<<Arch("ppc", 4096, 4096), Arch("x86_64", 20480, 9216)>>, 29696, Kext),
    \* a slice smaller than its command window, inside the outer buffer
    Fat(<<Arch("x86_64", 8192, 512)>>, 17408, Kext),
    \* a fat file with no x86_64 slice
    Fat(<<Arch("ppc", 4096, 4096)>>, 8192, Kext),
    \* spec 8 example 4: CommandsSize one byte short of the commands
    Thin([Kext EXCEPT !.sizeofcmds = @ - 1]),
    \* no dynamic-linker flag: no dysymtab is looked for
    Thin([Kext EXCEPT !.dyld = FALSE]),
    Thin(Macho(HostileCmds)),
    \* a dysymtab whose local symbols run past the symbol count
    Thin(Macho([KextCmds EXCEPT ![5].nlocal = 3])),
    \* a string table that does not end in NUL, and a symbol that fails
    Thin(Macho([KextCmds EXCEPT ![4].strNul = FALSE])),
    Thin([Kext EXCEPT !.symsSane = FALSE]),
    \* a 12-byte command, and an empty one, before the uuid
    Thin(Macho(<<Text, Data, Link, Symtab, Dysym, [Blank EXCEPT !.size = 12], Uuid>>)),
    Thin(Macho(<<Text, Data, Link, Symtab, Dysym, [Blank EXCEPT !.size = 0], Uuid>>)),
    \* no symbol table and no uuid
    Thin(Macho(<<Text, Data, Link>>)),
    \* an i386 header
    Thin([Kext EXCEPT !.cpu = "i386"]) }

Call(f, n, sg, sc) == [fn |-> f, n |-> n, seg |-> sg, sect |-> sc]

MCCalls ==
  { Call("LastAddress", 0, "", ""), Call("VmSize", 0, "", ""),
    Call("FilePointer", 1500, "", ""), Call("FilePointer", 5000, "", ""),
    Call("SectionByIndex", 0, "", ""), Call("SectionByIndex", 2, "", ""),
    Call("SectionByIndex", 3, "", ""),
    Call("SectionByAddress", 1100, "", ""), Call("SectionByAddress", 9000, "", ""),
    Call("SectionByAddress", 16000, "", ""),
    Call("SegmentSectionByName", 0, "__DATA", "__bss"),
    Call("SegmentSectionByName", 0, "__TEXT", "__data"),
    Call("Uuid", 0, "", ""), Call("SymbolTable", 0, "", ""),
    Call("IndirectSymbolTable", 0, "", "") }
=============================================================================

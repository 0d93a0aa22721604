-------------------------- MODULE MC_ExpandImage --------------------------
EXTENDS ExpandImage

(* Images built the way a linker lays out a kext, in half-page units: a    *)
(* __TEXT segment holding the one-unit header, whose file size may end     *)
(* mid-page so that MACHO_ALIGN rounds the carried delta; an optional      *)
(* __DATA segment one page after it or right behind it in memory, with a   *)
(* file-backed and a zero-fill section; and an optional __LINKEDIT holding *)
(* the symbol and string tables, whose commands end in a function-starts   *)
(* and a code-signature command or in a code signature alone.  A           *)
(* segment-less image takes the raw-file path.  Sizes include a header     *)
(* that does not fit and a __DATA with more file than memory.              *)
MCHeader == 1
NoTables == [symoff |-> 0, stroff |-> 0, tocN |-> 0, indoff |-> 0]

TextSegs ==
  {[name |-> "__TEXT", va |-> 0, fo |-> 0, vsize |-> vf[1], fsize |-> vf[2],
    sects |-> IF vf[2] >= 2 THEN <<[addr |-> 1, size |-> vf[2] - 1, offset |-> 1]>> ELSE <<>>]
     : vf \in {<<2, 2>>, <<4, 2>>, <<2, 1>>, <<2, 0>>}}

End(s) == s.va + s.vsize
FileEnd(s) == s.fo + s.fsize

DataSegs(prev) ==
  UNION {
    LET va == End(prev) + gap
        fo == MachoAlign(FileEnd(prev))
        F == [addr |-> va, size |-> vf[2], offset |-> fo]
        Z == [addr |-> va + vf[2], size |-> vf[1] - vf[2], offset |-> 0]
        sects == {<<>>} \cup (IF vf[2] > 0 THEN {<<F>>} ELSE {<<Z>>})
                        \cup (IF vf[2] > 0 /\ vf[1] > vf[2] THEN {<<F, Z>>} ELSE {})
    IN {[name |-> "__DATA", va |-> va, fo |-> fo, vsize |-> vf[1], fsize |-> vf[2], sects |-> x]
          : x \in sects}
    : gap \in {0, 2}, vf \in {<<2, 2>>, <<4, 2>>, <<2, 0>>, <<2, 4>>}}

LinkeditSegs(prev) ==
  {[name |-> "__LINKEDIT", va |-> End(prev), fo |-> MachoAlign(FileEnd(prev)),
    vsize |-> 2, fsize |-> f, sects |-> <<>>] : f \in {1, 2}}

Tables(le) == [symoff |-> le.fo, stroff |-> le.fo + le.fsize - 1, tocN |-> 1, indoff |-> le.fo]

SegCmds(n) == [k \in 1..n |-> [type |-> "segment", size |-> 2]]
SymtabCmd == <<[type |-> "symtab", size |-> 1]>>
CodeSig == <<[type |-> "codesig", size |-> 1]>>
TailCmds == {<<[type |-> "funcstarts", size |-> 1]>> \o CodeSig, CodeSig}

Image(segs, sym, cmds) ==
  [header |-> MCHeader, segs |-> segs, sym |-> sym, cmds |-> cmds,
   fileSize |-> IF FileEnd(segs[Len(segs)]) > MCHeader THEN FileEnd(segs[Len(segs)]) ELSE MCHeader]

MCImages ==
  {[header |-> MCHeader, segs |-> <<>>, sym |-> NoTables, cmds |-> SymtabCmd, fileSize |-> n]
     : n \in {3, 8}}
  \cup {Image(<<t>>, NoTables, SegCmds(1) \o SymtabCmd) : t \in TextSegs}
  \cup UNION {{Image(<<t, d>>, NoTables, SegCmds(2) \o SymtabCmd) : d \in DataSegs(t)} : t \in TextSegs}
  \cup UNION {UNION {{Image(<<t, d, l>>, Tables(l), SegCmds(3) \o SymtabCmd \o tc)
                        : l \in LinkeditSegs(d), tc \in TailCmds} : d \in DataSegs(t)} : t \in TextSegs}

MCStripped == {"funcstarts", "codesig"}
=============================================================================

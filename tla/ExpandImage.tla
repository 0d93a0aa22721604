---------------------------- MODULE ExpandImage ----------------------------
(***************************************************************************)
(* MachoExpandImage64 (Library/OcMachoLib/Header.c 1222-1432): rewrites a  *)
(* Mach-O so that every segment's file offset is its virtual offset from    *)
(* the first segment, then optionally strips load commands.                *)
(*                                                                         *)
(* Sizes and offsets count units of half a page, so that MACHO_ALIGN can be *)
(* seen to round.  The byte at file offset p of the source is the integer   *)
(* p; the destination starts as Junk and ZeroMem writes Zero.  One segment  *)
(* of the loop is one step; the strip of the destination header is the     *)
(* StripLoadCommands loop, instantiated on this module's header variables.  *)
(***************************************************************************)
EXTENDS Integers, Sequences

CONSTANTS
  Page,      (* MACHO_ALIGN's alignment, in units                           *)
  Images,    (* source images: header size, file size, segments, symtab,    *)
             (* load commands                                               *)
  DestSizes, (* DestinationSize values                                      *)
  Stripped   (* LoadCommandsToStrip                                         *)

Zero == -1
Junk == -2

VARIABLES
  img,      (* the source image (Context)                                   *)
  destSize, (* DestinationSize                                              *)
  strip,    (* Strip                                                        *)
  dst,      (* Destination, one value per unit                              *)
  dsegs,    (* the segment commands of the destination header               *)
  dsym,     (* the symtab and dysymtab offsets of the destination header    *)
  seg,      (* the index of Segment in the source's segment commands        *)
  delta,    (* CurrentDelta                                                 *)
  curSize,  (* CurrentSize                                                  *)
  result,   (* the value returned                                           *)
  phase,    (* "header", "segs", "ret", "strip" or "done"                   *)
  hcmds, hmem, hnum, hsize, hlc, hleft, hidx, hphase
            (* the destination's command area, as StripLoadCommands sees it *)

expVars == <<img, destSize, strip, dst, dsegs, dsym, seg, delta, curSize, result, phase>>
stripVars == <<hcmds, hmem, hnum, hsize, hlc, hleft, hidx, hphase>>
vars == <<expVars, stripVars>>

(* Slack <- 1: the header word after the command area, the padding before *)
(* the first section that MachoExpandImage64 copies with the header.      *)
ST == INSTANCE StripLoadCommands
        WITH Commands <- {}, Slack <- 1,
             cmds <- hcmds, mem <- hmem, numCommands <- hnum, commandsSize <- hsize,
             lc <- hlc, left <- hleft, index <- hidx, phase <- hphase

MachoAlign(x) == ((x + Page - 1) \div Page) * Page

HeaderSize == img.header
Segs == img.segs
FirstVA == Segs[1].va

(* MachoGetNextSegment64 yields segment k only if its file data lies in the *)
(* file; otherwise the loop ends.                                           *)
NextSegment(k) == k <= Len(Segs) /\ Segs[k].fo + Segs[k].fsize <= img.fileSize

(* The header-overlap clamp of Header.c 1285-1298: a segment starting in    *)
(* the header is copied from HeaderSize on; the subtraction is unsigned.    *)
CopyFileOffset(s) == IF s.fo <= HeaderSize THEN HeaderSize ELSE s.fo
CopyFileSize(s) == IF s.fo <= HeaderSize THEN s.fsize - HeaderSize ELSE s.fsize
CopyVmSize(s) == IF s.fo <= HeaderSize THEN s.vsize - HeaderSize ELSE s.vsize
HeaderFits(s) == s.fo > HeaderSize \/ (s.fsize >= HeaderSize /\ s.vsize >= HeaderSize)

(* A copy that leaves out the zero tail of 1314.                            *)
CopySegmentWithoutTail(m, s, od, d) ==
  LET cfo == CopyFileOffset(s)
  IN [p \in DOMAIN m |->
        IF cfo + od <= p /\ p < cfo + d THEN Zero
        ELSE IF cfo + d <= p /\ p < cfo + d + CopyFileSize(s) THEN p - d
        ELSE m[p]]

(* The three writes of Header.c 1312-1314: the alignment gap, the file data *)
(* and the zero tail, with od the delta before alignment and d after it.   *)
CopySegment(m, s, od, d) ==
  LET cfo == CopyFileOffset(s)
      cfs == CopyFileSize(s)
      cvs == CopyVmSize(s)
  IN [p \in DOMAIN m |->
        IF cfo + od <= p /\ p < cfo + d THEN Zero
        ELSE IF cfo + d <= p /\ p < cfo + d + cfs THEN p - d
        ELSE IF cfo + d + cfs <= p /\ p < cfo + d + cvs THEN Zero
        ELSE m[p]]

(* The section loop of Header.c 1386-1396: a zero-fill section (offset 0)  *)
(* is placed at CopyFileOffset + CurrentDelta and grows the delta; a       *)
(* file-backed one is shifted, and its end becomes CopyFileOffset.          *)
RECURSIVE ShiftSections(_, _, _)
ShiftSections(secs, cfo, d) ==
  IF secs = <<>> THEN <<>>
  ELSE LET x == Head(secs)
       IN IF x.offset = 0
          THEN <<[x EXCEPT !.offset = cfo + d]>> \o ShiftSections(Tail(secs), cfo, d + x.size)
          ELSE <<[x EXCEPT !.offset = @ + d]>> \o ShiftSections(Tail(secs), x.offset + d + x.size, d)

(* A shift that forgets StringsOffset.                                       *)
ShiftTablesKeepStrings(t, d) == [f \in DOMAIN t |-> IF t[f] # 0 /\ f # "stroff" THEN t[f] + d ELSE t[f]]

(* Header.c 1342-1377: every symtab and dysymtab field that is not zero    *)
(* moves by the delta, TableOfContentsNumEntries included.                  *)
ShiftTables(t, d) == [f \in DOMAIN t |-> IF t[f] # 0 THEN t[f] + d ELSE 0]

Init ==
  /\ img \in Images
  /\ destSize \in DestSizes
  /\ strip \in BOOLEAN
  /\ dst = [p \in 0..destSize - 1 |-> Junk]
  /\ dsegs = img.segs
  /\ dsym = img.sym
  /\ seg = 1
  /\ delta = 0
  /\ curSize = 0
  /\ result = 0
  /\ phase = "header"
  /\ hcmds = img.cmds
  /\ hmem = ST!Layout(img.cmds)
  /\ hnum = Len(img.cmds)
  /\ hsize = ST!SizeSum(img.cmds)
  /\ hlc = 1
  /\ hleft = ST!SizeSum(img.cmds)
  /\ hidx = 0
  /\ hphase = "loop"

Fail ==
  /\ result' = 0
  /\ phase' = "done"

(* Header.c 1255-1258.                                                      *)
HeaderTooBig ==
  /\ phase = "header" /\ HeaderSize > destSize
  /\ Fail
  /\ UNCHANGED <<img, destSize, strip, dst, dsegs, dsym, seg, delta, curSize, stripVars>>

(* Header.c 1259-1263.                                                      *)
CopyHeader ==
  /\ phase = "header" /\ HeaderSize <= destSize
  /\ dst' = [p \in DOMAIN dst |-> IF p < HeaderSize THEN p ELSE dst[p]]
  /\ phase' = "segs"
  /\ UNCHANGED <<img, destSize, strip, dsegs, dsym, seg, delta, curSize, result, stripVars>>

(* Header.c 1272-1276: a segment with more file than memory.               *)
SegmentOversized ==
  /\ phase = "segs" /\ NextSegment(seg)
  /\ Segs[seg].fsize > Segs[seg].vsize
  /\ Fail
  /\ UNCHANGED <<img, destSize, strip, dst, dsegs, dsym, seg, delta, curSize, stripVars>>

(* Header.c 1288-1297: the header does not fit in its segment.             *)
HeaderNotInSegment ==
  /\ phase = "segs" /\ NextSegment(seg)
  /\ Segs[seg].fsize <= Segs[seg].vsize
  /\ ~HeaderFits(Segs[seg])
  /\ Fail
  /\ UNCHANGED <<img, destSize, strip, dst, dsegs, dsym, seg, delta, curSize, stripVars>>

(* Header.c 1303-1306: the segment does not fit in the destination.        *)
SegmentDoesNotFit ==
  /\ phase = "segs" /\ NextSegment(seg)
  /\ LET s == Segs[seg]
     IN /\ s.fsize <= s.vsize /\ HeaderFits(s)
        /\ CopyFileOffset(s) + MachoAlign(delta) + CopyVmSize(s) > destSize
  /\ Fail
  /\ UNCHANGED <<img, destSize, strip, dst, dsegs, dsym, seg, delta, curSize, stripVars>>

(* Header.c 1303-1314 for segment s, with the delta aligned first          *)
(* (1272-1273): CurrentSize and the copy.                                   *)
Copied(s) ==
  /\ dst' = CopySegment(dst, s, delta, MachoAlign(delta))
  /\ curSize' = CopyFileOffset(s) + MachoAlign(delta) + CopyVmSize(s)

(* Header.c 1318-1320: the destination segment command's new offsets.       *)
Refreshed(s, d) == [dsegs[seg] EXCEPT !.fo = s.fo + d, !.fsize = s.vsize]

Placed(s) == s.va - (s.fo + MachoAlign(delta)) = FirstVA

Copyable(s) ==
  /\ s.fsize <= s.vsize /\ HeaderFits(s)
  /\ CopyFileOffset(s) + MachoAlign(delta) + CopyVmSize(s) <= destSize

(* Header.c 1322-1324: the copied segment is not at its virtual offset.     *)
SegmentMisplaced ==
  /\ phase = "segs" /\ NextSegment(seg)
  /\ Copyable(Segs[seg]) /\ ~Placed(Segs[seg])
  /\ Copied(Segs[seg])
  /\ dsegs' = [dsegs EXCEPT ![seg] = Refreshed(Segs[seg], MachoAlign(delta))]
  /\ Fail
  /\ UNCHANGED <<img, destSize, strip, dsym, seg, delta, stripVars>>

(* The next delta computed as file size minus virtual size.               *)
SegmentExpandedSwapGrowth ==
  /\ phase = "segs" /\ NextSegment(seg)
  /\ LET s == Segs[seg]
         d == MachoAlign(delta)
     IN /\ Copyable(s) /\ Placed(s)
        /\ Copied(s)
        /\ dsegs' = [dsegs EXCEPT ![seg] = [Refreshed(s, d) EXCEPT !.sects = ShiftSections(s.sects, s.fo, d)]]
        /\ dsym' = IF s.name = "__LINKEDIT" THEN ShiftTables(dsym, d) ELSE dsym
        /\ delta' = d + (s.fsize - s.vsize)
  /\ seg' = seg + 1
  /\ UNCHANGED <<img, destSize, strip, result, phase, stripVars>>

(* Header.c 1269-1398: one segment expanded.  __LINKEDIT also moves the     *)
(* symtab and dysymtab offsets; the sections are shifted; the next delta    *)
(* is the aligned one plus what this segment grew by.                       *)
SegmentExpanded ==
  /\ phase = "segs" /\ NextSegment(seg)
  /\ LET s == Segs[seg]
         d == MachoAlign(delta)
     IN /\ Copyable(s) /\ Placed(s)
        /\ Copied(s)
        /\ dsegs' = [dsegs EXCEPT ![seg] = [Refreshed(s, d) EXCEPT !.sects = ShiftSections(s.sects, s.fo, d)]]
        /\ dsym' = IF s.name = "__LINKEDIT" THEN ShiftTables(dsym, d) ELSE dsym
        /\ delta' = d + (s.vsize - s.fsize)
  /\ seg' = seg + 1
  /\ UNCHANGED <<img, destSize, strip, result, phase, stripVars>>

AfterCopy == IF strip THEN "strip" ELSE "ret"

(* Header.c 1264-1268 and 1404: no further segment, and one was copied.     *)
SegmentsEnd ==
  /\ phase = "segs" /\ ~NextSegment(seg) /\ curSize # 0
  /\ phase' = AfterCopy
  /\ UNCHANGED <<img, destSize, strip, dst, dsegs, dsym, seg, delta, curSize, result, stripVars>>

(* Header.c 1404-1423: no segment was copied; the raw file is used.         *)
RawCopy ==
  /\ phase = "segs" /\ ~NextSegment(seg) /\ curSize = 0
  /\ img.fileSize <= destSize
  /\ dst' = [p \in DOMAIN dst |-> IF HeaderSize <= p /\ p < img.fileSize THEN p ELSE dst[p]]
  /\ curSize' = img.fileSize
  /\ phase' = AfterCopy
  /\ UNCHANGED <<img, destSize, strip, dsegs, dsym, seg, delta, result, stripVars>>

RawTooBig ==
  /\ phase = "segs" /\ ~NextSegment(seg) /\ curSize = 0
  /\ img.fileSize > destSize
  /\ Fail
  /\ UNCHANGED <<img, destSize, strip, dst, dsegs, dsym, seg, delta, curSize, stripVars>>

(* Header.c 1425-1427: one iteration of InternalStripLoadCommands64 on the  *)
(* destination header.                                                      *)
StripStep ==
  /\ phase = "strip"
  /\ ST!StripCommand \/ ST!KeepCommand \/ ST!ZeroTail
  /\ UNCHANGED expVars

(* Header.c 1431.                                                           *)
Return ==
  /\ phase = "ret" \/ (phase = "strip" /\ hphase = "done")
  /\ result' = curSize
  /\ phase' = "done"
  /\ UNCHANGED <<img, destSize, strip, dst, dsegs, dsym, seg, delta, curSize, stripVars>>

Done ==
  /\ phase = "done"
  /\ UNCHANGED vars

Next ==
  \/ HeaderTooBig \/ CopyHeader
  \/ SegmentOversized \/ HeaderNotInSegment \/ SegmentDoesNotFit
  \/ SegmentMisplaced \/ SegmentExpanded
  \/ SegmentsEnd \/ RawCopy \/ RawTooBig
  \/ StripStep \/ Return \/ Done

Spec == Init /\ [][Next]_vars /\ WF_vars(Next)

-----------------------------------------------------------------------------
(* The segments the loop copied: those before the first one                 *)
(* MachoGetNextSegment64 does not yield.                                    *)
Iterated == {k \in 1..Len(Segs) : \A j \in 1..k : NextSegment(j)}

Succeeded == phase = "done" /\ result > 0

TypeOK ==
  /\ phase \in {"header", "segs", "ret", "strip", "done"}
  /\ seg \in 1..Len(Segs) + 1
  /\ delta \in Nat /\ curSize \in Nat /\ result \in Nat
  /\ DOMAIN dst = 0..destSize - 1
  /\ \A p \in DOMAIN dst : dst[p] \in {Zero, Junk} \cup 0..img.fileSize - 1

(* After a successful expansion the destination is the memory image: each  *)
(* copied segment's command says file offset = VA - first VA and file size  *)
(* = virtual size, the bytes there are the segment's file bytes followed by *)
(* zeros up to its virtual size, and the size returned is where the last    *)
(* segment ends; with no segment, the raw file is returned (Header.c        *)
(* 1264-1431).                                                              *)
ImageIsMemoryLayout ==
  Succeeded =>
    IF Iterated = {}
    THEN /\ result = img.fileSize
         /\ \A p \in 0..img.fileSize - 1 : dst[p] = p
    ELSE /\ \A k \in Iterated :
              LET s == Segs[k]
              IN /\ dsegs[k].fo = s.va - FirstVA
                 /\ dsegs[k].fsize = s.vsize
                 /\ \A o \in 0..s.vsize - 1 :
                      /\ s.va - FirstVA + o \in DOMAIN dst
                      /\ dst[s.va - FirstVA + o] = IF o < s.fsize THEN s.fo + o ELSE Zero
         /\ LET last == Segs[CHOOSE k \in Iterated : \A j \in Iterated : j <= k]
            IN result = last.va - FirstVA + last.vsize

(* After a successful expansion every file offset the header holds still    *)
(* addresses the bytes it did in the source: the offsets of file-backed     *)
(* sections (Header.c 1392-1395), the symbol and string tables and the      *)
(* dysymtab's offsets (1340-1377).                                          *)
OffsetsFollowData ==
  LET Reads(newOff, oldOff) == newOff \in DOMAIN dst /\ dst[newOff] = oldOff
  IN Succeeded =>
       /\ \A k \in Iterated : \A j \in DOMAIN Segs[k].sects :
            LET x == Segs[k].sects[j]
            IN x.offset # 0 => \A o \in 0..x.size - 1 : Reads(dsegs[k].sects[j].offset + o, x.offset + o)
       /\ \A f \in DOMAIN dsym \ {"tocN"} : img.sym[f] # 0 => Reads(dsym[f], img.sym[f])

(* A zero-fill section (file offset 0) is given the file offset of its      *)
(* place in the memory image, VA - first VA, as the segment around it is    *)
(* (Header.c 1389-1391).                                                    *)
ZeroFillSectionsAtVa ==
  Succeeded =>
    \A k \in Iterated : \A j \in DOMAIN Segs[k].sects :
      Segs[k].sects[j].offset = 0 => dsegs[k].sects[j].offset = Segs[k].sects[j].addr - FirstVA

(* The layouts the expander is meant for (spec 4.4): segments in address    *)
(* order that do not overlap, no more file than memory, page-aligned file   *)
(* offsets, page-aligned file sizes except in the last segment, the header  *)
(* in the first segment, and a destination as large as the memory image.    *)
ValidLayout ==
  /\ Len(Segs) > 0
  /\ HeaderSize <= destSize
  /\ Segs[1].fo = 0 /\ Segs[1].fsize >= HeaderSize
  /\ \A k \in 1..Len(Segs) :
       /\ Segs[k].fsize <= Segs[k].vsize
       /\ Segs[k].fo + Segs[k].fsize <= img.fileSize
       /\ Segs[k].fo % Page = 0
       /\ k < Len(Segs) => /\ Segs[k].fsize % Page = 0
                           /\ Segs[k + 1].va >= Segs[k].va + Segs[k].vsize
                           /\ Segs[k + 1].fo >= Segs[k].fo + Segs[k].fsize
  /\ Segs[Len(Segs)].va + Segs[Len(Segs)].vsize - FirstVA <= destSize

(* MachoExpandImage64 returns a nonzero size for every valid layout, as     *)
(* spec 8, example 6 requires of a __DATA segment placed a page after       *)
(* __TEXT in memory.                                                        *)
ExpandsValidLayout ==
  (phase = "done" /\ ValidLayout) => result > 0

(* TableOfContentsNumEntries is a count, not an offset: a successful       *)
(* expansion leaves it as it was (spec open question a: "reimplement as    *)
(* unchanged"), while Header.c 1360-1362 adds the delta to it.              *)
TocCountKept == Succeeded => dsym.tocN = img.sym.tocN

(* The expansion does what spec 4.4 and 8 ask of it: it succeeds on every   *)
(* valid layout, it places zero-fill sections at their memory offset (the   *)
(* two checks of MachoExpandImage64 above, Header.c 1265-1400), and the     *)
(* strip of the destination header compacts the command area in place      *)
(* (StripInPlace of InternalStripLoadCommands64, Header.c 1183-1219), and   *)
(* the table-of-contents count keeps its value.                            *)
ExpandsAsSpecified ==
  ExpandsValidLayout /\ ZeroFillSectionsAtVa /\ ST!StripInPlace /\ TocCountKept
=============================================================================

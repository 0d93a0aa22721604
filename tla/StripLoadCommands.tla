-------------------------- MODULE StripLoadCommands --------------------------
(***************************************************************************)
(* InternalStripLoadCommands64 (Library/OcMachoLib/Header.c), which        *)
(* MachoExpandImage64 runs on the expanded header when Strip is set.        *)
(*                                                                         *)
(* The command area and what follows it are a row of words, mem.  A load   *)
(* command of Size words with identifier k occupies Size cells             *)
(* [id |-> k, w |-> 0 .. Size - 1]; cell w = 0 carries its CommandType and  *)
(* CommandSize.  The cells after the area hold [id |-> "after", w |-> j].   *)
(* One loop iteration of the strip is one step.                            *)
(***************************************************************************)
EXTENDS Integers, Sequences

CONSTANTS
  Commands,   (* the load-command lists a run enumerates: [type, size]      *)
  Stripped,   (* LoadCommandsToStrip                                        *)
  Slack       (* words modelled past the end of the command area            *)

Zero == [id |-> "zero", w |-> 0]
Junk == [id |-> "junk", w |-> 0]
After(j) == [id |-> "after", w |-> j]

RECURSIVE SizeSum(_)
SizeSum(cs) == IF cs = <<>> THEN 0 ELSE Head(cs).size + SizeSum(Tail(cs))

(* The words of the commands ids of list cs, laid out back to back.        *)
RECURSIVE Cells(_, _)
Cells(cs, ids) ==
  IF ids = <<>> THEN <<>>
  ELSE [j \in 1..cs[Head(ids)].size |-> [id |-> Head(ids), w |-> j - 1]]
         \o Cells(cs, Tail(ids))

(* The command area of list cs as the header holds it, and Slack words     *)
(* after it.                                                                *)
Layout(cs) ==
  Cells(cs, [k \in 1..Len(cs) |-> k]) \o [j \in 1..Slack |-> After(j)]

VARIABLES
  cmds,         (* the commands the header held before the strip            *)
  mem,          (* the command area and the Slack words after it            *)
  numCommands,  (* MachHeader->NumCommands                                  *)
  commandsSize, (* MachHeader->CommandsSize                                 *)
  lc,           (* LoadCommand, as a word position                           *)
  left,         (* SizeOfLeftCommands                                       *)
  index,        (* Index                                                    *)
  phase         (* "loop" or "done"                                         *)

vars == <<cmds, mem, numCommands, commandsSize, lc, left, index, phase>>

OriginalCommandSize == SizeSum(cmds)

(* The word at position p; reading past the modelled words gives junk.      *)
Word(m, p) == IF p \in DOMAIN m THEN m[p] ELSE Junk

(* The CommandType/CommandSize read at position p: the header of a         *)
(* command, zeros, or junk read as a one-word command of no listed type.    *)
HeaderAt(m, p) ==
  LET c == Word(m, p)
  IN IF c.id \in DOMAIN cmds /\ c.w = 0 THEN cmds[c.id]
     ELSE IF c = Zero THEN [type |-> "zero", size |-> 0]
     ELSE [type |-> "junk", size |-> 1]

(* CopyMem (dst, src, n), overlapping moves included.                       *)
CopyMem(m, dst, src, n) ==
  [p \in DOMAIN m |-> IF dst <= p /\ p < dst + n THEN Word(m, src + (p - dst)) ELSE m[p]]

ZeroMem(m, dst, n) ==
  [p \in DOMAIN m |-> IF dst <= p /\ p < dst + n THEN Zero ELSE m[p]]

Init ==
  /\ cmds \in Commands
  /\ mem = Layout(cmds)
  /\ numCommands = Len(cmds)
  /\ commandsSize = SizeSum(cmds)
  /\ lc = 1
  /\ left = SizeSum(cmds)
  /\ index = 0
  /\ phase = "loop"

(* Header.c 1193-1216: one iteration for a command that is stripped.  The  *)
(* later commands are moved down unless this is the last one; the header    *)
(* counts then drop by the size read at LoadCommand, and LoadCommand         *)
(* advances by it.                                                          *)
StripCommand ==
  /\ phase = "loop" /\ index < numCommands
  /\ HeaderAt(mem, lc).type \in Stripped
  /\ LET cur == HeaderAt(mem, lc)
         rest == left - cur.size
         moved == IF index # numCommands - 1 THEN CopyMem(mem, lc, lc + cur.size, rest) ELSE mem
     IN /\ mem' = moved
        /\ left' = rest
        /\ numCommands' = numCommands - 1
        /\ commandsSize' = commandsSize - HeaderAt(moved, lc).size
        /\ lc' = lc + HeaderAt(moved, lc).size
  /\ index' = index + 1
  /\ UNCHANGED <<cmds, phase>>

(* Header.c 1183-1193 and 1216: a command that is kept.                      *)
KeepCommand ==
  /\ phase = "loop" /\ index < numCommands
  /\ HeaderAt(mem, lc).type \notin Stripped
  /\ left' = left - HeaderAt(mem, lc).size
  /\ lc' = lc + HeaderAt(mem, lc).size
  /\ index' = index + 1
  /\ UNCHANGED <<cmds, mem, numCommands, commandsSize, phase>>

(* Header.c 1219: the loop ends and the freed tail is zeroed.               *)
ZeroTail ==
  /\ phase = "loop" /\ index >= numCommands
  /\ mem' = ZeroMem(mem, lc, OriginalCommandSize - commandsSize)
  /\ phase' = "done"
  /\ UNCHANGED <<cmds, numCommands, commandsSize, lc, left, index>>

Done ==
  /\ phase = "done"
  /\ UNCHANGED vars

Next == StripCommand \/ KeepCommand \/ ZeroTail \/ Done

Spec == Init /\ [][Next]_vars /\ WF_vars(Next)

-----------------------------------------------------------------------------
TypeOK ==
  /\ numCommands \in 0..Len(cmds)
  /\ commandsSize \in Int
  /\ left \in Int
  /\ index \in 0..Len(cmds)
  /\ phase \in {"loop", "done"}

(* The indices of the commands the strip should leave, in order.          *)
KeptIds == SelectSeq([k \in 1..Len(cmds) |-> k], LAMBDA k : cmds[k].type \notin Stripped)

(* Once the strip is over, the header describes exactly the commands that  *)
(* are not in LoadCommandsToStrip: NumCommands counts them, CommandsSize    *)
(* sums their sizes, and the area starts with them in their original order  *)
(* (InternalStripLoadCommands64, Header.c 1183-1219).                       *)
StripCompacts ==
  LET kept == Cells(cmds, KeptIds)
  IN phase = "done" =>
       /\ numCommands = Len(KeptIds)
       /\ commandsSize = Len(kept)
       /\ \A p \in 1..Len(kept) : mem[p] = kept[p]

(* The strip writes only inside the original command area: the words after  *)
(* it, which in the expanded image are the rest of the first segment, keep   *)
(* their contents (the CopyMem at Header.c 1202 and the ZeroMem at 1219).   *)
StripStaysInArea ==
  \A j \in 1..Slack : mem[OriginalCommandSize + j] = After(j)

(* The strip compacts the command area in place (spec 4.4, "memmove-      *)
(* compacting the command area and decrementing the header's command      *)
(* count and total size"): the header describes the kept commands, they   *)
(* start the area, and nothing after the area is written.                 *)
StripInPlace == StripCompacts /\ StripStaysInArea
=============================================================================

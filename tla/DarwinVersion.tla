---------------------------- MODULE DarwinVersion ----------------------------
(***************************************************************************)
(* Kernel version reading and version-window gating                        *)
(* (Platform/OpenCore/OpenCoreKernel.c): OcKernelReadDarwinVersion copies  *)
(* the text after "Darwin Kernel Version " up to ':' or the end of the      *)
(* kernel into a 32-byte buffer and parses it with OcParseDarwinVersion;    *)
(* OcKernelProcessPrelinked parses each kext's MinKernel/MaxKernel the same *)
(* way and injects the kext only if OcMatchDarwinVersion holds.             *)
(*                                                                         *)
(* Strings are sequences of one-character strings; the end of a sequence  *)
(* is the NUL terminator.                                                   *)
(***************************************************************************)
EXTENDS Naturals, Sequences

LOCAL SeqExt == INSTANCE SequencesExt

CONSTANTS
  VersionBufLen,  (* ARRAY_SIZE (DarwinVersion), the copy buffer with NUL   *)
  Texts,          (* kernel bytes that may follow the marker                *)
  Windows,        (* MinKernel/MaxKernel strings of a kext                  *)
  Versions,       (* packed versions whose text the runs include            *)
  EmptyComponentTexts, (* dotted strings with an empty component            *)
  NONE            (* no value yet                                           *)

NUL == "NUL"
Digits == {"0", "1", "2", "3", "4", "5", "6", "7", "8", "9"}


ToChar(n) == <<"0","1","2","3","4","5","6","7","8","9">>[n + 1]
DigitValue == [d \in Digits |-> CHOOSE n \in 0..9 : ToChar(n) = d]

(* The character at position p of s, NUL past its end.                     *)
At(s, p) == IF p <= Len(s) THEN s[p] ELSE NUL

(* OcParseDarwinVersion: three parts of up to two digits, "1.2.3" read as  *)
(* 010203; 0 on an invalid character or a string not starting with a      *)
(* digit.                                                                   *)
RECURSIVE ParsePart(_, _, _, _)
ParsePart(s, p, part, i2) ==
  IF i2 = 2 THEN [ok |-> TRUE, p |-> p, part |-> part]
  ELSE LET c == At(s, p)
           scaled == IF c # "." /\ c # NUL THEN part * 10 ELSE part
       IN IF c \in Digits THEN ParsePart(s, p + 1, scaled + DigitValue[c], i2 + 1)
          ELSE IF c # "." /\ c # NUL THEN [ok |-> FALSE, p |-> p, part |-> part]
          ELSE ParsePart(s, p, scaled, i2 + 1)

(* Mutant: the part loop runs one time too many.                          *)
RECURSIVE ParsePartsFourTimes(_, _, _, _)
ParsePartsFourTimes(s, p, version, index) ==
  IF index = 4 THEN version
  ELSE LET r == ParsePart(s, p, 0, 0)
       IN IF ~r.ok THEN 0
          ELSE ParsePartsFourTimes(s, IF At(s, r.p) = "." THEN r.p + 1 ELSE r.p,
                                   version * 100 + r.part, index + 1)

RECURSIVE ParseParts(_, _, _, _)
ParseParts(s, p, version, index) ==
  IF index = 3 THEN version
  ELSE LET r == ParsePart(s, p, 0, 0)
       IN IF ~r.ok THEN 0
          ELSE ParseParts(s, IF At(s, r.p) = "." THEN r.p + 1 ELSE r.p,
                          version * 100 + r.part, index + 1)

OcParseDarwinVersion(s) ==
  IF At(s, 1) \notin Digits THEN 0 ELSE ParseParts(s, 1, 0, 0)

(* Mutant: the upper bound is exclusive.                                   *)
OcMatchDarwinVersionStrictMax(cur, min, max) ==
  LET top == IF max = 0 THEN cur ELSE max
  IN IF cur = 0 THEN top = 0
     ELSE cur < top /\ min <= cur

(* OcMatchDarwinVersion: min <= curr <= max, with max = 0 open and        *)
(* curr = 0 matching only an open max.                                      *)
OcMatchDarwinVersion(cur, min, max) ==
  LET top == IF max = 0 THEN cur ELSE max
  IN IF cur = 0 THEN top = 0
     ELSE cur <= top /\ min <= cur

(* The bytes copied into DarwinVersion[]: up to ':' or the end of the      *)
(* kernel, at most VersionBufLen - 1 of them.                               *)
(* Mutant: the copy does not stop at ':'.                                  *)
RECURSIVE CopyVersionPastColon(_, _)
CopyVersionPastColon(t, i) ==
  IF i > Len(t) \/ i > VersionBufLen - 1 THEN <<>>
  ELSE <<t[i]>> \o CopyVersionPastColon(t, i + 1)

RECURSIVE CopyVersion(_, _)
CopyVersion(t, i) ==
  IF i > Len(t) \/ i > VersionBufLen - 1 \/ t[i] = ":" THEN <<>>
  ELSE <<t[i]>> \o CopyVersion(t, i + 1)

VARIABLES
  found,      (* the marker occurs in the kernel                            *)
  text,       (* the kernel bytes after the marker                          *)
  window,     (* the kext's [min |-> MinKernel, max |-> MaxKernel] strings  *)
  version,    (* the Darwin version read, NONE before                      *)
  matched,    (* the gate's verdict, NONE before                           *)
  phase       (* "boot", "read" or "gated"                                  *)

vars == <<found, text, window, version, matched, phase>>

Init ==
  /\ found \in BOOLEAN
  /\ text \in Texts
  /\ window \in Windows
  /\ version = NONE
  /\ matched = NONE
  /\ phase = "boot"

(* OcKernelReadDarwinVersion.                                               *)
ReadDarwinVersion ==
  /\ phase = "boot"
  /\ version' = IF found THEN OcParseDarwinVersion(CopyVersion(text, 1)) ELSE 0
  /\ phase' = "read"
  /\ UNCHANGED <<found, text, window, matched>>

(* The version check of one Kernel.Add entry in OcKernelProcessPrelinked.  *)
GateKext ==
  /\ phase = "read"
  /\ matched' = OcMatchDarwinVersion(version, OcParseDarwinVersion(window.min),
                                     OcParseDarwinVersion(window.max))
  /\ phase' = "gated"
  /\ UNCHANGED <<found, text, window, version>>

Done ==
  /\ phase = "gated"
  /\ UNCHANGED vars

Next == ReadDarwinVersion \/ GateKext \/ Done

Spec == Init /\ [][Next]_vars /\ WF_vars(Next)

-----------------------------------------------------------------------------
TypeOK ==
  /\ found \in BOOLEAN
  /\ version = NONE \/ version \in 0..999999
  /\ matched = NONE \/ matched \in BOOLEAN
  /\ phase \in {"boot", "read", "gated"}

(* The decimal text "X.Y.Z" of a packed version, the form the spec gives   *)
(* for the kernel's version string (10.15.4 -> 101504).                     *)
Dec(n) == IF n < 10 THEN <<ToChar(n)>> ELSE <<ToChar(n \div 10), ToChar(n % 10)>>
Format(x) == Dec(x \div 10000) \o <<".">> \o Dec((x \div 100) % 100) \o <<".">> \o Dec(x % 100)

(* A kernel whose marker is followed by a formatted version and ':' has    *)
(* that version read back, as long as the text fits the copy buffer: the    *)
(* copy in OcKernelReadDarwinVersion and the digit packing of               *)
(* OcParseDarwinVersion agree with the spec's X.Y.Z -> XXYYZZ encoding.    *)
VersionRoundTrip ==
  \A x \in Versions :
     (phase # "boot" /\ found /\ Len(Format(x)) < VersionBufLen
        /\ SeqExt!IsPrefix(Format(x) \o <<":">>, text))
       => version = x

(* The window a kext's MinKernel/MaxKernel describe (spec 2 and scenario 2):*)
(* min..max inclusive, 0 meaning open; an unknown kernel (0) matches only   *)
(* a window with an open maximum.                                            *)
InWindow(v, lo, hi) ==
  IF v = 0 THEN hi = 0 ELSE lo <= v /\ (hi = 0 \/ v <= hi)

(* OcKernelProcessPrelinked injects a kext exactly when the version read   *)
(* from the kernel lies in the kext's window.                               *)
GateIsWindow ==
  phase = "gated" =>
     matched = InWindow(version, OcParseDarwinVersion(window.min),
                        OcParseDarwinVersion(window.max))

(* Spec scenario 1: a version string with an empty component ("1..3",      *)
(* "1.") is invalid and parses as 0.                                         *)
EmptyComponentRejected ==
  phase # "boot" /\ found /\ CopyVersion(text, 1) \in EmptyComponentTexts => version = 0
=============================================================================

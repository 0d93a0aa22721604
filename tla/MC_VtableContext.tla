-------------------------- MODULE MC_VtableContext --------------------------
(***************************************************************************)
(* Three kexts, built in order, then one lookup of "VtA" over every        *)
(* dependency array.  Vtable data at four addresses: two entries           *)
(* resolving to f1 and f2, one entry of an inlined function (no symbol),   *)
(* no terminator inside MaxSize (36 bytes: four words), no entries, and a  *)
(* terminator one word past MaxSize (24 bytes); address 50 has no data.   *)
(***************************************************************************)
EXTENDS VtableContext, TLC

MCKexts == {"k1", "k2", "k3"}
KG == INSTANCE KextGraph
MCDepInputs == KG!DepArrays(MCKexts, 2)
MCBuildOrder == <<"k1", "k2", "k3">>

MCVtableAt ==
  (10 :> [words |-> <<0, 0, 1, 2, 0>>, max |-> 40]) @@
  (20 :> [words |-> <<0, 0, 3, 0>>, max |-> 32]) @@
  (30 :> [words |-> <<0, 0, 1, 2>>, max |-> 36]) @@
  (40 :> [words |-> <<0, 0, 0>>, max |-> 24]) @@
  (60 :> [words |-> <<0, 0, 1, 0>>, max |-> 24])

MCCxxSymbolAt == (1 :> "f1") @@ (2 :> "f2") @@ (3 :> NULL)

Sym(n, v) == [name |-> n, value |-> v]

(* Slices: one vtable; a function, then two vtables; an unterminated       *)
(* vtable; a vtable without value; three vtables for a scratch of two; a   *)
(* vtable without data; no vtable; a vtable ending past MaxSize.          *)
SA       == <<Sym("VtA", 10)>>
SB       == <<Sym("Fn", 1), Sym("VtB", 20), Sym("VtA", 40)>>
SNoTerm  == <<Sym("VtA", 30)>>
SZero    == <<Sym("VtB", 10), Sym("VtA", 0)>>
SFull    == <<Sym("VtB", 20), Sym("VtA", 10), Sym("VtB", 40)>>
SMissing == <<Sym("VtA", 50)>>
SNone    == <<Sym("Fn", 2)>>
SPastMax == <<Sym("VtA", 60)>>

MCCxxInputs ==
  {[k \in MCKexts |-> CASE k = "k1" -> a [] k = "k2" -> b [] OTHER -> c]
     : a \in {SA, SB, SNoTerm, SZero, SFull, SMissing, SNone},
       b \in {SA, SB, SNone, SPastMax}, c \in {SA, SFull, SNone}}

(* See MC_VtableLookup: recursion deeper than a cycle needs is cut.        *)
StackDepthBound == Len(stack) <= 4
=============================================================================

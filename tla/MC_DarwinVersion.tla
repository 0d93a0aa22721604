-------------------------- MODULE MC_DarwinVersion --------------------------
EXTENDS DarwinVersion
(* Packed versions whose parts are single- and double-digit, zero and 99.  *)
MCVersions == {a * 10000 + b * 100 + c : a, b, c \in {0, 4, 15, 99}}
(* Every string of up to four characters over digits, '.', ':' and a      *)
(* letter, and every formatted version followed by ':' or nothing.          *)
MCAlphabet == {"1", "5", ".", ":", "x"}
MCShort == UNION {[1..n -> MCAlphabet] : n \in 0..4}
MCTexts == MCShort \cup {Format(x) \o t : x \in MCVersions, t \in {<<>>, <<":">>, <<":", "x">>}}
MCWindowStrings == {<<>>, <<"1", "5">>, Format(150400), Format(990000), <<"1", ".", ".", "4">>}
MCWindows == [min : MCWindowStrings, max : MCWindowStrings]
(* Dotted strings of one- or two-digit groups with at least one empty group *)
MCEmptyComponent ==
  LET G == {<<>>, <<"1">>, <<"1", "5">>}
      Two == {<<g1, g2>> : g1, g2 \in G}
      Three == {<<g1, g2, g3>> : g1, g2, g3 \in G}
  IN {gs[1] \o <<".">> \o gs[2] : gs \in {gs \in Two : <<>> \in {gs[1], gs[2]}}}
       \cup {gs[1] \o <<".">> \o gs[2] \o <<".">> \o gs[3] :
               gs \in {gs \in Three : <<>> \in {gs[1], gs[2], gs[3]}}}
=============================================================================

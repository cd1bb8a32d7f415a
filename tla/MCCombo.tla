------------------------------ MODULE MCCombo -------------------------------
(***************************************************************************)
(* Keymaps for model checking Combo.                                       *)
(***************************************************************************)
EXTENDS Combo

Plain(combos) ==
  [combos |-> combos, must_hold |-> {}, must_tap |-> {}, in_order |-> {}, strict |-> FALSE,
   buffer_length |-> 4]

Overlapping == Plain(<< <<"a", "b">>, <<"b", "c">>, <<"a", "b", "c">> >>)
Disjoint    == Plain(<< <<"a", "b">>, <<"c", "d">> >>)

MixedBuilds ==
  {Overlapping, Disjoint,
   [Overlapping EXCEPT !.strict = TRUE],
   [Overlapping EXCEPT !.must_hold = {1}, !.must_tap = {2}],
   [Overlapping EXCEPT !.in_order = {1, 3}],
   [Disjoint EXCEPT !.buffer_length = 3, !.strict = TRUE],
   [Disjoint EXCEPT !.must_tap = {1, 2}]}

\* The hypotheses of module ComboProofs.
ASSUME KeymapAssumption == ChordsOnly /\ Grouped /\ RingSuffices /\ BufferSuffices
=============================================================================

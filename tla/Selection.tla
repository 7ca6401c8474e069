-------------------------------- MODULE Selection --------------------------------
(* The elements of a sequence that belong to a set, in their order: what filter() *)
(* does, written as a fold, which the provers can expand where SelectSeq is        *)
(* built in.                                                                       *)
EXTENDS SequencesExt

SelectIn(s, T) ==
  FoldLeft(LAMBDA kept, x : IF x \in T THEN Append(kept, x) ELSE kept, <<>>, s)
==================================================================================

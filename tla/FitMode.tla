--------------------------------- MODULE FitMode ---------------------------------
(* The three ways to choose among the free blocks that are large enough, as the  *)
(* loops of get_first, get_best and get_worst do: in the order of their places   *)
(* in the list, where a later one must be better to replace an earlier one.      *)
EXTENDS Integers

FitModes == {"first_fit", "the_best_fit", "the_worst_fit"}

\* size is defined for all places in fits.
IsChoice(mode, place, fits, size) ==
  /\ place \in fits
  /\ \A other \in fits :
       /\ mode = "first_fit" => place <= other
       /\ mode = "the_best_fit" =>
            \/ size[place] < size[other]
            \/ size[place] = size[other] /\ place <= other
       /\ mode = "the_worst_fit" =>
            \/ size[place] > size[other]
            \/ size[place] = size[other] /\ place <= other
==================================================================================

-------------------------------- MODULE Lists --------------------------------
(* Array.prototype.filter for a condition that is a set: a recursive function, *)
(* which can be reasoned about where SelectSeq cannot.                         *)
EXTENDS Naturals, Sequences

\* The elements of the list that lie in the set, in their order.
Among(list, set) ==
  LET kept[n \in 0..Len(list)] ==
        IF n = 0 THEN <<>>
        ELSE IF list[n] \in set THEN Append(kept[n - 1], list[n]) ELSE kept[n - 1]
  IN  kept[Len(list)]
==============================================================================

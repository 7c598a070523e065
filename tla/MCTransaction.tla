--------------------------- MODULE MCTransaction ---------------------------
(***************************************************************************)
(* Instances of Transaction for TLC.                                       *)
(***************************************************************************)
EXTENDS TransactionInv
CONSTANTS n1, n2, n3

MCConfig == <<n1, n2, n3>>

\* Data as one share; data_c in three shares of two bytes, two of which are past
\* its end, and no group; two groups and no data, of which one empty share is made.
MCRequests == {
  [gids |-> <<300>>,    data |-> <<7, 128, 255>>, data_c |-> <<>>],
  [gids |-> <<>>,       data |-> <<>>,            data_c |-> <<1, 77, 200, 16>>],
  [gids |-> <<1, 300>>, data |-> <<>>,            data_c |-> <<>>]}

NextSlot(hi, lo, mine) == [sid |-> [hi |-> hi, lo |-> lo], is_me |-> mine]

\* The first slot of a group, and later ones of a node that decided the last: on
\* both sides of boundaries where a slot takes another byte.
MCNextSlots == {
  1 :> NextSlot(0, 1, FALSE)  @@ 300 :> NextSlot(7, 2^30, TRUE),
  1 :> NextSlot(8, 300, TRUE) @@ 300 :> NextSlot(0, 127, TRUE)}
=============================================================================

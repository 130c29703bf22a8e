------------------------------- MODULE MCMenus -------------------------------
(* An instance of Menus for TLC: three exchanges of both chains in pages of   *)
(* two, and two reviews, one of which may be stored after a list was drawn.   *)
EXTENDS Menus

ThreeExchanges == {1, 2, 3}
BothChains     == [e \in ThreeExchanges |-> IF e = 1 THEN "bsc" ELSE "tron"]
TwoReviews     == {1, 2}
OneEach        == [h \in TwoReviews |-> h]
LaterUnderpaid == {2}
=============================================================================

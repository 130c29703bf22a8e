----------------------------- MODULE MCPayment -----------------------------
(* Instances of Payment for TLC: three coins, two of one value, against      *)
(* payouts that need one, two or three of them or more than there is.        *)
EXTENDS Payment

ThreeCoins  == {1, 2, 3}
ThreeValues == [c \in ThreeCoins |-> IF c = 1 THEN 400 ELSE 700]
=============================================================================

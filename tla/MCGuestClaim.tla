---------------------------- MODULE MCGuestClaim ----------------------------
(***************************************************************************)
(* Constant values for the run of GuestClaim: lines that agree, differ in  *)
(* quantity or in unit, a cart that is full with one line, and a bot chat  *)
(* whose old list may disagree with the cart.                              *)
(***************************************************************************)
EXTENDS GuestClaim

CONSTANTS p, q

TwoBags == [qty |-> 2, unit |-> "bag"]
OneBag == [qty |-> 1, unit |-> "bag"]
OneKilo == [qty |-> 1, unit |-> "kg"]

MCAmounts == {OneBag, TwoBags, OneKilo}
MCDraftAmounts == {OneKilo}
MCLegacyLists == {[Empty EXCEPT ![p] = {OneBag}]}
=============================================================================

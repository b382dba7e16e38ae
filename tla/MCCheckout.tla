----------------------------- MODULE MCCheckout -----------------------------
(* Small instances of Checkout.                                            *)
EXTENDS Checkout, TLC

Symmetry == Permutations(Products) \cup Permutations(Contacts)
=============================================================================

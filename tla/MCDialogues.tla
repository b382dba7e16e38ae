---------------------------- MODULE MCDialogues ----------------------------
(***************************************************************************)
(* The basket, the checkout and the enquiry dialogue of one customer.      *)
(* Each behaviour runs one of them, and the others stay as they were       *)
(* initially.                                                              *)
(***************************************************************************)
EXTENDS BasketDialogue, CheckoutDialogue, EnquiryDialogue

VARIABLE alive

vars == <<alive, basketVars, dialogueVars, enquiryVars>>

\* "fanera" means product 2; the matcher shows product 1 until it is told.
CONSTANT fanera
FaneraMeans == [q \in {fanera} |-> 2]
FaneraIsAsked == [q \in {fanera} |-> "ask"]
FaneraLooksLike == [q \in {fanera} |-> 1]

\* The account knows everything about its customer but the address.
KnownAccount == [f \in Fields |-> IF f = "address" THEN 0 ELSE 1]
GivenAnswers == [f \in Fields |-> IF f = "address" THEN {1, 2} ELSE {1}]

Init ==
    /\ alive \in {"basket", "checkout", "enquiry"}
    /\ BasketInit
    /\ CheckoutInit
    /\ EnquiryInit
    /\ alive # "checkout" => ~ full
    /\ alive # "basket" => fsm.lines = <<>>

Next ==
    /\ UNCHANGED alive
    /\ \/ alive = "basket" /\ BasketNext /\ UNCHANGED <<dialogueVars, enquiryVars>>
       \/ alive = "checkout" /\ CheckoutNext /\ UNCHANGED <<basketVars, enquiryVars>>
       \/ alive = "enquiry" /\ EnquiryNext /\ UNCHANGED <<basketVars, dialogueVars>>

Spec == Init /\ [][Next]_vars
=============================================================================

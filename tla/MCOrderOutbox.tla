--------------------------- MODULE MCOrderOutbox ---------------------------
(***************************************************************************)
(* An instance of OrderOutbox for TLC.                                     *)
(***************************************************************************)
EXTENDS OrderOutbox

CONSTANTS w1, w2, order1

MCWorkers == {w1, w2}
OneQueue == {order1}
OneDelay == <<1>>
=============================================================================

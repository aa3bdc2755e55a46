----------------------------- MODULE MCLeshan -------------------------------
EXTENDS Leshan
CONSTANTS one, two, A, B
(* Pod two is to have two containers, the second with the image of pod one,   *)
(* and an adapter.                                                            *)
MCContainers == one :> <<A>> @@ two :> <<B, A>>
MCAdapted == {two}
=============================================================================

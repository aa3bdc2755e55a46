------------------------ MODULE MCPortForwardStreams ------------------------
EXTENDS PortForwardStreams, TLC
CONSTANTS f1, f2
MCForwards == {f1, f2}
(* The client may use a request id twice. *)
MCHeaders == {f1 :> 0 @@ f2 :> 1, f1 :> 1 @@ f2 :> 1}
=============================================================================

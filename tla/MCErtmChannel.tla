---------------------------- MODULE MCErtmChannel ----------------------------
(***************************************************************************)
(* Instance of ErtmChannel: one end writes three SDUs, of which one takes  *)
(* two frames, and the other end writes one.  A window of 3 makes the      *)
(* first end wait for acknowledgements, one of 6 makes the other end delay *)
(* them.                                                                   *)
(***************************************************************************)
EXTENDS ErtmChannel

SmallSdus == ("x" :> <<<<1>>, <<2, 3>>, <<4>>>>) @@ ("y" :> <<<<1>>>>)
SmallLost == (3 :> 2) @@ (6 :> 1)
=============================================================================

----------------------------- MODULE MCHciLayer -----------------------------
(***************************************************************************)
(* Instances of HciLayer for TLC.                                          *)
(***************************************************************************)
EXTENDS HciLayer

\* One request of each kind of answer that the order of events depends on.
MCTwoRequests == {<<"DISCONNECT", "STATUS">>, <<"RESET", "COMPLETE">>}

\* The real OGF fields: 0x01 link control, 0x03 baseband, 0x3f vendor.
MCOgf == [op \in AllOpCodes |->
            CASE op = "DISCONNECT" -> 1
              [] op = "RESET" -> 3
              [] OTHER -> 63]
=============================================================================

------------------------------ MODULE MCIwlRx ------------------------------
(***************************************************************************)
(* Instances of IwlRx: the teardown of a connection, whose commands all    *)
(* differ; a context that is added and removed; and the key handshake.     *)
(***************************************************************************)
EXTENDS IwlRx

NoScript == << >>
TearDown == <<"REMOVE_STA", "BINDING_CONTEXT_CMD", "MAC_CONTEXT_CMD">>
OneQueue == <<"SCD_QUEUE_CONFIG_CMD">>
AddThenRemove == <<"MAC_CONTEXT_CMD", "MAC_CONTEXT_CMD">>

Quiet == <<"msg1", "fragment", "deauth">>
Handshake == <<"msg1", "msg3">>
Rekey == <<"msg1", "msg3", "group">>
Beacons == <<"beacon", "beacon", "beacon", "beacon">>
=============================================================================

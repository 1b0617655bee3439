--------------------------- MODULE MCOpcuaAdapter ---------------------------
(* TLC instance of OpcuaAdapter: what a cfg cannot write. *)
EXTENDS OpcuaAdapter

\* A message that changes an input and then reads back: its first command is ignored and
\* its second raises while there is no OPC UA session.
MCCmdLists == {<<"set", "download">>}

\* Messages that never raise, with or without a session.
MCSetOnly == {<<"set">>}
=============================================================================

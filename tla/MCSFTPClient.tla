---------------------------- MODULE MCSFTPClient ----------------------------
(***************************************************************************)
(* One wrapper that makes every call, or the wrapper of the main queue and *)
(* the clone of a transfer queue; one local file.  The server may ask for  *)
(* one more factor or answer.                                              *)
(***************************************************************************)
EXTENDS SFTPClient

CONSTANTS main, transfer, f1

MCFiles     == {f1}
MCTransfers == {"retr", "stor"}
MCCommands  == {"connect", "disconnect", "list", "change", "delete", "noop"}

MCAlone        == {main}
MCOperations   == [w \in MCAlone |-> MCCommands \cup MCTransfers]
MCTransferring == [w \in MCAlone |-> MCTransfers]

MCWrappers == {main, transfer}
MCShared   == [w \in MCWrappers |-> IF w = main THEN MCCommands ELSE MCTransfers]

MCOne == {"interactive"}
MCTwo == {"key", "interactive"}
=============================================================================

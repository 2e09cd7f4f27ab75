--------------------------- MODULE MCServiceClient ---------------------------
(***************************************************************************)
(* ServiceClient for TLC: one operation of each client that writes, or is  *)
(* tried again.                                                            *)
(***************************************************************************)
EXTENDS ServiceClient

MCOps == {"create", "command", "ingest", "complete", "transcribe"}
=============================================================================

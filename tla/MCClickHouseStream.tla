------------------------- MODULE MCClickHouseStream -------------------------
(***************************************************************************)
(* A stream longer than the channel, so that the task has to wait for the  *)
(* backend and the backend for the task.                                   *)
(***************************************************************************)
EXTENDS ClickHouseStream
=============================================================================

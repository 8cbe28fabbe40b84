----------------------------- MODULE MCLiveScan -----------------------------
(***************************************************************************)
(* Pages of two, four elements at first and two more: what others do may   *)
(* fall before, inside and behind the page, and make the last page full or *)
(* short.                                                                  *)
(***************************************************************************)
EXTENDS LiveScan

MCSources == {"redis_list", "redis_stream", "clerk", "auth0"}
=============================================================================

--------------------------- MODULE MCMysqlWorker ---------------------------
(***************************************************************************)
(* Two questions, two rows each, two rows to write and two workers: one    *)
(* that was given up or disconnected and one in use.                       *)
(***************************************************************************)
EXTENDS MysqlWorker

CONSTANTS a1, a2

MCAsks == {a1, a2}
=============================================================================

--------------------------- MODULE MCWorkerAgent ---------------------------
(* An instance of WorkerAgent for TLC.  Alerts (the audit log) and changes  *)
(* of files (the scan) meet only in the channel of events: many of the one  *)
(* or many of the other, and one of each.                                   *)
EXTENDS WorkerAgent

MCLoads == {<<3, 0>>, <<1, 1>>, <<0, 3>>}
=============================================================================

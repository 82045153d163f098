----------------------------- MODULE MCSentinel -----------------------------
(* An instance of Sentinel for TLC: a session metric with a trend limit and *)
(* a hard ceiling, and a floor of a slower tier behind it.                  *)
EXTENDS Sentinel

MCOrder == <<"active_sessions", "cache_hit">>

MCKind == [m \in Metric |->
    CASE m = "active_sessions" -> "dual"
      [] m = "cache_hit" -> "floor"]

MCEvery == [m \in Metric |-> IF m = "active_sessions" THEN 1 ELSE 2]
=============================================================================

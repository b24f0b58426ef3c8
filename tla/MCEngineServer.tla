--------------------------- MODULE MCEngineServer ---------------------------
(* Sessions of a few requests, by what the peer asks for.                  *)
EXTENDS EngineServer, TLC

PlanAndRun == {"scan", "plan", "execute", "cancel", "set_rules"}
WithAerials == {"scan", "aerials"}
Mixed == {"scan", "plan", "execute", "cancel", "tick", "aerials_switch", "history", "updates",
          "rules", "malformed"}
=============================================================================

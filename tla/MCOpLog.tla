------------------------------ MODULE MCOpLog ------------------------------
(* Two processes of two appends each, at any step of which the disk may    *)
(* fill, either may be killed and the machine may lose power.              *)
EXTENDS OpLog

CONSTANTS clean, tick

TwoProcs == {clean, tick}
============================================================================

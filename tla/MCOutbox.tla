------------------------------ MODULE MCOutbox -----------------------------
(* Two goroutines of two events each, say a scan and the request loop.     *)
EXTENDS Outbox

CONSTANTS scan, loop

TwoSenders == {scan, loop}
============================================================================

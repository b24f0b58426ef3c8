------------------------------- MODULE Stream ------------------------------
(***************************************************************************)
(* What the engine's event stream promises its peer: the events accepted   *)
(* from every goroutine, in the order they were accepted, each once, up to *)
(* some point.  Outbox.tla implements this.                                *)
(***************************************************************************)
EXTENDS Naturals, Sequences

CONSTANT Event

VARIABLES accepted,   \* the events send took, in order
          delivered   \* the events the peer can have read

vars == <<accepted, delivered>>

Init == accepted = <<>> /\ delivered = <<>>

Accept(e) == accepted' = Append(accepted, e) /\ UNCHANGED delivered
Deliver == /\ Len(delivered) < Len(accepted)
           /\ delivered' = SubSeq(accepted, 1, Len(delivered) + 1)
           /\ UNCHANGED accepted

Next == (\E e \in Event : Accept(e)) \/ Deliver
Spec == Init /\ [][Next]_vars
============================================================================

----------------------------- MODULE MCAutopilot -----------------------------
(* Two processes and a cache of two entries. *)
EXTENDS Autopilot, TLC

CONSTANTS p1, p2, e1, e2

Earlier(kind, event) == [run |-> 0, kind |-> kind, event |-> event, hand |-> TRUE]
\* A clean of the rule and a prune that failed, and one that did not.
SomePast == {<<Earlier("native", "start"), Earlier("", "done"), [Earlier("prune", "start") EXCEPT !.run = -1]>>,
             <<Earlier("prune", "start"), Earlier("", "done")>>}
SomeHours == 3..5
FreeBlocks == {0, 2}
SomeTargets == {3}
Symmetry == Permutations(Proc) \cup Permutations(Entry)
==============================================================================

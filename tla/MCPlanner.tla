------------------------------ MODULE MCPlanner ------------------------------
(* Small scans. The paths are /b, /b/c inside it, /b- which sorts between    *)
(* the two without a closing slash, and /d, of which nothing can be read.    *)
EXTENDS Planner

SlashChar == 2
B  == <<3>>
BC == <<3, 2, 4>>
BX == <<3, 1>>
D  == <<5>>
Tool == <<0>>
AllFiles == {B \o <<2, 6>>, BC \o <<2, 6>>, BC \o <<2, 7>>, BX \o <<2, 6>>, D \o <<2, 6>>, Tool}
LockedFiles == {D \o <<2, 6>>, BC \o <<2, 7>>}
GuardedPaths == {BX}

At(p) == [path |-> p, key |-> p]
ToolItem == [path |-> NoPath, key |-> Tool]

Kind(risk, cmd, empties, sudo, exports, phantom) ==
  [risk |-> risk, cmd |-> cmd, empties |-> empties, sudo |-> sudo, exports |-> exports, phantom |-> phantom]
Trashed  == Kind("safe", "none", FALSE, FALSE, FALSE, FALSE)
Shown    == Kind("surface-only", "none", FALSE, FALSE, FALSE, FALSE)
Phantom  == Kind("surface-only", "none", FALSE, FALSE, FALSE, TRUE)
Whole    == Kind("safe", "whole", FALSE, TRUE, FALSE, FALSE)
Empties  == Kind("caution", "whole", TRUE, FALSE, FALSE, FALSE)
ByPath   == Kind("safe", "path", FALSE, TRUE, FALSE, FALSE)
ByArg    == Kind("caution", "arg", FALSE, FALSE, TRUE, FALSE)

Found(rule, items) == [rule |-> rule, items |-> items, failed |-> FALSE]
Finds(kinds, lists) == {Found(k, l) : k \in kinds, l \in lists}

\* Three rules, nested in every way.
Nested == LET one == {<<At(B)>>, <<At(BC)>>, <<At(BX)>>} IN
  {<<x, y, z>> : x \in Finds({Trashed, Shown, Whole}, one \cup {<<At(BX), At(BC)>>}),
                 y \in Finds({Trashed, ByArg}, one),
                 z \in Finds({Shown, Empties, ByPath}, {<<At(B)>>, <<At(BC)>>})}

\* Two rules with several items each: read or not, twice the same, no path.
Lists == {<<>>, <<At(D)>>, <<At(D), At(B)>>, <<At(BC), At(BC)>>, <<At(B), At(BX), At(BC)>>}
Mixed ==
  {<<x, y>> : x \in Finds({Trashed, Whole, ByPath}, Lists \cup {<<ToolItem, At(BC)>>}) \cup {[Found(Trashed, <<At(B)>>) EXCEPT !.failed = TRUE]},
              y \in Finds({Trashed, Shown, Phantom, Empties, ByArg}, Lists)}

SmallScans == Nested \cup Mixed
Faces == {[noSudo |-> FALSE, missing |-> {}], [noSudo |-> TRUE, missing |-> {}], [noSudo |-> FALSE, missing |-> {1}]}
==============================================================================

----------------------------- MODULE MCExecutor ----------------------------
(* Plans and disks small enough for TLC: paths p and q have the same last  *)
(* element, Cache, or one that differs in case only.                       *)
EXTENDS Executor, TLC

CONSTANTS p, q, run1, run2, Cache, cache

Trash_(path) == [kind |-> "trash", path |-> path, bytes |-> 1, pre |-> "none",
                 measured |-> FALSE, empties |-> FALSE]
Checked(path) == [Trash_(path) EXCEPT !.pre = "check"]
Command == [kind |-> "native", path |-> Nowhere, bytes |-> 2, pre |-> "none",
            measured |-> FALSE, empties |-> FALSE]
EmptyTrash == [Command EXCEPT !.empties = TRUE]
Export == [Command EXCEPT !.pre = "export"]
Measured == [Command EXCEPT !.measured = TRUE]
Prune == [Measured EXCEPT !.kind = "prune"]

Folded == Cache :> Cache @@ cache :> Cache

TwoPaths == {p, q}
SameBases == p :> Cache @@ q :> Cache
CaseBases == p :> Cache @@ q :> cache
TwoFirst == p :> 1 @@ q :> 2
TwoRuns == {run1, run2}
TwoPlan == run1 :> <<Trash_(p)>> @@ run2 :> <<Trash_(q)>>
ShortPlan == run1 :> <<EmptyTrash, Trash_(p), Trash_(q)>> @@ run2 :> <<>>
MovesPlan == run1 :> <<EmptyTrash, Checked(p), Prune, Trash_(q)>> @@ run2 :> <<>>
CommandsPlan == run1 :> <<Checked(p), Measured, Export, Prune>> @@ run2 :> <<>>

\* One run after the other; names that differ in case, on a volume that is
\* blind to it.
InTurn == [plan |-> TwoPlan, base |-> CaseBases, caseBlind |-> TRUE, engine |-> {}, unborn |-> {3},
           mayRefuse |-> {}, mayNotIdentify |-> TRUE, journalMayFail |-> TRUE, mayDie |-> TRUE,
           finderLags |-> FALSE, ownerTrashes |-> FALSE, overlap |-> FALSE]

\* The same, where Finder may get to a move although osascript ended with
\* an error.
LateInTurn == [InTurn EXCEPT !.finderLags = TRUE, !.mayDie = FALSE]

\* Items of one name, whose copies may take it over from one another, where
\* Lstat of a copy may be refused.
Refusing == [InTurn EXCEPT !.base = SameBases, !.mayRefuse = {InTrash(Cache, 1)},
                           !.mayDie = FALSE]

\* Two runs and an undo at once, of items of one name.
AtOnce == [InTurn EXCEPT !.base = SameBases, !.caseBlind = FALSE, !.unborn = {},
                         !.ownerTrashes = TRUE, !.overlap = TRUE]

\* One run of the engine: an Empty Trash, moves and what comes between them;
\* then commands of every kind.
Moves == [InTurn EXCEPT !.plan = MovesPlan, !.base = SameBases, !.caseBlind = FALSE,
                        !.engine = {run1}, !.unborn = {}, !.mayNotIdentify = FALSE]
Commands == [Moves EXCEPT !.plan = CommandsPlan]

\* A terminal's run of three, whose moves Finder may get to after an error.
Lagging == [Moves EXCEPT !.plan = ShortPlan, !.engine = {}, !.unborn = {3}, !.finderLags = TRUE]

AllWorlds == {InTurn, LateInTurn, Refusing, AtOnce, Moves, Commands, Lagging}

\* Nothing but a lost journal line goes wrong.
LostLine == {[InTurn EXCEPT !.base = SameBases, !.caseBlind = FALSE, !.unborn = {}, !.mayDie = FALSE]}
============================================================================

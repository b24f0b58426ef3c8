----------------------------- MODULE MCMachine -----------------------------
(* The Machine's three parts, and one more that shares no state with them:   *)
(* the scanner's queries with their rechecks; and which calls, ticks and     *)
(* processes there are on a small machine.                                   *)
EXTENDS Machine, TLC

CONSTANTS Query, MaxChanges, MaxRechecks

VARIABLES query, world, changes, offered, job, went

Q == INSTANCE Recheck

queryVars == <<query, world, changes, offered, job, went>>

NoQuery == query = 0 /\ world = 0 /\ changes = 0 /\ offered = 0 /\ job = 0 /\ went = {}

PartInit == \/ Init /\ NoQuery
            \/ part = "queries" /\ Q!Init /\ NoAerials /\ NoUpdates /\ NoHeadroom

PartNext == \/ Next /\ UNCHANGED queryVars
            \/ part = "queries" /\ Q!Next /\ UNCHANGED vars

PartSpec == PartInit /\ [][PartNext]_<<vars, queryVars>>

\* What keeps an item all through its recheck keeps it (Recheck).
UsedStays == part = "queries" => Q!UsedStays

\* A recheck after no change lets go what the scan offered (Recheck).
RecheckAgrees == part = "queries" => Q!RecheckAgrees

----------------------------------------------------------------------------
CONSTANTS o1, o2, o3, p1, p2

\* Two offs and an on, or an off and two ons; or two of them, and the owner
\* and macOS twice meanwhile.
Calls == {o1, o2, o3}
Offs == o1 :> <<"off", FALSE>> @@ o2 :> <<"off", TRUE>> @@ o3 :> <<"on", FALSE>>
Ons == o1 :> <<"off", TRUE>> @@ o2 :> <<"on", FALSE>> @@ o3 :> <<"on", TRUE>>
FewCasts == {[call |-> Offs, made |-> Calls, changes |-> 0],
             [call |-> Ons, made |-> Calls, changes |-> 0],
             [call |-> Offs, made |-> {o1, o2}, changes |-> 2],
             [call |-> Offs, made |-> {o1, o3}, changes |-> 2],
             [call |-> Ons, made |-> {o1, o3}, changes |-> 2]}

\* One process that ticks while free space goes up and down past both lines;
\* two that come to a history with samples past the retention and the slack.
TwoTickers == {p1, p2}
TwoBands == <<20, 10>>
At(t) == [at |-> t, free |-> 25]
FewScenes == {[tickers |-> {p1}, earlier |-> <<At(3), At(5)>>, readings |-> {25, 21, 15, 5}, ticks |-> 3],
              [tickers |-> {p1, p2}, earlier |-> <<At(0), At(3), At(5)>>, readings |-> {25, 5}, ticks |-> 2]}
=============================================================================

------------------------------ MODULE Autopilot ------------------------------
(***************************************************************************)
(* The prune of a cache (internal/autopilot/autopilot.go and state.go,     *)
(* internal/engine/prune.go, the executor's prune action): ticks with      *)
(* autotrim, the engine's and `regrow tick`'s, beside `regrow prune` by    *)
(* hand, each a process of its own. Builds come and go, entries are used   *)
(* while a prune runs, and a process may be killed at any step, its find   *)
(* left running.                                                           *)
(*                                                                         *)
(* Time is in hours, as the cutoff is; an entry takes one block. A clock   *)
(* set back is left out.                                                   *)
(***************************************************************************)
EXTENDS Integers, Sequences, FiniteSets, FiniteSetsExt

CONSTANTS
  Proc,       \* regrow processes
  Entry,      \* the cache's entries
  MaxOps,     \* the most ticks and prunes
  Hours,      \* the hours there are
  MinAge,     \* Prune.MinAge, at least one hour
  KeepUnder,  \* Prune.KeepUnder, in blocks
  Free,       \* what free space may read, in blocks
  Targets,    \* Target: the top band, or what the forecast raises it to
  Critical,   \* criticalFree
  Limit,      \* deferLimit
  Gap,        \* deferGap
  Past        \* what the oplog may hold already

Line == [run : Int, kind : {"prune", "native", ""}, event : {"start", "done", "fail"}, hand : BOOLEAN]

ASSUME AutopilotAssumption ==
  /\ Hours \subseteq Nat \ {0} /\ Hours # {}
  /\ MinAge \in Nat \ {0} /\ Limit \in Nat \ {0} /\ Gap \in Nat
  /\ IsFiniteSet(Entry)
  /\ KeepUnder \in Nat \ {0}
  /\ MaxOps \in Nat
  /\ \A l \in Past : l \in Seq(Line) /\ \A i \in DOMAIN l : l[i].hand
  /\ Free \subseteq Nat /\ Targets \subseteq Nat /\ Critical \in Nat

VARIABLES
  now,
  cache,     \* of each entry: is it there, and the hour of its last use
  inode,     \* what the name prune.state leads to
  clock,     \* the Deferral the file holds
  log,       \* the oplog's entries of the rule; "hand" is not in the file
  pc,
  do,        \* what each process knows
  orphans,   \* the cutoffs of finds whose process was killed
  ops,
  \* What was seen, for OverrideExact:
  seen,      \* hours autotrim saw a build in, since it last went ahead
  saved      \* hours whose deferral was saved, since the clock last stopped

machine == <<now, cache, orphans>>
state   == <<inode, clock, seen, saved>>
vars    == <<now, cache, inode, clock, log, pc, do, orphans, ops, seen, saved>>

\* The Deferral; Stopped is the zero one, and what an empty file reads as.
Stopped == [since |-> 0, last |-> 0]
Idle == [hand |-> FALSE, free |-> 0, target |-> 0, holds |-> 0, id |-> 0,
         next |-> Stopped, building |-> FALSE, go |-> FALSE, cutoff |-> 0, failed |-> FALSE]

-----------------------------------------------------------------------------
(* The gate, the deferral, the plan.                                       *)

\* (Variant: started is enough.)
GateStarted == \E i \in DOMAIN log : log[i].event = "start" /\ log[i].kind = "prune"

\* Gate: the oplog holds a prune of the rule that was completed.
GateOpen == \E i, j \in DOMAIN log :
  /\ i < j /\ log[i].run = log[j].run
  /\ log[i].event = "start" /\ log[i].kind = "prune" /\ log[j].event = "done"

\* (Variant: a clock that a long pause does not stop.)
StartedEver(d) == IF d = Stopped THEN now ELSE d.since

\* Deferral.Next: the clock runs from the first of an unbroken run of
\* deferrals, and says go once it ran for Limit with little space left.
Started(d) == IF d = Stopped \/ now - d.last > Gap THEN now ELSE d.since
MayOverride(d, free) == now - Started(d) >= Limit /\ free < Critical
Goes(d, building, free) == ~building \/ MayOverride(d, free)
NextDeferral(d, building, free) ==
  IF Goes(d, building, free) THEN Stopped ELSE [since |-> Started(d), last |-> now]

Here == {e \in Entry : cache[e].here}
UpTo(h) == {e \in Here : cache[e].hour <= h}

\* (Variant: the hour that is just MinAge ago may go too.)
OldHoursLate == {cache[e].hour : e \in Here} \cap 0..(now - MinAge)

\* The whole hours that ended MinAge ago or earlier.
OldHours == {cache[e].hour : e \in Here} \cap 0..(now - MinAge - 1)

\* (Variant: as much as the headroom asks, whatever the cache may keep.)
WantNeed(d) == IF d.hand THEN Cardinality(Here) - KeepUnder ELSE d.target - d.free

\* The blocks to delete; by hand there is no headroom bound.
Want(d) ==
  LET over == Cardinality(Here) - KeepUnder IN
  IF d.hand THEN over ELSE Min({over, d.target - d.free})

\* cacheHist.cutoff: the earliest of the hours by which the oldest entries
\* hold what is wanted, and the last one when they never do.
IsCutoff(h, d) ==
  /\ \A k \in OldHours : k < h => Cardinality(UpTo(k)) < Want(d)
  /\ Cardinality(UpTo(h)) >= Want(d) \/ \A k \in OldHours : k <= h

-----------------------------------------------------------------------------
(* One tick, or one prune by hand.                                         *)

Journaled(d, event) ==
  [run |-> d.id, kind |-> IF event = "start" THEN "prune" ELSE "", event |-> event, hand |-> d.hand]

\* Every return: the deferred unlock closes the file, which drops the flock.
End(p) == pc' = [pc EXCEPT ![p] = "idle"] /\ do' = [do EXCEPT ![p] = Idle]
Goto(p, step) == pc' = [pc EXCEPT ![p] = step]

Begin(p, d, step) ==
  /\ pc[p] = "idle" /\ ops < MaxOps
  /\ ops' = ops + 1
  /\ do' = [do EXCEPT ![p] = [d EXCEPT !.id = ops + 1]]
  /\ Goto(p, step)
  /\ UNCHANGED <<machine, state, log>>

\* A tick with autotrim on that finds headroom low; any other changes nothing.
Tick(p) == \E f \in Free, t \in Targets :
  f < t /\ Begin(p, [Idle EXCEPT !.free = f, !.target = t], "gate")

PruneByHand(p) == Begin(p, [Idle EXCEPT !.hand = TRUE], "lock")

\* The oplog may be unreadable, and then the gate is shut.
ReadGate(p) ==
  /\ pc[p] = "gate"
  /\ \/ GateOpen /\ Goto(p, "lock") /\ UNCHANGED do
     \/ End(p)
  /\ UNCHANGED <<machine, state, log, ops>>

\* lockState: an flock on the file the name leads to, without waiting.
Locked == \E q \in Proc : do[q].holds = inode
Lock(p) ==
  /\ pc[p] = "lock"
  /\ \/ /\ ~Locked
        /\ do' = [do EXCEPT ![p].holds = inode, ![p].next = clock]
        /\ Goto(p, "look")
     \/ End(p)
  /\ UNCHANGED <<machine, state, log, ops>>

\* The process list; without it nothing runs. By hand a build refuses,
\* autotrim asks the deferral clock.
LookForBuilds(p) ==
  /\ pc[p] = "look"
  /\ \/ End(p) /\ UNCHANGED seen
     \/ do[p].hand /\ Goto(p, "plan") /\ UNCHANGED <<do, seen>>
     \/ \E building \in BOOLEAN :
          /\ ~do[p].hand
          /\ do' = [do EXCEPT ![p] = [do[p] EXCEPT !.next = NextDeferral(@, building, do[p].free),
               !.building = building, !.go = Goes(do[p].next, building, do[p].free)]]
          /\ seen' = IF building THEN seen \cup {now} ELSE seen
          /\ Goto(p, "truncate")
  /\ UNCHANGED <<machine, inode, clock, saved, log, ops>>

\* save rewrites the file in place: it is empty until the write, and stays so
\* when the process is killed or the disk is full.
Truncate(p) ==
  /\ pc[p] = "truncate"
  /\ \/ End(p) /\ UNCHANGED clock
     \/ clock' = Stopped /\ Goto(p, "save") /\ UNCHANGED do
  /\ UNCHANGED <<machine, inode, seen, saved, log, ops>>

Unsaved(p) ==
  /\ pc[p] = "save"
  /\ saved' = {}
  /\ End(p)
  /\ UNCHANGED <<machine, inode, clock, seen, log, ops>>

\* (Variant: written to another file, which is renamed over the locked one.)
SaveByRename(p) ==
  /\ pc[p] = "save"
  /\ inode' = inode + 1 /\ clock' = do[p].next
  /\ IF do[p].go THEN seen' = {} /\ saved' = {} /\ Goto(p, "plan") /\ UNCHANGED do
     ELSE saved' = saved \cup {clock'.last} /\ UNCHANGED seen /\ End(p)
  /\ UNCHANGED <<machine, log, ops>>

Save(p) ==
  /\ pc[p] = "save"
  /\ clock' = do[p].next
  /\ IF do[p].go THEN seen' = {} /\ saved' = {} /\ Goto(p, "plan") /\ UNCHANGED do
     ELSE saved' = saved \cup {clock'.last} /\ UNCHANGED seen /\ End(p)
  /\ UNCHANGED <<machine, inode, log, ops>>

\* PrunePlan: it may find no cache to prune, or another volume's.
Plan(p) ==
  /\ pc[p] = "plan"
  /\ \/ End(p)
     \/ /\ Cardinality(Here) > KeepUnder
        /\ \E h \in OldHours :
             IsCutoff(h, do[p]) /\ do' = [do EXCEPT ![p].cutoff = h]
        /\ Goto(p, "start")
  /\ UNCHANGED <<machine, state, log, ops>>

\* The executor journals the start; an Append that fails may have written.
\* The target is checked and measured again before the find runs.
JournalStart(p) ==
  /\ pc[p] = "start"
  /\ \/ log' = Append(log, Journaled(do[p], "start")) /\ Goto(p, "find") /\ UNCHANGED do
     \/ /\ log' = Append(log, Journaled(do[p], "start"))
        /\ do' = [do EXCEPT ![p].failed = TRUE]
        /\ Goto(p, "after")
     \/ log' \in {log, Append(log, Journaled(do[p], "start"))} /\ End(p)
  /\ UNCHANGED <<machine, state, ops>>

Matches(e, c) == cache[e].here /\ cache[e].hour <= c
Deletes(c) == \E e \in Entry :
  Matches(e, c) /\ cache' = [cache EXCEPT ![e].here = FALSE]

\* find looks at each entry again, and deletes it if it is old still.
Find(p) ==
  /\ pc[p] = "find"
  /\ Deletes(do[p].cutoff)
  /\ UNCHANGED <<now, orphans, state, log, pc, do, ops>>

\* It ends when nothing matches, or fails, or is canceled.
FindEnds(p) ==
  /\ pc[p] = "find"
  /\ \E failed \in BOOLEAN :
       /\ failed \/ \A e \in Entry : ~Matches(e, do[p].cutoff)
       /\ do' = [do EXCEPT ![p].failed = failed]
  /\ Goto(p, "after")
  /\ UNCHANGED <<machine, state, log, ops>>

JournalAfter(p) ==
  /\ pc[p] = "after"
  /\ log' \in {log, Append(log, Journaled(do[p], IF do[p].failed THEN "fail" ELSE "done"))}
  /\ End(p)
  /\ UNCHANGED <<machine, state, ops>>

-----------------------------------------------------------------------------
(* Around it.                                                              *)

\* The kernel drops the flock; a find goes on, or is killed as well.
Kill(p) ==
  /\ pc[p] # "idle"
  /\ saved' = IF pc[p] = "save" THEN {} ELSE saved
  /\ \/ UNCHANGED orphans
     \/ pc[p] = "find" /\ orphans' = orphans \cup {do[p].cutoff}
  /\ End(p)
  /\ UNCHANGED <<now, cache, inode, clock, seen, log, ops>>

OrphanFinds ==
  /\ \E c \in orphans : Deletes(c)
  /\ UNCHANGED <<now, orphans, state, log, pc, do, ops>>

OrphanEnds ==
  /\ \E c \in orphans : orphans' = orphans \ {c}
  /\ UNCHANGED <<now, cache, state, log, pc, do, ops>>

\* The go command uses an entry, or writes one.
Use(e) ==
  /\ cache' = [cache EXCEPT ![e] = [here |-> TRUE, hour |-> now]]
  /\ UNCHANGED <<now, orphans, state, log, pc, do, ops>>

HourPasses ==
  /\ now + 1 \in Hours /\ now' = now + 1
  /\ UNCHANGED <<cache, orphans, state, log, pc, do, ops>>

Init ==
  /\ now \in Hours /\ \A h \in Hours : now <= h
  /\ cache \in [Entry -> [here : {TRUE}, hour : 0..now]]
  /\ inode = 1 /\ clock = Stopped /\ log \in Past
  /\ pc = [p \in Proc |-> "idle"] /\ do = [p \in Proc |-> Idle]
  /\ orphans = {} /\ ops = 0
  /\ seen = {} /\ saved = {}

Next ==
  \/ \E p \in Proc :
       \/ Tick(p) \/ PruneByHand(p) \/ ReadGate(p) \/ Lock(p) \/ LookForBuilds(p)
       \/ Truncate(p) \/ Unsaved(p) \/ Save(p) \/ Plan(p) \/ JournalStart(p)
       \/ Find(p) \/ FindEnds(p) \/ JournalAfter(p) \/ Kill(p)
  \/ OrphanFinds \/ OrphanEnds \/ (\E e \in Entry : Use(e)) \/ HourPasses

Spec == Init /\ [][Next]_vars
-----------------------------------------------------------------------------
(* Properties.                                                             *)

Deferral == [since : Nat, last : Nat]
Doing == [hand : BOOLEAN, free : Nat, target : Nat, holds : Nat, id : Nat, next : Deferral,
          building : BOOLEAN, go : BOOLEAN, cutoff : Nat, failed : BOOLEAN]

\* Every variable keeps its type, the state file's lock and clock included.
TypeOK ==
  /\ now \in Hours /\ ops \in 0..MaxOps
  /\ cache \in [Entry -> [here : BOOLEAN, hour : Nat]]
  /\ inode \in Nat \ {0} /\ clock \in Deferral
  /\ log \in Seq(Line)
  /\ pc \in [Proc -> {"idle", "gate", "lock", "look", "truncate", "save", "plan", "start", "find", "after"}]
  /\ do \in [Proc -> Doing]
  /\ orphans \subseteq Nat
  /\ seen \subseteq Hours /\ saved \subseteq Nat

\* Autotrim starts no prune before one by hand was completed, as far as the
\* journal tells (Gate: it "cannot produce the first one").
ManualFirst == \A i \in DOMAIN log :
  log[i].kind = "prune" /\ ~log[i].hand =>
    \E j, k \in 1..(i - 1) : /\ log[j].kind = "prune" /\ log[j].hand
                             /\ log[k].event = "done" /\ log[k].run = log[j].run /\ j < k

\* From the look for builds to the last line of the journal there is one
\* process (the flock on prune.state is the single flight).
Pruning == {p \in Proc : pc[p] \in {"look", "truncate", "save", "plan", "start", "find", "after"}}
OneFlight == \A p, q \in Pruning : p = q

\* Nothing used within MinAge is deleted, whenever it was used: before the
\* plan, after it, or while a find runs whose process is long gone.
RecentSurvives == [][\A e \in Entry :
  cache[e].here /\ ~cache'[e].here => cache[e].hour + 1 + MinAge <= now]_vars

\* All prunes, and finds left behind, together leave more than KeepUnder but
\* for what was last used in the latest hour they took (Prune: "the last hour
\* taken can carry the cache below").
KeepsEnough ==
  LET gone == Entry \ Here IN
  gone # {} =>
    LET latest == Max({cache[e].hour : e \in gone})
    IN Cardinality(Here \cup {e \in gone : cache[e].hour = latest}) > KeepUnder

\* A build has put autotrim off in these hours, for Limit and without a gap.
Unbroken(hours) == \E a \in hours :
  /\ now - a >= Limit
  /\ \A t \in hours : a <= t /\ t < now => \E u \in hours \cup {now} : t < u /\ u - t <= Gap

\* Autotrim runs beside a build only after builds were seen for Limit on end
\* since it last ran, with space critical; and once such deferrals were all
\* saved it does run: a crash, a full disk or a prune by hand may cost the
\* wait, and may neither shorten nor stretch it otherwise.
OverrideExact == [][\A p \in Proc :
  pc[p] = "look" /\ pc'[p] = "truncate" /\ do'[p].building =>
    /\ do'[p].go => do[p].free < Critical /\ Unbroken(seen)
    /\ do[p].free < Critical /\ Unbroken(saved) => do'[p].go]_vars
==============================================================================

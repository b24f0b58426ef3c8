------------------------------- MODULE Walker -------------------------------
(***************************************************************************)
(* internal/scanner's walker: sizes of trees whose filesystem calls may    *)
(* never answer.  Several sizings (rules, a rescan, a recheck) share one   *)
(* set of blocked paths and one progress clock.  A call that stalls is     *)
(* written off: its goroutine stays, its path is blocked until it answers, *)
(* and a replacement worker goes on with the rest.                         *)
(*                                                                         *)
(* Time is in stall windows: StallPasses is one of them without an answer. *)
(***************************************************************************)
EXTENDS Naturals, FiniteSets, Sequences

CONSTANTS Dir,          \* the folders of the disk
          Above,        \* each folder's own path and the folders it is in
          Refusing,     \* folders that may refuse to be read (no Full Disk Access)
          Vanishing,    \* folders the owner may delete meanwhile
          Sizing,       \* calls of usage
          Cancelable,   \* those whose ctx may end
          Scenes,       \* what is sized, the folders there are, walkWorkers
          MaxWriteOffs  \* maxWriteOffs

ASSUME WalkerAssumption ==
  /\ Dir # {}
  /\ \A d \in Dir : d \in Above[d] /\ Above[d] \subseteq Dir /\ IsFiniteSet(Above[d])
  /\ \A d \in Dir : \A e, f \in Above[d] :
       /\ Above[e] \subseteq Above[d] /\ (e \in Above[f] \/ f \in Above[e])
       /\ d \in Above[e] => e = d
  /\ \A sc \in Scenes : /\ DOMAIN sc.root \subseteq Sizing
                        /\ \A s \in DOMAIN sc.root : sc.root[s] \in Dir
                        /\ sc.there \subseteq Dir /\ sc.workers \in Nat \ {0}
                        /\ \A d \in sc.there : Above[d] \subseteq sc.there
  /\ MaxWriteOffs \in Nat

VARIABLES scene,     \* which of the scenes this is
          there,     \* the folders that exist
          blocked,   \* blockedSet
          quiet,     \* no call of the walker answered for the stall window
          at,        \* where each sizing is: its lstat, its walk, done
          lone,      \* its lstat: not out, out, out for a stall window, written off
          ended,     \* its ctx
          dirs,      \* walkState: folders to visit
          active,    \* walkState: folders held by workers
          slots,     \* walkState: one per worker
          writeOffs, partial, stopped,   \* walkState
          seen,      \* how often each folder's entries were added up
          result     \* what usage returned

walkVars == <<dirs, active, slots, writeOffs, partial, stopped, seen>>
callVars == <<at, lone, result>>
vars == <<scene, there, blocked, quiet, at, lone, ended, dirs, active, slots,
          writeOffs, partial, stopped, seen, result>>

root == scene.root
Below(d) == {k \in Dir : d \in Above[k]}
Subdirs(d) == {k \in Below(d) \ {d} : Cardinality(Above[k]) = Cardinality(Above[d]) + 1}
Covers(d) == Above[d] \cap blocked # {}

NoResult == [found |-> FALSE, whole |-> FALSE]
NewSlot == [pc |-> "pop", dir |-> CHOOSE d \in Dir : TRUE, gone |-> FALSE, late |-> FALSE,
            visited |-> FALSE, whole |-> TRUE]
Exited == [NewSlot EXCEPT !.pc = "exit"]
Busy(sl) == sl.pc \notin {"pop", "exit"}

Init == /\ scene \in Scenes
        /\ there = scene.there
        /\ blocked = {}
        /\ quiet = FALSE
        /\ at = [s \in Sizing |-> IF s \in DOMAIN root THEN "new" ELSE "done"]
        /\ lone = [s \in Sizing |-> "none"]
        /\ ended = [s \in Sizing |-> FALSE]
        /\ dirs = [s \in Sizing |-> {}]
        /\ active = [s \in Sizing |-> 0]
        /\ slots = [s \in Sizing |-> <<>>]
        /\ writeOffs = [s \in Sizing |-> 0]
        /\ partial = [s \in Sizing |-> FALSE]
        /\ stopped = [s \in Sizing |-> FALSE]
        /\ seen = [s \in Sizing |-> [d \in Dir |-> 0]]
        /\ result = [s \in Sizing |-> NoResult]

----------------------------------------------------------------------------
(* The root's lstat, through bounded. *)

Returns(s, found, whole) ==
  /\ at' = [at EXCEPT ![s] = "done"]
  /\ result' = [result EXCEPT ![s] = [found |-> found, whole |-> whole]]

\* An ended scan starts no call, and a blocked path is not called.
Lstat(s) ==
  /\ at[s] = "new"
  /\ \/ /\ ended[s] \/ Covers(root[s])
        /\ Returns(s, TRUE, FALSE)
        /\ UNCHANGED lone
     \/ /\ ~ended[s] /\ ~Covers(root[s])
        /\ at' = [at EXCEPT ![s] = "lstat"]
        /\ lone' = [lone EXCEPT ![s] = "out"]
        /\ UNCHANGED result
  /\ UNCHANGED <<scene, there, blocked, quiet, ended, walkVars>>

LstatAnswers(s) ==
  /\ at[s] = "lstat"
  /\ lone' = [lone EXCEPT ![s] = "none"]
  /\ quiet' = FALSE
  /\ \/ /\ root[s] \notin there          \* absent
        /\ Returns(s, FALSE, TRUE)
        /\ UNCHANGED <<dirs, slots>>
     \/ /\ root[s] \in Refusing          \* refused
        /\ Returns(s, TRUE, FALSE)
        /\ UNCHANGED <<dirs, slots>>
     \/ /\ root[s] \in there             \* a folder: its walk starts
        /\ at' = [at EXCEPT ![s] = "walk"]
        /\ dirs' = [dirs EXCEPT ![s] = {root[s]}]
        /\ slots' = [slots EXCEPT ![s] = [i \in 1..scene.workers |-> NewSlot]]
        /\ UNCHANGED result
  /\ UNCHANGED <<scene, there, blocked, ended, active, writeOffs, partial, stopped, seen>>

\* Given up on, at the stall window or as ctx ends: the path is blocked.
Abandon(s) == /\ lone' = [lone EXCEPT ![s] = "written off"]
              /\ blocked' = blocked \cup {root[s]}

LstatWrittenOff(s) ==
  /\ at[s] = "lstat" /\ lone[s] = "late" /\ quiet
  /\ Abandon(s)
  /\ Returns(s, TRUE, FALSE)
  /\ UNCHANGED <<scene, there, quiet, ended, walkVars>>

\* ctx ends first, with the call still out or just answered.
LstatCanceled(s) ==
  /\ at[s] = "lstat" /\ ended[s]
  /\ \/ Abandon(s)
     \/ lone' = [lone EXCEPT ![s] = "none"] /\ UNCHANGED blocked
  /\ Returns(s, TRUE, FALSE)
  /\ UNCHANGED <<scene, there, quiet, ended, walkVars>>

LateAnswer(s) ==
  /\ lone[s] = "written off"
  /\ lone' = [lone EXCEPT ![s] = "none"]
  /\ blocked' = blocked \ {root[s]}
  /\ UNCHANGED <<scene, there, quiet, ended, at, result, walkVars>>

----------------------------------------------------------------------------
(* A worker: pop, look whether the folder is blocked, open, then touch and *)
(* read until the end, close, finish.                                      *)

Slot(s, i) == slots[s][i]
Moves(s, i, to) == slots' = [slots EXCEPT ![s][i].pc = to]

Pop(s, i) ==
  /\ Slot(s, i).pc = "pop"
  /\ \/ /\ ~stopped[s]
        /\ \E d \in dirs[s] :
             /\ dirs' = [dirs EXCEPT ![s] = @ \ {d}]
             /\ slots' = [slots EXCEPT ![s][i] = [NewSlot EXCEPT !.pc = "look", !.dir = d]]
        /\ active' = [active EXCEPT ![s] = @ + 1]
        /\ UNCHANGED stopped
     \/ /\ stopped[s] \/ (dirs[s] = {} /\ active[s] = 0)
        /\ slots' = [slots EXCEPT ![s][i] = Exited]
        /\ stopped' = [stopped EXCEPT ![s] = TRUE]
        /\ UNCHANGED <<dirs, active>>
  /\ UNCHANGED <<scene, there, blocked, quiet, ended, callVars, writeOffs, partial, seen>>

Look(s, i) ==
  /\ Slot(s, i).pc = "look"
  /\ slots' = [slots EXCEPT ![s][i] =
       IF Covers(@.dir) THEN [@ EXCEPT !.pc = "finish", !.whole = FALSE] ELSE [@ EXCEPT !.pc = "open"]]
  /\ UNCHANGED <<scene, there, blocked, quiet, ended, callVars, dirs, active, writeOffs, partial, stopped, seen>>

\* Opened, gone meanwhile, or refused.
OpenAnswers(s, i) ==
  LET d == Slot(s, i).dir IN
  /\ Slot(s, i).pc = "open"
  /\ \/ d \in there /\ Moves(s, i, "touch")
     \/ d \notin there /\ Moves(s, i, "finish")
     \/ /\ d \in Refusing
        /\ slots' = [slots EXCEPT ![s][i].pc = "finish", ![s][i].whole = FALSE]
  /\ UNCHANGED <<scene, there, blocked, quiet, ended, callVars, dirs, active, writeOffs, partial, stopped, seen>>

\* A written-off worker that came back unblocks its folder.
\* (Variant: it does not.)
AnsweredOnly(s, i) == blocked' = blocked
Answered(s, i) == blocked' = IF Slot(s, i).gone THEN blocked \ {Slot(s, i).dir} ELSE blocked

Touch(s, i) ==
  /\ Slot(s, i).pc = "touch"
  /\ Answered(s, i)
  /\ IF Slot(s, i).gone \/ stopped[s]
     THEN /\ slots' = [slots EXCEPT ![s][i].pc = "close", ![s][i].whole = FALSE]
          /\ UNCHANGED quiet
     ELSE /\ slots' = [slots EXCEPT ![s][i].pc = IF Slot(s, i).visited THEN "close" ELSE "read",
                                   ![s][i].late = FALSE]
          /\ quiet' = FALSE
  /\ UNCHANGED <<scene, there, ended, callVars, dirs, active, writeOffs, partial, stopped, seen>>

\* ReadDir answers: the folder's entries, all in one batch, of which one may
\* not be readable.  What comes after usage returned is not in its sum.  The
\* ReadDir that finds the end and the Close are one call.
ReadAnswers(s, i) ==
  /\ Slot(s, i).pc = "read"
  /\ seen' = [seen EXCEPT ![s][Slot(s, i).dir] = IF at[s] = "done" THEN @ ELSE @ + 1]
  /\ \E whole \in {TRUE, Slot(s, i).dir \notin Refusing} :
       slots' = [slots EXCEPT ![s][i].pc = "touch", ![s][i].visited = TRUE, ![s][i].whole = whole]
  /\ UNCHANGED <<scene, there, blocked, quiet, ended, callVars, dirs, active, writeOffs, partial, stopped>>

CloseAnswers(s, i) ==
  /\ Slot(s, i).pc = "close"
  /\ Moves(s, i, "finish")
  /\ UNCHANGED <<scene, there, blocked, quiet, ended, callVars, dirs, active, writeOffs, partial, stopped, seen>>

\* The subfolders go to the queue; the last worker with nothing left stops
\* the walk.  A written-off worker only unblocks its folder.
Hands(sl) == IF sl.visited THEN Subdirs(sl.dir) \cap there ELSE {}

Finish(s, i) ==
  /\ Slot(s, i).pc = "finish"
  /\ Answered(s, i)
  /\ \/ /\ Slot(s, i).gone
        /\ slots' = [slots EXCEPT ![s][i] = Exited]
        /\ UNCHANGED <<dirs, active, partial, stopped>>
     \/ LET rest == IF stopped[s] THEN dirs[s] ELSE dirs[s] \cup Hands(Slot(s, i))
            over == stopped[s] \/ (active[s] = 1 /\ rest = {})
        IN /\ ~Slot(s, i).gone
           /\ partial' = [partial EXCEPT ![s] = @ \/ ~Slot(s, i).whole]
           /\ active' = [active EXCEPT ![s] = @ - 1]
           /\ dirs' = [dirs EXCEPT ![s] = rest]
           /\ stopped' = [stopped EXCEPT ![s] = over]
           /\ slots' = [slots EXCEPT ![s][i] = IF over THEN Exited ELSE NewSlot]
  /\ UNCHANGED <<scene, there, quiet, ended, callVars, writeOffs, seen>>

----------------------------------------------------------------------------
(* The walk's own goroutine: the watchdog, ctx, the end. *)

Stalled(s) == {i \in DOMAIN slots[s] : Busy(Slot(s, i)) /\ ~Slot(s, i).gone /\ Slot(s, i).late}

\* The slots i of s are gone, their folders blocked.
WrittenOff(s, is) ==
  [i \in DOMAIN slots[s] |-> IF i \in is THEN [Slot(s, i) EXCEPT !.gone = TRUE, !.late = FALSE] ELSE Slot(s, i)]
Blocks(s, is) == blocked' = blocked \cup {Slot(s, i).dir : i \in is}

\* In the order of the slots, each replaced, up to the one past the bound.
Left(s) == MaxWriteOffs - writeOffs[s]
Taken(s) == {i \in Stalled(s) : Cardinality({j \in Stalled(s) : j < i}) <= Left(s)}

\* The folders of the abandoned workers are no longer held by one.
\* (Variant: they go on being counted.)
HeldStill(s) == active[s]
Held(s) == active[s] - Cardinality(Taken(s))

\* What it lost makes a walk partial.
\* (Variant: only what was refused does.)
LostUntold(s) == partial[s]
Lost(s) == TRUE

WriteOffStalled(s) ==
  LET n == Cardinality(Taken(s))
      past == n > Left(s)
      fresh == IF past THEN n - 1 ELSE n
  IN /\ at[s] = "walk" /\ ~stopped[s] /\ quiet /\ Stalled(s) # {}
     /\ slots' = [slots EXCEPT ![s] = WrittenOff(s, Taken(s)) \o [k \in 1..fresh |-> NewSlot]]
     /\ Blocks(s, Taken(s))
     /\ partial' = [partial EXCEPT ![s] = Lost(s)]
     /\ active' = [active EXCEPT ![s] = Held(s)]
     /\ writeOffs' = [writeOffs EXCEPT ![s] = @ + fresh]
     /\ stopped' = [stopped EXCEPT ![s] = past \/ (Held(s) = 0 /\ dirs[s] = {})]
     /\ UNCHANGED <<scene, there, quiet, ended, callVars, dirs, seen>>

\* ctx ended: what is in flight may be stuck, and is blocked.
WalkCanceled(s) ==
  LET flying == {i \in DOMAIN slots[s] : Busy(Slot(s, i)) /\ ~Slot(s, i).gone}
  IN /\ at[s] = "walk" /\ ended[s]
     /\ slots' = [slots EXCEPT ![s] = WrittenOff(s, flying)]
     /\ Blocks(s, flying)
     /\ stopped' = [stopped EXCEPT ![s] = TRUE]
     /\ Returns(s, TRUE, FALSE)
     /\ UNCHANGED <<scene, there, quiet, lone, ended, dirs, active, writeOffs, partial, seen>>

WalkReturns(s) ==
  /\ at[s] = "walk" /\ stopped[s]
  /\ Returns(s, TRUE, ~partial[s])
  /\ UNCHANGED <<scene, there, blocked, quiet, lone, ended, walkVars>>

----------------------------------------------------------------------------
(* The environment: ctx, time, and an owner who deletes a folder. *)

Cancel(s) ==
  /\ s \in Cancelable /\ at[s] # "done" /\ ~ended[s]
  /\ ended' = [ended EXCEPT ![s] = TRUE]
  /\ UNCHANGED <<scene, there, blocked, quiet, callVars, walkVars>>

\* A stall window in which nothing answered.
StallPasses ==
  /\ quiet' = TRUE
  /\ lone' = [s \in Sizing |-> IF lone[s] = "out" THEN "late" ELSE lone[s]]
  /\ slots' = [s \in Sizing |-> [i \in DOMAIN slots[s] |->
                 IF Busy(Slot(s, i)) /\ ~Slot(s, i).gone THEN [Slot(s, i) EXCEPT !.late = TRUE] ELSE Slot(s, i)]]
  /\ UNCHANGED <<scene, there, blocked, at, ended, dirs, active, writeOffs, partial, stopped, seen, result>>

Removed(d) ==
  /\ d \in there
  /\ there' = there \ Below(d)
  /\ UNCHANGED <<scene, blocked, quiet, ended, callVars, walkVars>>

----------------------------------------------------------------------------
Worker(s) == \E i \in DOMAIN slots[s] :
  Pop(s, i) \/ Look(s, i) \/ Touch(s, i) \/ Finish(s, i)
Answers(s) == \E i \in DOMAIN slots[s] :
  OpenAnswers(s, i) \/ ReadAnswers(s, i) \/ CloseAnswers(s, i)
Sizes(s) == \/ LstatWrittenOff(s) \/ LstatCanceled(s)
            \/ WriteOffStalled(s) \/ WalkCanceled(s) \/ WalkReturns(s)

Next == \/ \E s \in Sizing : \/ Lstat(s) \/ LstatAnswers(s) \/ LateAnswer(s)
                             \/ Worker(s) \/ Answers(s) \/ Sizes(s) \/ Cancel(s)
        \/ StallPasses
        \/ \E d \in Vanishing : Removed(d)

Spec == Init /\ [][Next]_vars

\* Goroutines run and timers fire; no filesystem call need ever answer.
FairSpec == /\ Spec
            /\ \A s \in Sizing : WF_vars(Worker(s)) /\ WF_vars(Sizes(s))
            /\ WF_vars(StallPasses)

----------------------------------------------------------------------------
(* What makes it correct. *)

\* Every sizing that was begun comes back, with no call of it answered at
\* all, with workers lost up to the bound and past it.
WalkEnds == \A s \in Sizing : at[s] = "lstat" ~> at[s] = "done"

\* A size said to be whole is one: every folder under the root was added up
\* once, but those that are gone.
WholeIsExact == \A s \in Sizing :
  result[s].found /\ result[s].whole =>
    \A d \in Below(root[s]) : \/ seen[s][d] = 1
                              \/ seen[s][d] = 0 /\ d \notin there

\* The written-off calls that have not come back.
Stuck(d) == \/ \E s \in Sizing : lone[s] = "written off" /\ root[s] = d
            \/ \E s \in Sizing : \E i \in DOMAIN slots[s] :
                 Slot(s, i).dir = d /\ Slot(s, i).gone /\ Slot(s, i).pc # "exit"

\* No path is blocked for good by accident: behind each there is a call that
\* was written off and has not come back.
MarksHaveCalls == \A d \in blocked : Stuck(d)

\* walk.go:26-29: the path of a written-off call stays blocked, and is never
\* touched again, until that call answers.
BlockedUntilAnswered ==
  /\ \A s \in Sizing : lone[s] = "written off" => root[s] \in blocked
  /\ \A s \in Sizing : \A i \in DOMAIN slots[s] :
       Slot(s, i).gone /\ Slot(s, i).pc \in {"open", "read"} => Slot(s, i).dir \in blocked
=============================================================================

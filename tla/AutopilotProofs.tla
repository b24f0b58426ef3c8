--------------------------- MODULE AutopilotProofs --------------------------
(***************************************************************************)
(* For any number of processes, entries and hours: one prune at a time,    *)
(* none by autotrim before one by hand; nothing recent is ever deleted,    *)
(* and what is left is more than KeepUnder but for the last hour taken;    *)
(* and builds put autotrim off until space is critical and they have been  *)
(* seen for Limit on end, through crashes and prunes by hand.              *)
(***************************************************************************)
EXTENDS Autopilot, FiniteSetTheorems, SequenceTheorems, WellFoundedInduction, TLAPS

----------------------------------------------------------------------------
(* The inductive invariant. *)

\* A prune by hand was completed, as far as a journal tells.
HandDone(l) == \E j, k \in DOMAIN l :
  /\ j < k /\ l[j].run = l[k].run
  /\ l[j].kind = "prune" /\ l[j].hand /\ l[k].event = "done"

\* The lines of a prune of autotrim have a completed one by hand before them.
AfterHand(l) == \A i \in DOMAIN l : l[i].kind = "prune" /\ ~l[i].hand =>
  \E j, k \in 1..(i - 1) : /\ l[j].kind = "prune" /\ l[j].hand
                           /\ l[k].event = "done" /\ l[k].run = l[j].run /\ j < k

\* Past the gate an autotrim has one by hand behind it.
Gated == \A p \in Proc :
  pc[p] \in {"lock", "look", "truncate", "save", "plan", "start"} /\ ~do[p].hand => HandDone(log)

\* The flock is held by those who prune, and on the file the name leads to.
Held == \A p \in Proc : do[p].holds = IF p \in Pruning THEN inode ELSE 0

\* A cutoff stays MinAge behind the clock, its process gone or not.
Old(c) == c + 1 + MinAge <= now
OldEnough ==
  /\ \A p \in Proc : pc[p] \in {"start", "find"} => Old(do[p].cutoff)
  /\ \A c \in orphans : Old(c)

IInv == TypeOK /\ ManualFirst /\ Gated /\ Held /\ OneFlight /\ OldEnough

----------------------------------------------------------------------------
(* Journals. *)

LEMMA HandDoneKept ==
  ASSUME NEW l \in Seq(Line), NEW x \in Line, HandDone(l)
  PROVE  HandDone(Append(l, x))
BY DEF HandDone

\* GateOpen looks at all prunes, and finds one of autotrim only behind one
\* by hand.
LEMMA OpenMeansHand ==
  ASSUME log \in Seq(Line), AfterHand(log), GateOpen
  PROVE  HandDone(log)
<1>1. PICK i, j \in DOMAIN log : i < j /\ log[i].run = log[j].run /\ log[i].kind = "prune" /\ log[j].event = "done"
  BY DEF GateOpen
<1>2. CASE log[i].hand
  BY <1>1, <1>2 DEF HandDone
<1>3. CASE ~log[i].hand
  <2>1. PICK a, b \in 1..(i - 1) : /\ log[a].kind = "prune" /\ log[a].hand
                                   /\ log[b].event = "done" /\ log[b].run = log[a].run /\ a < b
    BY <1>1, <1>3 DEF AfterHand
  <2>2. a \in DOMAIN log /\ b \in DOMAIN log
    BY <1>1
  <2> QED
    BY <2>1, <2>2 DEF HandDone
<1> QED
  BY <1>2, <1>3

LEMMA AfterHandKept ==
  ASSUME NEW l \in Seq(Line), NEW x \in Line, AfterHand(l),
         x.kind = "prune" /\ ~x.hand => HandDone(l)
  PROVE  AfterHand(Append(l, x))
<1> DEFINE m == Append(l, x)
<1>1. /\ m \in Seq(Line) /\ DOMAIN m = 1..(Len(l) + 1) /\ DOMAIN l = 1..Len(l) /\ Len(l) \in Nat
      /\ \A i \in 1..Len(l) : m[i] = l[i]
      /\ m[Len(l) + 1] = x
  OBVIOUS
<1> SUFFICES ASSUME NEW i \in DOMAIN m, m[i].kind = "prune", ~m[i].hand
             PROVE  \E j, k \in 1..(i - 1) : /\ m[j].kind = "prune" /\ m[j].hand
                                             /\ m[k].event = "done" /\ m[k].run = m[j].run /\ j < k
  BY DEF AfterHand
<1>2. CASE i \in DOMAIN l
  <2>1. PICK j, k \in 1..(i - 1) : /\ l[j].kind = "prune" /\ l[j].hand
                                   /\ l[k].event = "done" /\ l[k].run = l[j].run /\ j < k
    BY <1>1, <1>2 DEF AfterHand
  <2>2. m[j] = l[j] /\ m[k] = l[k]
    BY <1>1, <1>2
  <2> QED
    BY <2>1, <2>2
<1>3. CASE i = Len(l) + 1
  <2>1. PICK j, k \in DOMAIN l : /\ j < k /\ l[j].run = l[k].run
                                 /\ l[j].kind = "prune" /\ l[j].hand /\ l[k].event = "done"
    BY <1>1, <1>3 DEF HandDone
  <2>2. m[j] = l[j] /\ m[k] = l[k] /\ j \in 1..(i - 1) /\ k \in 1..(i - 1)
    BY <1>1, <1>3
  <2> QED
    BY <2>1, <2>2
<1> QED
  BY <1>1, <1>2, <1>3

----------------------------------------------------------------------------
(* Types. *)

\* What a step may write over in what a process knows.
LEMMA DoingKept ==
  ASSUME NEW d \in Doing
  PROVE  /\ \A n \in Nat : [d EXCEPT !.cutoff = n] \in Doing /\ [d EXCEPT !.id = n] \in Doing
         /\ \A b \in BOOLEAN : [d EXCEPT !.failed = b] \in Doing
         /\ \A n \in Nat, c \in Deferral : [d EXCEPT !.holds = n, !.next = c] \in Doing
         /\ \A c \in Deferral, b \in BOOLEAN, g \in BOOLEAN :
              [d EXCEPT !.next = c, !.building = b, !.go = g] \in Doing
BY DEF Doing

\* What it holds, whose hand it is and its cutoff change only where written.
LEMMA FieldsKept ==
  ASSUME NEW d \in Doing, NEW v, NEW b, NEW g
  PROVE  /\ LET e == [d EXCEPT !.id = v] IN e.holds = d.holds /\ e.hand = d.hand
         /\ LET e == [d EXCEPT !.cutoff = v] IN e.holds = d.holds /\ e.hand = d.hand /\ e.cutoff = v
         /\ LET e == [d EXCEPT !.failed = v] IN e.holds = d.holds /\ e.hand = d.hand /\ e.cutoff = d.cutoff
         /\ LET e == [d EXCEPT !.holds = v, !.next = b] IN e.holds = v /\ e.hand = d.hand
         /\ LET e == [d EXCEPT !.next = v, !.building = b, !.go = g]
            IN e.holds = d.holds /\ e.hand = d.hand /\ e.cutoff = d.cutoff
BY DEF Doing

LEMMA LineTyped ==
  ASSUME NEW d \in Doing, NEW event \in {"start", "done", "fail"}
  PROVE  Journaled(d, event) \in Line
BY DEF Doing, Journaled, Line

LEMMA DeletesTyped ==
  ASSUME cache \in [Entry -> [here : BOOLEAN, hour : Nat]], NEW c, Deletes(c)
  PROVE  cache' \in [Entry -> [here : BOOLEAN, hour : Nat]]
BY DEF Deletes

LEMMA Typed == TypeOK /\ [Next]_vars => TypeOK'
<1> SUFFICES ASSUME TypeOK, [Next]_vars
             PROVE  TypeOK'
  OBVIOUS
<1> USE AutopilotAssumption
<1> DEFINE Steps == {"idle", "gate", "lock", "look", "truncate", "save", "plan", "start", "find", "after"}
<1>idle. Idle \in Doing /\ Stopped \in Deferral
  BY DEF Idle, Stopped, Doing, Deferral
<1>now. now \in Nat
  BY DEF TypeOK
<1>do. \A p \in Proc : do[p] \in Doing
  BY DEF TypeOK
<1>end. ASSUME NEW p \in Proc, End(p)
        PROVE  pc' \in [Proc -> Steps] /\ do' \in [Proc -> Doing]
  BY <1>end, <1>idle DEF End, TypeOK
<1>goto. ASSUME NEW p \in Proc, NEW s \in Steps, Goto(p, s)
         PROVE  pc' \in [Proc -> Steps]
  BY <1>goto DEF Goto, TypeOK
<1>line. ASSUME NEW p \in Proc, NEW event \in {"start", "done", "fail"}
         PROVE  Journaled(do[p], event) \in Line /\ Append(log, Journaled(do[p], event)) \in Seq(Line)
  <2>1. do[p] \in Doing /\ log \in Seq(Line)
    BY DEF TypeOK
  <2>2. Journaled(do[p], event) \in Line
    BY <2>1, LineTyped
  <2> QED
    BY <2>1, <2>2
<1>begin. ASSUME NEW p \in Proc, NEW d \in Doing, NEW s \in Steps, Begin(p, d, s)
          PROVE  TypeOK'
  <2>1. ops' \in 0..MaxOps /\ ops + 1 \in Nat
    BY <1>begin DEF Begin, TypeOK
  <2>2. [d EXCEPT !.id = ops + 1] \in Doing
    BY <2>1, DoingKept
  <2>3. do' \in [Proc -> Doing]
    BY <1>begin, <2>2 DEF Begin, TypeOK
  <2> QED
    BY <1>begin, <1>goto, <2>1, <2>3 DEF Begin, TypeOK, machine, state
<1>deletes. ASSUME NEW c, Deletes(c)
            PROVE  cache' \in [Entry -> [here : BOOLEAN, hour : Nat]]
  BY <1>deletes, DeletesTyped DEF TypeOK
<1>1. ASSUME NEW p \in Proc, Tick(p)
      PROVE  TypeOK'
  <2>1. PICK f \in Free, t \in Targets : Begin(p, [Idle EXCEPT !.free = f, !.target = t], "gate")
    BY <1>1 DEF Tick
  <2>2. [Idle EXCEPT !.free = f, !.target = t] \in Doing
    BY <1>idle DEF Doing
  <2> QED
    BY <1>begin, <2>1, <2>2
<1>2. ASSUME NEW p \in Proc, PruneByHand(p)
      PROVE  TypeOK'
  <2>1. [Idle EXCEPT !.hand = TRUE] \in Doing
    BY <1>idle DEF Doing
  <2> QED
    BY <1>begin, <1>2, <2>1 DEF PruneByHand
<1>3. ASSUME NEW p \in Proc, ReadGate(p)
      PROVE  TypeOK'
  BY <1>3, <1>end, <1>goto DEF ReadGate, TypeOK, machine, state
<1>4. ASSUME NEW p \in Proc, Lock(p)
      PROVE  TypeOK'
  <2>1. [do[p] EXCEPT !.holds = inode, !.next = clock] \in Doing
    BY <1>do, DoingKept DEF TypeOK
  <2>2. pc' \in [Proc -> Steps] /\ do' \in [Proc -> Doing]
    <3>1. CASE End(p)
      BY <1>end, <3>1
    <3>2. CASE Goto(p, "look") /\ do' = [do EXCEPT ![p] = [do[p] EXCEPT !.holds = inode, !.next = clock]]
      <4>1. do' \in [Proc -> Doing]
        BY <2>1, <3>2 DEF TypeOK
      <4> QED
        BY <1>goto, <3>2, <4>1
    <3> QED
      BY <1>4, <3>1, <3>2 DEF Lock
  <2> QED
    BY <1>4, <2>2 DEF Lock, TypeOK, machine, state
<1>5. ASSUME NEW p \in Proc, LookForBuilds(p)
      PROVE  TypeOK'
  <2>1. ASSUME NEW b \in BOOLEAN
        PROVE  [do[p] EXCEPT !.next = NextDeferral(@, b, do[p].free),
                             !.building = b, !.go = Goes(do[p].next, b, do[p].free)] \in Doing
    <3>1. do[p] \in Doing /\ do[p].next \in Deferral
      BY <1>do DEF Doing
    <3>2. Started(do[p].next) \in Nat
      BY <3>1, <1>now DEF Started, Deferral
    <3>3. NextDeferral(do[p].next, b, do[p].free) \in Deferral
      BY <3>2, <1>now, <1>idle DEF NextDeferral, Deferral
    <3>4. Goes(do[p].next, b, do[p].free) \in BOOLEAN
      BY DEF Goes, MayOverride
    <3> QED
      BY <3>1, <3>3, <3>4, DoingKept
  <2>2. pc' \in [Proc -> Steps] /\ do' \in [Proc -> Doing]
    <3>1. CASE End(p)
      BY <1>end, <3>1
    <3>2. CASE Goto(p, "plan") /\ UNCHANGED do
      BY <1>goto, <3>2 DEF TypeOK
    <3>3. ASSUME NEW b \in BOOLEAN, Goto(p, "truncate"),
                 do' = [do EXCEPT ![p] = [do[p] EXCEPT !.next = NextDeferral(@, b, do[p].free),
                                            !.building = b, !.go = Goes(do[p].next, b, do[p].free)]]
          PROVE  pc' \in [Proc -> Steps] /\ do' \in [Proc -> Doing]
      BY <1>goto, <2>1, <3>3 DEF TypeOK
    <3> QED
      BY <1>5, <3>1, <3>2, <3>3 DEF LookForBuilds
  <2>3. seen' \subseteq Hours
    BY <1>5 DEF LookForBuilds, TypeOK
  <2> QED
    BY <1>5, <2>2, <2>3 DEF LookForBuilds, TypeOK, machine
<1>6. ASSUME NEW p \in Proc, Truncate(p)
      PROVE  TypeOK'
  BY <1>6, <1>end, <1>goto, <1>idle DEF Truncate, TypeOK, machine
<1>7. ASSUME NEW p \in Proc, Unsaved(p)
      PROVE  TypeOK'
  BY <1>7, <1>end DEF Unsaved, TypeOK, machine
<1>8. ASSUME NEW p \in Proc, Save(p)
      PROVE  TypeOK'
  <2>1. clock' \in Deferral /\ clock'.last \in Nat
    BY <1>8 DEF Save, TypeOK, Doing, Deferral
  <2>2. pc' \in [Proc -> Steps] /\ do' \in [Proc -> Doing]
    BY <1>8, <1>end, <1>goto DEF Save, TypeOK
  <2>3. seen' \subseteq Hours /\ saved' \subseteq Nat
    BY <1>8, <2>1 DEF Save, TypeOK
  <2> QED
    BY <1>8, <2>1, <2>2, <2>3 DEF Save, TypeOK, machine
<1>9. ASSUME NEW p \in Proc, Plan(p)
      PROVE  TypeOK'
  <2>1. ASSUME NEW h \in OldHours
        PROVE  [do[p] EXCEPT !.cutoff = h] \in Doing
    <3>1. h \in Nat
      BY DEF OldHours
    <3> QED
      BY <1>do, <3>1, DoingKept
  <2>2. pc' \in [Proc -> Steps] /\ do' \in [Proc -> Doing]
    BY <1>9, <1>end, <1>goto, <2>1, ZenonT(30) DEF Plan, TypeOK
  <2> QED
    BY <1>9, <2>2 DEF Plan, TypeOK, machine, state
<1>10. ASSUME NEW p \in Proc, JournalStart(p)
       PROVE  TypeOK'
  <2>1. [do[p] EXCEPT !.failed = TRUE] \in Doing
    BY <1>do, DoingKept
  <2>2. pc' \in [Proc -> Steps] /\ do' \in [Proc -> Doing]
    BY <1>10, <1>end, <1>goto, <2>1, ZenonT(30) DEF JournalStart, TypeOK
  <2>3. log' \in Seq(Line)
    BY <1>10, <1>line DEF JournalStart, TypeOK
  <2> QED
    BY <1>10, <2>2, <2>3 DEF JournalStart, TypeOK, machine, state
<1>11. ASSUME NEW p \in Proc, Find(p)
       PROVE  TypeOK'
  BY <1>11, <1>deletes DEF Find, TypeOK, state
<1>12. ASSUME NEW p \in Proc, FindEnds(p)
       PROVE  TypeOK'
  <2>1. ASSUME NEW failed \in BOOLEAN
        PROVE  [do[p] EXCEPT !.failed = failed] \in Doing
    BY <1>do, DoingKept
  <2>2. pc' \in [Proc -> Steps] /\ do' \in [Proc -> Doing]
    BY <1>12, <1>goto, <2>1 DEF FindEnds, TypeOK
  <2> QED
    BY <1>12, <2>2 DEF FindEnds, TypeOK, machine, state
<1>13. ASSUME NEW p \in Proc, JournalAfter(p)
       PROVE  TypeOK'
  <2>1. log' \in Seq(Line)
    BY <1>13, <1>line DEF JournalAfter, TypeOK
  <2> QED
    BY <1>13, <1>end, <2>1 DEF JournalAfter, TypeOK, machine, state
<1>14. ASSUME NEW p \in Proc, Kill(p)
       PROVE  TypeOK'
  <2>1. orphans' \subseteq Nat /\ saved' \subseteq Nat
    BY <1>14 DEF Kill, TypeOK, Doing
  <2> QED
    BY <1>14, <1>end, <2>1 DEF Kill, TypeOK
<1>15. CASE OrphanFinds
  BY <1>15, <1>deletes DEF OrphanFinds, TypeOK, state
<1>16. CASE OrphanEnds
  BY <1>16 DEF OrphanEnds, TypeOK, state
<1>17. ASSUME NEW e \in Entry, Use(e)
       PROVE  TypeOK'
  BY <1>17, <1>now DEF Use, TypeOK, state
<1>18. CASE HourPasses
  BY <1>18 DEF HourPasses, TypeOK, state
<1>19. CASE UNCHANGED vars
  BY <1>19 DEF vars, TypeOK
<1> QED
  BY <1>1, <1>2, <1>3, <1>4, <1>5, <1>6, <1>7, <1>8, <1>9, <1>10, <1>11, <1>12, <1>13, <1>14,
     <1>15, <1>16, <1>17, <1>18, <1>19 DEF Next

----------------------------------------------------------------------------
(* Steps. *)

Busy == {"look", "truncate", "save", "plan", "start", "find", "after"}

\* A process's step writes over its own pc and do only; the file keeps its
\* inode, and what is not a process's step leaves all three alone.
Own(p) == /\ \A q \in Proc \ {p} : pc'[q] = pc[q] /\ do'[q] = do[q]
          /\ inode' = inode

LEMMA Begun ==
  ASSUME TypeOK, NEW p \in Proc, NEW d, NEW s, Begin(p, d, s)
  PROVE  Own(p) /\ pc'[p] = s /\ do'[p] = [d EXCEPT !.id = ops + 1] /\ pc[p] = "idle"
BY DEF TypeOK, Begin, Goto, Own, state

LEMMA Ended ==
  ASSUME TypeOK, NEW p \in Proc, End(p), UNCHANGED inode
  PROVE  Own(p) /\ pc'[p] = "idle" /\ do'[p] = Idle
BY DEF TypeOK, End, Own

LEMMA Gone ==
  ASSUME TypeOK, NEW p \in Proc, NEW s, Goto(p, s), UNCHANGED inode,
         NEW d, do' = [do EXCEPT ![p] = d]
  PROVE  Own(p) /\ pc'[p] = s /\ do'[p] = d
BY DEF TypeOK, Goto, Own

LEMMA Went ==
  ASSUME TypeOK, NEW p \in Proc, NEW s, Goto(p, s), UNCHANGED <<inode, do>>
  PROVE  Own(p) /\ pc'[p] = s /\ do'[p] = do[p]
BY DEF TypeOK, Goto, Own

\* From s to t with the lock, the hand and the cutoff it had.
Keeps(p, s, t) == /\ pc[p] = s /\ pc'[p] = t
                  /\ do'[p].holds = do[p].holds /\ do'[p].hand = do[p].hand /\ do'[p].cutoff = do[p].cutoff

Within == {<<"look", "plan">>, <<"look", "truncate">>, <<"truncate", "save">>, <<"save", "plan">>,
           <<"start", "find">>, <<"start", "after">>, <<"find", "after">>}

\* How a process moves through the prune.
Moves(p) ==
  \/ pc'[p] = "idle" /\ do'[p] = Idle
  \/ /\ pc[p] = "idle" /\ do'[p].holds = 0
     /\ pc'[p] = "gate" \/ (pc'[p] = "lock" /\ do'[p].hand)
  \/ Keeps(p, "gate", "lock") /\ GateOpen
  \/ /\ pc[p] = "lock" /\ pc'[p] = "look" /\ ~Locked
     /\ do'[p].holds = inode /\ do'[p].hand = do[p].hand
  \/ \E w \in Within : Keeps(p, w[1], w[2])
  \/ /\ pc[p] = "plan" /\ pc'[p] = "start" /\ do'[p].cutoff \in OldHours
     /\ do'[p].holds = do[p].holds /\ do'[p].hand = do[p].hand

\* Every step is one move of one process, or moves none.
LEMMA Flow == TypeOK /\ [Next]_vars =>
  (\E p \in Proc : Own(p) /\ Moves(p)) \/ UNCHANGED <<pc, do, inode>>
<1> SUFFICES ASSUME TypeOK, [Next]_vars
             PROVE  (\E p \in Proc : Own(p) /\ Moves(p)) \/ UNCHANGED <<pc, do, inode>>
  OBVIOUS
<1>type. do \in [Proc -> Doing] /\ \A q \in Proc : do[q] \in Doing
  BY DEF TypeOK
<1>idle. Idle \in Doing /\ Idle.holds = 0
  BY DEF Idle, Doing, Stopped, Deferral
<1>end. ASSUME NEW p \in Proc, End(p), UNCHANGED inode
        PROVE  Own(p) /\ Moves(p)
  BY <1>end, Ended DEF Moves
<1>went. ASSUME NEW p \in Proc, NEW s, NEW t, <<s, t>> \in Within, pc[p] = s, Goto(p, t), UNCHANGED <<inode, do>>
         PROVE  Own(p) /\ Moves(p)
  <2>1. Own(p) /\ Keeps(p, s, t)
    BY <1>went, Went DEF Keeps
  <2>2. <<s, t>>[1] = s /\ <<s, t>>[2] = t
    OBVIOUS
  <2> QED
    BY <1>went, <2>1, <2>2 DEF Moves
<1>gone. ASSUME NEW p \in Proc, NEW s, NEW t, <<s, t>> \in Within, pc[p] = s, Goto(p, t), UNCHANGED inode,
                NEW d, do' = [do EXCEPT ![p] = d],
                d.holds = do[p].holds, d.hand = do[p].hand, d.cutoff = do[p].cutoff
         PROVE  Own(p) /\ Moves(p)
  <2>1. Own(p) /\ Keeps(p, s, t)
    BY <1>gone, Gone DEF Keeps
  <2>2. <<s, t>>[1] = s /\ <<s, t>>[2] = t
    OBVIOUS
  <2> QED
    BY <1>gone, <2>1, <2>2 DEF Moves
<1>1. ASSUME NEW p \in Proc, Tick(p)
      PROVE  Own(p) /\ Moves(p)
  <2>1. PICK f \in Free, t \in Targets : Begin(p, [Idle EXCEPT !.free = f, !.target = t], "gate")
    BY <1>1 DEF Tick
  <2> DEFINE d == [Idle EXCEPT !.free = f, !.target = t]
  <2>2. d \in Doing /\ d.holds = 0
    BY <1>idle, AutopilotAssumption DEF Doing
  <2>3. Own(p) /\ pc[p] = "idle" /\ pc'[p] = "gate" /\ do'[p] = [d EXCEPT !.id = ops + 1]
    BY <2>1, Begun
  <2>4. do'[p].holds = 0
    BY <2>2, <2>3, FieldsKept
  <2> HIDE DEF d
  <2> QED
    BY <2>3, <2>4 DEF Moves
<1>2. ASSUME NEW p \in Proc, PruneByHand(p)
      PROVE  Own(p) /\ Moves(p)
  <2> DEFINE d == [Idle EXCEPT !.hand = TRUE]
  <2>1. d \in Doing /\ d.holds = 0 /\ d.hand
    BY <1>idle DEF Doing
  <2>2. Own(p) /\ pc[p] = "idle" /\ pc'[p] = "lock" /\ do'[p] = [d EXCEPT !.id = ops + 1]
    BY <1>2, Begun DEF PruneByHand
  <2>3. do'[p].holds = 0 /\ do'[p].hand
    BY <2>1, <2>2, FieldsKept
  <2> QED
    BY <2>2, <2>3 DEF Moves
<1>3. ASSUME NEW p \in Proc, ReadGate(p)
      PROVE  Own(p) /\ Moves(p)
  <2>1. CASE GateOpen /\ Goto(p, "lock") /\ UNCHANGED do
    BY <1>3, <2>1, Went DEF ReadGate, state, Moves, Keeps
  <2> QED
    BY <1>3, <1>end, <2>1 DEF ReadGate, state
<1>4. ASSUME NEW p \in Proc, Lock(p)
      PROVE  Own(p) /\ Moves(p)
  <2>1. UNCHANGED inode /\ pc[p] = "lock"
    BY <1>4 DEF Lock, state
  <2>2. CASE ~Locked /\ do' = [do EXCEPT ![p].holds = inode, ![p].next = clock] /\ Goto(p, "look")
    <3> DEFINE d == [do[p] EXCEPT !.holds = inode, !.next = clock]
    <3>1. do' = [do EXCEPT ![p] = d]
      BY <2>2, <1>type
    <3>2. Own(p) /\ pc'[p] = "look" /\ do'[p] = d
      BY <2>1, <2>2, <3>1, Gone
    <3>3. d.holds = inode /\ d.hand = do[p].hand
      BY <1>type, FieldsKept
    <3> QED
      BY <2>1, <2>2, <3>2, <3>3 DEF Moves
  <2> QED
    BY <1>4, <1>end, <2>1, <2>2 DEF Lock
<1>5. ASSUME NEW p \in Proc, LookForBuilds(p)
      PROVE  Own(p) /\ Moves(p)
  <2>1. UNCHANGED inode /\ pc[p] = "look"
    BY <1>5 DEF LookForBuilds
  <2>2. CASE Goto(p, "plan") /\ UNCHANGED do
    BY <1>went, <2>1, <2>2 DEF Within
  <2>3. ASSUME NEW b \in BOOLEAN, Goto(p, "truncate"),
               do' = [do EXCEPT ![p] = [do[p] EXCEPT !.next = NextDeferral(@, b, do[p].free),
                                          !.building = b, !.go = Goes(do[p].next, b, do[p].free)]]
        PROVE  Own(p) /\ Moves(p)
    <3> DEFINE d == [do[p] EXCEPT !.next = NextDeferral(@, b, do[p].free),
                       !.building = b, !.go = Goes(do[p].next, b, do[p].free)]
    <3>1. d.holds = do[p].holds /\ d.hand = do[p].hand /\ d.cutoff = do[p].cutoff
      BY <1>type, FieldsKept
    <3>2. do' = [do EXCEPT ![p] = d]
      BY <1>type, <2>3
    <3>3. <<"look", "truncate">> \in Within
      BY DEF Within
    <3> HIDE DEF d
    <3> QED
      BY <1>gone, <2>1, <2>3, <3>1, <3>2, <3>3
  <2> QED
    BY <1>5, <1>end, <2>1, <2>2, <2>3 DEF LookForBuilds
<1>6. ASSUME NEW p \in Proc, Truncate(p)
      PROVE  Own(p) /\ Moves(p)
  BY <1>6, <1>end, <1>went DEF Truncate, Within
<1>7. ASSUME NEW p \in Proc, Unsaved(p)
      PROVE  Own(p) /\ Moves(p)
  BY <1>7, <1>end DEF Unsaved
<1>8. ASSUME NEW p \in Proc, Save(p)
      PROVE  Own(p) /\ Moves(p)
  BY <1>8, <1>end, <1>went DEF Save, Within
<1>9. ASSUME NEW p \in Proc, Plan(p)
      PROVE  Own(p) /\ Moves(p)
  <2>1. UNCHANGED inode /\ pc[p] = "plan" /\ (End(p) \/ Goto(p, "start"))
    BY <1>9 DEF Plan, state
  <2>2. ASSUME NEW h \in OldHours, Goto(p, "start"), do' = [do EXCEPT ![p].cutoff = h]
        PROVE  Own(p) /\ Moves(p)
    <3> DEFINE d == [do[p] EXCEPT !.cutoff = h]
    <3>1. Own(p) /\ pc'[p] = "start" /\ do'[p] = d
      BY <2>1, <2>2, Gone
    <3>2. d.holds = do[p].holds /\ d.hand = do[p].hand /\ d.cutoff = h
      BY <1>type, FieldsKept
    <3> QED
      BY <2>1, <3>1, <3>2 DEF Moves
  <2> QED
    BY <1>9, <1>end, <2>1, <2>2 DEF Plan
<1>10. ASSUME NEW p \in Proc, JournalStart(p)
       PROVE  Own(p) /\ Moves(p)
  <2>1. UNCHANGED inode /\ pc[p] = "start"
    BY <1>10 DEF JournalStart, state
  <2>2. CASE Goto(p, "find") /\ UNCHANGED do
    BY <1>went, <2>1, <2>2 DEF Within
  <2>3. CASE Goto(p, "after") /\ do' = [do EXCEPT ![p].failed = TRUE]
    <3> DEFINE d == [do[p] EXCEPT !.failed = TRUE]
    <3>1. d.holds = do[p].holds /\ d.hand = do[p].hand /\ d.cutoff = do[p].cutoff
      BY <1>type, FieldsKept
    <3>2. do' = [do EXCEPT ![p] = d]
      BY <1>type, <2>3
    <3>3. <<"start", "after">> \in Within
      BY DEF Within
    <3> HIDE DEF d
    <3> QED
      BY <1>gone, <2>1, <2>3, <3>1, <3>2, <3>3
  <2> QED
    BY <1>10, <1>end, <2>1, <2>2, <2>3 DEF JournalStart
<1>11. ASSUME NEW p \in Proc, FindEnds(p)
       PROVE  Own(p) /\ Moves(p)
  <2>1. UNCHANGED inode /\ pc[p] = "find" /\ Goto(p, "after")
    BY <1>11 DEF FindEnds, state
  <2>2. PICK failed \in BOOLEAN : do' = [do EXCEPT ![p].failed = failed]
    BY <1>11 DEF FindEnds
  <2> DEFINE d == [do[p] EXCEPT !.failed = failed]
  <2>3. d.holds = do[p].holds /\ d.hand = do[p].hand /\ d.cutoff = do[p].cutoff
    BY <1>type, FieldsKept
  <2>4. do' = [do EXCEPT ![p] = d]
    BY <1>type, <2>2
  <2>5. <<"find", "after">> \in Within
    BY DEF Within
  <2> HIDE DEF d
  <2> QED
    BY <1>gone, <2>1, <2>3, <2>4, <2>5
<1>12. ASSUME NEW p \in Proc, JournalAfter(p) \/ Kill(p)
       PROVE  Own(p) /\ Moves(p)
  BY <1>12, <1>end DEF JournalAfter, Kill, state
<1>13. CASE (\E p \in Proc : Find(p)) \/ OrphanFinds \/ OrphanEnds \/ (\E e \in Entry : Use(e)) \/ HourPasses \/ UNCHANGED vars
  BY <1>13 DEF Find, OrphanFinds, OrphanEnds, Use, HourPasses, vars, state
<1> QED
  BY <1>1, <1>2, <1>3, <1>4, <1>5, <1>6, <1>7, <1>8, <1>9, <1>10, <1>11, <1>12, <1>13 DEF Next

----------------------------------------------------------------------------
(* One flight. *)

\* Who prunes, holds the flock on the file; a second one does not get it.
LEMMA Flies == TypeOK /\ Held /\ OneFlight /\ [Next]_vars => Held' /\ OneFlight'
<1> SUFFICES ASSUME TypeOK, Held, OneFlight, [Next]_vars
             PROVE  Held' /\ OneFlight'
  OBVIOUS
<1>def. /\ Held <=> \A q \in Proc : do[q].holds = IF pc[q] \in Busy THEN inode ELSE 0
        /\ Held' <=> \A q \in Proc : do'[q].holds = IF pc'[q] \in Busy THEN inode' ELSE 0
        /\ OneFlight <=> \A q, r \in Proc : pc[q] \in Busy /\ pc[r] \in Busy => q = r
        /\ OneFlight' <=> \A q, r \in Proc : pc'[q] \in Busy /\ pc'[r] \in Busy => q = r
  BY DEF Held, OneFlight, Pruning, Busy
<1>1. CASE UNCHANGED <<pc, do, inode>>
  BY <1>1, <1>def
<1>2. ASSUME NEW p \in Proc, Own(p), Moves(p)
      PROVE  Held' /\ OneFlight'
  \* A step that makes nobody busy.
  <2>1. CASE /\ pc'[p] \in Busy => pc[p] \in Busy
             /\ do'[p].holds = IF pc'[p] \in Busy THEN inode ELSE 0
    BY <1>2, <1>def, <2>1 DEF Own
  <2>2. CASE pc'[p] = "idle" /\ do'[p] = Idle
    BY <2>1, <2>2 DEF Idle, Busy
  <2>3. CASE /\ pc[p] = "idle" /\ do'[p].holds = 0
             /\ pc'[p] = "gate" \/ (pc'[p] = "lock" /\ do'[p].hand)
    BY <2>1, <2>3 DEF Busy
  <2>4. CASE Keeps(p, "gate", "lock") /\ GateOpen
    BY <1>def, <2>1, <2>4 DEF Keeps, Busy
  <2>5. CASE pc[p] = "lock" /\ pc'[p] = "look" /\ ~Locked /\ do'[p].holds = inode
    <3>1. \A q \in Proc : pc[q] \notin Busy
      BY <1>def, <2>5 DEF Locked
    <3> QED
      BY <1>2, <1>def, <2>5, <3>1 DEF Own, Busy
  <2>6. ASSUME NEW w \in Within, Keeps(p, w[1], w[2])
        PROVE  Held' /\ OneFlight'
    <3>1. w[1] \in Busy /\ w[2] \in Busy
      BY DEF Within, Busy
    <3> QED
      BY <1>def, <2>1, <2>6, <3>1 DEF Keeps
  <2>7. CASE pc[p] = "plan" /\ pc'[p] = "start" /\ do'[p].holds = do[p].holds
    BY <1>def, <2>1, <2>7 DEF Busy
  <2> QED
    BY <1>2, <2>2, <2>3, <2>4, <2>5, <2>6, <2>7 DEF Moves
<1> QED
  BY <1>1, <1>2, Flow

----------------------------------------------------------------------------
(* First by hand. *)

\* What a step writes to the journal: a start by who is past the gate, or a
\* line that starts nothing.
LEMMA Writes == TypeOK /\ [Next]_vars =>
  \/ UNCHANGED log
  \/ \E p \in Proc, event \in {"start", "done", "fail"} :
       /\ log' = Append(log, Journaled(do[p], event))
       /\ event = "start" => pc[p] = "start"
<1> SUFFICES ASSUME TypeOK, Next, log' # log
             PROVE  \E p \in Proc, event \in {"start", "done", "fail"} :
                      /\ log' = Append(log, Journaled(do[p], event))
                      /\ event = "start" => pc[p] = "start"
  BY DEF vars
<1>1. \E p \in Proc : JournalStart(p) \/ JournalAfter(p)
  BY DEF Next, Tick, PruneByHand, Begin, ReadGate, Lock, LookForBuilds, Truncate, Unsaved, Save, Plan,
         Find, FindEnds, Kill, OrphanFinds, OrphanEnds, Use, HourPasses
<1>2. ASSUME NEW p \in Proc, JournalStart(p)
      PROVE  log' = Append(log, Journaled(do[p], "start")) /\ pc[p] = "start"
  BY <1>2 DEF JournalStart
<1>3. ASSUME NEW p \in Proc, JournalAfter(p)
      PROVE  \E event \in {"done", "fail"} : log' = Append(log, Journaled(do[p], event))
  BY <1>3 DEF JournalAfter
<1> QED
  BY <1>1, <1>2, <1>3

LEMMA ByHandFirst == TypeOK /\ ManualFirst /\ Gated /\ [Next]_vars => ManualFirst' /\ Gated'
<1> SUFFICES ASSUME TypeOK, ManualFirst, Gated, [Next]_vars
             PROVE  ManualFirst' /\ Gated'
  OBVIOUS
<1> DEFINE Behind == {"lock", "look", "truncate", "save", "plan", "start"}
<1>def. /\ ManualFirst <=> AfterHand(log)
        /\ ManualFirst' <=> AfterHand(log')
  BY DEF ManualFirst, AfterHand
<1>type. log \in Seq(Line) /\ \A p \in Proc : do[p] \in Doing
  BY DEF TypeOK
<1>1. /\ AfterHand(log')
      /\ HandDone(log) => HandDone(log')
  <2>1. CASE UNCHANGED log
    BY <1>def, <2>1
  <2>2. ASSUME NEW p \in Proc, NEW event \in {"start", "done", "fail"},
               log' = Append(log, Journaled(do[p], event)), event = "start" => pc[p] = "start"
        PROVE  /\ AfterHand(log')
               /\ HandDone(log) => HandDone(log')
    <3> DEFINE x == Journaled(do[p], event)
    <3>1. x \in Line
      BY <1>type, LineTyped
    <3>2. ASSUME x.kind = "prune", ~x.hand
          PROVE  HandDone(log)
      <4>1. event = "start" /\ ~do[p].hand
        BY <3>2 DEF Journaled
      <4> QED
        BY <2>2, <4>1 DEF Gated
    <3> HIDE DEF x
    <3> QED
      BY <1>def, <1>type, <2>2, <3>1, <3>2, AfterHandKept, HandDoneKept DEF x
  <2> QED
    BY <2>1, <2>2, Writes
<1>2. ASSUME NEW p \in Proc, Own(p), Moves(p)
      PROVE  Gated'
  <2>1. ASSUME pc'[p] \in Behind, ~do'[p].hand
        PROVE  HandDone(log)
    <3>1. (pc[p] \in Behind /\ ~do[p].hand) \/ GateOpen
      BY <1>2, <2>1 DEF Moves, Keeps, Within
    <3> QED
      BY <1>def, <1>type, <3>1, OpenMeansHand DEF Gated
  <2> QED
    BY <1>1, <1>2, <2>1 DEF Gated, Own
<1>3. ASSUME UNCHANGED <<pc, do, inode>>
      PROVE  Gated'
  BY <1>1, <1>3 DEF Gated
<1> QED
  BY <1>1, <1>2, <1>3, <1>def, Flow

----------------------------------------------------------------------------
(* Nothing recent. *)

LEMMA StaysOld == TypeOK /\ OldEnough /\ [Next]_vars => OldEnough'
<1> SUFFICES ASSUME TypeOK, OldEnough, [Next]_vars
             PROVE  OldEnough'
  OBVIOUS
<1> USE AutopilotAssumption
<1>type. now \in Nat /\ MinAge \in Nat /\ orphans \subseteq Nat /\ \A p \in Proc : do[p].cutoff \in Nat
  BY DEF TypeOK, Doing
<1>now. now' \in Nat /\ now' >= now
  <2>1. now' = now \/ (now' \in Hours /\ now' = now + 1)
    BY DEF Next, vars, machine, Tick, PruneByHand, Begin, ReadGate, Lock, LookForBuilds, Truncate, Unsaved,
           Save, Plan, JournalStart, JournalAfter, Find, FindEnds, Kill, OrphanFinds, OrphanEnds, Use, HourPasses
  <2> QED
    BY <1>type, <2>1
<1>1. ASSUME NEW c \in Nat, Old(c)
      PROVE  c + 1 + MinAge <= now'
  BY <1>1, <1>type, <1>now DEF Old
<1>2. orphans' \subseteq orphans \cup {do[p].cutoff : p \in {q \in Proc : pc[q] = "find"}}
  BY DEF Next, vars, machine, Tick, PruneByHand, Begin, ReadGate, Lock, LookForBuilds, Truncate, Unsaved,
         Save, Plan, JournalStart, JournalAfter, Find, FindEnds, Kill, OrphanFinds, OrphanEnds, Use, HourPasses
<1>3. \A c \in orphans' : c + 1 + MinAge <= now'
  BY <1>1, <1>2, <1>type DEF OldEnough
<1>4. ASSUME NEW p \in Proc, Own(p), Moves(p)
      PROVE  \A q \in Proc : pc'[q] \in {"start", "find"} => do'[q].cutoff + 1 + MinAge <= now'
  <2>1. ASSUME NEW c \in OldHours
        PROVE  c \in Nat /\ Old(c)
    BY <1>type DEF OldHours, Old
  <2>2. pc'[p] \in {"start", "find"} =>
          do'[p].cutoff \in OldHours \/ (pc[p] = "start" /\ do'[p].cutoff = do[p].cutoff)
    BY <1>4 DEF Moves, Keeps, Within
  <2>3. pc'[p] \in {"start", "find"} => do'[p].cutoff \in Nat /\ Old(do'[p].cutoff)
    BY <1>type, <2>1, <2>2 DEF OldEnough
  <2> QED
    BY <1>1, <1>4, <1>type, <2>3 DEF OldEnough, Own
<1>5. CASE UNCHANGED <<pc, do, inode>>
  <2>1. \A q \in Proc : pc'[q] \in {"start", "find"} => do'[q].cutoff + 1 + MinAge <= now'
    BY <1>1, <1>5, <1>type DEF OldEnough
  <2> QED
    BY <1>3, <2>1 DEF OldEnough, Old
<1> QED
  BY <1>3, <1>4, <1>5, Flow DEF OldEnough, Old

----------------------------------------------------------------------------
(* The theorems. *)

LEMMA Starts == Init => IInv
<1> SUFFICES ASSUME Init
             PROVE  IInv
  OBVIOUS
<1>1. TypeOK
  <2>1. Idle \in Doing /\ Stopped \in Deferral
    BY DEF Idle, Stopped, Doing, Deferral
  <2>2. cache \in [Entry -> [here : BOOLEAN, hour : Nat]]
    <3>1. cache \in [Entry -> [here : {TRUE}, hour : 0..now]]
      BY DEF Init
    <3>2. now \in Nat
      BY AutopilotAssumption DEF Init
    <3>3. 0..now \subseteq Nat
      OBVIOUS
    <3>4. [here : {TRUE}, hour : 0..now] \subseteq [here : BOOLEAN, hour : Nat]
      BY <3>3
    <3> QED
      BY <3>1, <3>4
  <2>3. now \in Hours /\ ops \in 0..MaxOps /\ inode \in Nat \ {0} /\ clock \in Deferral /\ log \in Seq(Line)
    BY <2>1, AutopilotAssumption DEF Init
  <2> QED
    BY <2>1, <2>2, <2>3 DEF Init, TypeOK
<1>2. ManualFirst
  <2>1. \A i \in DOMAIN log : log[i].hand
    BY AutopilotAssumption DEF Init
  <2> QED
    BY <2>1 DEF ManualFirst
<1>3. Gated /\ Held /\ OneFlight /\ OldEnough
  BY DEF Init, Gated, Held, OneFlight, OldEnough, Pruning, Idle
<1> QED
  BY <1>1, <1>2, <1>3 DEF IInv

\* The invariant holds of all that ticks, prunes by hand, builds and crashes
\* can do to a cache.
THEOREM Invariance == Spec => []IInv
<1>1. IInv /\ [Next]_vars => IInv'
  BY Typed, Flies, ByHandFirst, StaysOld DEF IInv
<1> QED
  BY <1>1, Starts, PTL DEF Spec

\* The lock, the clock and all a process knows keep their types.
THEOREM TypeCorrect == Spec => []TypeOK
<1>1. IInv => TypeOK
  BY DEF IInv
<1> QED
  BY <1>1, Invariance, PTL

\* However many ticks and prunes there are, autotrim journals no start of a
\* prune before one by hand was completed (Gate).
THEOREM GateHolds == Spec => []ManualFirst
<1>1. IInv => ManualFirst
  BY DEF IInv
<1> QED
  BY <1>1, Invariance, PTL

\* However many processes there are, the flock on prune.state lets one prune.
THEOREM SingleFlight == Spec => []OneFlight
<1>1. IInv => OneFlight
  BY DEF IInv
<1> QED
  BY <1>1, Invariance, PTL

\* For every min_age and whatever is used when: no find, of a process that
\* runs or of one long gone, deletes what was used within min_age.
THEOREM RecentIsKept == Spec => RecentSurvives
<1> DEFINE Spared == \A e \in Entry : cache[e].here /\ ~cache'[e].here => cache[e].hour + 1 + MinAge <= now
<1>1. IInv /\ [Next]_vars => [Spared]_vars
  <2> SUFFICES ASSUME IInv, Next, NEW e \in Entry, cache[e].here, ~cache'[e].here
               PROVE  cache[e].hour + 1 + MinAge <= now
    OBVIOUS
  <2>1. \E c \in {do[p].cutoff : p \in {q \in Proc : pc[q] = "find"}} \cup orphans : Deletes(c)
    <3>1. cache' # cache /\ \A u \in Entry : ~Use(u)
      BY DEF Use, IInv, TypeOK
    <3> QED
      BY <3>1 DEF Next, machine, Tick, PruneByHand, Begin, ReadGate, Lock, LookForBuilds, Truncate, Unsaved,
         Save, Plan, JournalStart, JournalAfter, Find, FindEnds, Kill, OrphanFinds, OrphanEnds, HourPasses
  <2>2. PICK c \in {do[p].cutoff : p \in {q \in Proc : pc[q] = "find"}} \cup orphans : Deletes(c)
    BY <2>1
  <2>3. c \in Nat /\ Old(c)
    <3>1. orphans \subseteq Nat /\ \A p \in Proc : do[p].cutoff \in Nat
      BY DEF IInv, TypeOK, Doing
    <3>2. \A p \in Proc : pc[p] = "find" => Old(do[p].cutoff)
      BY DEF IInv, OldEnough
    <3>3. \A a \in orphans : Old(a)
      BY DEF IInv, OldEnough
    <3> QED
      BY <3>1, <3>2, <3>3
  <2>4. cache[e].hour <= c /\ cache[e].hour \in Nat
    BY <2>2 DEF Deletes, Matches, IInv, TypeOK
  <2>5. now \in Nat /\ MinAge \in Nat
    BY AutopilotAssumption DEF IInv, TypeOK
  <2> QED
    BY <2>3, <2>4, <2>5 DEF Old
<1> QED
  BY <1>1, Invariance, PTL DEF Spec, RecentSurvives

----------------------------------------------------------------------------
(* Enough is kept: caches, one deletion and one use at a time.              *)

Caches == [Entry -> [here : BOOLEAN, hour : Nat]]

\* What a find with cutoff h leaves of a cache c, the last hour it takes
\* aside; and whether more than KeepUnder is.
Rest(c, h) == {e \in Entry : c[e].hour >= h /\ (c[e].here \/ c[e].hour = h)}
Enough(c, h) == Cardinality(Rest(c, h)) > KeepUnder

\* Something is gone that was used after h.
GoneAfter(c, h) == \E e \in Entry : ~c[e].here /\ c[e].hour > h

\* g is gone, and nothing gone was used after it.
LastGone(c, g) == ~c[g].here /\ ~GoneAfter(c, c[g].hour)

\* The last hour taken carried the cache under KeepUnder, if anything did.
Carried(c) == \A g \in Entry : LastGone(c, g) => Enough(c, c[g].hour)

\* A cutoff takes no more than it may, unless more went before.
Spares(c, h) == GoneAfter(c, h) \/ Enough(c, h)

LEMMA MoreIsEnough ==
  ASSUME NEW c, NEW h, NEW d, NEW k, Rest(c, h) \subseteq Rest(d, k), Enough(c, h)
  PROVE  Enough(d, k)
<1>1. IsFiniteSet(Entry) /\ Rest(c, h) \subseteq Entry /\ Rest(d, k) \subseteq Entry
  BY AutopilotAssumption DEF Rest
<1>2. IsFiniteSet(Rest(d, k)) /\ IsFiniteSet(Rest(c, h))
  BY <1>1, FS_Subset
<1>3. /\ Cardinality(Rest(c, h)) \in Nat /\ Cardinality(Rest(d, k)) \in Nat
      /\ Cardinality(Rest(c, h)) <= Cardinality(Rest(d, k))
  BY <1>2, FS_Subset, FS_CardinalityType
<1> QED
  BY <1>3, AutopilotAssumption DEF Enough

\* One entry deleted under a cutoff that spares.
LEMMA DeletionCarried ==
  ASSUME NEW c \in Caches, NEW d \in Caches, NEW e \in Entry, NEW h \in Nat,
         c[e].here, c[e].hour <= h, d = [c EXCEPT ![e].here = FALSE],
         Carried(c), Spares(c, h)
  PROVE  Carried(d)
<1>type. \A f \in Entry : c[f].hour \in Nat /\ d[f].hour = c[f].hour
  BY DEF Caches
<1>here. ~d[e].here /\ \A f \in Entry \ {e} : d[f].here = c[f].here
  BY DEF Caches
<1> SUFFICES ASSUME NEW g \in Entry, LastGone(d, g)
             PROVE  Enough(d, d[g].hour)
  BY DEF Carried
<1>1. CASE GoneAfter(c, c[e].hour)
  <2>1. c[e].hour < c[g].hour /\ g # e
    <3>1. PICK f \in Entry : ~c[f].here /\ c[f].hour > c[e].hour
      BY <1>1 DEF GoneAfter
    <3>2. ~d[f].here /\ d[f].hour = c[f].hour
      BY <1>here, <1>type, <3>1
    <3>3. ~(d[f].hour > d[g].hour)
      BY <3>2 DEF LastGone, GoneAfter
    <3> QED
      BY <1>type, <3>1, <3>2, <3>3
  <2>2. LastGone(c, g)
    BY <1>here, <1>type, <2>1 DEF LastGone, GoneAfter
  <2>3. Enough(c, c[g].hour)
    BY <2>2 DEF Carried
  <2>4. Rest(c, c[g].hour) \subseteq Rest(d, d[g].hour)
    BY <1>here, <1>type, <2>1 DEF Rest
  <2> QED
    BY <2>3, <2>4, MoreIsEnough
<1>2. CASE ~GoneAfter(c, c[e].hour)
  <2>1. d[g].hour = c[e].hour
    <3>1. ~(d[e].hour > d[g].hour) /\ ~d[g].here
      BY <1>here DEF LastGone, GoneAfter
    <3>2. CASE g = e
      BY <1>type, <3>2
    <3>3. CASE g # e
      <4>1. ~c[g].here
        BY <1>here, <3>1, <3>3
      <4>2. ~(c[g].hour > c[e].hour)
        BY <1>2, <4>1 DEF GoneAfter
      <4> QED
        BY <1>type, <3>1, <4>2
    <3> QED
      BY <3>2, <3>3
  <2>2. ~GoneAfter(c, h)
    BY <1>2, <1>type DEF GoneAfter
  <2>3. Enough(c, h)
    BY <2>2 DEF Spares
  <2>4. ASSUME NEW f \in Rest(c, h)
        PROVE  f \in Rest(d, c[e].hour)
    <3>1. f \in Entry /\ c[f].hour >= h /\ (c[f].here \/ c[f].hour = h)
      BY DEF Rest
    <3>2. d[f].hour >= c[e].hour
      BY <1>type, <3>1
    <3>3. d[f].here \/ d[f].hour = c[e].hour
      <4>1. CASE f = e
        BY <1>type, <4>1
      <4>2. CASE f # e /\ c[f].here
        BY <1>here, <3>1, <4>2
      <4>3. CASE f # e /\ ~c[f].here
        <5>1. ~(c[f].hour > c[e].hour)
          BY <1>2, <3>1, <4>3 DEF GoneAfter
        <5> QED
          BY <1>type, <3>1, <3>2, <5>1
      <4> QED
        BY <4>1, <4>2, <4>3
    <3> QED
      BY <3>1, <3>2, <3>3 DEF Rest
  <2> QED
    BY <2>1, <2>3, <2>4, MoreIsEnough
<1> QED
  BY <1>1, <1>2

\* It leaves every cutoff sparing.
LEMMA DeletionSpares ==
  ASSUME NEW c \in Caches, NEW d \in Caches, NEW e \in Entry, NEW k \in Nat,
         c[e].here, d = [c EXCEPT ![e].here = FALSE], Spares(c, k)
  PROVE  Spares(d, k)
<1>type. \A f \in Entry : c[f].hour \in Nat /\ d[f].hour = c[f].hour
  BY DEF Caches
<1>here. ~d[e].here /\ \A f \in Entry \ {e} : d[f].here = c[f].here
  BY DEF Caches
<1>1. CASE GoneAfter(c, k)
  <2>1. PICK f \in Entry : ~c[f].here /\ c[f].hour > k
    BY <1>1 DEF GoneAfter
  <2>2. ~d[f].here /\ d[f].hour > k
    BY <1>here, <1>type, <2>1
  <2> QED
    BY <2>2 DEF Spares, GoneAfter
<1>2. CASE c[e].hour > k
  BY <1>2, <1>here, <1>type DEF Spares, GoneAfter
<1>3. CASE Enough(c, k) /\ ~(c[e].hour > k)
  <2>1. ASSUME NEW f \in Rest(c, k)
        PROVE  f \in Rest(d, k)
    <3>1. f \in Entry /\ c[f].hour >= k /\ (c[f].here \/ c[f].hour = k)
      BY DEF Rest
    <3>2. d[f].hour >= k /\ (d[f].here \/ d[f].hour = k)
      BY <1>3, <1>here, <1>type, <3>1
    <3> QED
      BY <3>1, <3>2 DEF Rest
  <2>2. Rest(c, k) \subseteq Rest(d, k)
    BY <2>1
  <2> QED
    BY <1>3, <2>2, MoreIsEnough DEF Spares
<1> QED
  BY <1>1, <1>2, <1>3 DEF Spares

\* Whoever is gone last: one used after h, or e, which is then alone there.
LEMMA UseCarries ==
  ASSUME NEW c \in Caches, NEW d \in Caches, NEW e \in Entry, NEW n \in Nat, NEW k \in Nat,
         \A f \in Entry : c[f].hour <= n, k <= n,
         d = [c EXCEPT ![e] = [here |-> TRUE, hour |-> n]],
         Carried(c), Spares(c, k)
  PROVE  Spares(d, k)
<1>type. \A f \in Entry : c[f].hour \in Nat
  BY DEF Caches
<1>e. d[e].here /\ d[e].hour = n
  BY DEF Caches
<1>rest. \A f \in Entry \ {e} : d[f] = c[f]
  BY DEF Caches
<1>1. CASE Enough(c, k)
  <2>1. ASSUME NEW f \in Rest(c, k)
        PROVE  f \in Rest(d, k)
    BY <1>e, <1>rest, <1>type DEF Rest
  <2>2. Rest(c, k) \subseteq Rest(d, k)
    BY <2>1
  <2> QED
    BY <1>1, <2>2, MoreIsEnough DEF Spares
<1>2. CASE GoneAfter(d, k)
  BY <1>2 DEF Spares
<1>3. CASE GoneAfter(c, k) /\ ~GoneAfter(d, k)
  <2>1. ~c[e].here /\ c[e].hour > k
    BY <1>3, <1>rest DEF GoneAfter
  <2>2. \A f \in Entry \ {e} : ~c[f].here => ~(c[f].hour > k)
    BY <1>3, <1>rest DEF GoneAfter
  <2>3. LastGone(c, e)
    BY <1>type, <2>1, <2>2 DEF LastGone, GoneAfter
  <2>4. Enough(c, c[e].hour)
    BY <2>3 DEF Carried
  <2>5. ASSUME NEW f \in Rest(c, c[e].hour)
        PROVE  f \in Rest(d, k)
    <3>1. f \in Entry /\ c[f].hour >= c[e].hour /\ (c[f].here \/ c[f].hour = c[e].hour)
      BY DEF Rest
    <3>2. CASE f = e
      BY <1>e, <3>1, <3>2 DEF Rest
    <3>3. CASE f # e
      <4>1. c[f].hour > k /\ d[f] = c[f]
        BY <1>rest, <1>type, <2>1, <3>1, <3>3
      <4>2. c[f].here
        BY <2>2, <3>1, <3>3, <4>1
      <4> QED
        BY <1>type, <3>1, <4>1, <4>2 DEF Rest
    <3> QED
      BY <3>2, <3>3
  <2>6. Rest(c, c[e].hour) \subseteq Rest(d, k)
    BY <2>5
  <2> QED
    BY <2>4, <2>6, MoreIsEnough, ZenonT(30) DEF Spares
<1> QED
  BY <1>1, <1>2, <1>3 DEF Spares

LEMMA UseCarried ==
  ASSUME NEW c \in Caches, NEW d \in Caches, NEW e \in Entry, NEW n \in Nat,
         \A f \in Entry : c[f].hour <= n,
         d = [c EXCEPT ![e] = [here |-> TRUE, hour |-> n]], Carried(c)
  PROVE  Carried(d)
<1> SUFFICES ASSUME NEW g \in Entry, LastGone(d, g)
             PROVE  Enough(d, d[g].hour)
  BY DEF Carried
<1>1. g # e /\ d[g] = c[g] /\ ~c[g].here /\ c[g].hour \in Nat
  BY DEF LastGone, Caches
<1>2. Spares(c, c[g].hour)
  BY <1>1 DEF Carried, LastGone, Spares
<1>3. Spares(d, c[g].hour)
  BY <1>1, <1>2, UseCarries
<1> QED
  BY <1>1, <1>3 DEF Spares, LastGone

\* Naturals with a bound have a greatest among them.
LEMMA Greatest ==
  ASSUME NEW n \in Nat, NEW S, S \subseteq 0..n, S # {}
  PROVE  \E m \in S : \A k \in S : k <= m
<1> DEFINE T == {n - k : k \in S}
<1>0. \A k \in S : n - k \in Nat /\ n - k \in T
  OBVIOUS
<1>1. T \subseteq Nat /\ T # {}
  <2>1. T \subseteq Nat
    BY <1>0
  <2> HIDE DEF T
  <2> QED
    BY <1>0, <2>1
<1> HIDE DEF T
<1>2. PICK x \in T : \A y \in T : ~(<<y, x>> \in OpToRel(<, Nat))
  BY <1>1, NatLessThanWellFounded, WFMin
<1>3. \A y \in T : ~(y < x)
  BY <1>1, <1>2 DEF OpToRel
<1>4. PICK m \in S : x = n - m
  BY DEF T
<1>5. ASSUME NEW k \in S
      PROVE  k <= m
  <2>1. n - k \in T
    BY DEF T
  <2>2. ~(n - k < n - m)
    BY <1>3, <1>4, <2>1
  <2> QED
    BY <2>2
<1> QED
  BY <1>4, <1>5

\* The earliest hour by which the oldest hold what is wanted leaves enough.
LEMMA CutoffSpares ==
  ASSUME cache \in Caches, now \in Nat, Cardinality(Here) > KeepUnder,
         NEW d \in Doing, NEW h \in OldHours, IsCutoff(h, d)
  PROVE  Enough(cache, h)
<1> USE AutopilotAssumption
<1>type. \A e \in Entry : cache[e].hour \in Nat
  BY DEF Caches
<1>h. h \in Nat /\ h <= now - MinAge - 1 /\ OldHours \subseteq 0..(now - MinAge - 1)
  BY DEF OldHours
<1>old. \A k \in OldHours : k \in Nat
  BY DEF OldHours
<1>fin. IsFiniteSet(Here) /\ IsFiniteSet(Entry) /\ Here \subseteq Entry /\ Cardinality(Here) \in Nat
  BY FS_Subset, FS_CardinalityType DEF Here
<1>rest. IsFiniteSet(Rest(cache, h)) /\ Cardinality(Rest(cache, h)) \in Nat
  BY <1>fin, FS_Subset, FS_CardinalityType DEF Rest
<1>want. Want(d) \in Int /\ Want(d) <= Cardinality(Here) - KeepUnder
  <2> DEFINE over == Cardinality(Here) - KeepUnder
  <2>1. over \in Int /\ d.target - d.free \in Int
    BY <1>fin DEF Doing
  <2>2. CASE d.hand
    BY <2>1, <2>2 DEF Want
  <2>3. CASE ~d.hand
    <3>1. Want(d) = Min({over, d.target - d.free})
      BY <2>3 DEF Want
    <3> HIDE DEF over
    <3> DEFINE S == {over, d.target - d.free}
    <3>2. \E x \in S : \A y \in S : x =< y
      <4>1. over <= d.target - d.free \/ d.target - d.free <= over
        BY <2>1
      <4> QED
        BY <2>1, <4>1
    <3>3. Min(S) \in S /\ \A y \in S : Min(S) =< y
      BY <3>2 DEF Min
    <3>4. Min(S) \in Int /\ Min(S) <= over
      BY <2>1, <3>3
    <3> QED
      BY <3>1, <3>4 DEF over
  <2> QED
    BY <2>2, <2>3
<1>1. CASE \A k \in OldHours : ~(k < h)
  <2>1. ASSUME NEW e \in Here
        PROVE  e \in Rest(cache, h)
    <3>1. e \in Entry /\ cache[e].here /\ cache[e].hour \in Nat
      BY <1>type DEF Here
    <3>2. CASE cache[e].hour < h
      <4>1. cache[e].hour \in 0..(now - MinAge - 1)
        BY <1>h, <3>1, <3>2
      <4>2. cache[e].hour \in OldHours
        BY <4>1 DEF OldHours
      <4> QED
        BY <1>1, <3>2, <4>2
    <3> QED
      BY <1>h, <3>1, <3>2 DEF Rest
  <2>2. Cardinality(Here) <= Cardinality(Rest(cache, h))
    BY <1>rest, <2>1, FS_Subset
  <2> QED
    BY <1>fin, <1>rest, <2>2 DEF Enough
<1>2. CASE \E k \in OldHours : k < h
  \* The last of the old hours before the cutoff.
  <2>1. PICK k \in OldHours : k < h /\ \A j \in OldHours : j < h => j <= k
    <3> DEFINE S == {j \in OldHours : j < h}
    <3>0. S # {} /\ \A j \in S : j \in OldHours /\ j < h
      BY <1>2
    <3> HIDE DEF S
    <3>1. S \subseteq 0..h /\ S # {}
      <4>1. ASSUME NEW j \in S
            PROVE  j \in 0..h
        <5>1. j \in Nat /\ j < h /\ h \in Nat
          BY <1>h, <1>old, <3>0
        <5> QED
          BY <5>1
      <4> QED
        BY <3>0, <4>1
    <3>2. PICK k \in S : \A j \in S : j <= k
      BY <3>1, <1>h, Greatest
    <3> QED
      BY <3>2 DEF S
  <2>2. k \in Nat /\ Cardinality(UpTo(k)) < Want(d)
    BY <1>h, <2>1 DEF IsCutoff
  <2>3. UpTo(k) \subseteq Here
    BY DEF UpTo
  <2>4. /\ IsFiniteSet(UpTo(k)) /\ Cardinality(UpTo(k)) \in Nat
        /\ IsFiniteSet(Here \ UpTo(k)) /\ Cardinality(Here \ UpTo(k)) \in Nat
    BY <1>fin, <2>3, FS_Subset, FS_CardinalityType
  <2>5. Cardinality(Here \ UpTo(k)) = Cardinality(Here) - Cardinality(UpTo(k))
    <3>1. Here \cap UpTo(k) = UpTo(k)
      BY <2>3
    <3> QED
      BY <1>fin, <3>1, FS_Difference
  <2>6. ASSUME NEW e \in Here \ UpTo(k)
        PROVE  e \in Rest(cache, h)
    <3>1. e \in Entry /\ cache[e].here /\ cache[e].hour \in Nat /\ ~(cache[e].hour <= k)
      BY <1>type DEF Here, UpTo
    <3>2. CASE cache[e].hour < h
      <4>1. cache[e].hour \in 0..(now - MinAge - 1)
        BY <1>h, <3>1, <3>2
      <4>2. cache[e].hour \in OldHours
        BY <4>1 DEF OldHours
      <4> QED
        BY <2>1, <3>1, <3>2, <4>2
    <3> QED
      BY <1>h, <3>1, <3>2 DEF Rest
  <2>7. Cardinality(Here \ UpTo(k)) <= Cardinality(Rest(cache, h))
    BY <1>rest, <2>6, FS_Subset
  <2> QED
    BY <1>fin, <1>rest, <1>want, <2>2, <2>4, <2>5, <2>7 DEF Enough
<1> QED
  BY <1>1, <1>2

\* What the run's property says of the last hour taken.
LEMMA CarriedKeeps ==
  ASSUME cache \in Caches, now \in Nat, \A e \in Entry : cache[e].hour <= now, Carried(cache)
  PROVE  KeepsEnough
<1> USE AutopilotAssumption
<1> DEFINE gone == Entry \ Here
           hours == {cache[e].hour : e \in gone}
<1> SUFFICES ASSUME gone # {}
             PROVE  Cardinality(Here \cup {e \in gone : cache[e].hour = Max(hours)}) > KeepUnder
  BY DEF KeepsEnough
<1>type. \A e \in Entry : cache[e].hour \in Nat /\ cache[e].hour <= now
  BY DEF Caches
<1>1. \E x \in hours : \A y \in hours : x >= y
  <2>1. hours \subseteq 0..now /\ hours # {}
    BY <1>type
  <2> HIDE DEF hours
  <2>2. PICK x \in hours : \A y \in hours : y <= x
    BY <2>1, Greatest
  <2> QED
    BY <2>1, <2>2
<1>2. Max(hours) \in hours /\ \A y \in hours : Max(hours) >= y
  BY <1>1 DEF Max
<1>3. PICK g \in gone : Max(hours) = cache[g].hour
  BY <1>2
<1>4. LastGone(cache, g)
  <2>1. ASSUME NEW f \in Entry, ~cache[f].here
        PROVE  ~(cache[f].hour > cache[g].hour)
    <3>1. f \in gone
      BY <2>1 DEF Here
    <3>2. cache[f].hour \in hours
      BY <3>1
    <3>3. cache[g].hour >= cache[f].hour
      BY <1>2, <1>3, <3>2
    <3>4. g \in Entry
      OBVIOUS
    <3> QED
      BY <1>type, <3>3, <3>4
  <2> QED
    BY <2>1 DEF LastGone, GoneAfter, Here
<1>5. Enough(cache, Max(hours))
  BY <1>3, <1>4 DEF Carried
<1> DEFINE kept == Here \cup {e \in gone : cache[e].hour = Max(hours)}
<1>6. Rest(cache, Max(hours)) \subseteq kept
  BY DEF Rest, Here
<1>7. kept \subseteq Entry
  BY DEF Here
<1> HIDE DEF kept
<1>8. IsFiniteSet(kept) /\ Cardinality(kept) \in Nat
  BY <1>7, FS_Subset, FS_CardinalityType
<1>9. IsFiniteSet(Rest(cache, Max(hours))) /\ Cardinality(Rest(cache, Max(hours))) \in Nat
      /\ Cardinality(Rest(cache, Max(hours))) <= Cardinality(kept)
  BY <1>6, <1>8, FS_Subset, FS_CardinalityType
<1>10. Cardinality(kept) > KeepUnder
  BY <1>5, <1>8, <1>9 DEF Enough
<1> QED
  BY <1>10 DEF kept

----------------------------------------------------------------------------
(* Enough is kept: every step. *)

\* The cutoffs of finds that run, are about to, or were left behind.
Cutoffs == {do[p].cutoff : p \in {q \in Proc : pc[q] \in {"start", "find"}}} \cup orphans

Bounded == /\ \A e \in Entry : cache[e].hour <= now
           /\ Carried(cache)
           /\ \A c \in Cutoffs : Spares(cache, c)

\* Only PrunePlan leads to a start.
LEMMA OnlyPlan ==
  ASSUME TypeOK, [Next]_vars, NEW p \in Proc, pc[p] = "plan", pc'[p] = "start"
  PROVE  Plan(p)
<1> DEFINE Others == {"idle", "gate", "lock", "look", "truncate", "save", "plan", "find", "after"}
<1>type. pc \in [Proc -> {"idle", "gate", "lock", "look", "truncate", "save", "plan", "start", "find", "after"}]
  BY DEF TypeOK
<1>1. SUFFICES ASSUME NEW q \in Proc, NEW s \in Others, pc' = [pc EXCEPT ![q] = s]
               PROVE  FALSE
  <2>1. ASSUME NEW q \in Proc,
               \/ Tick(q) \/ PruneByHand(q) \/ ReadGate(q) \/ Lock(q) \/ LookForBuilds(q)
               \/ Truncate(q) \/ Unsaved(q) \/ Save(q) \/ JournalStart(q)
               \/ FindEnds(q) \/ JournalAfter(q) \/ Kill(q)
        PROVE  \E s \in Others : pc' = [pc EXCEPT ![q] = s]
    BY <2>1 DEF Tick, PruneByHand, Begin, ReadGate, Lock, LookForBuilds, Truncate, Unsaved, Save,
                JournalStart, FindEnds, JournalAfter, Kill, End, Goto
  <2>2. ASSUME \/ \E q \in Proc : Find(q)
               \/ OrphanFinds \/ OrphanEnds \/ (\E e \in Entry : Use(e)) \/ HourPasses \/ UNCHANGED vars
        PROVE  pc' = pc
    BY <2>2 DEF Find, OrphanFinds, OrphanEnds, Use, HourPasses, vars
  <2>3. ASSUME NEW q \in Proc, Plan(q)
        PROVE  q = p
    BY <1>type, <2>3 DEF Plan, End, Goto
  <2> QED
    BY <1>1, <2>1, <2>2, <2>3 DEF Next
<1> QED
  BY <1>1, <1>type

LEMMA CutoffsFlow ==
  ASSUME TypeOK, [Next]_vars, NEW c \in Cutoffs'
  PROVE  c \in Cutoffs \/ (\E p \in Proc : Plan(p) /\ pc'[p] = "start" /\ c = do'[p].cutoff)
<1>1. orphans' \subseteq orphans \cup {do[p].cutoff : p \in {q \in Proc : pc[q] = "find"}}
  BY DEF Next, vars, machine, Tick, PruneByHand, Begin, ReadGate, Lock, LookForBuilds, Truncate, Unsaved,
         Save, Plan, JournalStart, JournalAfter, Find, FindEnds, Kill, OrphanFinds, OrphanEnds, Use, HourPasses
<1>2. CASE c \in orphans'
  BY <1>1, <1>2 DEF Cutoffs
<1>3. ASSUME NEW q \in Proc, pc'[q] \in {"start", "find"}, c = do'[q].cutoff
      PROVE  c \in Cutoffs \/ (\E p \in Proc : Plan(p) /\ pc'[p] = "start" /\ c = do'[p].cutoff)
  <2>1. CASE pc[q] \in {"start", "find"} /\ do'[q].cutoff = do[q].cutoff
    BY <1>3, <2>1 DEF Cutoffs
  <2>2. CASE pc[q] = "plan" /\ pc'[q] = "start"
    BY <1>3, <2>2, OnlyPlan
  <2>3. ASSUME NEW p \in Proc, Own(p), Moves(p)
        PROVE  \/ pc[q] \in {"start", "find"} /\ do'[q].cutoff = do[q].cutoff
               \/ pc[q] = "plan" /\ pc'[q] = "start"
    <3>1. CASE p = q
      BY <1>3, <2>3, <3>1 DEF Moves, Keeps, Within
    <3>2. CASE p # q
      BY <1>3, <2>3, <3>2 DEF Own
    <3> QED
      BY <3>1, <3>2
  <2>4. CASE UNCHANGED <<pc, do, inode>>
    BY <1>3, <2>1, <2>4
  <2> QED
    BY <2>1, <2>2, <2>3, <2>4, Flow
<1> QED
  BY <1>2, <1>3 DEF Cutoffs

\* What a step does to the cache.
LEMMA CacheFlow == TypeOK /\ [Next]_vars =>
  \/ UNCHANGED cache /\ (now' = now \/ (now' \in Hours /\ now' = now + 1))
  \/ /\ (\E c \in Cutoffs : Deletes(c)) \/ (\E e \in Entry : Use(e))
     /\ UNCHANGED <<now, pc, do, orphans>>
<1> SUFFICES ASSUME TypeOK, Next, cache' # cache
             PROVE  /\ (\E c \in Cutoffs : Deletes(c)) \/ (\E e \in Entry : Use(e))
                    /\ UNCHANGED <<now, pc, do, orphans>>
  BY DEF Next, vars, machine, Tick, PruneByHand, Begin, ReadGate, Lock, LookForBuilds, Truncate, Unsaved,
         Save, Plan, JournalStart, JournalAfter, Find, FindEnds, Kill, OrphanFinds, OrphanEnds, Use, HourPasses
<1>1. (\E p \in Proc : Find(p)) \/ OrphanFinds \/ (\E e \in Entry : Use(e))
  BY DEF Next, machine, Tick, PruneByHand, Begin, ReadGate, Lock, LookForBuilds, Truncate, Unsaved,
         Save, Plan, JournalStart, JournalAfter, FindEnds, Kill, OrphanEnds, HourPasses
<1>2. ASSUME NEW p \in Proc, Find(p)
      PROVE  do[p].cutoff \in Cutoffs /\ Deletes(do[p].cutoff) /\ UNCHANGED <<now, pc, do, orphans>>
  BY <1>2 DEF Find, Cutoffs
<1>3. CASE OrphanFinds
  BY <1>3 DEF OrphanFinds, Cutoffs
<1>4. ASSUME NEW e \in Entry, Use(e)
      PROVE  UNCHANGED <<now, pc, do, orphans>>
  BY <1>4 DEF Use
<1> QED
  BY <1>1, <1>2, <1>3, <1>4

LEMMA StaysBounded == TypeOK /\ TypeOK' /\ OldEnough /\ Bounded /\ [Next]_vars => Bounded'
<1> SUFFICES ASSUME TypeOK, TypeOK', OldEnough, Bounded, [Next]_vars
             PROVE  Bounded'
  OBVIOUS
<1>type. /\ cache \in Caches /\ cache' \in Caches /\ now \in Nat /\ MinAge \in Nat
         /\ orphans \subseteq Nat /\ \A p \in Proc : do[p] \in Doing /\ do[p].cutoff \in Nat
  BY AutopilotAssumption DEF TypeOK, Caches, Doing
<1>hours. \A e \in Entry : cache[e].hour \in Nat
  BY <1>type DEF Caches
<1>old. \A c \in Cutoffs : c \in Nat /\ c <= now
  <2>1. ASSUME NEW c \in Nat, Old(c)
        PROVE  c <= now
    BY <1>type, <2>1 DEF Old
  <2> QED
    BY <1>type, <2>1 DEF Cutoffs, OldEnough
<1>1. CASE UNCHANGED cache /\ (now' = now \/ (now' \in Hours /\ now' = now + 1))
  <2>1. \A e \in Entry : cache'[e].hour <= now'
    BY <1>1, <1>type, <1>hours DEF Bounded
  <2>2. Carried(cache')
    BY <1>1 DEF Bounded
  <2>3. ASSUME NEW p \in Proc, Plan(p), pc'[p] = "start"
        PROVE  Spares(cache, do'[p].cutoff)
    <3>1. Goto(p, "start") /\ Cardinality(Here) > KeepUnder
          /\ \E h \in OldHours : IsCutoff(h, do[p]) /\ do' = [do EXCEPT ![p].cutoff = h]
      BY <2>3 DEF Plan, End, TypeOK
    <3>2. PICK h \in OldHours : IsCutoff(h, do[p]) /\ do' = [do EXCEPT ![p].cutoff = h]
      BY <3>1
    <3>3. do'[p].cutoff = h
      BY <1>type, <3>2 DEF TypeOK, Doing
    <3>4. Enough(cache, h)
      BY <1>type, <3>1, <3>2, CutoffSpares
    <3> QED
      BY <3>3, <3>4 DEF Spares
  <2>4. \A c \in Cutoffs' : Spares(cache, c)
    BY <2>3, CutoffsFlow DEF Bounded
  <2> QED
    BY <1>1, <2>1, <2>2, <2>4 DEF Bounded
<1>2. ASSUME NEW h \in Cutoffs, Deletes(h), UNCHANGED <<now, pc, do, orphans>>
      PROVE  Bounded'
  <2>1. PICK e \in Entry : Matches(e, h) /\ cache' = [cache EXCEPT ![e].here = FALSE]
    BY <1>2 DEF Deletes
  <2>2. cache[e].here /\ cache[e].hour <= h
    BY <2>1 DEF Matches
  <2>3. \A f \in Entry : cache'[f].hour = cache[f].hour
    BY <1>type, <2>1 DEF Caches
  <2>4. Carried(cache')
    BY <1>type, <1>old, <2>1, <2>2, DeletionCarried DEF Bounded
  <2>5. \A c \in Cutoffs : Spares(cache', c)
    BY <1>type, <1>old, <2>1, <2>2, DeletionSpares DEF Bounded
  <2>6. Cutoffs' = Cutoffs
    BY <1>2 DEF Cutoffs
  <2> QED
    BY <1>2, <2>3, <2>4, <2>5, <2>6 DEF Bounded
<1>3. ASSUME NEW e \in Entry, Use(e)
      PROVE  Bounded'
  <2>1. cache' = [cache EXCEPT ![e] = [here |-> TRUE, hour |-> now]] /\ UNCHANGED <<now, pc, do, orphans>>
    BY <1>3 DEF Use
  <2>2. \A f \in Entry : cache'[f].hour <= now
    BY <1>type, <2>1 DEF Caches, Bounded
  <2>3. Carried(cache')
    BY <1>type, <2>1, UseCarried DEF Bounded
  <2>4. \A c \in Cutoffs : Spares(cache', c)
    BY <1>type, <1>old, <2>1, UseCarries DEF Bounded
  <2>5. Cutoffs' = Cutoffs
    BY <2>1 DEF Cutoffs
  <2> QED
    BY <2>1, <2>2, <2>3, <2>4, <2>5 DEF Bounded
<1> QED
  BY <1>1, <1>2, <1>3, CacheFlow

\* For any number of prunes, finds left behind and uses in between: together
\* they leave more than keep_under but for the last hour they took.
THEOREM EnoughIsKept == Spec => []KeepsEnough
<1>1. Init => Bounded
  <2> SUFFICES ASSUME Init
               PROVE  Bounded
    OBVIOUS
  <2>1. \A e \in Entry : cache[e].here /\ cache[e].hour <= now
    <3>1. now \in Nat /\ cache \in [Entry -> [here : {TRUE}, hour : 0..now]]
      BY AutopilotAssumption DEF Init
    <3>2. ASSUME NEW x \in [here : {TRUE}, hour : 0..now]
          PROVE  x.here /\ x.hour <= now
      <4>1. x.here = TRUE
        OBVIOUS
      <4>2. x.hour \in 0..now
        OBVIOUS
      <4> QED
        BY <3>1, <4>1, <4>2
    <3>3. \A e \in Entry : cache[e] \in [here : {TRUE}, hour : 0..now]
      BY <3>1
    <3> QED
      BY <3>2, <3>3
  <2>2. Cutoffs = {}
    BY DEF Init, Cutoffs
  <2> QED
    BY <2>1, <2>2 DEF Bounded, Carried, LastGone
<1>2. IInv /\ IInv' /\ Bounded /\ [Next]_vars => Bounded'
  BY StaysBounded DEF IInv
<1>3. IInv /\ Bounded => KeepsEnough
  <2> SUFFICES ASSUME TypeOK, Bounded
               PROVE  KeepsEnough
    BY DEF IInv
  <2>1. cache \in Caches /\ now \in Nat
    BY AutopilotAssumption DEF TypeOK, Caches
  <2> QED
    BY <2>1, CarriedKeeps DEF Bounded
<1> QED
  BY <1>1, <1>2, <1>3, Invariance, PTL DEF Spec

----------------------------------------------------------------------------
(* The deferral clock: what it stands for. *)

\* Builds were seen from since to last, with no gap.
FromSeen(hours, d) == d # Stopped =>
  /\ d.since \in hours
  /\ \A t \in hours : d.since <= t /\ t < d.last => \E u \in hours : t < u /\ u - t <= Gap

\* The deferrals saved end with last, and before since there was a gap.
ToSaved(hours, d) ==
  /\ hours # {} => d # Stopped /\ d.last \in hours
  /\ \A h \in hours : h <= d.last
  /\ \A a \in hours : a < d.since =>
       \E t \in hours : /\ a <= t /\ t < d.since /\ d.since - t > Gap
                        /\ \A u \in hours : u > t => u - t > Gap

\* It is not ahead of the clock on the wall.
Behind(d) == d.since <= d.last /\ d.last <= now

\* What a process past the look is about to save.
Looked(d) == /\ Behind(d.next) /\ FromSeen(seen, d.next)
             /\ d.go => d.next = Stopped
             /\ ~d.go => ToSaved(saved \cup {d.next.last}, d.next)

Timed ==
  /\ Behind(clock) /\ FromSeen(seen, clock)
  /\ (\A p \in Proc : pc[p] # "save") => ToSaved(saved, clock)
  /\ \A p \in Proc : pc[p] = "look" => do[p].next = clock
  /\ \A p \in Proc : pc[p] = "save" => clock = Stopped
  /\ \A p \in Proc : pc[p] \in {"truncate", "save"} => Looked(do[p])

\* A build seen now.
LEMMA SeenNow ==
  ASSUME now \in Nat, seen \subseteq Nat, NEW d \in Deferral, Behind(d), FromSeen(seen, d)
  PROVE  FromSeen(seen \cup {now}, d)
BY DEF FromSeen, Behind, Deferral

\* The clock goes on, or starts anew.
LEMMA NextSeen ==
  ASSUME now \in Nat, seen \subseteq Nat, NEW d \in Deferral, Behind(d), FromSeen(seen, d),
         NEW free, NEW building \in BOOLEAN
  PROVE  FromSeen(IF building THEN seen \cup {now} ELSE seen, NextDeferral(d, building, free))
<1> USE AutopilotAssumption
<1> DEFINE e == NextDeferral(d, building, free)
<1>1. CASE Goes(d, building, free)
  BY <1>1 DEF NextDeferral, FromSeen
<1>2. CASE ~Goes(d, building, free)
  <2>1. building /\ e = [since |-> Started(d), last |-> now]
    BY <1>2 DEF Goes, NextDeferral
  <2>2. e.since = Started(d) /\ e.last = now
    <3> HIDE DEF e
    <3> QED
      BY <2>1
  <2>3. (IF building THEN seen \cup {now} ELSE seen) = seen \cup {now}
    BY <2>1
  <2> HIDE DEF e
  <2>4. FromSeen(seen \cup {now}, e)
    <3>1. CASE d = Stopped \/ now - d.last > Gap
      <4>1. Started(d) = now
        BY <3>1 DEF Started
      <4>2. e.since = now
        BY <2>2, <4>1
      <4> QED
        BY <2>2, <4>2 DEF FromSeen
    <3>2. CASE ~(d = Stopped \/ now - d.last > Gap)
      <4>1. e.since = d.since /\ d.since \in seen
        BY <2>2, <3>2 DEF Started, FromSeen
      <4>2. ASSUME NEW t \in seen \cup {now}, d.since <= t, t < now
            PROVE  \E u \in seen \cup {now} : t < u /\ u - t <= Gap
        <5>1. t \in seen /\ t \in Nat /\ d.last \in Nat
          BY <4>2 DEF Deferral
        <5>2. CASE t < d.last
          BY <3>2, <4>2, <5>1, <5>2 DEF FromSeen
        <5>3. CASE ~(t < d.last)
          <6>1. t < now /\ now - t <= Gap
            BY <3>2, <4>2, <5>1, <5>3
          <6> QED
            BY <6>1
        <5> QED
          BY <5>2, <5>3
      <4> QED
        BY <2>2, <4>1, <4>2 DEF FromSeen
    <3> QED
      BY <3>1, <3>2
  <2> QED
    BY <2>3, <2>4, Zenon DEF e
<1> QED
  BY <1>1, <1>2

\* One more deferral saved.
LEMMA NextSaved ==
  ASSUME now \in Nat \ {0}, saved \subseteq Nat, NEW d \in Deferral, Behind(d), ToSaved(saved, d)
  PROVE  ToSaved(saved \cup {now}, [since |-> Started(d), last |-> now])
<1> USE AutopilotAssumption
<1> DEFINE hours == saved \cup {now}
           e == [since |-> Started(d), last |-> now]
<1>type. d.since \in Nat /\ d.last \in Nat /\ Gap \in Nat /\ d.since <= d.last /\ d.last <= now
  BY DEF Deferral, Behind
<1>1. e # Stopped /\ e.last = now /\ e.since = Started(d)
  BY DEF Stopped
<1>2. ASSUME NEW h \in hours
      PROVE  h <= now /\ h \in Nat
  <2>1. CASE h \in saved
    BY <1>type, <2>1 DEF ToSaved
  <2> QED
    BY <2>1
<1>3. ASSUME NEW a \in hours, a < Started(d)
      PROVE  \E t \in hours : /\ a <= t /\ t < Started(d) /\ Started(d) - t > Gap
                              /\ \A u \in hours : u > t => u - t > Gap
  <2>0. a \in saved /\ d # Stopped /\ d.last \in saved /\ a <= d.last /\ a \in Nat
    <3>1. Started(d) <= now /\ Started(d) \in Nat
      BY <1>type DEF Started
    <3>2. a \in saved
      BY <1>3, <3>1
    <3> QED
      BY <3>2 DEF ToSaved
  <2>1. CASE now - d.last > Gap
    <3>1. Started(d) = now
      BY <2>1 DEF Started
    <3>2. ASSUME NEW u \in hours, u > d.last
          PROVE  u - d.last > Gap
      <4>1. u \notin saved
        BY <1>type, <3>2 DEF ToSaved
      <4> QED
        BY <2>1, <4>1
    <3>3. d.last < now
      BY <1>type, <2>1
    <3> HIDE DEF e
    <3> QED
      BY <2>0, <2>1, <3>1, <3>2, <3>3
  <2>2. CASE ~(now - d.last > Gap)
    <3>1. Started(d) = d.since
      BY <2>0, <2>2 DEF Started
    <3>2. PICK t \in saved : /\ a <= t /\ t < d.since /\ d.since - t > Gap
                             /\ \A u \in saved : u > t => u - t > Gap
      BY <1>3, <2>0, <3>1 DEF ToSaved
    <3>3. now - t > Gap
      BY <1>type, <3>2
    <3>4. \A u \in hours : u > t => u - t > Gap
      BY <3>2, <3>3
    <3> QED
      BY <3>1, <3>2, <3>4
  <2> QED
    BY <2>1, <2>2
<1>4. now \in hours
  OBVIOUS
<1> HIDE DEF e, hours
<1>5. ToSaved(hours, e)
  BY <1>1, <1>2, <1>3, <1>4 DEF ToSaved
<1> QED
  BY <1>5 DEF e, hours

\* It goes beside a build only after Limit of builds without a gap.
LEMMA GoesRightly ==
  ASSUME now \in Nat, seen \subseteq Nat, NEW d \in Deferral, Behind(d), FromSeen(seen, d),
         NEW free, MayOverride(d, free)
  PROVE  free < Critical /\ Unbroken(seen)
<1> USE AutopilotAssumption
<1>type. d.since \in Nat /\ d.last \in Nat /\ d.since <= d.last /\ d.last <= now
  BY DEF Deferral, Behind
<1>1. now - Started(d) >= Limit /\ free < Critical
  BY DEF MayOverride
<1>2. d # Stopped /\ ~(now - d.last > Gap) /\ Started(d) = d.since
  BY <1>1 DEF Started
<1>3. d.since \in seen /\ now - d.since >= Limit
  BY <1>1, <1>2 DEF FromSeen
<1>4. ASSUME NEW t \in seen, d.since <= t, t < now
      PROVE  \E u \in seen \cup {now} : t < u /\ u - t <= Gap
  <2>1. CASE t < d.last
    BY <1>2, <1>4, <2>1 DEF FromSeen
  <2>2. CASE ~(t < d.last)
    <3>1. now - t <= Gap
      BY <1>type, <1>2, <2>2
    <3> QED
      BY <1>4, <3>1
  <2> QED
    BY <2>1, <2>2
<1> QED
  BY <1>1, <1>3, <1>4 DEF Unbroken

\* It does go once Limit of deferrals were saved without a gap.
LEMMA GoesAtLast ==
  ASSUME now \in Nat, saved \subseteq Nat, NEW d \in Deferral, Behind(d), ToSaved(saved, d),
         NEW free, free < Critical, Unbroken(saved)
  PROVE  MayOverride(d, free)
<1> USE AutopilotAssumption
<1>type. d.since \in Nat /\ d.last \in Nat /\ Gap \in Nat /\ d.since <= d.last /\ d.last <= now
  BY DEF Deferral, Behind
<1>1. PICK a \in saved :
        /\ now - a >= Limit
        /\ \A t \in saved : a <= t /\ t < now => \E u \in saved \cup {now} : t < u /\ u - t <= Gap
  BY DEF Unbroken
<1>2. d # Stopped /\ d.last \in saved /\ a <= d.last
  BY DEF ToSaved
<1>3. now - d.last <= Gap
  <2>1. CASE d.last = now
    BY <1>type, <2>1
  <2>2. CASE d.last < now
    <3>1. PICK u \in saved \cup {now} : d.last < u /\ u - d.last <= Gap
      BY <1>1, <1>2, <2>2
    <3>2. u \notin saved
      BY <1>type, <3>1 DEF ToSaved
    <3> QED
      BY <3>1, <3>2
  <2> QED
    BY <1>type, <2>1, <2>2
<1>4. ~(a < d.since)
  <2> SUFFICES ASSUME a < d.since
               PROVE  FALSE
    OBVIOUS
  <2>1. PICK t \in saved : /\ a <= t /\ t < d.since /\ d.since - t > Gap
                           /\ \A u \in saved : u > t => u - t > Gap
    BY DEF ToSaved
  <2>2. t \in Nat /\ t < now
    BY <1>type, <2>1
  <2>3. PICK u \in saved \cup {now} : t < u /\ u - t <= Gap
    BY <1>1, <2>1, <2>2
  <2>4. CASE u \in saved
    BY <1>type, <2>1, <2>2, <2>3, <2>4
  <2>5. CASE u = now
    BY <1>type, <2>1, <2>2, <2>3, <2>5
  <2> QED
    BY <2>4, <2>5
<1>5. Started(d) = d.since
  BY <1>type, <1>2, <1>3 DEF Started
<1> QED
  BY <1>type, <1>1, <1>4, <1>5 DEF MayOverride

----------------------------------------------------------------------------
(* The deferral clock: every step. *)

\* A step that neither looks for builds nor saves.
LEMMA Elsewhere ==
  ASSUME TypeOK, [Next]_vars,
         \A p \in Proc : ~(LookForBuilds(p) \/ Truncate(p) \/ Unsaved(p) \/ Save(p))
  PROVE  /\ UNCHANGED <<clock, seen>> /\ (now' = now \/ now' = now + 1)
         /\ saved' = saved \/ (\E p \in Proc : pc[p] = "save" /\ pc'[p] = "idle" /\ saved' = {})
         /\ \A q \in Proc : pc'[q] \in {"truncate", "save"} => pc'[q] = pc[q] /\ do'[q] = do[q]
         /\ \A q \in Proc : pc'[q] = "look" =>
              do'[q].next = clock \/ (pc[q] = "look" /\ do'[q] = do[q])
         /\ \A q \in Proc : pc[q] = "save" /\ pc'[q] # "save" => saved' = {}
<1> DEFINE Goal ==
         /\ UNCHANGED <<clock, seen>> /\ (now' = now \/ now' = now + 1)
         /\ saved' = saved \/ (\E p \in Proc : pc[p] = "save" /\ pc'[p] = "idle" /\ saved' = {})
         /\ \A q \in Proc : pc'[q] \in {"truncate", "save"} => pc'[q] = pc[q] /\ do'[q] = do[q]
         /\ \A q \in Proc : pc'[q] = "look" =>
              do'[q].next = clock \/ (pc[q] = "look" /\ do'[q] = do[q])
         /\ \A q \in Proc : pc[q] = "save" /\ pc'[q] # "save" => saved' = {}
<1> SUFFICES Goal
  OBVIOUS
<1>plain. ASSUME NEW p \in Proc, Own(p), UNCHANGED <<now, clock, seen, saved>>,
                 pc[p] # "save", pc'[p] \notin {"look", "truncate", "save"}
          PROVE  Goal
  BY <1>plain DEF Own
<1>1. ASSUME NEW p \in Proc, Tick(p)
      PROVE  Goal
  <2>1. PICK f \in Free, t \in Targets : Begin(p, [Idle EXCEPT !.free = f, !.target = t], "gate")
    BY <1>1 DEF Tick
  <2>2. UNCHANGED <<now, clock, seen, saved>>
    BY <2>1 DEF Begin, machine, state
  <2>3. Own(p) /\ pc'[p] = "gate" /\ pc[p] = "idle"
    BY <2>1, Begun
  <2> QED
    BY <1>plain, <2>2, <2>3
<1>2. ASSUME NEW p \in Proc, PruneByHand(p)
      PROVE  Goal
  <2>1. UNCHANGED <<now, clock, seen, saved>>
    BY <1>2 DEF PruneByHand, Begin, machine, state
  <2>2. Own(p) /\ pc'[p] = "lock" /\ pc[p] = "idle"
    BY <1>2, Begun DEF PruneByHand
  <2> QED
    BY <1>plain, <2>1, <2>2
<1>3. ASSUME NEW p \in Proc, ReadGate(p)
      PROVE  Goal
  <2>1. /\ UNCHANGED <<now, inode, clock, seen, saved>> /\ pc[p] = "gate"
        /\ End(p) \/ (Goto(p, "lock") /\ UNCHANGED do)
    BY <1>3 DEF ReadGate, machine, state
  <2> QED
    BY <1>plain, <2>1, Ended, Went
<1>4. ASSUME NEW p \in Proc, Lock(p)
      PROVE  Goal
  <2>1. UNCHANGED <<now, inode, clock, seen, saved>> /\ pc[p] = "lock"
    BY <1>4 DEF Lock, machine, state
  <2>2. CASE End(p)
    BY <1>plain, <2>1, <2>2, Ended
  <2>3. CASE do' = [do EXCEPT ![p].holds = inode, ![p].next = clock] /\ Goto(p, "look")
    <3> DEFINE d == [do[p] EXCEPT !.holds = inode, !.next = clock]
    <3>1. do' = [do EXCEPT ![p] = d] /\ d.next = clock
      BY <2>3 DEF TypeOK, Doing
    <3>2. Own(p) /\ pc'[p] = "look" /\ do'[p] = d
      BY <2>1, <2>3, <3>1, Gone
    <3> QED
      BY <2>1, <3>1, <3>2 DEF Own
  <2> QED
    BY <1>4, <2>2, <2>3 DEF Lock
<1>5. ASSUME NEW p \in Proc, Plan(p)
      PROVE  Goal
  <2>1. UNCHANGED <<now, inode, clock, seen, saved>> /\ pc[p] = "plan"
    BY <1>5 DEF Plan, machine, state
  <2>2. Own(p) /\ pc'[p] \in {"idle", "start"}
    BY <1>5, <2>1 DEF Plan, End, Goto, Own, TypeOK
  <2> QED
    BY <1>plain, <2>1, <2>2
<1>6. ASSUME NEW p \in Proc, JournalStart(p)
      PROVE  Goal
  <2>1. UNCHANGED <<now, inode, clock, seen, saved>> /\ pc[p] = "start"
    BY <1>6 DEF JournalStart, machine, state
  <2>2. Own(p) /\ pc'[p] \in {"idle", "find", "after"}
    BY <1>6, <2>1 DEF JournalStart, End, Goto, Own, TypeOK
  <2> QED
    BY <1>plain, <2>1, <2>2
<1>7. ASSUME NEW p \in Proc, FindEnds(p)
      PROVE  Goal
  <2>1. UNCHANGED <<now, inode, clock, seen, saved>> /\ pc[p] = "find"
    BY <1>7 DEF FindEnds, machine, state
  <2>2. Own(p) /\ pc'[p] = "after"
    BY <1>7, <2>1 DEF FindEnds, Goto, Own, TypeOK
  <2> QED
    BY <1>plain, <2>1, <2>2
<1>8. ASSUME NEW p \in Proc, JournalAfter(p)
      PROVE  Goal
  <2>1. UNCHANGED <<now, inode, clock, seen, saved>> /\ pc[p] = "after" /\ End(p)
    BY <1>8 DEF JournalAfter, machine, state
  <2> QED
    BY <1>plain, <2>1, Ended
<1>9. ASSUME NEW p \in Proc, Kill(p)
      PROVE  Goal
  <2>1. /\ UNCHANGED <<now, inode, clock, seen>> /\ End(p)
        /\ saved' = IF pc[p] = "save" THEN {} ELSE saved
    BY <1>9 DEF Kill
  <2>2. Own(p) /\ pc'[p] = "idle"
    BY <2>1, Ended
  <2> QED
    BY <2>1, <2>2 DEF Own
<1>10. CASE (\E p \in Proc : Find(p)) \/ OrphanFinds \/ OrphanEnds \/ (\E e \in Entry : Use(e)) \/ UNCHANGED vars
  <2>1. UNCHANGED <<now, clock, seen, saved, pc, do>>
    BY <1>10 DEF Find, OrphanFinds, OrphanEnds, Use, vars, state
  <2> QED
    BY <2>1
<1>11. CASE HourPasses
  <2>1. UNCHANGED <<clock, seen, saved, pc, do>> /\ now' = now + 1
    BY <1>11 DEF HourPasses, state
  <2> QED
    BY <2>1
<1> HIDE DEF Goal
<1> QED
  BY <1>1, <1>2, <1>3, <1>4, <1>5, <1>6, <1>7, <1>8, <1>9, <1>10, <1>11 DEF Next

\* What a look for builds that ends in a save leads to.
LEMMA LookLeads ==
  ASSUME TypeOK, NEW p \in Proc, LookForBuilds(p), pc'[p] = "truncate"
  PROVE  \E b \in BOOLEAN :
           /\ do'[p].next = NextDeferral(do[p].next, b, do[p].free)
           /\ do'[p].building = b /\ do'[p].go = Goes(do[p].next, b, do[p].free)
           /\ seen' = IF b THEN seen \cup {now} ELSE seen
<1>1. pc[p] = "look" /\ ~End(p) /\ ~Goto(p, "plan")
  BY DEF LookForBuilds, End, Goto, TypeOK
<1>2. PICK b \in BOOLEAN :
        /\ do' = [do EXCEPT ![p] = [do[p] EXCEPT !.next = NextDeferral(@, b, do[p].free),
                    !.building = b, !.go = Goes(do[p].next, b, do[p].free)]]
        /\ seen' = IF b THEN seen \cup {now} ELSE seen
  BY <1>1 DEF LookForBuilds
<1>3. do[p] \in Doing /\ do \in [Proc -> Doing]
  BY DEF TypeOK
<1>4. /\ do'[p].next = NextDeferral(do[p].next, b, do[p].free)
      /\ do'[p].building = b /\ do'[p].go = Goes(do[p].next, b, do[p].free)
  BY <1>2, <1>3 DEF Doing
<1> QED
  BY <1>2, <1>4

LEMMA StaysTimed == TypeOK /\ OneFlight /\ Timed /\ [Next]_vars => Timed'
<1> SUFFICES ASSUME TypeOK, OneFlight, Timed, [Next]_vars
             PROVE  Timed'
  OBVIOUS
<1>type. /\ now \in Nat \ {0} /\ seen \subseteq Nat /\ saved \subseteq Nat /\ clock \in Deferral
         /\ \A p \in Proc : do[p] \in Doing /\ do[p].next \in Deferral
  BY AutopilotAssumption DEF TypeOK, Doing
<1>one. \A q, r \in Proc : pc[q] \in Busy /\ pc[r] \in Busy => q = r
  BY DEF OneFlight, Pruning, Busy
<1>stopped. Behind(Stopped) /\ FromSeen({}, Stopped) /\ FromSeen(seen, Stopped) /\ ToSaved({}, Stopped)
  BY <1>type DEF Behind, FromSeen, ToSaved, Stopped
<1>1. ASSUME NEW p \in Proc, LookForBuilds(p)
      PROVE  Timed'
  <2>1. /\ UNCHANGED <<now, inode, clock, saved>> /\ pc[p] = "look" /\ Own(p)
        /\ pc'[p] \in {"idle", "plan", "truncate"}
    BY <1>1 DEF LookForBuilds, machine, End, Goto, Own, TypeOK
  <2>2. \A q \in Proc \ {p} : pc[q] \notin Busy /\ pc'[q] = pc[q]
    BY <1>one, <2>1 DEF Own, Busy
  <2>3. do[p].next = clock /\ Behind(clock) /\ FromSeen(seen, clock) /\ ToSaved(saved, clock)
    BY <2>1, <2>2 DEF Timed, Busy
  <2>4. seen' = seen \/ seen' = seen \cup {now}
    BY <1>1 DEF LookForBuilds
  <2>5. FromSeen(seen', clock)
    BY <1>type, <2>3, <2>4, SeenNow
  <2>6. ASSUME pc'[p] = "truncate"
        PROVE  Looked(do[p])'
    <3>1. PICK b \in BOOLEAN :
            /\ do'[p].next = NextDeferral(clock, b, do[p].free)
            /\ do'[p].go = Goes(clock, b, do[p].free)
            /\ seen' = IF b THEN seen \cup {now} ELSE seen
      BY <1>1, <2>3, <2>6, LookLeads
    <3>2. FromSeen(seen', do'[p].next)
      BY <1>type, <2>3, <3>1, NextSeen
    <3>3. CASE Goes(clock, b, do[p].free)
      <4>1. do'[p].next = Stopped /\ do'[p].go
        BY <3>1, <3>3 DEF NextDeferral
      <4> QED
        BY <1>stopped, <2>1, <3>2, <4>1 DEF Looked, Behind
    <3>4. CASE ~Goes(clock, b, do[p].free)
      <4>1. do'[p].next = [since |-> Started(clock), last |-> now] /\ ~do'[p].go
        BY <3>1, <3>4 DEF NextDeferral
      <4>2. do'[p].next.since = Started(clock) /\ do'[p].next.last = now
        BY <4>1
      <4>3. ToSaved(saved \cup {now}, do'[p].next)
        BY <1>type, <2>3, <4>1, NextSaved
      <4>4. Started(clock) <= now
        BY <1>type, <2>3 DEF Started, Behind, Deferral
      <4>5. do'[p].next.since <= do'[p].next.last /\ do'[p].next.last <= now'
        BY <1>type, <2>1, <4>2, <4>4
      <4> QED
        BY <2>1, <3>2, <4>1, <4>2, <4>3, <4>5 DEF Looked, Behind
    <3> QED
      BY <3>3, <3>4
  <2>7. \A q \in Proc : pc'[q] \in {"look", "truncate", "save"} => q = p /\ pc'[p] = "truncate"
    BY <2>1, <2>2 DEF Busy
  <2>8. Behind(clock)'
    BY <2>1, <2>3 DEF Behind
  <2>9. ToSaved(saved', clock')
    BY <2>1, <2>3
  <2> QED
    BY <2>1, <2>5, <2>6, <2>7, <2>8, <2>9 DEF Timed
<1>2. ASSUME NEW p \in Proc, Truncate(p)
      PROVE  Timed'
  <2>1. /\ UNCHANGED <<now, inode, seen, saved>> /\ pc[p] = "truncate" /\ Own(p)
        /\ (pc'[p] = "idle" /\ clock' = clock) \/ (pc'[p] = "save" /\ clock' = Stopped /\ do'[p] = do[p])
    BY <1>2 DEF Truncate, machine, End, Goto, Own, TypeOK
  <2>2. \A q \in Proc \ {p} : pc[q] \notin Busy /\ pc'[q] = pc[q]
    BY <1>one, <2>1 DEF Own, Busy
  <2>3. Behind(clock) /\ FromSeen(seen, clock) /\ ToSaved(saved, clock) /\ Looked(do[p])
    BY <2>1, <2>2 DEF Timed, Busy
  <2>4. CASE pc'[p] = "idle" /\ clock' = clock
    <3>1. \A q \in Proc : pc'[q] \notin {"look", "truncate", "save"}
      BY <2>2, <2>4 DEF Busy
    <3> QED
      BY <2>1, <2>3, <2>4, <3>1 DEF Timed, Behind
  <2>5. CASE pc'[p] = "save" /\ clock' = Stopped /\ do'[p] = do[p]
    <3>1. \A q \in Proc : pc'[q] \in {"look", "truncate", "save"} => q = p
      BY <2>2 DEF Busy
    <3>2. Looked(do[p])'
      BY <2>1, <2>3, <2>5 DEF Looked, Behind
    <3>3. Behind(clock)' /\ FromSeen(seen', clock')
      BY <1>stopped, <2>1, <2>5 DEF Behind
    <3> QED
      BY <2>5, <3>1, <3>2, <3>3 DEF Timed
  <2> QED
    BY <2>1, <2>4, <2>5
<1>3. ASSUME NEW p \in Proc, Unsaved(p)
      PROVE  Timed'
  <2>1. /\ UNCHANGED <<now, inode, clock, seen>> /\ saved' = {} /\ pc[p] = "save" /\ Own(p)
        /\ pc'[p] = "idle"
    BY <1>3 DEF Unsaved, machine, End, Own, TypeOK
  <2>2. \A q \in Proc : pc'[q] \notin {"look", "truncate", "save"}
    BY <1>one, <2>1 DEF Own, Busy
  <2>3. clock = Stopped
    BY <2>1 DEF Timed
  <2> QED
    BY <1>stopped, <2>1, <2>2, <2>3 DEF Timed, Behind
<1>4. ASSUME NEW p \in Proc, Save(p)
      PROVE  Timed'
  <2>1. /\ UNCHANGED <<now, inode>> /\ clock' = do[p].next /\ pc[p] = "save" /\ Own(p)
        /\ pc'[p] \in {"plan", "idle"}
        /\ IF do[p].go THEN seen' = {} /\ saved' = {} ELSE saved' = saved \cup {do[p].next.last} /\ seen' = seen
    BY <1>4 DEF Save, machine, End, Goto, Own, TypeOK
  <2>2. \A q \in Proc : pc'[q] \notin {"look", "truncate", "save"}
    BY <1>one, <2>1 DEF Own, Busy
  <2>3. Looked(do[p])
    BY <2>1 DEF Timed
  <2>4. CASE do[p].go
    BY <1>stopped, <2>1, <2>2, <2>3, <2>4 DEF Timed, Behind, Looked
  <2>5. CASE ~do[p].go
    BY <2>1, <2>2, <2>3, <2>5 DEF Timed, Behind, Looked
  <2> QED
    BY <2>4, <2>5
<1>5. ASSUME \A p \in Proc : ~(LookForBuilds(p) \/ Truncate(p) \/ Unsaved(p) \/ Save(p))
      PROVE  Timed'
  <2>1. /\ UNCHANGED <<clock, seen>> /\ (now' = now \/ now' = now + 1)
        /\ saved' = saved \/ (\E p \in Proc : pc[p] = "save" /\ pc'[p] = "idle" /\ saved' = {})
        /\ \A q \in Proc : pc'[q] \in {"truncate", "save"} => pc'[q] = pc[q] /\ do'[q] = do[q]
        /\ \A q \in Proc : pc'[q] = "look" =>
             do'[q].next = clock \/ (pc[q] = "look" /\ do'[q] = do[q])
        /\ \A q \in Proc : pc[q] = "save" /\ pc'[q] # "save" => saved' = {}
    BY <1>5, Elsewhere
  <2>2. ASSUME NEW d \in Deferral, Behind(d)
        PROVE  d.since <= d.last /\ d.last <= now'
    BY <1>type, <2>1, <2>2 DEF Behind, Deferral
  <2>3. Behind(clock)' /\ FromSeen(seen', clock')
    BY <1>type, <2>1, <2>2 DEF Timed, Behind
  <2>4. ASSUME \A q \in Proc : pc'[q] # "save"
        PROVE  ToSaved(saved', clock')
    <3>1. CASE \A q \in Proc : pc[q] # "save"
      BY <2>1, <3>1 DEF Timed
    <3>2. ASSUME NEW q \in Proc, pc[q] = "save"
          PROVE  ToSaved(saved', clock')
      BY <1>stopped, <2>1, <2>4, <3>2 DEF Timed
    <3> QED
      BY <3>1, <3>2
  <2>5. ASSUME NEW q \in Proc, pc'[q] = "look"
        PROVE  do'[q].next = clock'
    BY <2>1, <2>5 DEF Timed
  <2>6. ASSUME NEW q \in Proc, pc'[q] = "save"
        PROVE  clock' = Stopped
    BY <2>1, <2>6 DEF Timed
  <2>7. ASSUME NEW q \in Proc, pc'[q] \in {"truncate", "save"}
        PROVE  Looked(do[q])'
    <3>1. pc[q] = pc'[q] /\ do'[q] = do[q] /\ Looked(do[q])
      BY <2>1, <2>7 DEF Timed
    <3>2. saved' = saved
      BY <1>one, <2>1, <2>7, <3>1 DEF Busy
    <3>3. Behind(do[q].next)'
      BY <1>type, <2>2, <3>1 DEF Behind, Looked
    <3> QED
      BY <2>1, <3>1, <3>2, <3>3 DEF Looked
  <2> QED
    BY <2>3, <2>4, <2>5, <2>6, <2>7 DEF Timed
<1> QED
  BY <1>1, <1>2, <1>3, <1>4, <1>5

\* For every deferLimit and deferGap, and however the state file's saves fail
\* or crash: beside a build autotrim goes when it should, and only then.
THEOREM OverridesExactly == Spec => OverrideExact
<1> DEFINE Exact == \A p \in Proc :
      pc[p] = "look" /\ pc'[p] = "truncate" /\ do'[p].building =>
        /\ do'[p].go => do[p].free < Critical /\ Unbroken(seen)
        /\ do[p].free < Critical /\ Unbroken(saved) => do'[p].go
<1>1. Init => Timed
  <2> SUFFICES ASSUME Init
               PROVE  Timed
    OBVIOUS
  <2>1. now \in Nat
    BY AutopilotAssumption DEF Init
  <2> QED
    BY <2>1 DEF Init, Timed, Behind, FromSeen, ToSaved, Stopped
<1>2. IInv /\ Timed /\ [Next]_vars => Timed'
  BY StaysTimed DEF IInv
<1>3. IInv /\ Timed /\ [Next]_vars => [Exact]_vars
  <2> SUFFICES ASSUME TypeOK, OneFlight, Timed, Next,
                      NEW p \in Proc, pc[p] = "look", pc'[p] = "truncate", do'[p].building
               PROVE  /\ do'[p].go => do[p].free < Critical /\ Unbroken(seen)
                      /\ do[p].free < Critical /\ Unbroken(saved) => do'[p].go
    BY DEF IInv
  <2>type. now \in Nat /\ seen \subseteq Nat /\ saved \subseteq Nat /\ clock \in Deferral
    BY AutopilotAssumption DEF TypeOK
  <2>1. LookForBuilds(p)
    <3>1. \E q \in Proc : LookForBuilds(q) \/ Truncate(q) \/ Unsaved(q) \/ Save(q)
      BY Elsewhere
    <3>2. ASSUME NEW q \in Proc, LookForBuilds(q) \/ Truncate(q) \/ Unsaved(q) \/ Save(q)
          PROVE  q = p
      BY <3>2 DEF LookForBuilds, Truncate, Unsaved, Save, End, Goto, TypeOK
    <3> QED
      BY <3>1, <3>2 DEF Truncate, Unsaved, Save
  <2>2. do[p].next = clock /\ Behind(clock) /\ FromSeen(seen, clock) /\ ToSaved(saved, clock)
    <3>1. \A q \in Proc : pc[q] # "save"
      BY DEF OneFlight, Pruning
    <3> QED
      BY <3>1 DEF Timed
  <2>3. do'[p].go <=> MayOverride(clock, do[p].free)
    <3>1. PICK b \in BOOLEAN : do'[p].building = b /\ do'[p].go = Goes(do[p].next, b, do[p].free)
      BY <2>1, LookLeads
    <3>2. b /\ do'[p].go = Goes(clock, b, do[p].free)
      BY <2>2, <3>1
    <3>3. Goes(clock, b, do[p].free) <=> MayOverride(clock, do[p].free)
      BY <3>2, Zenon DEF Goes
    <3> QED
      BY <3>2, <3>3
  <2> QED
    BY <2>2, <2>3, <2>type, GoesRightly, GoesAtLast
<1> QED
  BY <1>1, <1>2, <1>3, Invariance, PTL DEF Spec, OverrideExact
============================================================================

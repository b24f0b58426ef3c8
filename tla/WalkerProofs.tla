---------------------------- MODULE WalkerProofs ----------------------------
(***************************************************************************)
(* Behind every blocked path there is a call that was written off and is   *)
(* still out, for any number of sizings, workers and folders.              *)
(*                                                                         *)
(* MarksHaveCalls is nearly inductive.  What it lacks: a sizing that has   *)
(* not walked has no worker, and no lstat written off, so that its start   *)
(* forgets none; and a worker that waits for a folder is not written off.  *)
(*                                                                         *)
(* And a size said to be whole is exact: what of the tree is not added up  *)
(* is gone, or below a folder that is queued or in a worker's hands, and   *)
(* at a whole walk's end there is no such folder.                          *)
(***************************************************************************)
EXTENDS Walker, FiniteSetTheorems, WellFoundedInduction, TLAPS

Pcs == {"pop", "look", "open", "touch", "read", "close", "finish", "exit"}
SlotType == [pc : Pcs, dir : Dir, gone : BOOLEAN, late : BOOLEAN,
             visited : BOOLEAN, whole : BOOLEAN]

TypeInv ==
  /\ scene \in Scenes
  /\ at \in [Sizing -> {"new", "lstat", "walk", "done"}]
  /\ lone \in [Sizing -> {"none", "out", "late", "written off"}]
  /\ dirs \in [Sizing -> SUBSET Dir]
  /\ slots \in [Sizing -> Seq(SlotType)]

Rooted == \A s \in Sizing : at[s] \in {"new", "lstat"} => s \in DOMAIN root

\* A sizing before its walk has no worker and nothing written off.
Fresh == \A s \in Sizing : at[s] \in {"new", "lstat"} =>
           DOMAIN slots[s] = {} /\ lone[s] # "written off"

\* A worker between two folders holds no call.
PopsHold == \A s \in Sizing : \A i \in DOMAIN slots[s] :
              Slot(s, i).pc = "pop" => ~Slot(s, i).gone

IInv == TypeInv /\ Rooted /\ Fresh /\ PopsHold /\ MarksHaveCalls

\* A worker starts and ends as a slot of the type.
LEMMA NewSlotType == NewSlot \in SlotType /\ Exited \in SlotType
  BY WalkerAssumption DEF NewSlot, Exited, SlotType, Pcs

\* At the start nothing is blocked and nothing walks.
LEMMA InitInv == Init => IInv
<1> SUFFICES ASSUME Init PROVE IInv
  OBVIOUS
<1>1. TypeInv
  BY DEF Init, TypeInv
<1>2. Rooted /\ Fresh /\ PopsHold /\ MarksHaveCalls
  BY DEF Init, Rooted, Fresh, PopsHold, MarksHaveCalls
<1> QED
  BY <1>1, <1>2 DEF IInv

\* A worker's slot is replaced.
OneSlot(s, i, r) ==
  /\ slots' \in [Sizing -> Seq(SlotType)]
  /\ \A t \in Sizing : /\ DOMAIN slots'[t] = DOMAIN slots[t]
                       /\ \A j \in DOMAIN slots[t] :
                            slots'[t][j] = IF t = s /\ j = i THEN r ELSE slots[t][j]

\* Replacing one element of a sequence keeps its length and the others.
LEMMA OneElement ==
  ASSUME NEW S, NEW q \in Seq(S), NEW i \in DOMAIN q, NEW r \in S
  PROVE  /\ [q EXCEPT ![i] = r] \in Seq(S)
         /\ DOMAIN [q EXCEPT ![i] = r] = DOMAIN q
         /\ \A j \in DOMAIN q : [q EXCEPT ![i] = r][j] = IF j = i THEN r ELSE q[j]
  OBVIOUS

\* What an EXCEPT at one worker does to the workers of every sizing.
LEMMA OneSlotReplaced ==
  ASSUME TypeInv, NEW s \in Sizing, NEW i \in DOMAIN slots[s], NEW r \in SlotType,
         slots' = [slots EXCEPT ![s] = [slots[s] EXCEPT ![i] = r]]
  PROVE  OneSlot(s, i, r)
<1> DEFINE q == [slots[s] EXCEPT ![i] = r]
<1>1. slots[s] \in Seq(SlotType)
  BY DEF TypeInv
<1>2. /\ q \in Seq(SlotType)
      /\ DOMAIN q = DOMAIN slots[s]
      /\ \A j \in DOMAIN slots[s] : q[j] = IF j = i THEN r ELSE slots[s][j]
  BY <1>1, OneElement
<1> HIDE DEF q
<1>3. slots' = [slots EXCEPT ![s] = q]
  BY DEF q
<1>4. slots \in [Sizing -> Seq(SlotType)]
  BY DEF TypeInv
<1>5. slots' \in [Sizing -> Seq(SlotType)]
  BY <1>2, <1>3, <1>4
<1>6. \A t \in Sizing : slots'[t] = IF t = s THEN q ELSE slots[t]
  BY <1>3, <1>4
<1> QED
  BY <1>2, <1>5, <1>6 DEF OneSlot

\* One worker's step, that keeps its folder and whether it is written off:
\* what is blocked loses at most that folder, and then only as the worker is
\* written off.
LEMMA WorkerStep ==
  ASSUME IInv, NEW s \in Sizing, NEW i \in DOMAIN slots[s],
         NEW r, OneSlot(s, i, r),
         UNCHANGED <<scene, at, lone>>,
         dirs' \in [Sizing -> SUBSET Dir],
         at[s] \notin {"new", "lstat"},
         r.pc = "pop" => ~r.gone,
         \/ /\ blocked' = blocked
            /\ Slot(s, i).gone /\ Slot(s, i).pc # "exit" =>
                 r.gone /\ r.dir = Slot(s, i).dir /\ r.pc # "exit"
         \/ blocked' = blocked \ {Slot(s, i).dir}
  PROVE  IInv'
<1>1. TypeInv'
  BY DEF IInv, TypeInv, OneSlot
<1>2. \A t \in Sizing : /\ DOMAIN slots'[t] = DOMAIN slots[t]
                        /\ \A j \in DOMAIN slots[t] :
                             slots'[t][j] = IF t = s /\ j = i THEN r ELSE slots[t][j]
  BY DEF OneSlot
<1>3. root' = root
  BY DEF root
<1>4. Rooted'
  BY <1>3 DEF IInv, Rooted
<1>5. Fresh'
  BY <1>2 DEF IInv, Fresh
<1>6. PopsHold'
  BY <1>2 DEF IInv, PopsHold, Slot
<1>7. MarksHaveCalls'
  <2> SUFFICES ASSUME NEW d \in blocked' PROVE Stuck(d)'
    BY DEF MarksHaveCalls
  <2>1. d \in blocked /\ Stuck(d)
    BY DEF IInv, MarksHaveCalls
  <2>2. CASE \E t \in Sizing : lone[t] = "written off" /\ root[t] = d
    BY <1>3, <2>2 DEF Stuck
  <2>3. ASSUME NEW t \in Sizing, NEW j \in DOMAIN slots[t], Slot(t, j).dir = d,
               Slot(t, j).gone, Slot(t, j).pc # "exit"
        PROVE  Stuck(d)'
    <3>1. /\ j \in DOMAIN slots'[t] /\ slots'[t][j].dir = d
          /\ slots'[t][j].gone /\ slots'[t][j].pc # "exit"
      BY <1>2, <2>3 DEF Slot
    <3> QED
      BY <3>1 DEF Stuck, Slot
  <2> QED
    BY <2>1, <2>2, <2>3 DEF Stuck
<1> QED
  BY <1>1, <1>4, <1>5, <1>6, <1>7 DEF IInv

\* The workers `is` of s are written off, and others may be added behind.
Loses(s, is) ==
  /\ slots' \in [Sizing -> Seq(SlotType)]
  /\ \A t \in Sizing \ {s} : slots'[t] = slots[t]
  /\ DOMAIN slots[s] \subseteq DOMAIN slots'[s]
  /\ \A i \in DOMAIN slots[s] :
       /\ slots'[s][i].dir = slots[s][i].dir /\ slots'[s][i].pc = slots[s][i].pc
       /\ slots'[s][i].gone = (i \in is \/ slots[s][i].gone)
  /\ \A i \in DOMAIN slots'[s] \ DOMAIN slots[s] : slots'[s][i] = NewSlot

\* Written off with their folders blocked.
LEMMA WriteOffStep ==
  ASSUME IInv, NEW s \in Sizing, NEW is \in SUBSET DOMAIN slots[s], Loses(s, is),
         \A i \in is : Busy(Slot(s, i)),
         Blocks(s, is),
         at[s] = "walk", at' \in {at, [at EXCEPT ![s] = "done"]},
         UNCHANGED <<scene, lone, dirs>>
  PROVE  IInv'
<1>1. TypeInv'
  BY DEF IInv, TypeInv, Loses
<1>2. root' = root
  BY DEF root
<1>3. \A t \in Sizing : at'[t] \in {"new", "lstat"} => at[t] = at'[t] /\ t # s
  BY DEF IInv, TypeInv
<1>4. Rooted' /\ Fresh'
  BY <1>2, <1>3 DEF IInv, Rooted, Fresh, Loses
<1>5. PopsHold'
  <2> SUFFICES ASSUME NEW t \in Sizing, NEW i \in DOMAIN slots'[t], slots'[t][i].pc = "pop"
               PROVE  ~slots'[t][i].gone
    BY DEF PopsHold, Slot
  <2>1. CASE t # s
    BY <2>1 DEF IInv, PopsHold, Slot, Loses
  <2>2. CASE t = s /\ i \in DOMAIN slots[s]
    BY <2>2 DEF IInv, PopsHold, Slot, Busy, Loses
  <2>3. CASE t = s /\ i \notin DOMAIN slots[s]
    BY <2>3 DEF Loses, NewSlot
  <2> QED
    BY <2>1, <2>2, <2>3
<1>6. MarksHaveCalls'
  <2> SUFFICES ASSUME NEW d \in blocked' PROVE Stuck(d)'
    BY DEF MarksHaveCalls
  <2>1. ASSUME NEW i \in is, Slot(s, i).dir = d PROVE Stuck(d)'
    <3>1. /\ i \in DOMAIN slots'[s] /\ slots'[s][i].dir = d
          /\ slots'[s][i].gone /\ slots'[s][i].pc # "exit"
      BY <2>1 DEF Slot, Busy, Loses
    <3> QED
      BY <3>1 DEF Stuck, Slot
  <2>2. CASE d \in blocked
    <3>1. Stuck(d)
      BY <2>2 DEF IInv, MarksHaveCalls
    <3>2. CASE \E t \in Sizing : lone[t] = "written off" /\ root[t] = d
      BY <1>2, <3>2 DEF Stuck
    <3>3. ASSUME NEW t \in Sizing, NEW j \in DOMAIN slots[t], Slot(t, j).dir = d,
                 Slot(t, j).gone, Slot(t, j).pc # "exit"
          PROVE  Stuck(d)'
      <4>1. /\ j \in DOMAIN slots'[t] /\ slots'[t][j].dir = d
            /\ slots'[t][j].gone /\ slots'[t][j].pc # "exit"
        BY <3>3 DEF Slot, Loses
      <4> QED
        BY <4>1 DEF Stuck, Slot
    <3> QED
      BY <3>1, <3>2, <3>3 DEF Stuck
  <2> QED
    BY <2>1, <2>2 DEF Blocks
<1> QED
  BY <1>1, <1>4, <1>5, <1>6 DEF IInv

\* Appending to a sequence keeps its elements where they are.
LEMMA Behind ==
  ASSUME NEW S, NEW q \in Seq(S), NEW r \in Seq(S), NEW e,
         \A k \in DOMAIN r : r[k] = e
  PROVE  /\ q \o r \in Seq(S)
         /\ DOMAIN q \subseteq DOMAIN (q \o r)
         /\ \A i \in DOMAIN q : (q \o r)[i] = q[i]
         /\ \A i \in DOMAIN (q \o r) \ DOMAIN q : (q \o r)[i] = e
<1>1. /\ q \o r \in Seq(S) /\ Len(q) \in Nat /\ Len(r) \in Nat
      /\ DOMAIN q = 1..Len(q) /\ DOMAIN r = 1..Len(r)
      /\ DOMAIN (q \o r) = 1..(Len(q) + Len(r))
  OBVIOUS
<1>2. \A i \in DOMAIN (q \o r) : (q \o r)[i] = IF i <= Len(q) THEN q[i] ELSE r[i - Len(q)]
  OBVIOUS
<1> QED
  BY <1>1, <1>2

\* Writing workers off keeps how many there are, their folders and their pc.
LEMMA WrittenOffSlots ==
  ASSUME TypeInv, NEW s \in Sizing, NEW is \in SUBSET DOMAIN slots[s]
  PROVE  /\ WrittenOff(s, is) \in Seq(SlotType)
         /\ DOMAIN WrittenOff(s, is) = DOMAIN slots[s]
         /\ \A i \in DOMAIN slots[s] :
              /\ WrittenOff(s, is)[i].dir = slots[s][i].dir
              /\ WrittenOff(s, is)[i].pc = slots[s][i].pc
              /\ WrittenOff(s, is)[i].gone = (i \in is \/ slots[s][i].gone)
<1>1. /\ slots[s] \in Seq(SlotType) /\ Len(slots[s]) \in Nat
      /\ DOMAIN slots[s] = 1..Len(slots[s])
      /\ \A i \in DOMAIN slots[s] : slots[s][i] \in SlotType
  <2>1. slots[s] \in Seq(SlotType)
    BY DEF TypeInv
  <2> HIDE DEF SlotType
  <2> QED
    BY <2>1
<1>2. ASSUME NEW i \in DOMAIN slots[s]
      PROVE  LET r == IF i \in is THEN [slots[s][i] EXCEPT !.gone = TRUE, !.late = FALSE]
                                  ELSE slots[s][i]
             IN /\ r \in SlotType
                /\ r.dir = slots[s][i].dir /\ r.pc = slots[s][i].pc
                /\ r.gone = (i \in is \/ slots[s][i].gone)
  BY <1>1 DEF SlotType
<1>3. WrittenOff(s, is) = [i \in 1..Len(slots[s]) |->
        IF i \in is THEN [slots[s][i] EXCEPT !.gone = TRUE, !.late = FALSE] ELSE slots[s][i]]
  BY <1>1 DEF WrittenOff, Slot
<1>4. WrittenOff(s, is) \in [1..Len(slots[s]) -> SlotType]
  BY <1>1, <1>2, <1>3
<1>5. WrittenOff(s, is) \in Seq(SlotType)
  BY <1>1, <1>4
<1> QED
  BY <1>1, <1>2, <1>3, <1>5

\* The sequences the watchdog and a cancel leave are of that kind.
LEMMA LosesSlots ==
  ASSUME TypeInv, NEW s \in Sizing, NEW is \in SUBSET DOMAIN slots[s], NEW new \in Seq(SlotType),
         \A k \in DOMAIN new : new[k] = NewSlot,
         \/ slots' = [slots EXCEPT ![s] = WrittenOff(s, is) \o new]
         \/ slots' = [slots EXCEPT ![s] = WrittenOff(s, is)]
  PROVE  Loses(s, is)
<1> DEFINE off == WrittenOff(s, is)
<1>1. /\ off \in Seq(SlotType) /\ DOMAIN off = DOMAIN slots[s]
      /\ \A i \in DOMAIN slots[s] :
           /\ off[i].dir = slots[s][i].dir /\ off[i].pc = slots[s][i].pc
           /\ off[i].gone = (i \in is \/ slots[s][i].gone)
  BY WrittenOffSlots
<1>2. /\ off \o new \in Seq(SlotType)
      /\ DOMAIN off \subseteq DOMAIN (off \o new)
      /\ \A i \in DOMAIN off : (off \o new)[i] = off[i]
      /\ \A i \in DOMAIN (off \o new) \ DOMAIN off : (off \o new)[i] = NewSlot
  <2> HIDE DEF off
  <2> QED
    BY <1>1, Behind
<1>3. PICK q : q \in {off, off \o new} /\ slots' = [slots EXCEPT ![s] = q]
  OBVIOUS
<1> HIDE DEF off
<1>4. /\ q \in Seq(SlotType) /\ DOMAIN slots[s] \subseteq DOMAIN q
      /\ \A i \in DOMAIN slots[s] : q[i] = off[i]
      /\ \A i \in DOMAIN q \ DOMAIN slots[s] : q[i] = NewSlot
  BY <1>1, <1>2, <1>3
<1>5. slots \in [Sizing -> Seq(SlotType)]
  BY DEF TypeInv
<1>6. /\ slots' \in [Sizing -> Seq(SlotType)] /\ slots'[s] = q
      /\ \A t \in Sizing \ {s} : slots'[t] = slots[t]
  BY <1>3, <1>4, <1>5
<1> QED
  BY <1>1, <1>4, <1>6 DEF Loses

----------------------------------------------------------------------------
(* A step of a worker, that is at a folder. *)

\* A sizing that has a worker walks, or has walked.
LEMMA Working ==
  ASSUME IInv, NEW s \in Sizing, NEW i \in DOMAIN slots[s]
  PROVE  at[s] \notin {"new", "lstat"} /\ slots[s][i] \in SlotType
<1>1. slots[s] \in Seq(SlotType)
  BY DEF IInv, TypeInv
<1>2. slots[s][i] \in SlotType
  <2> HIDE DEF SlotType
  <2> QED
    BY <1>1
<1> QED
  BY <1>2 DEF IInv, Fresh

\* A worker takes a folder, or ends: it held nothing.
LEMMA PopInv ==
  ASSUME IInv, NEW s \in Sizing, NEW i \in DOMAIN slots[s], Pop(s, i)
  PROVE  IInv'
<1>1. at[s] \notin {"new", "lstat"}
  BY Working
<1>6. ~Slot(s, i).gone
  <2>1. Slot(s, i).pc = "pop"
    BY DEF Pop
  <2> QED
    BY <2>1 DEF IInv, PopsHold
<1>2. dirs' \in [Sizing -> SUBSET Dir]
  <2>1. dirs' = dirs \/ \E d \in dirs[s] : dirs' = [dirs EXCEPT ![s] = @ \ {d}]
    BY DEF Pop
  <2> QED
    BY <2>1 DEF IInv, TypeInv
<1>3. PICK r \in SlotType : /\ slots' = [slots EXCEPT ![s] = [slots[s] EXCEPT ![i] = r]]
                            /\ r.pc # "pop"
  <2>1. CASE \E d \in dirs[s] :
               slots' = [slots EXCEPT ![s][i] = [NewSlot EXCEPT !.pc = "look", !.dir = d]]
    <3>1. PICK d \in dirs[s] :
            slots' = [slots EXCEPT ![s][i] = [NewSlot EXCEPT !.pc = "look", !.dir = d]]
      BY <2>1
    <3>2. d \in Dir
      BY <3>1 DEF IInv, TypeInv
    <3>3. /\ [NewSlot EXCEPT !.pc = "look", !.dir = d] \in SlotType
          /\ [NewSlot EXCEPT !.pc = "look", !.dir = d].pc # "pop"
      BY <3>2 DEF NewSlot, SlotType, Pcs
    <3> QED
      BY <3>1, <3>3
  <2>2. CASE slots' = [slots EXCEPT ![s][i] = Exited]
    BY <2>2, NewSlotType DEF Exited, NewSlot
  <2> QED
    BY <2>1, <2>2 DEF Pop
<1>4. OneSlot(s, i, r)
  BY <1>3, OneSlotReplaced DEF IInv
<1>5. UNCHANGED <<scene, at, lone, blocked>>
  BY DEF Pop, callVars
<1> QED
  BY <1>1, <1>2, <1>3, <1>4, <1>5, <1>6, WorkerStep

\* A step that leaves the worker where it is but for pc, late, visited and
\* whole, unblocking at most its folder.
LEMMA SameCall ==
  ASSUME IInv, NEW s \in Sizing, NEW i \in DOMAIN slots[s],
         NEW pc \in Pcs \ {"pop", "exit"}, NEW late \in BOOLEAN,
         NEW visited \in BOOLEAN, NEW whole \in BOOLEAN,
         slots' = [slots EXCEPT ![s][i] = [Slot(s, i) EXCEPT
           !.pc = pc, !.late = late, !.visited = visited, !.whole = whole]],
         UNCHANGED <<scene, at, lone, dirs>>,
         blocked' \in {blocked, blocked \ {Slot(s, i).dir}}
  PROVE  IInv'
<1> DEFINE r == [Slot(s, i) EXCEPT
                   !.pc = pc, !.late = late, !.visited = visited, !.whole = whole]
<1>1. at[s] \notin {"new", "lstat"} /\ Slot(s, i) \in SlotType
  BY Working DEF Slot
<1>2. r \in SlotType /\ r.pc = pc /\ r.gone = Slot(s, i).gone /\ r.dir = Slot(s, i).dir
  BY <1>1 DEF SlotType
<1>3. slots' = [slots EXCEPT ![s] = [slots[s] EXCEPT ![i] = r]]
  OBVIOUS
<1>4. dirs' \in [Sizing -> SUBSET Dir]
  BY DEF IInv, TypeInv
<1> HIDE DEF r
<1>5. OneSlot(s, i, r)
  BY <1>2, <1>3, OneSlotReplaced DEF IInv
<1>6. r.pc # "pop" /\ r.pc # "exit"
  BY <1>2
<1> QED
  BY <1>1, <1>2, <1>4, <1>5, <1>6, WorkerStep

\* A folder under a blocked path is left alone.
LEMMA LookInv ==
  ASSUME IInv, NEW s \in Sizing, NEW i \in DOMAIN slots[s], Look(s, i)
  PROVE  IInv'
<1>1. Slot(s, i) \in SlotType
  BY Working DEF Slot
<1>2. UNCHANGED <<scene, at, lone, dirs>> /\ blocked' = blocked
  BY DEF Look, callVars
<1>3. /\ "finish" \in Pcs \ {"pop", "exit"} /\ "open" \in Pcs \ {"pop", "exit"}
      /\ Slot(s, i).late \in BOOLEAN /\ Slot(s, i).visited \in BOOLEAN
      /\ Slot(s, i).whole \in BOOLEAN
  BY <1>1 DEF SlotType, Pcs
<1>4. CASE Covers(Slot(s, i).dir)
  <2>1. slots' = [slots EXCEPT ![s][i] = [Slot(s, i) EXCEPT !.pc = "finish",
                    !.late = Slot(s, i).late, !.visited = Slot(s, i).visited, !.whole = FALSE]]
    BY <1>1, <1>4 DEF Look, Slot, SlotType
  <2> QED
    BY <1>2, <1>3, <2>1, SameCall
<1>5. CASE ~Covers(Slot(s, i).dir)
  <2>1. slots' = [slots EXCEPT ![s][i] = [Slot(s, i) EXCEPT !.pc = "open",
                    !.late = Slot(s, i).late, !.visited = Slot(s, i).visited,
                    !.whole = Slot(s, i).whole]]
    BY <1>1, <1>5 DEF Look, Slot, SlotType
  <2> QED
    BY <1>2, <1>3, <2>1, SameCall
<1> QED
  BY <1>4, <1>5

\* The calls' answers, and what a worker does of its own.
LEMMA OpenInv ==
  ASSUME IInv, NEW s \in Sizing, NEW i \in DOMAIN slots[s], OpenAnswers(s, i)
  PROVE  IInv'
<1>1. Slot(s, i) \in SlotType
  BY Working DEF Slot
<1>2. UNCHANGED <<scene, at, lone, dirs>> /\ blocked' = blocked
  BY DEF OpenAnswers, callVars
<1>3. PICK pc \in {"touch", "finish"}, whole \in BOOLEAN :
        slots' = [slots EXCEPT ![s][i] = [Slot(s, i) EXCEPT !.pc = pc,
                    !.late = Slot(s, i).late, !.visited = Slot(s, i).visited, !.whole = whole]]
  <2>1. CASE \E pc \in {"touch", "finish"} : slots' = [slots EXCEPT ![s][i].pc = pc]
    <3>1. PICK pc \in {"touch", "finish"} : slots' = [slots EXCEPT ![s][i].pc = pc]
      BY <2>1
    <3>2. slots' = [slots EXCEPT ![s][i] = [Slot(s, i) EXCEPT !.pc = pc,
                      !.late = Slot(s, i).late, !.visited = Slot(s, i).visited,
                      !.whole = Slot(s, i).whole]]
      BY <1>1, <3>1 DEF Slot, SlotType
    <3> QED
      BY <1>1, <3>2 DEF SlotType
  <2>2. CASE slots' = [slots EXCEPT ![s][i].pc = "finish", ![s][i].whole = FALSE]
    <3>1. slots' = [slots EXCEPT ![s][i] = [Slot(s, i) EXCEPT !.pc = "finish",
                      !.late = Slot(s, i).late, !.visited = Slot(s, i).visited, !.whole = FALSE]]
      BY <1>1, <2>2 DEF Slot, SlotType
    <3> QED
      BY <3>1
  <2> QED
    BY <2>1, <2>2 DEF OpenAnswers, Moves
<1>4. /\ pc \in Pcs \ {"pop", "exit"}
      /\ Slot(s, i).late \in BOOLEAN /\ Slot(s, i).visited \in BOOLEAN
      /\ Slot(s, i).whole \in BOOLEAN
  BY <1>1, <1>3 DEF SlotType, Pcs
<1> QED
  BY <1>2, <1>3, <1>4, SameCall

\* A worker that comes back after its write-off takes its mark with it.
LEMMA TouchInv ==
  ASSUME IInv, NEW s \in Sizing, NEW i \in DOMAIN slots[s], Touch(s, i)
  PROVE  IInv'
<1>1. Slot(s, i) \in SlotType
  BY Working DEF Slot
<1>2. UNCHANGED <<scene, at, lone, dirs>>
  BY DEF Touch, callVars
<1>3. blocked' \in {blocked, blocked \ {Slot(s, i).dir}}
  <2>1. Answered(s, i)
    BY DEF Touch
  <2> QED
    BY <2>1 DEF Answered
<1>4. PICK pc \in {"close", "read"}, late \in {Slot(s, i).late, FALSE},
           whole \in {Slot(s, i).whole, FALSE} :
        slots' = [slots EXCEPT ![s][i] = [Slot(s, i) EXCEPT !.pc = pc,
                    !.late = late, !.visited = Slot(s, i).visited, !.whole = whole]]
  <2>1. CASE Slot(s, i).gone \/ stopped[s]
    <3>1. slots' = [slots EXCEPT ![s][i].pc = "close", ![s][i].whole = FALSE]
      BY <2>1 DEF Touch
    <3>2. slots' = [slots EXCEPT ![s][i] = [Slot(s, i) EXCEPT !.pc = "close",
                      !.late = Slot(s, i).late, !.visited = Slot(s, i).visited, !.whole = FALSE]]
      BY <1>1, <3>1 DEF Slot, SlotType
    <3> QED
      BY <3>2
  <2>2. CASE ~(Slot(s, i).gone \/ stopped[s])
    <3>1. PICK pc \in {"close", "read"} :
            slots' = [slots EXCEPT ![s][i].pc = pc, ![s][i].late = FALSE]
      BY <2>2 DEF Touch
    <3>2. slots' = [slots EXCEPT ![s][i] = [Slot(s, i) EXCEPT !.pc = pc,
                      !.late = FALSE, !.visited = Slot(s, i).visited, !.whole = Slot(s, i).whole]]
      BY <1>1, <3>1 DEF Slot, SlotType
    <3> QED
      BY <3>2
  <2> QED
    BY <2>1, <2>2
<1>5. /\ pc \in Pcs \ {"pop", "exit"}
      /\ Slot(s, i).late \in BOOLEAN /\ Slot(s, i).visited \in BOOLEAN
      /\ Slot(s, i).whole \in BOOLEAN
  BY <1>1, <1>4 DEF SlotType, Pcs
<1> QED
  BY <1>2, <1>4, <1>3, <1>5, SameCall

\* The entries of a folder come, in time or late.
LEMMA ReadInv ==
  ASSUME IInv, NEW s \in Sizing, NEW i \in DOMAIN slots[s], ReadAnswers(s, i)
  PROVE  IInv'
<1>1. Slot(s, i) \in SlotType
  BY Working DEF Slot
<1>2. UNCHANGED <<scene, at, lone, dirs>> /\ blocked' = blocked
  BY DEF ReadAnswers, callVars
<1>3. PICK whole \in BOOLEAN :
        slots' = [slots EXCEPT ![s][i].pc = "touch", ![s][i].visited = TRUE, ![s][i].whole = whole]
  BY DEF ReadAnswers
<1>4. slots' = [slots EXCEPT ![s][i] = [Slot(s, i) EXCEPT !.pc = "touch",
                  !.late = Slot(s, i).late, !.visited = TRUE, !.whole = whole]]
  BY <1>1, <1>3 DEF Slot, SlotType
<1>5. /\ "touch" \in Pcs \ {"pop", "exit"}
      /\ Slot(s, i).late \in BOOLEAN /\ Slot(s, i).visited \in BOOLEAN
      /\ Slot(s, i).whole \in BOOLEAN
  BY <1>1 DEF SlotType, Pcs
<1> QED
  BY <1>2, <1>4, <1>5, SameCall

\* The folder is closed, in time or late.
LEMMA CloseInv ==
  ASSUME IInv, NEW s \in Sizing, NEW i \in DOMAIN slots[s], CloseAnswers(s, i)
  PROVE  IInv'
<1>1. Slot(s, i) \in SlotType
  BY Working DEF Slot
<1>2. UNCHANGED <<scene, at, lone, dirs>> /\ blocked' = blocked
  BY DEF CloseAnswers, callVars
<1>3. slots' = [slots EXCEPT ![s][i] = [Slot(s, i) EXCEPT !.pc = "finish",
                  !.late = Slot(s, i).late, !.visited = Slot(s, i).visited,
                  !.whole = Slot(s, i).whole]]
  BY <1>1 DEF CloseAnswers, Moves, Slot, SlotType
<1>4. /\ "finish" \in Pcs \ {"pop", "exit"}
      /\ Slot(s, i).late \in BOOLEAN /\ Slot(s, i).visited \in BOOLEAN
      /\ Slot(s, i).whole \in BOOLEAN
  BY <1>1 DEF SlotType, Pcs
<1> QED
  BY <1>2, <1>3, <1>4, SameCall

\* A worker that ends its folder: written off, it unblocks it and is gone;
\* else it held no mark.
LEMMA FinishInv ==
  ASSUME IInv, NEW s \in Sizing, NEW i \in DOMAIN slots[s], Finish(s, i)
  PROVE  IInv'
<1>1. at[s] \notin {"new", "lstat"}
  BY Working
<1>2. UNCHANGED <<scene, at, lone>>
  BY DEF Finish, callVars
<1>3. dirs' \in [Sizing -> SUBSET Dir]
  <2>1. Hands(Slot(s, i)) \subseteq Dir
    BY DEF Hands, Subdirs, Below
  <2>2. dirs' = dirs \/ \E rest \in SUBSET Dir : dirs' = [dirs EXCEPT ![s] = rest]
    <3>1. CASE Slot(s, i).gone
      BY <3>1 DEF Finish
    <3>2. CASE ~Slot(s, i).gone
      <4>1. dirs' = [dirs EXCEPT ![s] = IF stopped[s] THEN dirs[s]
                                          ELSE dirs[s] \cup Hands(Slot(s, i))]
        BY <3>2 DEF Finish
      <4>2. (IF stopped[s] THEN dirs[s] ELSE dirs[s] \cup Hands(Slot(s, i))) \in SUBSET Dir
        BY <2>1 DEF IInv, TypeInv
      <4> QED
        BY <4>1, <4>2
    <3> QED
      BY <3>1, <3>2
  <2> QED
    BY <2>2 DEF IInv, TypeInv
<1>4. PICK r \in {Exited, NewSlot} :
        slots' = [slots EXCEPT ![s] = [slots[s] EXCEPT ![i] = r]]
  <2>1. slots' = [slots EXCEPT ![s][i] = Exited] \/ slots' = [slots EXCEPT ![s][i] = NewSlot]
    BY DEF Finish
  <2> QED
    BY <2>1
<1>5. OneSlot(s, i, r)
  BY <1>4, NewSlotType, OneSlotReplaced DEF IInv
<1>6. ~r.gone
  <2>1. ~NewSlot.gone /\ ~Exited.gone
    BY DEF Exited, NewSlot
  <2>2. r = Exited \/ r = NewSlot
    BY <1>4
  <2> QED
    BY <2>1, <2>2
<1>7. \/ blocked' = blocked \ {Slot(s, i).dir}
      \/ blocked' = blocked /\ ~Slot(s, i).gone
  <2>1. Answered(s, i)
    BY DEF Finish
  <2> QED
    BY <2>1 DEF Answered
<1> QED
  BY <1>1, <1>2, <1>3, <1>5, <1>6, <1>7, WorkerStep

----------------------------------------------------------------------------
(* The steps of a sizing beside its workers, and those of nobody's. *)

\* No worker is touched, and at most the lone call of s: its mark goes with it.
LEMMA LoneStep ==
  ASSUME IInv, NEW s \in Sizing,
         NEW a \in {"new", "lstat", "walk", "done"},
         NEW l \in {"none", "out", "late", "written off"},
         at' = [at EXCEPT ![s] = a], lone' = [lone EXCEPT ![s] = l],
         a \in {"new", "lstat"} => at[s] \in {"new", "lstat"} /\ l # "written off",
         dirs' \in [Sizing -> SUBSET Dir],
         UNCHANGED <<scene, slots>>,
         \/ blocked' = blocked /\ (lone[s] = "written off" => l = "written off")
         \/ blocked' = blocked \cup {root[s]} /\ l = "written off"
         \/ blocked' = blocked \ {root[s]}
  PROVE  IInv'
<1>1. TypeInv'
  BY DEF IInv, TypeInv
<1>2. root' = root
  BY DEF root
<1>3. \A t \in Sizing : /\ at'[t] = IF t = s THEN a ELSE at[t]
                        /\ lone'[t] = IF t = s THEN l ELSE lone[t]
  BY DEF IInv, TypeInv
<1>4. Rooted'
  BY <1>2, <1>3 DEF IInv, Rooted
<1>5. Fresh'
  BY <1>3, ZenonT(30) DEF IInv, Fresh
<1>6. PopsHold'
  BY DEF IInv, PopsHold, Slot
<1>7. MarksHaveCalls'
  <2> SUFFICES ASSUME NEW d \in blocked' PROVE Stuck(d)'
    BY DEF MarksHaveCalls
  <2>1. CASE d \notin blocked
    BY <1>2, <1>3, <2>1 DEF Stuck
  <2>2. CASE d \in blocked
    <3>1. Stuck(d)
      BY <2>2 DEF IInv, MarksHaveCalls
    <3>2. ASSUME NEW t \in Sizing, lone[t] = "written off", root[t] = d PROVE Stuck(d)'
      BY <1>2, <1>3, <3>2 DEF Stuck
    <3>3. CASE \E t \in Sizing : \E j \in DOMAIN slots[t] :
                 Slot(t, j).dir = d /\ Slot(t, j).gone /\ Slot(t, j).pc # "exit"
      BY <3>3 DEF Stuck, Slot
    <3> QED
      BY <3>1, <3>2, <3>3 DEF Stuck
  <2> QED
    BY <2>1, <2>2
<1> QED
  BY <1>1, <1>4, <1>5, <1>6, <1>7 DEF IInv

\* The root's lstat starts, or is refused as its path is blocked.
LEMMA LstatInv ==
  ASSUME IInv, NEW s \in Sizing, Lstat(s)
  PROVE  IInv'
<1>1. at[s] = "new" /\ lone[s] # "written off" /\ lone[s] \in {"none", "out", "late", "written off"}
  BY DEF Lstat, IInv, TypeInv, Fresh
<1>2. UNCHANGED <<scene, blocked, slots, dirs>> /\ dirs' \in [Sizing -> SUBSET Dir]
  BY DEF Lstat, walkVars, IInv, TypeInv
<1>3. CASE Returns(s, TRUE, FALSE) /\ UNCHANGED lone
  <2>1. lone' = [lone EXCEPT ![s] = lone[s]]
    BY <1>3 DEF IInv, TypeInv
  <2> QED
    BY <1>1, <1>2, <1>3, <2>1, LoneStep DEF Returns
<1>4. CASE at' = [at EXCEPT ![s] = "lstat"] /\ lone' = [lone EXCEPT ![s] = "out"]
  BY <1>1, <1>2, <1>4, LoneStep
<1> QED
  BY <1>3, <1>4 DEF Lstat

\* The walk starts, with workers that hold nothing yet.
LEMMA LstatAnswersInv ==
  ASSUME IInv, NEW s \in Sizing, LstatAnswers(s)
  PROVE  IInv'
<1>1. at[s] = "lstat" /\ lone[s] # "written off" /\ DOMAIN slots[s] = {}
  BY DEF LstatAnswers, IInv, Fresh
<1>2. /\ UNCHANGED <<scene, blocked>>
      /\ lone' = [lone EXCEPT ![s] = "none"]
  BY DEF LstatAnswers
<1>3. CASE at' = [at EXCEPT ![s] = "done"] /\ UNCHANGED <<dirs, slots>>
  <2>1. dirs' \in [Sizing -> SUBSET Dir]
    BY <1>3 DEF IInv, TypeInv
  <2> QED
    BY <1>1, <1>2, <1>3, <2>1, LoneStep
<1>4. CASE /\ at' = [at EXCEPT ![s] = "walk"]
           /\ dirs' = [dirs EXCEPT ![s] = {root[s]}]
           /\ slots' = [slots EXCEPT ![s] = [i \in 1..scene.workers |-> NewSlot]]
  <2> DEFINE q == [i \in 1..scene.workers |-> NewSlot]
  <2>1. root[s] \in Dir /\ scene.workers \in Nat
    BY <1>1, WalkerAssumption DEF IInv, TypeInv, Rooted, root
  <2>2. q \in Seq(SlotType) /\ DOMAIN q = 1..scene.workers /\ \A i \in DOMAIN q : q[i] = NewSlot
    BY <2>1, NewSlotType
  <2>3. slots' = [slots EXCEPT ![s] = q]
    BY <1>4
  <2> HIDE DEF q
  <2>4. \A t \in Sizing : /\ slots'[t] = IF t = s THEN q ELSE slots[t]
                          /\ at'[t] = IF t = s THEN "walk" ELSE at[t]
                          /\ lone'[t] = IF t = s THEN "none" ELSE lone[t]
    BY <1>2, <1>4, <2>3 DEF IInv, TypeInv
  <2>5. slots' \in [Sizing -> Seq(SlotType)]
    BY <2>2, <2>3 DEF IInv, TypeInv
  <2>6. /\ at' \in [Sizing -> {"new", "lstat", "walk", "done"}]
        /\ lone' \in [Sizing -> {"none", "out", "late", "written off"}]
        /\ dirs' \in [Sizing -> SUBSET Dir]
    BY <1>2, <1>4, <2>1 DEF IInv, TypeInv
  <2>7. TypeInv'
    BY <1>2, <2>5, <2>6 DEF IInv, TypeInv
  <2>8. root' = root
    BY <1>2 DEF root
  <2>9. Rooted' /\ Fresh'
    BY <2>4, <2>8 DEF IInv, Rooted, Fresh
  <2>10. PopsHold'
    <3>1. ~NewSlot.gone
      BY DEF NewSlot
    <3> QED
      BY <2>2, <2>4, <3>1, ZenonT(30) DEF IInv, PopsHold, Slot
  <2>11. MarksHaveCalls'
    <3> SUFFICES ASSUME NEW d \in blocked' PROVE Stuck(d)'
      BY DEF MarksHaveCalls
    <3>1. Stuck(d)
      BY <1>2 DEF IInv, MarksHaveCalls
    <3>2. ASSUME NEW t \in Sizing, lone[t] = "written off", root[t] = d PROVE Stuck(d)'
      BY <1>1, <2>4, <2>8, <3>2 DEF Stuck
    <3>3. ASSUME NEW t \in Sizing, NEW j \in DOMAIN slots[t], Slot(t, j).dir = d,
                 Slot(t, j).gone, Slot(t, j).pc # "exit"
          PROVE  Stuck(d)'
      <4>1. t # s /\ slots'[t] = slots[t]
        BY <1>1, <2>4
      <4> QED
        BY <3>3, <4>1 DEF Stuck, Slot
    <3> QED
      BY <3>1, <3>2, <3>3 DEF Stuck
  <2> QED
    BY <2>7, <2>9, <2>10, <2>11 DEF IInv
<1> QED
  BY <1>3, <1>4 DEF LstatAnswers, Returns

\* An lstat given up on blocks the root as it is written off.
LEMMA LstatGivenUpInv ==
  ASSUME IInv, NEW s \in Sizing, LstatWrittenOff(s) \/ LstatCanceled(s)
  PROVE  IInv'
<1>1. at' = [at EXCEPT ![s] = "done"] /\ at[s] = "lstat" /\ lone[s] # "written off"
  BY DEF LstatWrittenOff, LstatCanceled, Returns, IInv, Fresh
<1>2. UNCHANGED <<scene, slots>> /\ dirs' \in [Sizing -> SUBSET Dir]
  BY DEF LstatWrittenOff, LstatCanceled, walkVars, IInv, TypeInv
<1>3. \/ lone' = [lone EXCEPT ![s] = "written off"] /\ blocked' = blocked \cup {root[s]}
      \/ lone' = [lone EXCEPT ![s] = "none"] /\ blocked' = blocked
  BY DEF LstatWrittenOff, LstatCanceled, Abandon
<1> QED
  BY <1>1, <1>2, <1>3, LoneStep

\* The late answer of an lstat takes its mark with it.
LEMMA LateAnswerInv ==
  ASSUME IInv, NEW s \in Sizing, LateAnswer(s)
  PROVE  IInv'
<1>1. UNCHANGED <<scene, slots>> /\ dirs' \in [Sizing -> SUBSET Dir]
  BY DEF LateAnswer, walkVars, IInv, TypeInv
<1>2. at[s] \in {"new", "lstat", "walk", "done"} /\ at' = [at EXCEPT ![s] = at[s]]
  BY DEF LateAnswer, IInv, TypeInv
<1>3. lone' = [lone EXCEPT ![s] = "none"] /\ blocked' = blocked \ {root[s]}
  BY DEF LateAnswer
<1> QED
  BY <1>1, <1>2, <1>3, LoneStep

\* The watchdog blocks exactly the folders of those it writes off.
LEMMA WriteOffStalledInv ==
  ASSUME IInv, NEW s \in Sizing, WriteOffStalled(s)
  PROVE  IInv'
<1> DEFINE n == Cardinality(Taken(s))
           fresh == IF n > Left(s) THEN n - 1 ELSE n
           new == [k \in 1..fresh |-> NewSlot]
<1>1. /\ at[s] = "walk" /\ Blocks(s, Taken(s))
      /\ slots' = [slots EXCEPT ![s] = WrittenOff(s, Taken(s)) \o new]
      /\ UNCHANGED <<scene, at, lone, dirs>>
  BY DEF WriteOffStalled, callVars
<1>2. Taken(s) \in SUBSET DOMAIN slots[s] /\ \A i \in Taken(s) : Busy(Slot(s, i))
  BY DEF Taken, Stalled
<1>3. n \in Nat
  <2>1. slots[s] \in Seq(SlotType)
    BY DEF IInv, TypeInv
  <2>2. Len(slots[s]) \in Nat /\ DOMAIN slots[s] = 1..Len(slots[s])
    <3> HIDE DEF SlotType
    <3> QED
      BY <2>1
  <2>3. IsFiniteSet(DOMAIN slots[s])
    BY <2>2, FS_Interval
  <2> QED
    BY <1>2, <2>3, FS_Subset, FS_CardinalityType
<1>4. fresh \in Int
  <2> HIDE DEF n
  <2> QED
    BY <1>3
<1>5. new \in Seq(SlotType) /\ \A k \in DOMAIN new : new[k] = NewSlot
  <2> HIDE DEF fresh
  <2>1. CASE fresh \in Nat
    BY <2>1, NewSlotType
  <2>2. CASE fresh < 0
    <3>1. 1..fresh = 1..0
      BY <1>4, <2>2
    <3>2. new = [k \in 1..0 |-> NewSlot] /\ DOMAIN new = {}
      BY <3>1
    <3>3. [k \in 1..0 |-> NewSlot] \in Seq(SlotType)
      BY NewSlotType
    <3> QED
      BY <3>2, <3>3
  <2> QED
    BY <1>4, <2>1, <2>2
<1> HIDE DEF new
<1>6. Loses(s, Taken(s))
  BY <1>1, <1>2, <1>5, LosesSlots DEF IInv
<1> QED
  BY <1>1, <1>2, <1>6, WriteOffStep

\* A canceled walk blocks the folders of the workers in flight.
LEMMA WalkCanceledInv ==
  ASSUME IInv, NEW s \in Sizing, WalkCanceled(s)
  PROVE  IInv'
<1> DEFINE flying == {i \in DOMAIN slots[s] : Busy(Slot(s, i)) /\ ~Slot(s, i).gone}
<1>1. /\ at[s] = "walk" /\ at' = [at EXCEPT ![s] = "done"] /\ Blocks(s, flying)
      /\ slots' = [slots EXCEPT ![s] = WrittenOff(s, flying)]
      /\ UNCHANGED <<scene, lone, dirs>>
  BY DEF WalkCanceled, Returns
<1>2. flying \in SUBSET DOMAIN slots[s] /\ \A i \in flying : Busy(Slot(s, i))
  OBVIOUS
<1> HIDE DEF flying
<1>3. <<>> \in Seq(SlotType) /\ \A k \in DOMAIN <<>> : <<>>[k] = NewSlot
  OBVIOUS
<1>4. Loses(s, flying)
  BY <1>1, <1>2, <1>3, LosesSlots DEF IInv
<1> QED
  BY <1>1, <1>2, <1>4, WriteOffStep

\* The walk's return leaves marks and calls as they are.
LEMMA WalkReturnsInv ==
  ASSUME IInv, NEW s \in Sizing, WalkReturns(s)
  PROVE  IInv'
<1>1. /\ at' = [at EXCEPT ![s] = "done"]
      /\ UNCHANGED <<scene, blocked, lone, dirs, slots>>
  BY DEF WalkReturns, Returns, walkVars
<1>2. /\ lone[s] \in {"none", "out", "late", "written off"}
      /\ lone' = [lone EXCEPT ![s] = lone[s]]
      /\ dirs' \in [Sizing -> SUBSET Dir]
  BY <1>1 DEF IInv, TypeInv
<1> QED
  BY <1>1, <1>2, LoneStep

\* A step that changes nothing the invariant speaks of.
LEMMA Beside ==
  ASSUME IInv, UNCHANGED <<scene, blocked, at, lone, dirs, slots>>
  PROVE  IInv'
<1>1. TypeInv' /\ PopsHold'
  BY DEF IInv, TypeInv, PopsHold, Slot
<1>2. root' = root
  BY DEF root
<1>3. Rooted' /\ Fresh'
  BY <1>2 DEF IInv, Rooted, Fresh
<1>4. MarksHaveCalls'
  BY <1>2 DEF IInv, MarksHaveCalls, Stuck, Slot
<1> QED
  BY <1>1, <1>3, <1>4 DEF IInv

\* Time only makes calls late: none is written off by it.
LEMMA StallPassesInv ==
  ASSUME IInv, StallPasses
  PROVE  IInv'
<1>1. UNCHANGED <<scene, blocked, at, dirs>>
  BY DEF StallPasses
<1>2. \A s \in Sizing : lone'[s] = IF lone[s] = "out" THEN "late" ELSE lone[s]
  BY DEF StallPasses
<1>3. lone' \in [Sizing -> {"none", "out", "late", "written off"}]
  BY DEF StallPasses, IInv, TypeInv
<1> DEFINE q(s) == [i \in DOMAIN slots[s] |->
                      IF Busy(slots[s][i]) /\ ~slots[s][i].gone
                      THEN [slots[s][i] EXCEPT !.late = TRUE] ELSE slots[s][i]]
<1>4. slots' = [s \in Sizing |-> q(s)]
  BY DEF StallPasses, Slot
<1>5. ASSUME NEW s \in Sizing
      PROVE  /\ q(s) \in Seq(SlotType) /\ DOMAIN q(s) = DOMAIN slots[s]
             /\ \A i \in DOMAIN slots[s] :
                  /\ q(s)[i].pc = slots[s][i].pc /\ q(s)[i].dir = slots[s][i].dir
                  /\ q(s)[i].gone = slots[s][i].gone
  <2>1. slots[s] \in Seq(SlotType)
    BY DEF IInv, TypeInv
  <2>2. /\ Len(slots[s]) \in Nat /\ DOMAIN slots[s] = 1..Len(slots[s])
        /\ \A i \in DOMAIN slots[s] : slots[s][i] \in SlotType
    <3> HIDE DEF SlotType
    <3> QED
      BY <2>1
  <2>3. ASSUME NEW i \in DOMAIN slots[s]
        PROVE  /\ q(s)[i] \in SlotType
               /\ q(s)[i].pc = slots[s][i].pc /\ q(s)[i].dir = slots[s][i].dir
               /\ q(s)[i].gone = slots[s][i].gone
    BY <2>2 DEF SlotType
  <2>4. q(s) \in [1..Len(slots[s]) -> SlotType]
    BY <2>2, <2>3
  <2>5. q(s) \in Seq(SlotType)
    <3> HIDE DEF SlotType, q
    <3> QED
      BY <2>2, <2>4
  <2> QED
    BY <2>3, <2>5
<1> HIDE DEF q
<1>6. /\ slots' \in [Sizing -> Seq(SlotType)]
      /\ \A s \in Sizing : DOMAIN slots'[s] = DOMAIN slots[s]
      /\ \A s \in Sizing : \A i \in DOMAIN slots[s] :
           /\ slots'[s][i].pc = slots[s][i].pc /\ slots'[s][i].dir = slots[s][i].dir
           /\ slots'[s][i].gone = slots[s][i].gone
  BY <1>4, <1>5
<1>7. TypeInv'
  BY <1>1, <1>3, <1>6 DEF IInv, TypeInv
<1>8. root' = root
  BY <1>1 DEF root
<1>9. Rooted' /\ Fresh'
  BY <1>1, <1>2, <1>6, <1>8 DEF IInv, Rooted, Fresh
<1>10. PopsHold'
  BY <1>6 DEF IInv, PopsHold, Slot
<1>11. MarksHaveCalls'
  <2> SUFFICES ASSUME NEW d \in blocked PROVE Stuck(d)'
    BY <1>1 DEF MarksHaveCalls
  <2>1. Stuck(d)
    BY DEF IInv, MarksHaveCalls
  <2>2. ASSUME NEW t \in Sizing, lone[t] = "written off", root[t] = d PROVE Stuck(d)'
    BY <1>2, <1>8, <2>2 DEF Stuck
  <2>3. ASSUME NEW t \in Sizing, NEW j \in DOMAIN slots[t], Slot(t, j).dir = d,
               Slot(t, j).gone, Slot(t, j).pc # "exit"
        PROVE  Stuck(d)'
    <3>1. /\ j \in DOMAIN slots'[t] /\ slots'[t][j].dir = d
          /\ slots'[t][j].gone /\ slots'[t][j].pc # "exit"
      BY <1>6, <2>3 DEF Slot
    <3> QED
      BY <3>1 DEF Stuck, Slot
  <2> QED
    BY <2>1, <2>2, <2>3 DEF Stuck
<1> QED
  BY <1>7, <1>9, <1>10, <1>11 DEF IInv

\* Every step of a sizing, its workers, the disk, time and the owner keeps it.
LEMMA NextInv ==
  ASSUME IInv, [Next]_vars
  PROVE  IInv'
<1>1. ASSUME NEW s \in Sizing, Worker(s) \/ Answers(s) PROVE IInv'
  BY <1>1, PopInv, LookInv, TouchInv, FinishInv, OpenInv, ReadInv, CloseInv
     DEF Worker, Answers
<1>2. ASSUME NEW s \in Sizing, Sizes(s) PROVE IInv'
  BY <1>2, LstatGivenUpInv, WriteOffStalledInv, WalkCanceledInv, WalkReturnsInv DEF Sizes
<1>3. ASSUME NEW s \in Sizing, Cancel(s) PROVE IInv'
  BY <1>3, Beside DEF Cancel, callVars, walkVars
<1>4. ASSUME NEW d \in Vanishing, Removed(d) PROVE IInv'
  BY <1>4, Beside DEF Removed, callVars, walkVars
<1>5. CASE UNCHANGED vars
  BY <1>5, Beside DEF vars
<1> QED
  BY <1>1, <1>2, <1>3, <1>4, <1>5, LstatInv, LstatAnswersInv, LateAnswerInv,
     StallPassesInv DEF Next

\* A path stays blocked only while a call on it that was given up on is still
\* out: none is lost to walks for good, however sizings, answers, write-offs
\* and cancels interleave.
THEOREM EveryMarkHasACall == Spec => []MarksHaveCalls
<1>1. Init => IInv
  BY InitInv
<1>2. IInv /\ [Next]_vars => IInv'
  BY NextInv
<1>3. IInv => MarksHaveCalls
  BY DEF IInv
<1> QED
  BY <1>1, <1>2, <1>3, PTL DEF Spec

----------------------------------------------------------------------------
(* A whole size: folders.                                                   *)

\* Facts of the tree that Above is.
LEMMA Tree ==
  /\ \A d \in Dir : d \in Above[d] /\ Above[d] \subseteq Dir /\ IsFiniteSet(Above[d])
  /\ \A d \in Dir : \A e \in Above[d] : Above[e] \subseteq Above[d] /\ (d \in Above[e] => e = d)
  /\ \A d \in Dir : \A e, f \in Above[d] : e \in Above[f] \/ f \in Above[e]
BY WalkerAssumption

\* On the way from e down to d there is a subfolder of e.
LEMMA OnTheWay ==
  ASSUME NEW e \in Dir, NEW d \in Below(e), d # e
  PROVE  \E k \in Subdirs(e) : k \in Above[d]
<1> DEFINE K == {k \in Above[d] : e \in Above[k] /\ k # e}
           T == {Cardinality(Above[k]) : k \in K}
<1>d. d \in Dir /\ e \in Above[d] /\ Above[d] \subseteq Dir
  BY Tree DEF Below
<1>fin. \A k \in Dir : IsFiniteSet(Above[k]) /\ Cardinality(Above[k]) \in Nat
  BY Tree, FS_CardinalityType
<1>1. d \in K /\ K \subseteq Dir
  BY <1>d, Tree
<1>2. T \subseteq Nat /\ T # {}
  BY <1>1, <1>fin
<1>3. PICK n \in T : \A m \in T : ~(<<m, n>> \in OpToRel(<, Nat))
  BY <1>2, NatLessThanWellFounded, WFMin
<1>4. \A m \in T : ~(m < n)
  BY <1>2, <1>3 DEF OpToRel
<1>5. PICK k \in K : n = Cardinality(Above[k])
  BY <1>3
<1>k. k \in Dir /\ k \in Above[d] /\ e \in Above[k] /\ k # e /\ k \notin Above[e]
  BY <1>1, <1>5, Tree
<1>6. ASSUME NEW x \in Above[k], x # k
      PROVE  x \in Above[e]
  <2>1. x \in Dir /\ x \in Above[d] /\ k \notin Above[x] /\ Above[x] \subseteq Above[k]
    BY <1>6, <1>k, <1>d, Tree
  <2>2. CASE e \in Above[x] /\ x # e
    <3>1. x \in K
      BY <2>1, <2>2
    <3>2. ~(Cardinality(Above[x]) < Cardinality(Above[k]))
      BY <1>4, <1>5, <3>1
    <3>3. Cardinality(Above[x]) <= Cardinality(Above[k]) /\ Above[x] # Above[k]
      BY <1>k, <1>fin, <2>1, FS_Subset, Tree
    <3>4. Cardinality(Above[x]) # Cardinality(Above[k])
      BY <1>k, <1>fin, <2>1, <3>3, FS_Subset
    <3> QED
      BY <1>k, <1>fin, <2>1, <3>2, <3>3, <3>4
  <2>3. CASE x = e
    BY <2>3, Tree
  <2>4. CASE x \in Above[e]
    BY <2>4
  <2>5. e \in Above[x] \/ x \in Above[e]
    BY <1>6, <1>k, Tree
  <2> QED
    BY <2>2, <2>3, <2>4, <2>5
<1>7. Above[k] = Above[e] \cup {k}
  <2>1. Above[e] \subseteq Above[k] /\ k \in Above[k]
    BY <1>k, Tree
  <2> QED
    BY <1>6, <2>1
<1>8. Cardinality(Above[k]) = Cardinality(Above[e]) + 1
  BY <1>7, <1>k, <1>fin, FS_AddElement, ZenonT(30)
<1> QED
  BY <1>k, <1>8 DEF Subdirs, Below

\* No subfolder of e is below another one.
LEMMA Siblings ==
  ASSUME NEW e \in Dir, NEW j \in Subdirs(e), NEW k \in Subdirs(e), j \in Above[k]
  PROVE  j = k
<1>1. j \in Dir /\ k \in Dir /\ Cardinality(Above[j]) = Cardinality(Above[k])
  BY DEF Subdirs, Below
<1>2. Above[j] \subseteq Above[k] /\ IsFiniteSet(Above[k])
  BY <1>1, Tree
<1>3. Above[j] = Above[k]
  BY <1>1, <1>2, FS_Subset
<1> QED
  BY <1>1, <1>3, Tree

----------------------------------------------------------------------------
(* A whole size: one walk that lost nothing.  r is its root, q its queue,   *)
(* sl its workers, n how many are said to be at folders, st whether it is   *)
(* stopped, sn how often each folder was added up, th what there is.        *)

AtWork(sl) == {i \in DOMAIN sl : Busy(sl[i])}
Open(q, sl) == q \cup {sl[i].dir : i \in AtWork(sl)}

\* What a worker that finishes as whole may hide: nothing, or a folder gone.
Tells(x, th) ==
  /\ x.pc \in {"look", "open", "read"} => ~x.visited
  /\ x.pc = "close" /\ x.whole => x.visited
  /\ x.pc = "finish" /\ x.whole /\ ~x.visited => x.dir \notin th

Honest(sl, th) == \A i \in DOMAIN sl : ~sl[i].gone /\ Tells(sl[i], th)
Counted(q, sl, n, st) == n = Cardinality(AtWork(sl)) /\ (st => Open(q, sl) = {})
Apart(q, sl) == /\ \A i, j \in AtWork(sl) : sl[i].dir = sl[j].dir => i = j
                /\ \A i \in AtWork(sl) : sl[i].dir \notin q

\* Nothing below an open folder is open, or was added up.
Frontier(o, r, sn) == /\ o \subseteq Below(r)
                      /\ \A e \in o : \A d \in Below(e) \ {e} : d \notin o /\ sn[d] = 0
Added(q, sl, sn) == /\ \A d \in q : sn[d] = 0
                    /\ \A i \in AtWork(sl) : sn[sl[i].dir] = IF sl[i].visited THEN 1 ELSE 0

\* What is not added up is gone, or below something open.
Covered(o, r, sn, th) == \A d \in Below(r) :
  sn[d] = 1 \/ (sn[d] = 0 /\ (d \notin th \/ \E e \in o : e \in Above[d]))

Exactly(r, q, sl, n, st, sn, th) ==
  /\ Honest(sl, th) /\ Counted(q, sl, n, st) /\ Apart(q, sl)
  /\ Frontier(Open(q, sl), r, sn) /\ Added(q, sl, sn) /\ Covered(Open(q, sl), r, sn, th)

Closed(th) == th \subseteq Dir /\ \A d \in th : Above[d] \subseteq th

LEMMA Finite ==
  ASSUME NEW sl \in Seq(SlotType)
  PROVE  IsFiniteSet(AtWork(sl)) /\ Cardinality(AtWork(sl)) \in Nat
<1>1. DOMAIN sl = 1..Len(sl) /\ Len(sl) \in Nat
  <2> HIDE DEF SlotType
  <2> QED
    OBVIOUS
<1>2. IsFiniteSet(DOMAIN sl)
  BY <1>1, FS_Interval
<1>3. AtWork(sl) \subseteq DOMAIN sl
  BY DEF AtWork
<1> QED
  BY <1>2, <1>3, FS_Subset, FS_CardinalityType

\* The walk starts with its root to visit, and all of its workers free.
LEMMA BeginsExactly ==
  ASSUME NEW r \in Dir, NEW n \in Nat, NEW sn, \A d \in Dir : sn[d] = 0, NEW th
  PROVE  Exactly(r, {r}, [i \in 1..n |-> NewSlot], 0, FALSE, sn, th)
<1> DEFINE sl == [i \in 1..n |-> NewSlot]
<1>1. AtWork(sl) = {}
  BY DEF AtWork, Busy, NewSlot
<1>2. Honest(sl, th)
  BY DEF Honest, Tells, NewSlot
<1> HIDE DEF sl
<1>3. Open({r}, sl) = {r}
  BY <1>1 DEF Open
<1>4. Counted({r}, sl, 0, FALSE) /\ Apart({r}, sl) /\ Added({r}, sl, sn)
  BY <1>1, FS_EmptySet DEF Counted, Apart, Added
<1>5. Frontier({r}, r, sn)
  BY Tree DEF Frontier, Below
<1>6. Covered({r}, r, sn, th)
  BY DEF Covered, Below
<1> QED
  BY <1>2, <1>3, <1>4, <1>5, <1>6 DEF Exactly, sl

\* A worker at a folder goes on at it.
LEMMA GoesOnExactly ==
  ASSUME NEW r, NEW q, NEW sl \in Seq(SlotType), NEW n, NEW st, NEW sn, NEW th,
         Exactly(r, q, sl, n, st, sn, th),
         NEW i \in AtWork(sl), NEW x \in SlotType, Busy(x), ~x.gone, Tells(x, th),
         x.dir = sl[i].dir, x.visited = sl[i].visited
  PROVE  Exactly(r, q, [sl EXCEPT ![i] = x], n, st, sn, th)
<1> DEFINE s2 == [sl EXCEPT ![i] = x]
<1>1. /\ i \in DOMAIN sl /\ DOMAIN s2 = DOMAIN sl
      /\ \A j \in DOMAIN sl : s2[j] = IF j = i THEN x ELSE sl[j]
  BY OneElement DEF AtWork
<1> HIDE DEF s2
<1>2. AtWork(s2) = AtWork(sl)
  BY <1>1 DEF AtWork
<1>3. \A j \in AtWork(sl) : j \in DOMAIN sl /\ s2[j].dir = sl[j].dir /\ s2[j].visited = sl[j].visited
  BY <1>1 DEF AtWork
<1>4. Open(q, s2) = Open(q, sl)
  BY <1>2, <1>3 DEF Open
<1>5. Honest(s2, th)
  BY <1>1 DEF Exactly, Honest
<1>6. Counted(q, s2, n, st)
  BY <1>2, <1>4 DEF Exactly, Counted
<1>7. Apart(q, s2) /\ Added(q, s2, sn)
  BY <1>2, <1>3 DEF Exactly, Apart, Added
<1> QED
  BY <1>4, <1>5, <1>6, <1>7 DEF Exactly, s2

\* A worker takes a folder.
LEMMA TakesExactly ==
  ASSUME NEW r, NEW q, NEW sl \in Seq(SlotType), NEW n, NEW sn, NEW th,
         Exactly(r, q, sl, n, FALSE, sn, th), q \subseteq Dir,
         NEW i \in DOMAIN sl, sl[i].pc = "pop", NEW d \in q
  PROVE  Exactly(r, q \ {d}, [sl EXCEPT ![i] = [NewSlot EXCEPT !.pc = "look", !.dir = d]],
                 n + 1, FALSE, sn, th)
<1> DEFINE x == [NewSlot EXCEPT !.pc = "look", !.dir = d]
           s2 == [sl EXCEPT ![i] = x]
<1>x. x \in SlotType /\ x.pc = "look" /\ x.dir = d /\ ~x.gone /\ ~x.visited
  BY WalkerAssumption DEF NewSlot, SlotType, Pcs
<1> HIDE DEF x
<1>1. /\ DOMAIN s2 = DOMAIN sl
      /\ \A j \in DOMAIN sl : s2[j] = IF j = i THEN x ELSE sl[j]
  BY <1>x, OneElement
<1> HIDE DEF s2
<1>2. AtWork(s2) = AtWork(sl) \cup {i} /\ i \notin AtWork(sl)
  BY <1>1, <1>x DEF AtWork, Busy
<1>3. \A j \in AtWork(sl) : j \in DOMAIN sl /\ j # i /\ s2[j] = sl[j]
  BY <1>1, <1>2 DEF AtWork
<1>4. s2[i] = x
  BY <1>1
<1>5. Open(q \ {d}, s2) = Open(q, sl)
  BY <1>2, <1>3, <1>4, <1>x DEF Open
<1>6. Honest(s2, th)
  <2>1. Tells(x, th)
    BY <1>x DEF Tells
  <2> QED
    BY <1>1, <1>x, <2>1 DEF Exactly, Honest
<1>7. Counted(q \ {d}, s2, n + 1, FALSE)
  BY <1>2, Finite, FS_AddElement DEF Exactly, Counted
<1>8. Apart(q \ {d}, s2)
  BY <1>2, <1>3, <1>4, <1>x DEF Exactly, Apart
<1>9. Added(q \ {d}, s2, sn)
  BY <1>2, <1>3, <1>4, <1>x DEF Exactly, Added
<1> QED
  BY <1>5, <1>6, <1>7, <1>8, <1>9 DEF Exactly, s2, x

\* A worker ends, with nothing open.
LEMMA EndsExactly ==
  ASSUME NEW r, NEW q, NEW sl \in Seq(SlotType), NEW n, NEW st \in BOOLEAN, NEW sn, NEW th,
         Exactly(r, q, sl, n, st, sn, th),
         NEW i \in DOMAIN sl, sl[i].pc = "pop", st \/ (q = {} /\ n = 0)
  PROVE  Exactly(r, q, [sl EXCEPT ![i] = Exited], n, TRUE, sn, th)
<1> DEFINE s2 == [sl EXCEPT ![i] = Exited]
<1>x. Exited \in SlotType /\ Exited.pc = "exit" /\ ~Exited.gone
  BY NewSlotType DEF Exited, NewSlot
<1>1. /\ DOMAIN s2 = DOMAIN sl
      /\ \A j \in DOMAIN sl : s2[j] = IF j = i THEN Exited ELSE sl[j]
  BY <1>x, OneElement
<1> HIDE DEF s2
<1>2. AtWork(s2) = AtWork(sl) /\ i \notin AtWork(sl)
  BY <1>1, <1>x DEF AtWork, Busy
<1>3. \A j \in AtWork(sl) : s2[j] = sl[j]
  BY <1>1, <1>2 DEF AtWork
<1>4. Open(q, s2) = Open(q, sl)
  BY <1>2, <1>3 DEF Open
<1>5. Open(q, sl) = {}
  <2>1. CASE st
    BY <2>1 DEF Exactly, Counted
  <2>2. CASE q = {} /\ n = 0
    <3>1. AtWork(sl) = {}
      BY <2>2, Finite, FS_EmptySet DEF Exactly, Counted
    <3> QED
      BY <2>2, <3>1 DEF Open
  <2> QED
    BY <2>1, <2>2
<1>6. Honest(s2, th)
  <2>1. Tells(Exited, th)
    BY <1>x DEF Tells
  <2> QED
    BY <1>1, <1>x, <2>1 DEF Exactly, Honest
<1>7. Counted(q, s2, n, TRUE)
  BY <1>2, <1>4, <1>5 DEF Exactly, Counted
<1>8. Apart(q, s2) /\ Added(q, s2, sn)
  BY <1>2, <1>3 DEF Exactly, Apart, Added
<1> QED
  BY <1>4, <1>6, <1>7, <1>8 DEF Exactly, s2

\* A worker adds up the entries of its folder.
LEMMA AddsExactly ==
  ASSUME NEW r, NEW q, NEW sl \in Seq(SlotType), NEW n, NEW st, NEW sn \in [Dir -> Nat], NEW th,
         Exactly(r, q, sl, n, st, sn, th),
         NEW i \in AtWork(sl), sl[i].pc = "read", sl[i].dir \in Dir,
         NEW x \in SlotType, x.pc = "touch", ~x.gone, x.dir = sl[i].dir, x.visited
  PROVE  Exactly(r, q, [sl EXCEPT ![i] = x], n, st, [sn EXCEPT ![sl[i].dir] = @ + 1], th)
<1> DEFINE s2 == [sl EXCEPT ![i] = x]
           d == sl[i].dir
           n2 == [sn EXCEPT ![d] = @ + 1]
<1>1. /\ i \in DOMAIN sl /\ DOMAIN s2 = DOMAIN sl
      /\ \A j \in DOMAIN sl : s2[j] = IF j = i THEN x ELSE sl[j]
  BY OneElement DEF AtWork
<1>0. sn[d] = 0
  <2>1. ~sl[i].visited
    BY <1>1 DEF Exactly, Honest, Tells
  <2> QED
    BY <2>1 DEF Exactly, Added
<1>n. n2[d] = 1 /\ \A e \in Dir : e # d => n2[e] = sn[e]
  BY <1>0
<1> HIDE DEF s2, n2
<1>2. AtWork(s2) = AtWork(sl)
  BY <1>1 DEF AtWork, Busy
<1>3. \A j \in AtWork(sl) : j \in DOMAIN sl /\ s2[j].dir = sl[j].dir /\ (j # i => s2[j] = sl[j])
  BY <1>1 DEF AtWork
<1>4. Open(q, s2) = Open(q, sl) /\ d \in Open(q, sl)
  BY <1>2, <1>3 DEF Open
<1>5. Honest(s2, th)
  <2>1. Tells(x, th)
    BY DEF Tells
  <2> QED
    BY <1>1, <2>1 DEF Exactly, Honest
<1>6. Counted(q, s2, n, st)
  BY <1>2, <1>4 DEF Exactly, Counted
<1>7. Apart(q, s2)
  BY <1>2, <1>3 DEF Exactly, Apart
<1>in. Open(q, sl) \subseteq Dir
  BY DEF Exactly, Frontier, Below
<1>8. Frontier(Open(q, sl), r, n2)
  <2>1. ASSUME NEW e \in Open(q, sl), NEW f \in Below(e) \ {e}
        PROVE  f \notin Open(q, sl) /\ n2[f] = 0
    <3>1. f \notin Open(q, sl) /\ sn[f] = 0 /\ f \in Dir
      BY <2>1 DEF Exactly, Frontier, Below
    <3> QED
      BY <1>n, <1>4, <3>1
  <2> QED
    BY <2>1 DEF Exactly, Frontier
<1>9. Added(q, s2, n2)
  <2>1. ASSUME NEW e \in q
        PROVE  n2[e] = 0
    <3>1. e # d /\ e \in Dir /\ sn[e] = 0
      BY <1>in DEF Exactly, Apart, Added, Open
    <3> QED
      BY <1>n, <3>1
  <2>2. ASSUME NEW j \in AtWork(s2)
        PROVE  n2[s2[j].dir] = IF s2[j].visited THEN 1 ELSE 0
    <3>1. CASE j = i
      BY <1>1, <1>n, <3>1
    <3>2. CASE j # i
      <4>1. j \in AtWork(sl) /\ s2[j] = sl[j] /\ sl[j].dir # d /\ sl[j].dir \in Dir
        BY <1>2, <1>3, <1>in, <3>2 DEF Exactly, Apart, Open
      <4> QED
        BY <1>n, <4>1 DEF Exactly, Added
    <3> QED
      BY <3>1, <3>2
  <2> QED
    BY <2>1, <2>2 DEF Added
<1>10. Covered(Open(q, sl), r, n2, th)
  <2>1. ASSUME NEW f \in Below(r)
        PROVE  n2[f] = 1 \/ (n2[f] = 0 /\ (f \notin th \/ \E e \in Open(q, sl) : e \in Above[f]))
    <3>1. CASE f = d
      BY <1>n, <3>1
    <3>2. CASE f # d
      <4>1. n2[f] = sn[f]
        BY <1>n, <3>2 DEF Below
      <4> QED
        BY <4>1 DEF Exactly, Covered
    <3> QED
      BY <3>1, <3>2
  <2> QED
    BY <2>1 DEF Covered
<1> QED
  BY <1>4, <1>5, <1>6, <1>7, <1>8, <1>9, <1>10 DEF Exactly, s2, n2

\* A worker is done with its folder, and hands its subfolders over.
LEMMA FinishesExactly ==
  ASSUME NEW r \in Dir, NEW q \in SUBSET Dir, NEW sl \in Seq(SlotType), NEW n,
         NEW sn, NEW th, Closed(th),
         Exactly(r, q, sl, n, FALSE, sn, th),
         NEW i \in AtWork(sl), sl[i].pc = "finish", sl[i].whole, sl[i].dir \in Dir,
         NEW x \in {Exited, NewSlot},
         NEW hands, hands = IF sl[i].visited THEN Subdirs(sl[i].dir) \cap th ELSE {}
  PROVE  Exactly(r, q \cup hands, [sl EXCEPT ![i] = x], n - 1,
                 n = 1 /\ q \cup hands = {}, sn, th)
<1> DEFINE s2 == [sl EXCEPT ![i] = x]
           d == sl[i].dir
           q2 == q \cup hands
           old == Open(q, sl)
           new == Open(q2, s2)
<1>x. x \in SlotType /\ x.pc \in {"exit", "pop"} /\ ~x.gone
  BY NewSlotType DEF Exited, NewSlot
<1>1. /\ i \in DOMAIN sl /\ DOMAIN s2 = DOMAIN sl
      /\ \A j \in DOMAIN sl : s2[j] = IF j = i THEN x ELSE sl[j]
  BY <1>x, OneElement DEF AtWork
<1> HIDE DEF s2
<1>2. AtWork(s2) = AtWork(sl) \ {i}
  BY <1>1, <1>x DEF AtWork, Busy
<1>3. \A j \in AtWork(s2) : j \in AtWork(sl) /\ j # i /\ s2[j] = sl[j]
  BY <1>1, <1>2 DEF AtWork
<1>h. \A k \in hands : k \in Subdirs(d) /\ k \in th /\ k \in Below(d) \ {d} /\ k \in Dir
  BY DEF Subdirs, Below
<1>o. d \in old /\ old \subseteq Below(r) /\ \A e \in old : \A f \in Below(e) \ {e} : f \notin old /\ sn[f] = 0
  BY DEF Open, Exactly, Frontier
<1>od. old \subseteq Dir
  BY <1>o DEF Below
<1>4. new = (old \ {d}) \cup hands
  <2>1. \A e \in new : e \in (old \ {d}) \cup hands
    <3>1. ASSUME NEW j \in AtWork(s2)
          PROVE  s2[j].dir \in old \ {d}
      BY <1>3 DEF Exactly, Apart, Open
    <3>2. q \subseteq old \ {d}
      BY DEF Exactly, Apart, Open
    <3> QED
      BY <3>1, <3>2 DEF Open
  <2>2. ASSUME NEW e \in old, e # d
        PROVE  e \in new
    <3>1. CASE e \in q
      BY <3>1 DEF Open
    <3>2. ASSUME NEW j \in AtWork(sl), e = sl[j].dir
          PROVE  e \in new
      <4>1. j # i
        BY <2>2, <3>2
      <4>2. j \in AtWork(s2) /\ s2[j] = sl[j]
        BY <1>2, <1>3, <4>1
      <4> QED
        BY <3>2, <4>2 DEF Open
    <3> QED
      BY <3>1, <3>2 DEF Open
  <2>3. hands \subseteq new
    BY DEF Open
  <2> QED
    BY <2>1, <2>2, <2>3
<1>5. Honest(s2, th)
  <2>1. Tells(x, th)
    BY <1>x DEF Tells
  <2> QED
    BY <1>1, <1>x, <2>1 DEF Exactly, Honest
<1>6. Counted(q2, s2, n - 1, n = 1 /\ q2 = {})
  <2>1. n = Cardinality(AtWork(sl))
    BY DEF Exactly, Counted
  <2>2. Cardinality(AtWork(s2)) = n - 1
    <3>1. IsFiniteSet(AtWork(sl))
      BY Finite
    <3>2. Cardinality(AtWork(sl) \ {i}) = Cardinality(AtWork(sl)) - 1
      BY <3>1, FS_RemoveElement
    <3> QED
      BY <1>2, <2>1, <3>2
  <2>3. ASSUME n = 1, q2 = {}
        PROVE  Open(q2, s2) = {}
    <3>1. IsFiniteSet(AtWork(sl)) /\ Cardinality(AtWork(sl)) = 1
      BY <2>1, <2>3, Finite
    <3>2. \E j : AtWork(sl) = {j}
      BY <3>1, FS_Singleton
    <3>3. AtWork(s2) = {}
      BY <1>2, <3>2
    <3> QED
      BY <2>3, <3>3 DEF Open
  <2> QED
    BY <2>2, <2>3 DEF Counted
<1>7. Apart(q2, s2)
  <2>1. \A j, k \in AtWork(s2) : s2[j].dir = s2[k].dir => j = k
    BY <1>3 DEF Exactly, Apart
  <2>2. ASSUME NEW j \in AtWork(s2)
        PROVE  s2[j].dir \notin q2
    <3>1. s2[j].dir = sl[j].dir /\ sl[j].dir \notin q /\ sl[j].dir \in old
      BY <1>3 DEF Exactly, Apart, Open
    <3> QED
      BY <1>h, <1>o, <3>1
  <2> QED
    BY <2>1, <2>2 DEF Apart
<1>8. Frontier(new, r, sn)
  <2>1. new \subseteq Below(r)
    <3>1. ASSUME NEW k \in hands
          PROVE  k \in Below(r)
      <4>1. d \in Above[k] /\ k \in Dir /\ r \in Above[d]
        BY <1>h, <1>o DEF Below
      <4> QED
        BY <4>1, Tree DEF Below
    <3> QED
      BY <1>4, <1>o, <3>1
  <2>2. ASSUME NEW e \in new, NEW f \in Below(e) \ {e}
        PROVE  f \notin new /\ sn[f] = 0
    <3>f. f \in Dir /\ e \in Above[f] /\ e # f
      BY DEF Below
    <3>1. CASE e \in old /\ e # d
      <4>1. f \notin old /\ sn[f] = 0
        BY <1>o, <3>1
      <4>2. ASSUME f \in hands
            PROVE  FALSE
        <5>1. d \in Above[f] /\ d \in Dir /\ e \in Dir
          BY <1>h, <1>od, <3>1, <4>2 DEF Below
        <5>2. CASE d \in Above[e]
          BY <1>o, <3>1, <5>1, <5>2 DEF Below
        <5>3. CASE e \in Above[d]
          BY <1>o, <3>1, <5>1, <5>3 DEF Below
        <5> QED
          BY <3>f, <5>1, <5>2, <5>3, Tree
      <4> QED
        BY <1>4, <4>1, <4>2
    <3>2. CASE e \in hands
      <4>1. d \in Above[e] /\ e \in Dir /\ e # d
        BY <1>h, <3>2 DEF Below
      <4>2. d \in Above[f]
        BY <3>f, <4>1, Tree
      <4>3. f # d
        BY <3>f, <4>1, Tree
      <4>4. f \notin old /\ sn[f] = 0
        BY <1>o, <3>f, <4>2, <4>3 DEF Below
      <4>5. f \notin hands
        BY <1>h, <3>2, <3>f, Siblings
      <4> QED
        BY <1>4, <4>4, <4>5
    <3> QED
      BY <1>4, <3>1, <3>2
  <2> QED
    BY <2>1, <2>2 DEF Frontier
<1>9. Added(q2, s2, sn)
  <2>1. ASSUME NEW e \in q2
        PROVE  sn[e] = 0
    <3>1. CASE e \in q
      BY <3>1 DEF Exactly, Added
    <3>2. CASE e \in hands
      BY <1>h, <1>o, <3>2
    <3> QED
      BY <3>1, <3>2
  <2>2. \A j \in AtWork(s2) : sn[s2[j].dir] = IF s2[j].visited THEN 1 ELSE 0
    BY <1>3 DEF Exactly, Added
  <2> QED
    BY <2>1, <2>2 DEF Added
<1>10. Covered(new, r, sn, th)
  <2>1. ASSUME NEW f \in Below(r)
        PROVE  sn[f] = 1 \/ (sn[f] = 0 /\ (f \notin th \/ \E e \in new : e \in Above[f]))
    <3>0. f \in Dir /\ (sn[f] = 1 \/ (sn[f] = 0 /\ (f \notin th \/ \E e \in old : e \in Above[f])))
      BY DEF Exactly, Covered, Below
    <3>1. ASSUME NEW e \in old, e \in Above[f], e # d
          PROVE  \E g \in new : g \in Above[f]
      BY <1>4, <3>1
    <3>2. ASSUME d \in Above[f], sn[f] = 0, f \in th
          PROVE  \E g \in new : g \in Above[f]
      <4>1. d \in th
        BY <3>2 DEF Closed
      <4>2. sl[i].visited
        BY <1>1, <4>1 DEF Exactly, Honest, Tells
      <4>3. sn[d] = 1
        BY <4>2 DEF Exactly, Added
      <4>4. f # d /\ f \in Below(d)
        BY <3>0, <3>2, <4>3 DEF Below
      <4>5. PICK k \in Subdirs(d) : k \in Above[f]
        BY <4>4, OnTheWay
      <4>6. k \in th
        BY <3>2, <4>5 DEF Closed
      <4>7. k \in hands
        BY <4>2, <4>5, <4>6
      <4> QED
        BY <1>4, <4>5, <4>7
    <3> QED
      BY <3>0, <3>1, <3>2
  <2> QED
    BY <2>1 DEF Covered
<1> HIDE DEF new, q2
<1> QED
  BY <1>5, <1>6, <1>7, <1>8, <1>9, <1>10 DEF Exactly, s2, new, q2

\* Time passes, or a folder goes.
LEMMA StaysExactly ==
  ASSUME NEW r, NEW q, NEW sl, NEW n, NEW st, NEW sn, NEW th,
         Exactly(r, q, sl, n, st, sn, th),
         NEW s2, DOMAIN s2 = DOMAIN sl,
         \A i \in DOMAIN sl : /\ s2[i].pc = sl[i].pc /\ s2[i].dir = sl[i].dir /\ s2[i].gone = sl[i].gone
                              /\ s2[i].visited = sl[i].visited /\ s2[i].whole = sl[i].whole,
         NEW t2, t2 \subseteq th
  PROVE  Exactly(r, q, s2, n, st, sn, t2)
<1>1. AtWork(s2) = AtWork(sl) /\ \A i \in AtWork(sl) : i \in DOMAIN sl
  BY DEF AtWork, Busy
<1>2. Open(q, s2) = Open(q, sl)
  BY <1>1 DEF Open
<1>3. Honest(s2, t2)
  BY DEF Exactly, Honest, Tells
<1>4. Counted(q, s2, n, st)
  BY <1>1, <1>2 DEF Exactly, Counted
<1>5. Apart(q, s2) /\ Added(q, s2, sn)
  BY <1>1 DEF Exactly, Apart, Added
<1>6. Covered(Open(q, sl), r, sn, t2)
  BY DEF Exactly, Covered
<1> QED
  BY <1>2, <1>3, <1>4, <1>5, <1>6 DEF Exactly

----------------------------------------------------------------------------
(* A whole size: every step.                                               *)

WalkTypes ==
  /\ Closed(there)
  /\ active \in [Sizing -> Int]
  /\ partial \in [Sizing -> BOOLEAN]
  /\ stopped \in [Sizing -> BOOLEAN]
  /\ seen \in [Sizing -> [Dir -> Nat]]
  /\ result \in [Sizing -> [found : BOOLEAN, whole : BOOLEAN]]

Unwalked(s) == at[s] \in {"new", "lstat"} =>
  active[s] = 0 /\ ~partial[s] /\ ~stopped[s] /\ \A d \in Dir : seen[s][d] = 0
Walks(s) == Exactly(root[s], dirs[s], slots[s], active[s], stopped[s], seen[s], there)
Walking(s) == at[s] = "walk" => s \in DOMAIN root /\ (~partial[s] => Walks(s))
Sum(s) == \A d \in Below(root[s]) : seen[s][d] = 1 \/ (seen[s][d] = 0 /\ d \notin there)
Returned(s) == /\ at[s] # "done" => ~result[s].found
               /\ result[s].found /\ result[s].whole => Sum(s)

WalkInv == WalkTypes /\ \A s \in Sizing : Unwalked(s) /\ Walking(s) /\ Returned(s)

\* What a step leaves alone of a sizing.
Same(t) == /\ at'[t] = at[t] /\ dirs'[t] = dirs[t] /\ slots'[t] = slots[t]
           /\ active'[t] = active[t] /\ partial'[t] = partial[t] /\ stopped'[t] = stopped[t]
           /\ seen'[t] = seen[t] /\ result'[t] = result[t]

\* At the start nothing walks.
LEMMA InitWalk == Init => WalkInv
<1> SUFFICES ASSUME Init PROVE WalkInv
  OBVIOUS
<1>1. Closed(there)
  BY WalkerAssumption DEF Init, Closed
<1>2. WalkTypes
  BY <1>1 DEF Init, WalkTypes, NoResult
<1>3. \A s \in Sizing : Unwalked(s) /\ Walking(s) /\ Returned(s)
  BY DEF Init, Unwalked, Walking, Returned, NoResult
<1> QED
  BY <1>2, <1>3 DEF WalkInv

\* A sizing left alone is as it was.
LEMMA SameStays ==
  ASSUME WalkInv, UNCHANGED <<scene, there>>, NEW t \in Sizing, Same(t)
  PROVE  Unwalked(t)' /\ Walking(t)' /\ Returned(t)'
<1>1. root' = root
  BY DEF root
<1>2. Walks(t)' <=> Walks(t)
  BY <1>1 DEF Walks, Same
<1>3. Sum(t)' <=> Sum(t)
  BY <1>1 DEF Sum, Same
<1> QED
  BY <1>1, <1>2, <1>3 DEF WalkInv, Unwalked, Walking, Returned, Same

\* A step of one sizing.
LEMMA OneWalks ==
  ASSUME WalkInv, UNCHANGED <<scene, there>>, NEW s \in Sizing,
         \A t \in Sizing \ {s} : Same(t), WalkTypes',
         Unwalked(s)', Walking(s)', Returned(s)'
  PROVE  WalkInv'
<1>1. \A t \in Sizing \ {s} : Unwalked(t)' /\ Walking(t)' /\ Returned(t)'
  BY SameStays
<1> QED
  BY <1>1 DEF WalkInv

\* A step of one worker of a sizing: what is to be shown is that its walk
\* goes on exactly, if it has lost nothing.
LEMMA WorkerWalks ==
  ASSUME IInv, WalkInv, UNCHANGED <<scene, there, at, result>>,
         NEW s \in Sizing, NEW i \in DOMAIN slots[s],
         \A t \in Sizing \ {s} : Same(t), WalkTypes',
         at[s] = "done" => seen'[s] = seen[s],
         at[s] = "walk" /\ ~partial'[s] => ~partial[s] /\ (Walks(s) => Walks(s)')
  PROVE  WalkInv'
<1>0. root' = root
  BY DEF root
<1>1. at[s] \in {"walk", "done"}
  BY Working DEF IInv, TypeInv
<1>2. Unwalked(s)'
  BY <1>1 DEF Unwalked
<1>3. Walking(s)'
  BY <1>0 DEF WalkInv, Walking
<1>4. Returned(s)'
  <2>1. CASE at[s] = "walk"
    BY <2>1 DEF WalkInv, Returned
  <2>2. CASE at[s] = "done"
    <3>1. Sum(s)' <=> Sum(s)
      BY <1>0, <2>2 DEF Sum
    <3> QED
      BY <2>2, <3>1 DEF WalkInv, Returned
  <2> QED
    BY <1>1, <2>1, <2>2
<1> QED
  BY <1>2, <1>3, <1>4, OneWalks

\* A step of a worker at its folder, as SameCall has it.
LEMMA SameFolder ==
  ASSUME IInv, WalkInv, NEW s \in Sizing, NEW i \in DOMAIN slots[s], Busy(Slot(s, i)),
         NEW pc \in Pcs \ {"pop", "exit"}, NEW late \in BOOLEAN, NEW whole \in BOOLEAN,
         slots' = [slots EXCEPT ![s][i] = [Slot(s, i) EXCEPT
           !.pc = pc, !.late = late, !.visited = Slot(s, i).visited, !.whole = whole]],
         UNCHANGED <<scene, there, at, result, dirs, active, partial, stopped, seen>>,
         Tells(Slot(s, i), there) /\ ~Slot(s, i).gone => Tells([Slot(s, i) EXCEPT
           !.pc = pc, !.late = late, !.visited = Slot(s, i).visited, !.whole = whole], there)
  PROVE  WalkInv'
<1> DEFINE r == [Slot(s, i) EXCEPT
                   !.pc = pc, !.late = late, !.visited = Slot(s, i).visited, !.whole = whole]
<1>1. Slot(s, i) \in SlotType
  BY Working DEF Slot
<1>2. /\ r \in SlotType /\ r.pc = pc /\ r.gone = Slot(s, i).gone /\ r.dir = Slot(s, i).dir
      /\ r.visited = Slot(s, i).visited
  BY <1>1 DEF SlotType
<1>3. slots' = [slots EXCEPT ![s] = [slots[s] EXCEPT ![i] = r]]
  OBVIOUS
<1>t. Tells(Slot(s, i), there) /\ ~Slot(s, i).gone => Tells(r, there)
  OBVIOUS
<1> HIDE DEF r
<1>s. slots \in [Sizing -> Seq(SlotType)] /\ slots[s] \in Seq(SlotType)
  BY DEF IInv, TypeInv
<1>4. slots'[s] = [slots[s] EXCEPT ![i] = r] /\ \A t \in Sizing \ {s} : slots'[t] = slots[t]
  BY <1>3, <1>s
<1>5. \A t \in Sizing \ {s} : Same(t)
  BY <1>4 DEF Same
<1>6. WalkTypes'
  BY DEF WalkInv, WalkTypes
<1>7. Busy(r)
  BY <1>2 DEF Busy
<1>8. ASSUME Walks(s) PROVE Walks(s)'
  <2>1. Honest(slots[s], there)
    BY <1>8 DEF Walks, Exactly
  <2>2. ~Slot(s, i).gone /\ Tells(Slot(s, i), there)
    BY <2>1 DEF Honest, Slot
  <2>3. i \in AtWork(slots[s])
    BY DEF AtWork, Slot
  <2>4. /\ ~r.gone /\ Tells(r, there)
        /\ r.dir = slots[s][i].dir /\ r.visited = slots[s][i].visited
    BY <1>2, <1>t, <2>2 DEF Slot
  <2>5. Exactly(root[s], dirs[s], slots[s], active[s], stopped[s], seen[s], there)
    BY <1>8 DEF Walks
  <2>6. Exactly(root[s], dirs[s], [slots[s] EXCEPT ![i] = r], active[s], stopped[s], seen[s], there)
    BY <1>2, <1>7, <1>s, <2>3, <2>4, <2>5, GoesOnExactly
  <2>7. root' = root
    BY DEF root
  <2> QED
    BY <1>4, <2>6, <2>7 DEF Walks
<1> QED
  BY <1>5, <1>6, <1>8, WorkerWalks

\* A folder under a blocked path makes the walk partial as it finishes.
LEMMA LookWalks ==
  ASSUME IInv, WalkInv, NEW s \in Sizing, NEW i \in DOMAIN slots[s], Look(s, i)
  PROVE  WalkInv'
<1>1. Slot(s, i) \in SlotType /\ Busy(Slot(s, i)) /\ Slot(s, i).pc = "look"
  BY Working DEF Slot, Look, Busy
<1>2. UNCHANGED <<scene, there, at, result, dirs, active, partial, stopped, seen>>
  BY DEF Look, callVars
<1>3. /\ "finish" \in Pcs \ {"pop", "exit"} /\ "open" \in Pcs \ {"pop", "exit"}
      /\ Slot(s, i).late \in BOOLEAN /\ Slot(s, i).visited \in BOOLEAN
      /\ Slot(s, i).whole \in BOOLEAN
  BY <1>1 DEF SlotType, Pcs
<1>4. CASE Covers(Slot(s, i).dir)
  <2>1. slots' = [slots EXCEPT ![s][i] = [Slot(s, i) EXCEPT !.pc = "finish",
                    !.late = Slot(s, i).late, !.visited = Slot(s, i).visited, !.whole = FALSE]]
    BY <1>1, <1>4 DEF Look, Slot, SlotType
  <2>2. Tells([Slot(s, i) EXCEPT !.pc = "finish", !.late = Slot(s, i).late,
                 !.visited = Slot(s, i).visited, !.whole = FALSE], there)
    BY <1>1 DEF Tells, SlotType
  <2> QED
    BY <1>1, <1>2, <1>3, <2>1, <2>2, SameFolder
<1>5. CASE ~Covers(Slot(s, i).dir)
  <2>1. slots' = [slots EXCEPT ![s][i] = [Slot(s, i) EXCEPT !.pc = "open",
                    !.late = Slot(s, i).late, !.visited = Slot(s, i).visited,
                    !.whole = Slot(s, i).whole]]
    BY <1>1, <1>5 DEF Look, Slot, SlotType
  <2>2. Tells(Slot(s, i), there) =>
          Tells([Slot(s, i) EXCEPT !.pc = "open", !.late = Slot(s, i).late,
                   !.visited = Slot(s, i).visited, !.whole = Slot(s, i).whole], there)
    BY <1>1 DEF Tells, SlotType
  <2> QED
    BY <1>1, <1>2, <1>3, <2>1, <2>2, SameFolder
<1> QED
  BY <1>4, <1>5

\* What cannot be opened is gone, or makes the walk partial.
LEMMA OpenWalks ==
  ASSUME IInv, WalkInv, NEW s \in Sizing, NEW i \in DOMAIN slots[s], OpenAnswers(s, i)
  PROVE  WalkInv'
<1>1. Slot(s, i) \in SlotType /\ Busy(Slot(s, i)) /\ Slot(s, i).pc = "open"
  BY Working DEF Slot, OpenAnswers, Busy
<1>2. UNCHANGED <<scene, there, at, result, dirs, active, partial, stopped, seen>>
  BY DEF OpenAnswers, callVars
<1>3. PICK pc \in {"touch", "finish"}, whole \in BOOLEAN :
        /\ slots' = [slots EXCEPT ![s][i] = [Slot(s, i) EXCEPT !.pc = pc,
                       !.late = Slot(s, i).late, !.visited = Slot(s, i).visited, !.whole = whole]]
        /\ pc = "finish" => whole = FALSE \/ Slot(s, i).dir \notin there
  <2>1. ASSUME NEW pc \in {"touch", "finish"}, slots' = [slots EXCEPT ![s][i].pc = pc]
        PROVE  slots' = [slots EXCEPT ![s][i] = [Slot(s, i) EXCEPT !.pc = pc,
                 !.late = Slot(s, i).late, !.visited = Slot(s, i).visited,
                 !.whole = Slot(s, i).whole]]
    BY <1>1, <2>1 DEF Slot, SlotType
  <2>w. Slot(s, i).whole \in BOOLEAN
    BY <1>1 DEF SlotType
  <2>2. CASE slots' = [slots EXCEPT ![s][i].pc = "touch"]
    BY <2>1, <2>2, <2>w
  <2>3. CASE Slot(s, i).dir \notin there /\ slots' = [slots EXCEPT ![s][i].pc = "finish"]
    BY <2>1, <2>3, <2>w
  <2>4. CASE slots' = [slots EXCEPT ![s][i].pc = "finish", ![s][i].whole = FALSE]
    <3>1. slots' = [slots EXCEPT ![s][i] = [Slot(s, i) EXCEPT !.pc = "finish",
                      !.late = Slot(s, i).late, !.visited = Slot(s, i).visited, !.whole = FALSE]]
      BY <1>1, <2>4 DEF Slot, SlotType
    <3> QED
      BY <3>1
  <2> QED
    BY <2>2, <2>3, <2>4 DEF OpenAnswers, Moves
<1>4. /\ pc \in Pcs \ {"pop", "exit"}
      /\ Slot(s, i).late \in BOOLEAN /\ Slot(s, i).visited \in BOOLEAN
  BY <1>1, <1>3 DEF SlotType, Pcs
<1>5. Tells([Slot(s, i) EXCEPT !.pc = pc, !.late = Slot(s, i).late,
               !.visited = Slot(s, i).visited, !.whole = whole], there)
  <2>1. /\ Slot(s, i).dir = [Slot(s, i) EXCEPT !.pc = pc, !.late = Slot(s, i).late,
                               !.visited = Slot(s, i).visited, !.whole = whole].dir
        /\ [Slot(s, i) EXCEPT !.pc = pc, !.late = Slot(s, i).late,
              !.visited = Slot(s, i).visited, !.whole = whole].pc = pc
        /\ [Slot(s, i) EXCEPT !.pc = pc, !.late = Slot(s, i).late,
              !.visited = Slot(s, i).visited, !.whole = whole].whole = whole
    BY <1>1 DEF SlotType
  <2> QED
    BY <1>3, <2>1 DEF Tells
<1> QED
  BY <1>1, <1>2, <1>3, <1>4, <1>5, SameFolder

\* A worker closes its folder when it has read it, or as the walk stops.
LEMMA TouchWalks ==
  ASSUME IInv, WalkInv, NEW s \in Sizing, NEW i \in DOMAIN slots[s], Touch(s, i)
  PROVE  WalkInv'
<1>1. Slot(s, i) \in SlotType /\ Busy(Slot(s, i)) /\ Slot(s, i).pc = "touch"
  BY Working DEF Slot, Touch, Busy
<1>2. UNCHANGED <<scene, there, at, result, dirs, active, partial, stopped, seen>>
  BY DEF Touch, callVars
<1>3. PICK pc \in {"close", "read"}, late \in {Slot(s, i).late, FALSE},
           whole \in {Slot(s, i).whole, FALSE} :
        /\ slots' = [slots EXCEPT ![s][i] = [Slot(s, i) EXCEPT !.pc = pc,
                       !.late = late, !.visited = Slot(s, i).visited, !.whole = whole]]
        /\ pc = "close" => whole = FALSE \/ Slot(s, i).visited
        /\ pc = "read" => ~Slot(s, i).visited
  <2>1. CASE Slot(s, i).gone \/ stopped[s]
    <3>1. slots' = [slots EXCEPT ![s][i].pc = "close", ![s][i].whole = FALSE]
      BY <2>1 DEF Touch
    <3>2. slots' = [slots EXCEPT ![s][i] = [Slot(s, i) EXCEPT !.pc = "close",
                      !.late = Slot(s, i).late, !.visited = Slot(s, i).visited, !.whole = FALSE]]
      BY <1>1, <3>1 DEF Slot, SlotType
    <3> QED
      BY <3>2
  <2>2. CASE ~(Slot(s, i).gone \/ stopped[s])
    <3>1. PICK pc \in {"close", "read"} :
            /\ slots' = [slots EXCEPT ![s][i].pc = pc, ![s][i].late = FALSE]
            /\ pc = "close" => Slot(s, i).visited
            /\ pc = "read" => ~Slot(s, i).visited
      BY <2>2 DEF Touch
    <3>2. slots' = [slots EXCEPT ![s][i] = [Slot(s, i) EXCEPT !.pc = pc,
                      !.late = FALSE, !.visited = Slot(s, i).visited, !.whole = Slot(s, i).whole]]
      BY <1>1, <3>1 DEF Slot, SlotType
    <3> QED
      BY <3>1, <3>2
  <2> QED
    BY <2>1, <2>2
<1>4. /\ pc \in Pcs \ {"pop", "exit"} /\ late \in BOOLEAN /\ whole \in BOOLEAN
      /\ Slot(s, i).visited \in BOOLEAN
  BY <1>1, <1>3 DEF SlotType, Pcs
<1>5. Tells([Slot(s, i) EXCEPT !.pc = pc, !.late = late,
               !.visited = Slot(s, i).visited, !.whole = whole], there)
  <2> DEFINE r == [Slot(s, i) EXCEPT !.pc = pc, !.late = late,
                     !.visited = Slot(s, i).visited, !.whole = whole]
  <2>1. r.pc = pc /\ r.whole = whole /\ r.visited = Slot(s, i).visited
    BY <1>1 DEF SlotType
  <2> HIDE DEF r
  <2>2. Tells(r, there)
    BY <1>3, <2>1 DEF Tells
  <2> QED
    BY <2>2 DEF r
<1> QED
  BY <1>1, <1>2, <1>3, <1>4, <1>5, SameFolder

\* A folder that was opened and read as whole finishes as such.
LEMMA CloseWalks ==
  ASSUME IInv, WalkInv, NEW s \in Sizing, NEW i \in DOMAIN slots[s], CloseAnswers(s, i)
  PROVE  WalkInv'
<1>1. Slot(s, i) \in SlotType /\ Busy(Slot(s, i)) /\ Slot(s, i).pc = "close"
  BY Working DEF Slot, CloseAnswers, Busy
<1>2. UNCHANGED <<scene, there, at, result, dirs, active, partial, stopped, seen>>
  BY DEF CloseAnswers, callVars
<1>3. slots' = [slots EXCEPT ![s][i] = [Slot(s, i) EXCEPT !.pc = "finish",
                  !.late = Slot(s, i).late, !.visited = Slot(s, i).visited,
                  !.whole = Slot(s, i).whole]]
  BY <1>1 DEF CloseAnswers, Moves, Slot, SlotType
<1>4. /\ "finish" \in Pcs \ {"pop", "exit"}
      /\ Slot(s, i).late \in BOOLEAN /\ Slot(s, i).whole \in BOOLEAN
  BY <1>1 DEF SlotType, Pcs
<1>5. Tells(Slot(s, i), there) =>
        Tells([Slot(s, i) EXCEPT !.pc = "finish", !.late = Slot(s, i).late,
                 !.visited = Slot(s, i).visited, !.whole = Slot(s, i).whole], there)
  BY <1>1 DEF Tells, SlotType
<1> QED
  BY <1>1, <1>2, <1>3, <1>4, <1>5, SameFolder

\* What comes in time is added up, once; what comes later is not.
LEMMA ReadWalks ==
  ASSUME IInv, WalkInv, NEW s \in Sizing, NEW i \in DOMAIN slots[s], ReadAnswers(s, i)
  PROVE  WalkInv'
<1> DEFINE d == Slot(s, i).dir
           n2 == [seen[s] EXCEPT ![d] = @ + 1]
<1>1. Slot(s, i) \in SlotType /\ Busy(Slot(s, i)) /\ Slot(s, i).pc = "read" /\ d \in Dir
  BY Working DEF Slot, ReadAnswers, Busy, SlotType
<1>2. UNCHANGED <<scene, there, at, result, dirs, active, partial, stopped>>
  BY DEF ReadAnswers, callVars
<1>3. PICK whole \in BOOLEAN :
        slots' = [slots EXCEPT ![s][i].pc = "touch", ![s][i].visited = TRUE, ![s][i].whole = whole]
  BY DEF ReadAnswers
<1> DEFINE r == [Slot(s, i) EXCEPT !.pc = "touch", !.visited = TRUE, !.whole = whole]
<1>4. slots' = [slots EXCEPT ![s] = [slots[s] EXCEPT ![i] = r]]
  BY <1>1, <1>3 DEF Slot, SlotType
<1>5. r \in SlotType /\ r.pc = "touch" /\ r.gone = Slot(s, i).gone /\ r.dir = d /\ r.visited
  BY <1>1 DEF SlotType, Pcs
<1> HIDE DEF r
<1>s. slots \in [Sizing -> Seq(SlotType)] /\ slots[s] \in Seq(SlotType)
  BY DEF IInv, TypeInv
<1>6. slots'[s] = [slots[s] EXCEPT ![i] = r] /\ \A t \in Sizing \ {s} : slots'[t] = slots[t]
  BY <1>4, <1>s
<1>7. seen \in [Sizing -> [Dir -> Nat]] /\ seen[s] \in [Dir -> Nat]
  BY DEF WalkInv, WalkTypes
<1>8. /\ \A t \in Sizing \ {s} : seen'[t] = seen[t]
      /\ at[s] = "done" => seen'[s] = seen[s]
      /\ at[s] # "done" => seen'[s] = n2
      /\ seen' \in [Sizing -> [Dir -> Nat]]
  <2>1. seen' = [seen EXCEPT ![s] = [seen[s] EXCEPT ![d] = IF at[s] = "done" THEN @ ELSE @ + 1]]
    BY DEF ReadAnswers
  <2>2. [seen[s] EXCEPT ![d] = IF at[s] = "done" THEN @ ELSE @ + 1] \in [Dir -> Nat]
    BY <1>1, <1>7
  <2>3. CASE at[s] = "done"
    <3>1. [seen[s] EXCEPT ![d] = IF at[s] = "done" THEN @ ELSE @ + 1] = seen[s]
      BY <1>7, <2>3
    <3>2. seen' = [seen EXCEPT ![s] = seen[s]]
      BY <2>1, <3>1
    <3> QED
      BY <1>7, <2>3, <3>2
  <2>4. CASE at[s] # "done"
    <3>1. seen' = [seen EXCEPT ![s] = n2]
      BY <2>1, <2>4
    <3>2. n2 \in [Dir -> Nat]
      BY <1>1, <1>7
    <3> HIDE DEF n2
    <3> QED
      BY <1>7, <2>4, <3>1, <3>2
  <2> QED
    BY <2>3, <2>4
<1>9. \A t \in Sizing \ {s} : Same(t)
  BY <1>2, <1>6, <1>8 DEF Same
<1>10. WalkTypes'
  BY <1>2, <1>8 DEF WalkInv, WalkTypes
<1>11. ASSUME at[s] = "walk", Walks(s) PROVE Walks(s)'
  <2>1. Honest(slots[s], there)
    BY <1>11 DEF Walks, Exactly
  <2>2. ~Slot(s, i).gone
    BY <2>1 DEF Honest, Slot
  <2>3. i \in AtWork(slots[s])
    BY <1>1 DEF AtWork, Slot
  <2>4. /\ ~r.gone /\ r.dir = slots[s][i].dir /\ slots[s][i].pc = "read"
        /\ slots[s][i].dir \in Dir
    BY <1>1, <1>5, <2>2 DEF Slot
  <2>5. Exactly(root[s], dirs[s], slots[s], active[s], stopped[s], seen[s], there)
    BY <1>11 DEF Walks
  <2>6. Exactly(root[s], dirs[s], [slots[s] EXCEPT ![i] = r], active[s], stopped[s],
                [seen[s] EXCEPT ![slots[s][i].dir] = @ + 1], there)
    BY <1>5, <1>7, <1>s, <2>3, <2>4, <2>5, AddsExactly
  <2>7. root' = root /\ seen'[s] = [seen[s] EXCEPT ![slots[s][i].dir] = @ + 1]
    BY <1>2, <1>8, <1>11 DEF root, Slot
  <2> QED
    BY <1>2, <1>6, <2>6, <2>7 DEF Walks
<1> QED
  BY <1>2, <1>8, <1>9, <1>10, <1>11, WorkerWalks

\* A worker takes a folder, or ends as there is nothing open.
LEMMA PopWalks ==
  ASSUME IInv, WalkInv, NEW s \in Sizing, NEW i \in DOMAIN slots[s], Pop(s, i)
  PROVE  WalkInv'
<1>1. slots[s][i].pc = "pop"
  BY DEF Pop, Slot
<1>2. UNCHANGED <<scene, there, at, result, partial, seen>>
  BY DEF Pop, callVars
<1>s. /\ slots \in [Sizing -> Seq(SlotType)] /\ slots[s] \in Seq(SlotType)
      /\ dirs \in [Sizing -> SUBSET Dir] /\ dirs[s] \subseteq Dir
  BY DEF IInv, TypeInv
<1>t. /\ active \in [Sizing -> Int] /\ stopped \in [Sizing -> BOOLEAN]
      /\ active[s] \in Int /\ stopped[s] \in BOOLEAN
  BY DEF WalkInv, WalkTypes
<1>r. root' = root
  BY <1>2 DEF root
<1>3. ASSUME ~stopped[s], NEW d \in dirs[s],
             dirs' = [dirs EXCEPT ![s] = @ \ {d}],
             slots' = [slots EXCEPT ![s][i] = [NewSlot EXCEPT !.pc = "look", !.dir = d]],
             active' = [active EXCEPT ![s] = @ + 1], UNCHANGED stopped
      PROVE  WalkInv'
  <2> DEFINE x == [NewSlot EXCEPT !.pc = "look", !.dir = d]
  <2>1. slots' = [slots EXCEPT ![s] = [slots[s] EXCEPT ![i] = x]]
    BY <1>3
  <2> HIDE DEF x
  <2>2. /\ slots'[s] = [slots[s] EXCEPT ![i] = x]
        /\ dirs'[s] = dirs[s] \ {d} /\ active'[s] = active[s] + 1 /\ stopped'[s] = FALSE
    BY <1>3, <1>s, <1>t, <2>1
  <2>3. \A t \in Sizing \ {s} : Same(t)
    BY <1>2, <1>3, <1>s, <1>t, <2>1 DEF Same
  <2>4. WalkTypes'
    BY <1>2, <1>3, <1>t DEF WalkInv, WalkTypes
  <2>5. ASSUME Walks(s) PROVE Walks(s)'
    <3>1. Exactly(root[s], dirs[s], slots[s], active[s], FALSE, seen[s], there)
      BY <1>3, <1>t, <2>5 DEF Walks
    <3>2. Exactly(root[s], dirs[s] \ {d}, [slots[s] EXCEPT ![i] = x], active[s] + 1,
                  FALSE, seen[s], there)
      BY <1>1, <1>s, <3>1, TakesExactly DEF x
    <3> QED
      BY <1>2, <1>r, <2>2, <3>2 DEF Walks
  <2> QED
    BY <1>2, <2>3, <2>4, <2>5, WorkerWalks
<1>4. ASSUME stopped[s] \/ (dirs[s] = {} /\ active[s] = 0),
             slots' = [slots EXCEPT ![s][i] = Exited],
             stopped' = [stopped EXCEPT ![s] = TRUE], UNCHANGED <<dirs, active>>
      PROVE  WalkInv'
  <2>1. slots' = [slots EXCEPT ![s] = [slots[s] EXCEPT ![i] = Exited]]
    BY <1>4
  <2>2. slots'[s] = [slots[s] EXCEPT ![i] = Exited] /\ stopped'[s] = TRUE
    BY <1>4, <1>s, <1>t, <2>1
  <2>3. \A t \in Sizing \ {s} : Same(t)
    BY <1>2, <1>4, <1>s, <1>t, <2>1 DEF Same
  <2>4. WalkTypes'
    BY <1>2, <1>4, <1>t DEF WalkInv, WalkTypes
  <2>5. ASSUME Walks(s) PROVE Walks(s)'
    <3>1. Exactly(root[s], dirs[s], slots[s], active[s], stopped[s], seen[s], there)
      BY <2>5 DEF Walks
    <3>2. Exactly(root[s], dirs[s], [slots[s] EXCEPT ![i] = Exited], active[s],
                  TRUE, seen[s], there)
      BY <1>1, <1>4, <1>s, <1>t, <3>1, EndsExactly
    <3> QED
      BY <1>2, <1>4, <1>r, <2>2, <3>2 DEF Walks
  <2> QED
    BY <1>2, <2>3, <2>4, <2>5, WorkerWalks
<1> QED
  BY <1>3, <1>4 DEF Pop

\* A worker finishes: as whole its folder is handed on, else the walk is
\* partial.
LEMMA FinishWalks ==
  ASSUME IInv, WalkInv, NEW s \in Sizing, NEW i \in DOMAIN slots[s], Finish(s, i)
  PROVE  WalkInv'
<1> DEFINE q2 == IF stopped[s] THEN dirs[s] ELSE dirs[s] \cup Hands(Slot(s, i))
           over == stopped[s] \/ (active[s] = 1 /\ q2 = {})
<1>1. /\ Slot(s, i) \in SlotType /\ slots[s][i].pc = "finish"
      /\ slots[s][i].dir \in Dir /\ slots[s][i].whole \in BOOLEAN
      /\ Busy(slots[s][i])
  BY Working DEF Slot, Finish, SlotType, Busy
<1>2. UNCHANGED <<scene, there, at, result, seen>>
  BY DEF Finish, callVars
<1>s. /\ slots \in [Sizing -> Seq(SlotType)] /\ slots[s] \in Seq(SlotType)
      /\ dirs \in [Sizing -> SUBSET Dir] /\ dirs[s] \subseteq Dir
  BY DEF IInv, TypeInv
<1>t. /\ active \in [Sizing -> Int] /\ stopped \in [Sizing -> BOOLEAN]
      /\ partial \in [Sizing -> BOOLEAN]
      /\ active[s] \in Int /\ stopped[s] \in BOOLEAN /\ partial[s] \in BOOLEAN
  BY DEF WalkInv, WalkTypes
<1>r. root' = root
  BY <1>2 DEF root
<1>3. CASE Slot(s, i).gone
  <2>1. /\ slots' = [slots EXCEPT ![s] = [slots[s] EXCEPT ![i] = Exited]]
        /\ UNCHANGED <<dirs, active, partial, stopped>>
    BY <1>3 DEF Finish
  <2>2. \A t \in Sizing \ {s} : Same(t)
    BY <1>2, <1>s, <2>1 DEF Same
  <2>3. WalkTypes'
    BY <1>2, <2>1 DEF WalkInv, WalkTypes
  <2>4. ~Walks(s)
    BY <1>3 DEF Walks, Exactly, Honest, Slot
  <2> QED
    BY <1>2, <2>1, <2>2, <2>3, <2>4, WorkerWalks
<1>4. CASE ~Slot(s, i).gone
  <2>1. /\ partial' = [partial EXCEPT ![s] = @ \/ ~Slot(s, i).whole]
        /\ active' = [active EXCEPT ![s] = @ - 1]
        /\ dirs' = [dirs EXCEPT ![s] = q2]
        /\ stopped' = [stopped EXCEPT ![s] = over]
    BY <1>4 DEF Finish
  <2>x. PICK x \in {Exited, NewSlot} : slots' = [slots EXCEPT ![s] = [slots[s] EXCEPT ![i] = x]]
    <3>1. slots' = [slots EXCEPT ![s][i] = Exited] \/ slots' = [slots EXCEPT ![s][i] = NewSlot]
      BY DEF Finish
    <3> QED
      BY <3>1
  <2>o. over \in BOOLEAN
    BY <1>t
  <2>h. over <=> (stopped[s] \/ (active[s] = 1 /\ q2 = {}))
    OBVIOUS
  <2>q. q2 = IF stopped[s] THEN dirs[s] ELSE dirs[s] \cup Hands(Slot(s, i))
    OBVIOUS
  <2> HIDE DEF q2, over
  <2>2. /\ slots'[s] = [slots[s] EXCEPT ![i] = x]
        /\ dirs'[s] = q2 /\ active'[s] = active[s] - 1 /\ stopped'[s] = over
        /\ partial'[s] = (partial[s] \/ ~Slot(s, i).whole)
    BY <1>s, <1>t, <2>1, <2>x
  <2>3. \A t \in Sizing \ {s} : Same(t)
    BY <1>2, <1>s, <1>t, <2>1, <2>x DEF Same
  <2>4. WalkTypes'
    <3>1. partial' \in [Sizing -> BOOLEAN]
      BY <1>t, <2>1
    <3>2. stopped' \in [Sizing -> BOOLEAN]
      BY <1>t, <2>1, <2>o
    <3>3. active' \in [Sizing -> Int]
      BY <1>t, <2>1
    <3> QED
      BY <1>2, <3>1, <3>2, <3>3 DEF WalkInv, WalkTypes
  <2>5. ASSUME at[s] = "walk", Slot(s, i).whole, Walks(s) PROVE Walks(s)'
    <3>1. Exactly(root[s], dirs[s], slots[s], active[s], stopped[s], seen[s], there)
      BY <2>5 DEF Walks
    <3>2. i \in AtWork(slots[s])
      BY <1>1 DEF AtWork
    <3>3. ~stopped[s] /\ stopped[s] = FALSE
      <4>1. slots[s][i].dir \in Open(dirs[s], slots[s])
        BY <3>2 DEF Open
      <4>2. stopped[s] => Open(dirs[s], slots[s]) = {}
        BY <3>1 DEF Exactly, Counted
      <4> QED
        BY <1>t, <4>1, <4>2
    <3>4. q2 = dirs[s] \cup Hands(Slot(s, i))
      BY <2>q, <3>3
    <3>5. Hands(Slot(s, i)) =
            IF slots[s][i].visited THEN Subdirs(slots[s][i].dir) \cap there ELSE {}
      BY DEF Hands, Slot
    <3>6. Closed(there) /\ root[s] \in Dir
      BY <2>5, WalkerAssumption DEF WalkInv, WalkTypes, Walking, IInv, TypeInv, root
    <3>7. Exactly(root[s], dirs[s], slots[s], active[s], FALSE, seen[s], there)
      BY <3>1, <3>3
    <3>w. slots[s][i].whole
      BY <2>5 DEF Slot
    <3>8. Exactly(root[s], dirs[s] \cup Hands(Slot(s, i)), [slots[s] EXCEPT ![i] = x], active[s] - 1,
                  active[s] = 1 /\ dirs[s] \cup Hands(Slot(s, i)) = {}, seen[s], there)
      BY <1>1, <1>s, <3>2, <3>5, <3>6, <3>7, <3>w, FinishesExactly
    <3>9. over = (active[s] = 1 /\ dirs[s] \cup Hands(Slot(s, i)) = {})
      BY <2>h, <2>o, <3>3, <3>4
    <3> QED
      BY <1>2, <1>r, <2>2, <3>4, <3>8, <3>9 DEF Walks
  <2> QED
    BY <1>2, <2>2, <2>3, <2>4, <2>5, WorkerWalks
<1> QED
  BY <1>3, <1>4

\* A sizing that comes back without a whole size, or with nothing there.
LEMMA ReturnsWalks ==
  ASSUME IInv, WalkInv, UNCHANGED <<scene, there, dirs, active, seen, partial>>,
         NEW s \in Sizing, at[s] # "done",
         \A t \in Sizing \ {s} : slots'[t] = slots[t] /\ stopped'[t] = stopped[t],
         stopped' \in [Sizing -> BOOLEAN],
         NEW found \in BOOLEAN, NEW whole \in BOOLEAN, Returns(s, found, whole),
         found /\ whole => Sum(s)
  PROVE  WalkInv'
<1>1. /\ at \in [Sizing -> {"new", "lstat", "walk", "done"}]
      /\ result \in [Sizing -> [found : BOOLEAN, whole : BOOLEAN]]
  BY DEF IInv, TypeInv, WalkInv, WalkTypes
<1>2. [found |-> found, whole |-> whole] \in [found : BOOLEAN, whole : BOOLEAN]
  OBVIOUS
<1>3. at' = [at EXCEPT ![s] = "done"] /\ result' = [result EXCEPT ![s] = [found |-> found, whole |-> whole]]
  BY DEF Returns
<1>4. /\ at'[s] = "done" /\ result'[s] = [found |-> found, whole |-> whole]
      /\ result' \in [Sizing -> [found : BOOLEAN, whole : BOOLEAN]]
      /\ \A t \in Sizing \ {s} : at'[t] = at[t] /\ result'[t] = result[t]
  BY <1>1, <1>2, <1>3
<1>5. \A t \in Sizing \ {s} : Same(t)
  BY <1>4 DEF Same
<1>6. WalkTypes'
  BY <1>4 DEF WalkInv, WalkTypes
<1>7. root' = root
  BY DEF root
<1>8. Unwalked(s)' /\ Walking(s)'
  BY <1>4 DEF Unwalked, Walking
<1>9. Returned(s)'
  <2>1. Sum(s)' <=> Sum(s)
    BY <1>7 DEF Sum
  <2>2. result'[s].found = found /\ result'[s].whole = whole
    BY <1>4
  <2> QED
    BY <1>4, <2>1, <2>2 DEF Returned
<1> QED
  BY <1>5, <1>6, <1>8, <1>9, OneWalks

\* A step that changes nothing the walks speak of.
LEMMA BesideWalks ==
  ASSUME WalkInv, UNCHANGED <<scene, there, at, result, walkVars>>
  PROVE  WalkInv'
<1>1. \A t \in Sizing : Same(t)
  BY DEF Same, walkVars
<1>2. \A t \in Sizing : Unwalked(t)' /\ Walking(t)' /\ Returned(t)'
  BY <1>1, SameStays
<1>3. WalkTypes'
  BY DEF WalkInv, WalkTypes, walkVars
<1> QED
  BY <1>2, <1>3 DEF WalkInv

\* The root's lstat starts, or its path is blocked.
LEMMA LstatWalks ==
  ASSUME IInv, WalkInv, NEW s \in Sizing, Lstat(s)
  PROVE  WalkInv'
<1>1. /\ at[s] = "new" /\ UNCHANGED <<scene, there, walkVars>>
      /\ stopped \in [Sizing -> BOOLEAN]
  BY DEF Lstat, WalkInv, WalkTypes
<1>2. CASE Returns(s, TRUE, FALSE)
  BY <1>1, <1>2, ReturnsWalks DEF walkVars
<1>3. CASE at' = [at EXCEPT ![s] = "lstat"] /\ UNCHANGED result
  <2>1. at'[s] = "lstat" /\ \A t \in Sizing \ {s} : at'[t] = at[t]
    BY <1>3 DEF IInv, TypeInv
  <2>2. \A t \in Sizing \ {s} : Same(t)
    BY <1>1, <1>3, <2>1 DEF Same, walkVars
  <2>3. WalkTypes'
    BY <1>1, <1>3 DEF WalkInv, WalkTypes, walkVars
  <2>4. Unwalked(s)' /\ Walking(s)' /\ Returned(s)'
    BY <1>1, <1>3, <2>1 DEF WalkInv, Unwalked, Walking, Returned, walkVars
  <2> QED
    BY <1>1, <2>2, <2>3, <2>4, OneWalks
<1> QED
  BY <1>2, <1>3 DEF Lstat

\* A walk starts with nothing added up.
LEMMA LstatAnswersWalks ==
  ASSUME IInv, WalkInv, NEW s \in Sizing, LstatAnswers(s)
  PROVE  WalkInv'
<1>1. /\ at[s] = "lstat" /\ UNCHANGED <<scene, there, active, partial, stopped, seen>>
      /\ stopped \in [Sizing -> BOOLEAN]
  BY DEF LstatAnswers, WalkInv, WalkTypes
<1>2. CASE Returns(s, FALSE, TRUE) /\ UNCHANGED <<dirs, slots>>
  BY <1>1, <1>2, ReturnsWalks
<1>3. CASE Returns(s, TRUE, FALSE) /\ UNCHANGED <<dirs, slots>>
  BY <1>1, <1>3, ReturnsWalks
<1>4. CASE /\ at' = [at EXCEPT ![s] = "walk"]
           /\ dirs' = [dirs EXCEPT ![s] = {root[s]}]
           /\ slots' = [slots EXCEPT ![s] = [i \in 1..scene.workers |-> NewSlot]]
           /\ UNCHANGED result
  <2> DEFINE q == [i \in 1..scene.workers |-> NewSlot]
  <2>1. s \in DOMAIN root /\ root[s] \in Dir /\ scene.workers \in Nat
    BY <1>1, WalkerAssumption DEF IInv, TypeInv, Rooted, root
  <2>2. slots' = [slots EXCEPT ![s] = q]
    BY <1>4
  <2>3. /\ at \in [Sizing -> {"new", "lstat", "walk", "done"}]
        /\ slots \in [Sizing -> Seq(SlotType)] /\ dirs \in [Sizing -> SUBSET Dir]
    BY DEF IInv, TypeInv
  <2>e. /\ active[s] = 0 /\ ~partial[s] /\ ~stopped[s] /\ \A d \in Dir : seen[s][d] = 0
        /\ ~result[s].found /\ stopped[s] = FALSE
    BY <1>1 DEF WalkInv, WalkTypes, Unwalked, Returned
  <2>4. Exactly(root[s], {root[s]}, q, 0, FALSE, seen[s], there)
    BY <2>1, <2>e, BeginsExactly
  <2> HIDE DEF q
  <2>5. /\ at'[s] = "walk" /\ dirs'[s] = {root[s]} /\ slots'[s] = q
        /\ \A t \in Sizing \ {s} : at'[t] = at[t] /\ dirs'[t] = dirs[t] /\ slots'[t] = slots[t]
    BY <1>4, <2>2, <2>3
  <2>6. \A t \in Sizing \ {s} : Same(t)
    BY <1>1, <1>4, <2>5 DEF Same
  <2>7. WalkTypes'
    BY <1>1, <1>4 DEF WalkInv, WalkTypes
  <2>8. root' = root
    BY <1>1 DEF root
  <2>9. Walks(s)'
    BY <1>1, <2>4, <2>5, <2>8, <2>e DEF Walks
  <2>10. Unwalked(s)' /\ Walking(s)'
    BY <2>1, <2>5, <2>8, <2>9 DEF Unwalked, Walking
  <2>11. Returned(s)'
    BY <1>4, <2>e DEF Returned
  <2> QED
    BY <1>1, <2>6, <2>7, <2>10, <2>11, OneWalks
<1> QED
  BY <1>2, <1>3, <1>4 DEF LstatAnswers

\* An lstat given up on, and a walk that ends with its ctx, are not whole.
LEMMA GivenUpWalks ==
  ASSUME IInv, WalkInv, NEW s \in Sizing, LstatWrittenOff(s) \/ LstatCanceled(s) \/ WalkCanceled(s)
  PROVE  WalkInv'
<1>1. at[s] # "done" /\ Returns(s, TRUE, FALSE)
  BY DEF LstatWrittenOff, LstatCanceled, WalkCanceled
<1>2. UNCHANGED <<scene, there, dirs, active, seen, partial>>
  BY DEF LstatWrittenOff, LstatCanceled, WalkCanceled, walkVars
<1>3. /\ slots \in [Sizing -> Seq(SlotType)] /\ stopped \in [Sizing -> BOOLEAN]
  BY DEF IInv, TypeInv, WalkInv, WalkTypes
<1>4. \/ slots' = slots /\ stopped' = stopped
      \/ \E q : slots' = [slots EXCEPT ![s] = q] /\ stopped' = [stopped EXCEPT ![s] = TRUE]
  BY DEF LstatWrittenOff, LstatCanceled, WalkCanceled, walkVars
<1>5. /\ \A t \in Sizing \ {s} : slots'[t] = slots[t] /\ stopped'[t] = stopped[t]
      /\ stopped' \in [Sizing -> BOOLEAN]
  BY <1>3, <1>4
<1> QED
  BY <1>1, <1>2, <1>5, ReturnsWalks

\* A walk that lost nothing comes back when nothing is open: all that is
\* there was added up.
LEMMA WalkReturnsWalks ==
  ASSUME IInv, WalkInv, NEW s \in Sizing, WalkReturns(s)
  PROVE  WalkInv'
<1>1. /\ at[s] = "walk" /\ stopped[s] /\ Returns(s, TRUE, ~partial[s])
      /\ UNCHANGED <<scene, there, walkVars>>
  BY DEF WalkReturns
<1>2. partial[s] \in BOOLEAN /\ stopped \in [Sizing -> BOOLEAN]
  BY DEF WalkInv, WalkTypes
<1>3. ASSUME ~partial[s] PROVE Sum(s)
  <2>1. Walks(s)
    BY <1>1, <1>3 DEF WalkInv, Walking
  <2>2. Open(dirs[s], slots[s]) = {}
    BY <1>1, <2>1 DEF Walks, Exactly, Counted
  <2> QED
    BY <2>1, <2>2 DEF Walks, Exactly, Covered, Sum
<1> QED
  BY <1>1, <1>2, <1>3, ReturnsWalks DEF walkVars

\* A write-off makes the walk partial.
LEMMA WriteOffStalledWalks ==
  ASSUME IInv, WalkInv, NEW s \in Sizing, WriteOffStalled(s)
  PROVE  WalkInv'
<1>1. /\ at[s] = "walk" /\ UNCHANGED <<scene, there, at, result, dirs, seen>>
      /\ partial' = [partial EXCEPT ![s] = TRUE]
      /\ active' = [active EXCEPT ![s] = Held(s)]
      /\ \E q : slots' = [slots EXCEPT ![s] = q]
      /\ \E b \in BOOLEAN : stopped' = [stopped EXCEPT ![s] = b]
  BY DEF WriteOffStalled, callVars, Lost
<1>2. /\ slots \in [Sizing -> Seq(SlotType)] /\ stopped \in [Sizing -> BOOLEAN]
      /\ partial \in [Sizing -> BOOLEAN] /\ active \in [Sizing -> Int]
  BY DEF IInv, TypeInv, WalkInv, WalkTypes
<1>3. Held(s) \in Int
  <2>1. slots[s] \in Seq(SlotType)
    BY <1>2
  <2>2. Len(slots[s]) \in Nat /\ DOMAIN slots[s] = 1..Len(slots[s])
    <3> HIDE DEF SlotType
    <3> QED
      BY <2>1
  <2>3. IsFiniteSet(DOMAIN slots[s]) /\ Taken(s) \subseteq DOMAIN slots[s]
    BY <2>2, FS_Interval DEF Taken, Stalled
  <2>4. Cardinality(Taken(s)) \in Nat
    BY <2>3, FS_Subset, FS_CardinalityType
  <2> QED
    BY <1>2, <2>4 DEF Held
<1>4. \A t \in Sizing \ {s} : Same(t)
  BY <1>1, <1>2 DEF Same
<1>5. WalkTypes'
  BY <1>1, <1>2, <1>3 DEF WalkInv, WalkTypes
<1>6. partial'[s] = TRUE
  BY <1>1, <1>2
<1>7. root' = root /\ s \in DOMAIN root
  BY <1>1 DEF root, WalkInv, Walking
<1>8. Unwalked(s)' /\ Walking(s)'
  BY <1>1, <1>6, <1>7 DEF Unwalked, Walking
<1>9. Returned(s)'
  BY <1>1 DEF WalkInv, Returned
<1> QED
  BY <1>1, <1>4, <1>5, <1>8, <1>9, OneWalks

\* Calls become late and folders go: walks stay exact.
LEMMA AroundWalks ==
  ASSUME WalkInv, UNCHANGED <<scene, at, dirs, active, partial, stopped, seen, result>>,
         there' \subseteq there, Closed(there'),
         \A t \in Sizing :
           /\ DOMAIN slots'[t] = DOMAIN slots[t]
           /\ \A i \in DOMAIN slots[t] :
                /\ slots'[t][i].pc = slots[t][i].pc /\ slots'[t][i].dir = slots[t][i].dir
                /\ slots'[t][i].gone = slots[t][i].gone
                /\ slots'[t][i].visited = slots[t][i].visited
                /\ slots'[t][i].whole = slots[t][i].whole
  PROVE  WalkInv'
<1>1. root' = root
  BY DEF root
<1>2. WalkTypes'
  BY DEF WalkInv, WalkTypes
<1>3. ASSUME NEW t \in Sizing PROVE Unwalked(t)' /\ Walking(t)' /\ Returned(t)'
  <2>1. Walks(t) => Walks(t)'
    <3> SUFFICES ASSUME Walks(t) PROVE Walks(t)'
      OBVIOUS
    <3>1. Exactly(root[t], dirs[t], slots[t], active[t], stopped[t], seen[t], there)
      BY DEF Walks
    <3>2. Exactly(root[t], dirs[t], slots'[t], active[t], stopped[t], seen[t], there')
      BY <3>1, StaysExactly
    <3> QED
      BY <1>1, <3>2 DEF Walks
  <2>2. Sum(t) => Sum(t)'
    BY <1>1 DEF Sum
  <2> QED
    BY <1>1, <2>1, <2>2 DEF WalkInv, Unwalked, Walking, Returned
<1> QED
  BY <1>2, <1>3 DEF WalkInv

\* Time passes.
LEMMA StallPassesWalks ==
  ASSUME IInv, WalkInv, StallPasses
  PROVE  WalkInv'
<1>1. UNCHANGED <<scene, there, at, dirs, active, partial, stopped, seen, result>>
  BY DEF StallPasses
<1>2. ASSUME NEW t \in Sizing, NEW i \in DOMAIN slots[t]
      PROVE  /\ slots'[t][i].pc = slots[t][i].pc /\ slots'[t][i].dir = slots[t][i].dir
             /\ slots'[t][i].gone = slots[t][i].gone
             /\ slots'[t][i].visited = slots[t][i].visited
             /\ slots'[t][i].whole = slots[t][i].whole
  <2>1. slots'[t][i] \in {slots[t][i], [slots[t][i] EXCEPT !.late = TRUE]}
    BY DEF StallPasses, Slot
  <2>2. slots[t][i] \in SlotType
    BY Working
  <2> QED
    BY <2>1, <2>2 DEF SlotType
<1>3. \A t \in Sizing : DOMAIN slots'[t] = DOMAIN slots[t]
  BY DEF StallPasses
<1>4. Closed(there')
  BY <1>1 DEF WalkInv, WalkTypes
<1> QED
  BY <1>1, <1>2, <1>3, <1>4, AroundWalks

\* A folder goes with all that is in it.
LEMMA RemovedWalks ==
  ASSUME WalkInv, NEW d \in Vanishing, Removed(d)
  PROVE  WalkInv'
<1>1. /\ UNCHANGED <<scene, at, dirs, active, partial, stopped, seen, result, slots>>
      /\ there' = there \ Below(d) /\ d \in there
  BY DEF Removed, callVars, walkVars
<1>2. Closed(there')
  <2>1. Closed(there)
    BY DEF WalkInv, WalkTypes
  <2>2. ASSUME NEW e \in there', NEW f \in Above[e]
        PROVE  f \in there'
    <3>1. e \in there /\ e \notin Below(d) /\ f \in there /\ e \in Dir /\ f \in Dir
      BY <1>1, <2>1, <2>2 DEF Closed
    <3>2. d \notin Above[e]
      BY <3>1 DEF Below
    <3>3. Above[f] \subseteq Above[e]
      BY <3>1, Tree
    <3>4. f \notin Below(d)
      BY <3>2, <3>3 DEF Below
    <3> QED
      BY <1>1, <3>1, <3>4
  <2> QED
    BY <1>1, <2>1, <2>2 DEF Closed
<1> QED
  BY <1>1, <1>2, AroundWalks

\* Every step keeps it.
LEMMA NextWalk ==
  ASSUME IInv, WalkInv, [Next]_vars
  PROVE  WalkInv'
<1>1. ASSUME NEW s \in Sizing, Worker(s) \/ Answers(s) PROVE WalkInv'
  BY <1>1, PopWalks, LookWalks, TouchWalks, FinishWalks, OpenWalks, ReadWalks, CloseWalks
     DEF Worker, Answers
<1>2. ASSUME NEW s \in Sizing, Sizes(s) PROVE WalkInv'
  BY <1>2, GivenUpWalks, WriteOffStalledWalks, WalkReturnsWalks DEF Sizes
<1>3. ASSUME NEW s \in Sizing, Cancel(s) PROVE WalkInv'
  BY <1>3, BesideWalks DEF Cancel, callVars
<1>4. ASSUME NEW s \in Sizing, LateAnswer(s) PROVE WalkInv'
  BY <1>4, BesideWalks DEF LateAnswer
<1>5. CASE UNCHANGED vars
  BY <1>5, BesideWalks DEF vars, walkVars
<1> QED
  BY <1>1, <1>2, <1>3, <1>4, <1>5, LstatWalks, LstatAnswersWalks, StallPassesWalks,
     RemovedWalks DEF Next

\* A size that is said to be whole is the sum of every folder under its root,
\* each added up once, but of those that are gone: however many workers share
\* the walk, whichever calls stall, are written off or refused, and whatever
\* the owner deletes meanwhile.
THEOREM WholeSizesAreExact == Spec => []WholeIsExact
<1>1. Init => IInv /\ WalkInv
  BY InitInv, InitWalk
<1>2. IInv /\ WalkInv /\ [Next]_vars => (IInv /\ WalkInv)'
  BY NextInv, NextWalk
<1>3. WalkInv => WholeIsExact
  BY DEF WalkInv, Returned, Sum, WholeIsExact
<1> QED
  BY <1>1, <1>2, <1>3, PTL DEF Spec
=============================================================================

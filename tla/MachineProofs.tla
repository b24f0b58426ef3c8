---------------------------- MODULE MachineProofs ----------------------------
(***************************************************************************)
(* What the aerials switch keeps, what an update installs, and what the    *)
(* headroom history keeps and its alerts tell, for any number of calls,    *)
(* picks, processes, releases and ticks.                                   *)
(*                                                                         *)
(* PicksKept and LoaderStopped are of one moment, but what makes them hold *)
(* is spread over a call, its root step and the record, whose writes come  *)
(* at different times.  The invariant says of each call what its stage and *)
(* its step's tell of one another (CallOK), of the lock that it has one    *)
(* holder, who knows the record (OneHolder), and of each pick that off may *)
(* delete or has deleted that it is safe: in what of the record outlasts   *)
(* its holder (Base), or overtaken.                                        *)
(*                                                                         *)
(* InstallsForward speaks of one step, the rename, and of a number read    *)
(* long before it.  The invariant carries that number there: a process     *)
(* whose binary nobody replaced still has under it the build it runs, and  *)
(* a process past ReadLatest holds a release newer than that build.        *)
(*                                                                         *)
(* HistoryKept is of the file alone, but a sample goes through a tick's    *)
(* memory and the .tmp when the file is rewritten: HistoryInv has what is  *)
(* due in all three.  CrossingsTold speaks of what ticks saw and said long *)
(* apart: TellInv keeps that each saw only what was appended, each sample  *)
(* known by its time, and that one process alone misses nothing.  Of the   *)
(* samples under a line, the first that it was not seen rearmed since is   *)
(* then one its tick could not have kept silent about.                     *)
(***************************************************************************)
EXTENDS Machine, FiniteSetTheorems, WellFoundedInduction, TLAPS

----------------------------------------------------------------------------
(* The aerials switch. *)

Records == [picks : SUBSET Pick, restored : BOOLEAN]
Exits == {A!Running, A!Done, A!Nothing, A!Lived, A!Unknown}
InLock == {"authorize", "record", "journal", "run", "wait", "judge", "put back", "mark"}
Stages == {"idle", "lock", "over"} \cup InLock
Calls == [kind : {"off", "on"}, terminal : BOOLEAN, at : Stages, before : SUBSET Pick,
          prev : Records, exit : Exits]
Steps == [at : {"none", "begun", "holding", "cleared", "ended"}, shell : BOOLEAN, exit : Exits]

\* A call, its root step, and whether it holds the lock.
CallOK(c, s, holds) ==
  /\ c \in Calls /\ s \in Steps
  /\ holds <=> c.at \in InLock
  /\ c.at \in {"idle", "lock", "authorize", "record", "journal", "run"} =>
       s.at = "none" /\ c.exit = A!Running
  /\ c.at = "wait" => s.at # "none" /\ c.exit = A!Running
  /\ c.at \in {"judge", "put back", "mark"} => c.exit # A!Running
  /\ c.at = "record" => c.kind = "off"
  /\ c.at = "put back" => c.kind = "off" /\ c.exit = A!Nothing
  /\ c.at = "mark" => c.kind # "off" /\ c.exit \in {A!Done, A!Unknown}
  /\ c.exit \in {A!Done, A!Nothing, A!Lived} =>
       (s.at = "ended" /\ s.exit = c.exit) \/ (s.at = "none" /\ c.exit = A!Nothing)
  /\ s.at = "cleared" => c.kind = "off"
  /\ s.exit = A!Lived => c.kind = "off"
  /\ s.at = "ended" <=> s.exit # A!Running

CallsOK == /\ op \in [Op -> Calls] /\ step \in [Op -> Steps]
           /\ \A o \in Op : CallOK(op[o], step[o], o \in lock)

\* The record as the call that holds the lock knows it.
Left(rec) == IF rec.restored THEN {} ELSE rec.picks
RecordOK(c, rec) ==
  /\ c.at = "record" => rec = c.prev
  /\ c.at \in {"journal", "run", "wait", "judge", "put back", "mark"} =>
       rec = IF c.kind = "off" THEN [picks |-> Left(c.prev) \cup c.before, restored |-> FALSE] ELSE c.prev
OneHolder ==
  /\ lock \subseteq Op /\ \A o, q \in lock : o = q
  /\ record \in Records /\ \A o \in lock : RecordOK(op[o], record)

PicksOK == db \subseteq catalogue /\ catalogue \subseteq Pick /\ owed \subseteq catalogue \ db

\* The picks in the record that an off which puts it back leaves there too.
Written == {"journal", "run", "wait", "judge", "put back"}
Base == {p \in A!Waiting : \A h \in lock : A!Off(h) /\ op[h].at \in Written => p \in Left(op[h].prev)}
\* A pick that the record keeps whatever comes, or that an on is done with
\* while the step of an off that its call left behind is still to come.
Safe(p) == p \in Base \/ \E o \in Op : A!Overtaken(o, p)
\* A root step that may have deleted, and one that may yet.
Cleared(s) == s.at = "cleared" \/ (s.at = "ended" /\ s.exit # A!Nothing)
Armed(s) == s.at \in {"begun", "holding"}

\* What is deleted is safe, or in the record of the off that deleted it and
\* has not reported; what a step left behind may yet delete is safe; and what
\* an on was to put in and that is still missing was deleted past it.
OwedSafe == \A p \in owed \cap Carryable :
  Safe(p) \/ \E h \in lock : A!Off(h) /\ p \in op[h].before /\ Cleared(step[h])
ArmedSafe == \A o \in Op : \A p \in Carryable : A!LeftBehind(o, p) /\ Armed(step[o]) => Safe(p)
PutInSafe == \A q \in lock :
  ~A!Off(q) /\ (op[q].at = "mark" \/ (step[q].at = "ended" /\ step[q].exit = A!Done)) =>
    \A p \in owed \cap op[q].prev.picks \cap Carryable : \E o \in Op : A!LeftBehind(o, p)

AerialsInv == /\ CallsOK /\ OneHolder /\ PicksOK
        /\ OwedSafe /\ ArmedSafe /\ PutInSafe /\ A!LoaderStopped

----------------------------------------------------------------------------
(* What a step of one call keeps. *)

\* A call whose root step runs has left the lock for good, not knowing what
\* becomes of it, or holds it past the record.
LEMMA ArmedCalls ==
  ASSUME AerialsInv, NEW o \in Op, step[o].at \in {"begun", "holding", "cleared"}
  PROVE  \/ o \in lock /\ op[o].at \in {"wait", "judge", "mark"}
         \/ o \notin lock /\ op[o].at = "over" /\ op[o].exit \in {A!Running, A!Unknown}
<1>1. CallOK(op[o], step[o], o \in lock)
  BY DEF AerialsInv, CallsOK
<1>2. op[o].at \in Stages /\ op[o].exit \in Exits
  BY <1>1 DEF CallOK, Calls
<1> QED
  BY <1>1, <1>2 DEF CallOK, Stages, InLock, Exits, A!Running, A!Done, A!Nothing, A!Lived, A!Unknown

\* The lock is held by one call, and let go or taken by one.
LockMoves(o) == \/ lock' \in {lock, lock \ {o}}
                \/ lock = {} /\ lock' = {o}

\* A step of a call, up to what it means for the record: its kind stays, and
\* so do the picks and the record it read, once it has.
LEMMA CallMoves ==
  ASSUME AerialsInv, NEW o \in Op, NEW c, NEW s,
         op[o].at # "over", UNCHANGED A!macVars,
         op' = [op EXCEPT ![o] = c], step' = [step EXCEPT ![o] = s],
         LockMoves(o), CallOK(c, s, o \in lock'), o \in lock /\ o \notin lock' => c.at = "over",
         c.kind = op[o].kind,
         op[o].exit # A!Running => c.exit = op[o].exit,
         op[o].at # "authorize" => c.prev = op[o].prev /\ c.before = op[o].before,
         s = step[o] \/ step[o].at \in {"none", "begun", "holding"} \/ (s.at = "ended" /\ s.exit = A!Unknown),
         record' \in Records, o \in lock' => RecordOK(c, record'), record' = record \/ o \in lock,
         \A p \in Base \cap Carryable : p \in owed \/ (\E x \in Op : A!LeftBehind(x, p)) => Safe(p)',
         c.at = "over" /\ c.kind = "off" /\ (Armed(s) \/ Cleared(s)) => c.before \subseteq Base',
         o \in lock' /\ c.kind # "off" /\ (c.at = "mark" \/ (s.at = "ended" /\ s.exit = A!Done)) =>
           \A p \in owed \cap c.prev.picks \cap Carryable : \E q \in Op : A!LeftBehind(q, p)
  PROVE  AerialsInv'
<1> USE DEF A!Off
<1>0. /\ op \in [Op -> Calls] /\ step \in [Op -> Steps] /\ c \in Calls /\ s \in Steps
      /\ CallOK(op[o], step[o], o \in lock) /\ \A q \in Op : CallOK(op[q], step[q], q \in lock)
  BY DEF AerialsInv, CallsOK, CallOK
<1>1. \A q \in Op : op'[q] = IF q = o THEN c ELSE op[q]
  BY <1>0
<1>2. \A q \in Op : step'[q] = IF q = o THEN s ELSE step[q]
  BY <1>0
<1>3. /\ lock \subseteq Op /\ lock' \subseteq Op /\ \A q \in Op \ {o} : q \in lock' <=> q \in lock
      /\ \A q, r \in lock' : q = r
  BY DEF AerialsInv, OneHolder, LockMoves
<1>4. CallsOK'
  <2>1. op' \in [Op -> Calls] /\ step' \in [Op -> Steps]
    BY <1>0
  <2>2. ASSUME NEW q \in Op PROVE CallOK(op'[q], step'[q], q \in lock')
    <3>1. CASE q = o
      <4>1. op'[q] = c /\ step'[q] = s
        BY <1>1, <1>2, <3>1
      <4> QED
        BY <3>1, <4>1
    <3>2. CASE q # o
      <4>1. op'[q] = op[q] /\ step'[q] = step[q] /\ (q \in lock' <=> q \in lock)
        BY <1>1, <1>2, <1>3, <3>2
      <4> QED
        BY <1>0, <4>1, ZenonT(30) DEF CallOK
    <3> QED
      BY <3>1, <3>2
  <2> QED
    BY <2>1, <2>2 DEF CallsOK
<1>5. OneHolder'
  <2>1. ASSUME NEW q \in lock', q # o PROVE RecordOK(op'[q], record')
    <3>1. q \in lock /\ o \notin lock
      BY <1>3, <2>1 DEF AerialsInv, OneHolder
    <3> QED
      BY <1>1, <1>3, <2>1, <3>1 DEF AerialsInv, OneHolder
  <2>2. \A q \in lock' : RecordOK(op'[q], record')
    BY <1>1, <1>3, <2>1
  <2> QED
    BY <1>3, <2>2 DEF OneHolder
<1>6. PicksOK'
  BY DEF AerialsInv, PicksOK, A!macVars
<1>7. \A q \in Op : \A p : A!LeftBehind(q, p) => A!LeftBehind(q, p)'
  BY <1>1 DEF A!LeftBehind
<1>8. \A q \in Op : \A p : A!Overtaken(q, p) => A!Overtaken(q, p)'
  <2> SUFFICES ASSUME NEW q \in Op, NEW p, A!Overtaken(q, p) PROVE A!Overtaken(q, p)'
    OBVIOUS
  <2>1. PICK r \in Op : ~A!Off(r) /\ p \in op[r].prev.picks /\ op[r].exit \in {A!Done, A!Unknown}
    BY DEF A!Overtaken
  <2>2. r = o => op[o].at # "authorize" /\ op[o].exit # A!Running
    BY <1>0, <2>1 DEF CallOK, A!Done, A!Unknown, A!Running
  <2>3. (~A!Off(r) /\ p \in op[r].prev.picks /\ op[r].exit \in {A!Done, A!Unknown})'
    BY <1>1, <2>1, <2>2
  <2> QED
    BY <1>7, <2>3 DEF A!Overtaken
<1>9. \A p \in Carryable : Safe(p) /\ (p \in owed \/ \E x \in Op : A!LeftBehind(x, p)) => Safe(p)'
  BY <1>8 DEF Safe
<1>10. OwedSafe'
  <2> SUFFICES ASSUME NEW p \in owed \cap Carryable
               PROVE  Safe(p)' \/ \E h \in lock' : (A!Off(h) /\ p \in op[h].before /\ Cleared(step[h]))'
    BY DEF OwedSafe, A!macVars
  <2>1. CASE Safe(p)
    BY <1>9, <2>1
  <2>2. ASSUME NEW h \in lock, A!Off(h), p \in op[h].before, Cleared(step[h]), h # o
        PROVE  h \in lock' /\ (A!Off(h) /\ p \in op[h].before /\ Cleared(step[h]))'
    BY <1>1, <1>2, <1>3, <2>2 DEF AerialsInv, OneHolder
  <2>3. ASSUME o \in lock, A!Off(o), p \in op[o].before, Cleared(step[o])
        PROVE  Safe(p)' \/ (o \in lock' /\ (A!Off(o) /\ p \in op[o].before /\ Cleared(step[o]))')
    <3>1. step[o].at # "none" /\ step[o].at \notin {"begun", "holding"}
      BY <2>3 DEF Cleared
    <3>2. op[o].at # "authorize"
      BY <1>0, <3>1 DEF CallOK
    <3>3. Cleared(s)
      BY <2>3, <3>1 DEF Cleared, A!Unknown, A!Nothing
    <3>4. CASE o \in lock'
      BY <1>1, <1>2, <2>3, <3>2, <3>3, <3>4
    <3>5. CASE o \notin lock'
      <4>1. c.before \subseteq Base'
        BY <2>3, <3>3, <3>5
      <4> QED
        BY <2>3, <3>2, <4>1 DEF Safe
    <3> QED
      BY <3>4, <3>5
  <2> QED
    BY <2>1, <2>2, <2>3 DEF AerialsInv, OwedSafe
<1>11. ArmedSafe'
  <2> SUFFICES ASSUME NEW q \in Op, NEW p \in Carryable, A!LeftBehind(q, p)', Armed(step'[q]) PROVE Safe(p)'
    BY DEF ArmedSafe
  <2>1. CASE q # o
    <3>1. A!LeftBehind(q, p) /\ Armed(step[q])
      BY <1>1, <1>2, <2>1 DEF A!LeftBehind
    <3> QED
      BY <1>9, <3>1 DEF AerialsInv, ArmedSafe
  <2>2. CASE q = o
    <3>1. c.at = "over" /\ c.kind = "off" /\ p \in c.before /\ Armed(s)
      BY <1>1, <1>2, <2>2 DEF A!LeftBehind
    <3> QED
      BY <3>1 DEF Safe
  <2> QED
    BY <2>1, <2>2
<1>12. PutInSafe'
  <2> SUFFICES ASSUME NEW q \in lock',
                      (~A!Off(q) /\ (op[q].at = "mark" \/ (step[q].at = "ended" /\ step[q].exit = A!Done)))',
                      NEW p \in owed \cap op'[q].prev.picks \cap Carryable
               PROVE  \E x \in Op : A!LeftBehind(x, p)'
    BY DEF PutInSafe, A!macVars
  <2>1. q \in Op
    BY <1>3
  <2>2. CASE q = o
    BY <1>1, <1>2, <1>7, <2>1, <2>2
  <2>3. CASE q # o
    <3>1. q \in lock /\ op'[q] = op[q] /\ step'[q] = step[q]
      BY <1>1, <1>2, <1>3, <2>1, <2>3
    <3>2. ~A!Off(q) /\ (op[q].at = "mark" \/ (step[q].at = "ended" /\ step[q].exit = A!Done))
      BY <3>1
    <3>3. \E x \in Op : A!LeftBehind(x, p)
      BY <3>1, <3>2 DEF AerialsInv, PutInSafe
    <3> QED
      BY <1>7, <3>3
  <2> QED
    BY <2>2, <2>3
<1>13. A!LoaderStopped'
  <2> SUFFICES ASSUME NEW p \in (loader.reads \ db) \cap catalogue
               PROVE  \E q \in Op : (/\ A!Off(q) /\ p \in op[q].before
                                     /\ step[q].at = "cleared" \/ step[q].exit \in {A!Lived, A!Unknown})'
    BY DEF A!LoaderStopped, A!macVars
  <2>1. PICK q \in Op : /\ A!Off(q) /\ p \in op[q].before
                        /\ step[q].at = "cleared" \/ step[q].exit \in {A!Lived, A!Unknown}
    BY DEF AerialsInv, A!LoaderStopped
  <2>2. CASE q # o
    BY <1>1, <1>2, <2>1, <2>2
  <2>3. CASE q = o
    <3>1. step[o].at \notin {"none", "begun", "holding"}
      BY <1>0, <2>1, <2>3 DEF CallOK, A!Lived, A!Unknown, A!Running
    <3>2. op[o].at # "authorize"
      BY <1>0, <3>1 DEF CallOK
    <3>3. s.at = "cleared" \/ s.exit \in {A!Lived, A!Unknown}
      BY <2>1, <2>3, <3>1
    <3> QED
      BY <1>1, <1>2, <2>1, <2>3, <3>2, <3>3
  <2> QED
    BY <2>2, <2>3
<1> QED
  BY <1>4, <1>5, <1>6, <1>10, <1>11, <1>12, <1>13 DEF AerialsInv

\* A step of a call that leaves the record keeps what is safe in it, unless
\* the call comes to count on the record only now.
LEMMA BaseKept ==
  ASSUME AerialsInv, NEW o \in Op, NEW c, op' = [op EXCEPT ![o] = c], record' = record,
         LockMoves(o),
         o \in lock' /\ c.kind = "off" /\ c.at \in Written =>
           o \in lock /\ op[o].kind = "off" /\ op[o].at \in Written /\ c.prev = op[o].prev
  PROVE  Base \subseteq Base'
<1>1. \A q \in Op : op'[q] = IF q = o THEN c ELSE op[q]
  BY DEF AerialsInv, CallsOK
<1>2. \A q \in lock' : q \in Op /\ (q # o => q \in lock)
  BY DEF AerialsInv, OneHolder, LockMoves
<1> SUFFICES ASSUME NEW p \in Base, NEW h \in lock', (A!Off(h) /\ op[h].at \in Written)'
             PROVE  p \in Left(op'[h].prev)
  BY DEF Base, A!Waiting
<1>3. CASE h = o
  BY <1>1, <1>2, <1>3 DEF Base, A!Off
<1>4. CASE h # o
  BY <1>1, <1>2, <1>4 DEF Base, A!Off
<1> QED
  BY <1>3, <1>4

\* Once the record is written, what an off may delete is in it.
LEMMA BeforeRecorded ==
  ASSUME AerialsInv, NEW o \in lock, A!Off(o), op[o].at \in Written \cup {"mark"}
  PROVE  op[o].before \subseteq A!Waiting
<1>1. RecordOK(op[o], record)
  BY DEF AerialsInv, OneHolder
<1>2. record = [picks |-> Left(op[o].prev) \cup op[o].before, restored |-> FALSE]
  BY <1>1 DEF RecordOK, Written, A!Off
<1> QED
  BY <1>2 DEF A!Waiting

\* A call that is off the record's two writes goes from stage to stage, and
\* leaves the lock or takes it.
LEMMA CallGoes ==
  ASSUME AerialsInv, NEW o \in Op, NEW at \in Stages, NEW exit \in Exits, NEW s,
         op[o].at # "over", UNCHANGED A!macVars, record' = record,
         op' = [op EXCEPT ![o].at = at, ![o].exit = exit], step' = [step EXCEPT ![o] = s],
         LockMoves(o), o \in lock /\ o \notin lock' => at = "over", at = "over" => s = step[o],
         CallOK([op[o] EXCEPT !.at = at, !.exit = exit], s, o \in lock'),
         op[o].exit # A!Running => exit = op[o].exit,
         s = step[o] \/ step[o].at \in {"none", "begun", "holding"} \/ (s.at = "ended" /\ s.exit = A!Unknown),
         s.at = "ended" /\ s.exit = A!Done => s = step[o],
         at # "record", at \in Written \cup {"mark"} => op[o].at \in Written,
         at = "mark" => exit = A!Done \/ op[o].prev.picks \cap Carryable \subseteq db
  PROVE  AerialsInv'
<1> DEFINE c == [op[o] EXCEPT !.at = at, !.exit = exit]
<1>1. op \in [Op -> Calls] /\ op[o] \in Calls /\ CallOK(op[o], step[o], o \in lock) /\ step[o] \in Steps
  BY DEF AerialsInv, CallsOK
<1>2. /\ c.at = at /\ c.exit = exit /\ c.kind = op[o].kind
      /\ c.prev = op[o].prev /\ c.before = op[o].before
  BY <1>1 DEF Calls
<1>3. op' = [op EXCEPT ![o] = c]
  BY <1>1 DEF Calls
<1>4. CallOK(c, s, o \in lock')
  OBVIOUS
<1> HIDE DEF c
<1>5. Base \subseteq Base'
  <2>1. o \in lock' /\ c.kind = "off" /\ c.at \in Written =>
           o \in lock /\ op[o].kind = "off" /\ op[o].at \in Written /\ c.prev = op[o].prev
    BY <1>1, <1>2 DEF CallOK, Written, InLock
  <2> QED
    BY <1>3, <2>1, BaseKept
<1>6. record' \in Records
  BY DEF AerialsInv, OneHolder
<1>7. o \in lock' => RecordOK(c, record')
  <2> SUFFICES ASSUME o \in lock', at \in Written \cup {"mark"} PROVE RecordOK(c, record')
    BY <1>2 DEF RecordOK, Written
  <2>1. op[o].at \in Written /\ o \in lock
    BY <1>1 DEF CallOK, Written, InLock
  <2>2. RecordOK(op[o], record)
    BY <2>1 DEF AerialsInv, OneHolder
  <2> QED
    BY <1>2, <2>1, <2>2 DEF RecordOK, Written
<1>8. ASSUME c.at = "over", c.kind = "off", Armed(s) \/ Cleared(s)
      PROVE  c.before \subseteq Base'
  <2>1. s = step[o] /\ s.at # "none" /\ A!Off(o)
    BY <1>2, <1>8 DEF Armed, Cleared, A!Off
  <2>2. op[o].at \in Written \cup {"mark"} /\ o \in lock
    BY <1>1, <2>1 DEF CallOK, Calls, Stages, InLock, Written
  <2>3. op[o].before \subseteq A!Waiting
    BY <2>1, <2>2, BeforeRecorded
  <2>4. o \notin lock'
    BY <1>2, <1>4, <1>8 DEF CallOK, InLock
  <2>5. lock' = {}
    BY <2>2, <2>4 DEF AerialsInv, OneHolder, LockMoves
  <2> QED
    BY <1>2, <2>3, <2>5 DEF Base, A!Waiting
<1>9. ASSUME o \in lock', c.kind # "off", c.at = "mark" \/ (s.at = "ended" /\ s.exit = A!Done),
             NEW p \in owed \cap c.prev.picks \cap Carryable
      PROVE  \E q \in Op : A!LeftBehind(q, p)
  <2>1. p \notin db /\ p \in op[o].prev.picks
    BY <1>2, <1>9 DEF AerialsInv, PicksOK
  <2>2. at = "mark" => exit = A!Done
    BY <1>9, <2>1
  <2>3. s.at = "ended" /\ s.exit = A!Done
    BY <1>2, <1>4, <1>9, <2>2 DEF CallOK, A!Done, A!Nothing
  <2>4. s = step[o] /\ o \in lock
    <3>1. s = step[o]
      BY <2>3
    <3>2. op[o].at \notin {"idle", "lock"}
      BY <1>1, <2>3, <3>1 DEF CallOK
    <3> QED
      BY <1>1, <3>1, <3>2 DEF CallOK, Calls, Stages
  <2> QED
    BY <1>2, <1>9, <2>1, <2>3, <2>4 DEF AerialsInv, PutInSafe, A!Off
<1>10. \A p \in Base : Safe(p)'
  BY <1>5 DEF Safe
<1> QED
  BY <1>1, <1>2, <1>3, <1>4, <1>6, <1>7, <1>8, <1>9, <1>10, CallMoves

\* A root step that still has a step to make.
Stepping(s) == s.at \in {"begun", "holding", "cleared"}

\* A step of the root step alone keeps the invariant when it deletes only what
\* is in its off's record.
LEMMA RootMoves ==
  ASSUME AerialsInv, NEW o \in Op, NEW s, Stepping(step[o]),
         UNCHANGED A!callVars, step' = [step EXCEPT ![o] = s], CallOK(op[o], s, o \in lock),
         Cleared(step[o]) => Cleared(s), Armed(s) => Armed(step[o]),
         PicksOK', A!LoaderStopped',
         owed' \subseteq owed \/ (A!Off(o) /\ owed' \subseteq owed \cup op[o].before /\ Cleared(s) /\ Armed(step[o])),
         ~A!Off(o) /\ s.exit = A!Done => owed' \cap op[o].prev.picks \cap Carryable = {}
  PROVE  AerialsInv'
<1>0. /\ op \in [Op -> Calls] /\ step \in [Op -> Steps] /\ s \in Steps
      /\ \A q \in Op : CallOK(op[q], step[q], q \in lock)
  BY DEF AerialsInv, CallsOK, CallOK
<1>1. op' = op /\ lock' = lock /\ record' = record
  BY DEF A!callVars
<1>2. \A q \in Op : step'[q] = IF q = o THEN s ELSE step[q]
  BY <1>0
<1>3. lock \subseteq Op
  BY DEF AerialsInv, OneHolder
<1>4. CallsOK'
  <2>1. step' \in [Op -> Steps]
    BY <1>0
  <2>2. ASSUME NEW q \in Op PROVE CallOK(op[q], step'[q], q \in lock)
    BY <1>0, <1>2
  <2> QED
    BY <1>0, <1>1, <2>1, <2>2 DEF CallsOK
<1>5. OneHolder'
  BY <1>1 DEF AerialsInv, OneHolder
<1>6. Base' = Base
  BY <1>1 DEF Base, A!Waiting, A!Off
<1>7. \A q \in Op : \A p : A!LeftBehind(q, p)' <=> A!LeftBehind(q, p)
  BY <1>1 DEF A!LeftBehind, A!Off
<1>8. \A q \in Op : \A p : A!Overtaken(q, p)' <=> A!Overtaken(q, p)
  BY <1>1, <1>7 DEF A!Overtaken, A!Off
<1>9. \A p : Safe(p)' <=> Safe(p)
  BY <1>6, <1>8 DEF Safe
<1>10. \A p \in owed' \ owed : o \in lock \/ A!LeftBehind(o, p)
  <2> SUFFICES ASSUME NEW p \in owed' \ owed, o \notin lock PROVE A!LeftBehind(o, p)
    OBVIOUS
  <2> QED
    BY ArmedCalls DEF A!LeftBehind, Stepping
<1>11. OwedSafe'
  <2> SUFFICES ASSUME NEW p \in owed' \cap Carryable
               PROVE  Safe(p) \/ \E h \in lock : A!Off(h) /\ p \in op[h].before /\ Cleared(step'[h])
    BY <1>1, <1>9 DEF OwedSafe, A!Off
  <2>1. CASE p \in owed
    <3>1. Safe(p) \/ \E h \in lock : A!Off(h) /\ p \in op[h].before /\ Cleared(step[h])
      BY <2>1 DEF AerialsInv, OwedSafe
    <3> QED
      BY <1>2, <1>3, <3>1
  <2>2. CASE p \notin owed
    <3>1. o \in lock \/ Safe(p)
      BY <1>10, <2>2 DEF AerialsInv, ArmedSafe
    <3> QED
      BY <1>2, <2>2, <3>1
  <2> QED
    BY <2>1, <2>2
<1>12. ArmedSafe'
  <2> SUFFICES ASSUME NEW q \in Op, NEW p \in Carryable, A!LeftBehind(q, p), Armed(step'[q]) PROVE Safe(p)
    BY <1>7, <1>9 DEF ArmedSafe
  <2> QED
    BY <1>2 DEF AerialsInv, ArmedSafe
<1>13. PutInSafe'
  <2> SUFFICES ASSUME NEW q \in lock, ~A!Off(q), op[q].at = "mark" \/ (step'[q].at = "ended" /\ step'[q].exit = A!Done),
                      NEW p \in owed' \cap op[q].prev.picks \cap Carryable
               PROVE  \E x \in Op : A!LeftBehind(x, p)
    BY <1>1, <1>7 DEF PutInSafe, A!Off
  <2>1. CASE p \notin owed
    <3>1. A!Off(o)
      BY <2>1
    <3>2. o \notin lock
      BY <3>1 DEF AerialsInv, OneHolder
    <3> QED
      BY <1>10, <2>1, <3>2
  <2>2. CASE p \in owed
    <3>1. op[q].at = "mark" \/ (step[q].at = "ended" /\ step[q].exit = A!Done)
      BY <1>2, <1>3
    <3> QED
      BY <2>2, <3>1 DEF AerialsInv, PutInSafe
  <2> QED
    BY <2>1, <2>2
<1> QED
  BY <1>4, <1>5, <1>11, <1>12, <1>13 DEF AerialsInv

\* A step of the owner, of macOS or of the downloader.
LEMMA WorldMoves ==
  ASSUME AerialsInv, UNCHANGED <<A!callVars, step>>, owed' \subseteq owed, PicksOK', A!LoaderStopped'
  PROVE  AerialsInv'
<1>1. op' = op /\ lock' = lock /\ record' = record /\ step' = step
  BY DEF A!callVars
<1>2. CallsOK' /\ OneHolder'
  BY <1>1 DEF AerialsInv, CallsOK, OneHolder
<1>3. Base' = Base
  BY <1>1 DEF Base, A!Waiting, A!Off
<1>4. \A q \in Op : \A p : A!LeftBehind(q, p)' <=> A!LeftBehind(q, p)
  BY <1>1 DEF A!LeftBehind, A!Off
<1>5. \A q \in Op : \A p : A!Overtaken(q, p)' <=> A!Overtaken(q, p)
  BY <1>1, <1>4 DEF A!Overtaken, A!Off
<1>6. \A p : Safe(p)' <=> Safe(p)
  BY <1>3, <1>5 DEF Safe
<1>7. OwedSafe'
  BY <1>1, <1>6 DEF AerialsInv, OwedSafe, A!Off
<1>8. ArmedSafe'
  BY <1>1, <1>4, <1>6 DEF AerialsInv, ArmedSafe
<1>9. PutInSafe'
  BY <1>1, <1>4 DEF AerialsInv, PutInSafe, A!Off
<1> QED
  BY <1>2, <1>7, <1>8, <1>9 DEF AerialsInv

\* No call has begun, and no pick is owed.
LEMMA AerialsInit ==
  ASSUME A!Init
  PROVE  AerialsInv
<1>1. PICK cast \in Casts :
        op = [o \in Op |-> [kind |-> cast.call[o][1], terminal |-> cast.call[o][2],
                            at |-> IF o \in cast.made THEN "idle" ELSE "over",
                            before |-> {}, prev |-> A!NoRecord, exit |-> A!Running]]
  BY DEF A!Init
<1>2. A!NoRecord \in Records
  BY DEF A!NoRecord, Records
<1>3. ASSUME NEW o \in Op PROVE op[o] \in Calls /\ op[o].at \in {"idle", "over"} /\ op[o].exit = A!Running
  <2>1. cast.call[o][1] \in {"off", "on"} /\ cast.call[o][2] \in BOOLEAN
    BY MachineAssumption
  <2> QED
    BY <1>1, <1>2, <2>1 DEF Calls, Stages, Exits
<1>4. step = [o \in Op |-> [at |-> "none", shell |-> TRUE, exit |-> A!Running]] /\ lock = {}
  BY DEF A!Init
<1>5. CallsOK
  <2>1. op \in [Op -> Calls]
    BY <1>1, <1>3
  <2>2. step \in [Op -> Steps] /\ \A o \in Op : step[o] \in Steps /\ step[o].at = "none" /\ step[o].exit = A!Running
    BY <1>4 DEF Steps, Exits
  <2>3. ASSUME NEW o \in Op PROVE CallOK(op[o], step[o], o \in lock)
    BY <1>3, <1>4, <2>2 DEF CallOK, InLock, A!Running, A!Done, A!Nothing, A!Lived, A!Unknown
  <2> QED
    BY <2>1, <2>2, <2>3 DEF CallsOK
<1>6. OneHolder
  BY <1>2, <1>4 DEF OneHolder, A!Init
<1>7. PicksOK
  BY DEF PicksOK, A!Init
<1>8. owed = {} /\ OwedSafe /\ PutInSafe
  BY DEF OwedSafe, PutInSafe, A!Init
<1>9. ArmedSafe
  BY <1>4 DEF ArmedSafe, Armed
<1>10. A!LoaderStopped
  BY DEF A!LoaderStopped, A!Init, A!Asleep, A!WorksFor
<1> QED
  BY <1>5, <1>6, <1>7, <1>8, <1>9, <1>10 DEF AerialsInv

\* A call that ends knows what it knew.
LEMMA Ended ==
  ASSUME NEW c, NEW s, NEW o, NEW before, NEW after, CallOK(c, s, o \in before), o \notin after,
         NEW d \in Calls, d.at = "over", d.exit = c.exit, d.kind = c.kind
  PROVE  CallOK(d, s, o \in after)
<1>1. "over" \notin InLock
  BY DEF InLock
<1>2. d.exit \in {A!Done, A!Nothing, A!Lived} => 
       (s.at = "ended" /\ s.exit = d.exit) \/ (s.at = "none" /\ d.exit = A!Nothing)
  BY DEF CallOK
<1>3. /\ s \in Steps /\ (s.at = "cleared" => d.kind = "off") /\ (s.exit = A!Lived => d.kind = "off")
      /\ (s.at = "ended" <=> s.exit # A!Running)
  BY DEF CallOK
<1> QED
  BY <1>1, <1>2, <1>3 DEF CallOK

\* A call in the lock, before its step, with it, and after it.
LEMMA InTheLock ==
  ASSUME NEW c \in Calls, NEW s \in Steps, NEW o, NEW holders, o \in holders,
         s.at = "cleared" => c.kind = "off", s.exit = A!Lived => c.kind = "off",
         s.at = "ended" <=> s.exit # A!Running,
         \/ /\ c.at \in {"authorize", "record", "journal", "run"} /\ s.at = "none" /\ c.exit = A!Running
            /\ c.at = "record" => c.kind = "off"
         \/ c.at = "wait" /\ s.at # "none" /\ c.exit = A!Running
         \/ /\ c.at \in {"judge", "put back", "mark"} /\ c.exit # A!Running
            /\ c.exit \in {A!Done, A!Nothing, A!Lived} =>
                 (s.at = "ended" /\ s.exit = c.exit) \/ (s.at = "none" /\ c.exit = A!Nothing)
            /\ c.at = "put back" => c.kind = "off" /\ c.exit = A!Nothing
            /\ c.at = "mark" => c.kind # "off" /\ c.exit \in {A!Done, A!Unknown}
  PROVE  CallOK(c, s, o \in holders)
<1>1. c.at \in InLock /\ A!Running \notin {A!Done, A!Nothing, A!Lived}
  BY DEF InLock, A!Running, A!Done, A!Nothing, A!Lived
<1> QED
  BY <1>1 DEF CallOK

\* Each step of a call keeps the invariant.
LEMMA CallInv ==
  ASSUME AerialsInv, NEW o \in Op
  PROVE  /\ A!Look(o) \/ A!TakeLock(o) \/ A!Refuse(o) \/ A!JournalStart(o) \/ A!StartStep(o) => AerialsInv'
         /\ A!StepReported(o) \/ A!Judge(o) \/ A!Stop(o) \/ A!Kill(o) => AerialsInv'
<1>0. /\ op \in [Op -> Calls] /\ step \in [Op -> Steps] /\ op[o] \in Calls /\ step[o] \in Steps
      /\ CallOK(op[o], step[o], o \in lock) /\ (o \in lock => lock = {o})
  BY DEF AerialsInv, CallsOK, OneHolder
<1> DEFINE G(at, exit) == [op[o] EXCEPT !.at = at, !.exit = exit]
<1>1. ASSUME NEW at \in Stages, NEW exit \in Exits
      PROVE  /\ G(at, exit) \in Calls /\ G(at, exit).at = at /\ G(at, exit).exit = exit
             /\ G(at, exit).kind = op[o].kind
  BY <1>0 DEF Calls
<1>2. ASSUME NEW at \in Stages, A!To(o, at) PROVE op' = [op EXCEPT ![o].at = at, ![o].exit = op[o].exit]
  BY <1>0, <1>2 DEF A!To, Calls
<1>3. ASSUME UNCHANGED step PROVE step' = [step EXCEPT ![o] = step[o]]
  BY <1>0, <1>3
<1>4. op[o].at \in Stages /\ op[o].exit \in Exits /\ step[o].exit \in Exits
  BY <1>0 DEF Calls, Steps
\* The call ends, its step as it was.
<1>5. ASSUME A!Over(o), op[o].at # "over", UNCHANGED <<record, step, A!macVars>> PROVE AerialsInv'
  <2>1. "over" \in Stages /\ "over" \notin InLock
    BY DEF Stages, InLock
  <2>2. o \notin lock'
    BY <1>5 DEF A!Over
  <2>3. CallOK(G("over", op[o].exit), step[o], o \in lock')
    <3> HIDE DEF G
    <3> QED
      BY <1>0, <1>1, <1>4, <2>1, <2>2, Ended
  <2> HIDE DEF G
  <2>4. op' = [op EXCEPT ![o].at = "over", ![o].exit = op[o].exit]
    BY <1>2, <1>5, <2>1 DEF A!Over
  <2>5. LockMoves(o)
    BY <1>5 DEF A!Over, LockMoves
  <2> QED
    BY <1>3, <1>4, <1>5, <2>1, <2>2, <2>3, <2>4, <2>5, CallGoes DEF G, Written
\* It goes on where it is.
<1>6. ASSUME NEW at \in Stages \ {"record", "over"}, NEW exit \in Exits,
             op' = [op EXCEPT ![o].at = at, ![o].exit = exit],
             UNCHANGED <<record, step, A!macVars>>, LockMoves(o), o \in lock => o \in lock',
             op[o].at # "over", CallOK(G(at, exit), step[o], o \in lock'),
             op[o].exit # A!Running => exit = op[o].exit,
             at \in Written \cup {"mark"} => op[o].at \in Written,
             at = "mark" => exit = A!Done \/ op[o].prev.picks \cap Carryable \subseteq db
      PROVE  AerialsInv'
  BY <1>3, <1>6, CallGoes
<1>7. ASSUME NEW at \in Stages \ {"record", "over"}, NEW exit \in Exits, NEW s \in Steps,
             op' = [op EXCEPT ![o].at = at, ![o].exit = exit], step' = [step EXCEPT ![o] = s],
             UNCHANGED <<record, lock, A!macVars>>,
             op[o].at # "over", CallOK(G(at, exit), s, o \in lock),
             op[o].exit # A!Running => exit = op[o].exit,
             step[o].at \in {"none", "begun", "holding"} \/ (s.at = "ended" /\ s.exit = A!Unknown),
             ~(s.at = "ended" /\ s.exit = A!Done),
             at \in Written, op[o].at \in Written
      PROVE  AerialsInv'
  <2>1. LockMoves(o) /\ lock' = lock
    BY <1>7 DEF LockMoves
  <2>2. at # "mark"
    BY <1>7 DEF Written
  <2> QED
    BY <1>7, <2>1, <2>2, CallGoes
<1> HIDE DEF G
<1>8. ASSUME A!Look(o) PROVE AerialsInv'
  <2>1. PICK at \in {"lock", "over"} : A!To(o, at)
    BY <1>8 DEF A!Look
  <2>2. op[o].at = "idle" /\ op[o].exit = A!Running /\ o \notin lock /\ lock' = lock
    BY <1>0, <1>8 DEF CallOK, A!Look, InLock
  <2>3. CASE at = "over"
    <3>1. A!Over(o)
      BY <2>1, <2>2, <2>3 DEF A!Over
    <3> QED
      BY <1>5, <1>8, <2>2, <3>1 DEF A!Look
  <2>4. CASE at = "lock"
    <3>1. at \in Stages \ {"record", "over"} /\ at \notin Written \cup {"mark"} /\ at \notin InLock
      BY <2>4 DEF Stages, Written, InLock
    <3>2. CallOK(G(at, op[o].exit), step[o], o \in lock')
      <4>1. PICK c \in Calls : /\ c = G(at, op[o].exit) /\ c.at = at
                               /\ c.exit = op[o].exit /\ c.kind = op[o].kind
        BY <1>1, <1>4, <3>1
      <4>2. o \notin lock' /\ step[o].at = "none" /\ c.exit = A!Running
        BY <1>0, <2>2, <4>1 DEF CallOK
      <4>3. c.at \notin InLock /\ A!Running \notin {A!Done, A!Nothing, A!Lived}
        BY <3>1, <4>1 DEF A!Running, A!Done, A!Nothing, A!Lived
      <4>4. CallOK(c, step[o], o \in lock')
        BY <1>0, <2>4, <4>1, <4>2, <4>3 DEF CallOK
      <4> QED
        BY <4>1, <4>4
    <3>3. op' = [op EXCEPT ![o].at = at, ![o].exit = op[o].exit]
      BY <1>2, <2>1, <3>1
    <3>4. LockMoves(o)
      BY <2>2 DEF LockMoves
    <3> QED
      BY <1>4, <1>6, <1>8, <2>2, <2>4, <3>1, <3>2, <3>3, <3>4 DEF A!Look
  <2> QED
    BY <2>3, <2>4
<1>9. ASSUME A!TakeLock(o) PROVE AerialsInv'
  <2>1. op[o].at = "lock" /\ op[o].exit = A!Running /\ o \notin lock
    BY <1>0, <1>9 DEF CallOK, A!TakeLock, InLock
  <2>2. CASE lock = {} /\ A!To(o, "authorize") /\ lock' = {o}
    <3>1. /\ "authorize" \in Stages \ {"record", "over"} /\ "authorize" \in InLock
          /\ "authorize" \notin Written \cup {"mark"}
      BY DEF Stages, Written, InLock
    <3>2. CallOK(G("authorize", op[o].exit), step[o], o \in lock')
      <4>1. PICK c \in Calls : /\ c = G("authorize", op[o].exit) /\ c.at = "authorize"
                               /\ c.exit = op[o].exit /\ c.kind = op[o].kind
        BY <1>1, <1>4, <3>1
      <4>2. o \in lock' /\ step[o].at = "none"
        BY <1>0, <2>1, <2>2, <1>9 DEF CallOK
      <4> QED
        BY <1>0, <2>1, <4>1, <4>2, InTheLock DEF CallOK
    <3>3. op' = [op EXCEPT ![o].at = "authorize", ![o].exit = op[o].exit]
      BY <1>2, <2>2, <3>1
    <3>4. LockMoves(o)
      BY <2>2 DEF LockMoves
    <3> QED
      BY <1>4, <1>6, <1>9, <2>1, <2>2, <3>1, <3>2, <3>3, <3>4 DEF A!TakeLock
  <2>3. CASE A!To(o, "over") /\ UNCHANGED lock
    <3>1. A!Over(o)
      BY <2>1, <2>3 DEF A!Over
    <3> QED
      BY <1>5, <1>9, <2>1, <3>1 DEF A!TakeLock
  <2> QED
    BY <1>9, <2>2, <2>3 DEF A!TakeLock
<1>10. ASSUME A!Refuse(o) PROVE AerialsInv'
  BY <1>5, <1>10 DEF A!Refuse
<1>11. ASSUME A!Kill(o) PROVE AerialsInv'
  BY <1>5, <1>11 DEF A!Kill
\* What a step's end with nothing to tell is, and an exit read from it.
<1>12. ASSUME NEW at \in {"run", "wait", "judge", "put back", "mark"}
       PROVE  at \in Stages \ {"record", "over"} /\ (at # "mark" => at \in Written)
  BY DEF Stages, InLock, Written
<1>13. ASSUME op[o].at \in Written PROVE o \in lock /\ op[o].at # "over"
  BY <1>0, <1>13 DEF CallOK, Written, InLock
<1>14. A!Running \in Exits /\ A!Nothing \in Exits /\ A!Unknown \in Exits /\ A!Done \in Exits /\ A!Lived \in Exits
  BY DEF Exits
<1>15. /\ A!Running # A!Nothing /\ A!Running # A!Unknown /\ A!Nothing # A!Done
       /\ A!Unknown \notin {A!Done, A!Nothing, A!Lived}
  BY DEF A!Running, A!Nothing, A!Unknown, A!Done, A!Lived
\* From one stage in the lock to the next, the step as it was.
<1>16. ASSUME NEW at \in {"run", "judge", "put back", "mark"}, NEW exit \in Exits,
              op' = [op EXCEPT ![o].at = at, ![o].exit = exit],
              UNCHANGED <<record, lock, step, A!macVars>>, op[o].at \in Written,
              op[o].exit # A!Running => exit = op[o].exit,
              \/ at = "run" /\ step[o].at = "none" /\ exit = A!Running
              \/ /\ at # "run" /\ exit # A!Running
                 /\ exit \in {A!Done, A!Nothing, A!Lived} =>
                      (step[o].at = "ended" /\ step[o].exit = exit) \/ (step[o].at = "none" /\ exit = A!Nothing)
                 /\ at = "put back" => A!Off(o) /\ exit = A!Nothing
                 /\ at = "mark" => ~A!Off(o) /\ exit \in {A!Done, A!Unknown},
              at = "mark" => exit = A!Done \/ op[o].prev.picks \cap Carryable \subseteq db
       PROVE  AerialsInv'
  <2>1. o \in lock /\ lock' = lock /\ LockMoves(o)
    BY <1>13, <1>16 DEF LockMoves
  <2>2. CallOK(G(at, exit), step[o], o \in lock')
    <3>0. at \in Stages
      BY <1>12, <1>16
    <3>1. PICK c \in Calls : c = G(at, exit) /\ c.at = at /\ c.exit = exit /\ c.kind = op[o].kind
      BY <1>1, <1>16, <3>0, ZenonT(30)
    <3>2. /\ step[o].at = "cleared" => c.kind = "off"
          /\ step[o].exit = A!Lived => c.kind = "off"
          /\ step[o].at = "ended" <=> step[o].exit # A!Running
      BY <1>0, <3>1 DEF CallOK
    <3> QED
      BY <1>0, <1>16, <2>1, <3>1, <3>2, InTheLock DEF A!Off
  <2> QED
    BY <1>6, <1>12, <1>13, <1>16, <2>1, <2>2
<1>17. ASSUME A!NothingDone(o), op[o].at \in {"journal", "run"}, UNCHANGED <<record, lock, A!macVars>>
       PROVE  AerialsInv'
  <2>1. op[o].at \in Written /\ step[o].at = "none" /\ op[o].exit = A!Running
    BY <1>0, <1>17 DEF CallOK, Written
  <2> QED
    BY <1>14, <1>15, <1>16, <1>17, <2>1 DEF A!NothingDone
<1>18. ASSUME A!JournalStart(o) PROVE AerialsInv'
  <2>1. CASE A!To(o, "run") /\ UNCHANGED step
    <3>1. op[o].at \in Written /\ step[o].at = "none" /\ op[o].exit = A!Running
      BY <1>0, <1>18 DEF CallOK, Written, A!JournalStart
    <3>2. op' = [op EXCEPT ![o].at = "run", ![o].exit = A!Running]
      BY <1>2, <1>12, <2>1, <3>1
    <3> QED
      BY <1>14, <1>16, <1>18, <2>1, <3>1, <3>2 DEF A!JournalStart
  <2>2. CASE A!NothingDone(o)
    BY <1>17, <1>18, <2>2 DEF A!JournalStart
  <2> QED
    BY <1>18, <2>1, <2>2 DEF A!JournalStart
<1>19. ASSUME A!StartStep(o) PROVE AerialsInv'
  <2>1. /\ op[o].at = "run" /\ op[o].at \in Written /\ op[o].exit = A!Running
        /\ step[o].at = "none" /\ step[o].exit = A!Running
    BY <1>0, <1>19 DEF CallOK, Written, A!StartStep
  <2>2. CASE A!To(o, "wait") /\ step' = [step EXCEPT ![o].at = "begun"]
    <3>1. op' = [op EXCEPT ![o].at = "wait", ![o].exit = A!Running]
      BY <1>2, <1>12, <2>1, <2>2
    <3>2. PICK s \in Steps : /\ step' = [step EXCEPT ![o] = s] /\ s.at = "begun" /\ s.exit = A!Running
      <4>1. [step[o] EXCEPT !.at = "begun"] \in Steps
        BY <1>0 DEF Steps
      <4>2. step' = [step EXCEPT ![o] = [step[o] EXCEPT !.at = "begun"]]
        BY <1>0, <2>2
      <4> QED
        BY <1>0, <2>1, <4>1, <4>2 DEF Steps
    <3>3. CallOK(G("wait", A!Running), s, o \in lock)
      <4>0. "wait" \in Stages
        BY <1>12
      <4>1. PICK c \in Calls : /\ c = G("wait", A!Running) /\ c.at = "wait"
                               /\ c.exit = A!Running /\ c.kind = op[o].kind
        BY <1>1, <1>14, <4>0
      <4>2. s.exit # A!Lived
        BY <3>2 DEF A!Running, A!Lived
      <4> QED
        BY <1>13, <2>1, <3>2, <4>1, <4>2, InTheLock
    <3> QED
      BY <1>7, <1>12, <1>13, <1>14, <1>19, <2>1, <3>1, <3>2, <3>3 DEF A!StartStep
  <2>3. CASE A!NothingDone(o)
    BY <1>17, <1>19, <2>3 DEF A!StartStep
  <2>4. CASE op' = [op EXCEPT ![o].at = "judge", ![o].exit = A!Unknown] /\ UNCHANGED step
    BY <1>14, <1>15, <1>16, <1>19, <2>1, <2>4 DEF A!StartStep
  <2> QED
    BY <1>19, <2>2, <2>3, <2>4 DEF A!StartStep
<1>20. ASSUME A!StepReported(o) PROVE AerialsInv'
  <2>1. op[o].at \in Written /\ op[o].exit = A!Running /\ step[o].at = "ended" /\ step[o].exit # A!Running
    BY <1>0, <1>20 DEF CallOK, Written, A!StepReported
  <2> QED
    BY <1>4, <1>16, <1>20, <2>1 DEF A!StepReported
<1>21. ASSUME A!Judge(o) PROVE AerialsInv'
  <2>1. /\ op[o].at \in Written /\ op[o].exit # A!Running
        /\ op[o].exit \in {A!Done, A!Nothing, A!Lived} =>
             (step[o].at = "ended" /\ step[o].exit = op[o].exit) \/ (step[o].at = "none" /\ op[o].exit = A!Nothing)
    BY <1>0, <1>21 DEF CallOK, Written, A!Judge
  <2>2. ASSUME A!Over(o) PROVE AerialsInv'
    BY <1>5, <1>13, <1>21, <2>1, <2>2 DEF A!Judge
  <2>3. ASSUME NEW at \in {"put back", "mark"}, A!To(o, at), UNCHANGED lock,
               at = "put back" => A!Off(o) /\ op[o].exit = A!Nothing,
               at = "mark" => ~A!Off(o) /\ (\/ op[o].exit = A!Done
                                            \/ op[o].exit # A!Nothing /\ op[o].prev.picks \cap Carryable \subseteq db)
        PROVE  AerialsInv'
    <3>1. op' = [op EXCEPT ![o].at = at, ![o].exit = op[o].exit]
      BY <1>2, <1>12, <2>3
    <3>2. at = "mark" => op[o].exit \in {A!Done, A!Unknown}
      <4>1. op[o].exit = A!Lived => step[o].at = "ended" /\ step[o].exit = A!Lived
        BY <2>1 DEF A!Lived, A!Nothing
      <4>2. op[o].exit = A!Lived => A!Off(o)
        BY <1>0, <4>1 DEF CallOK, A!Off
      <4> QED
        BY <1>4, <2>1, <2>3, <4>2, <1>15 DEF Exits
    <3> QED
      BY <1>4, <1>16, <1>21, <2>1, <2>3, <3>1, <3>2 DEF A!Judge
  <2>4. CASE A!Off(o)
    BY <1>21, <2>2, <2>3, <2>4 DEF A!Judge, A!ChangedNothing
  <2>5. CASE ~A!Off(o)
    <3>1. PICK read \in BOOLEAN :
            IF \/ op[o].exit = A!Done
               \/ /\ ~A!ChangedNothing(o) /\ read
                  /\ op[o].prev.picks \cap Carryable \subseteq db
            THEN A!To(o, "mark") /\ UNCHANGED lock
            ELSE A!Over(o)
      BY <1>21, <2>5 DEF A!Judge
    <3>2. CASE A!Over(o)
      BY <2>2, <3>2
    <3>3. CASE ~A!Over(o)
      <4>1. A!To(o, "mark") /\ UNCHANGED lock
        BY <3>1, <3>3
      <4>2. op[o].exit = A!Done \/ (op[o].exit # A!Nothing /\ op[o].prev.picks \cap Carryable \subseteq db)
        BY <3>1, <3>3 DEF A!ChangedNothing
      <4>3. "mark" # "put back"
        OBVIOUS
      <4> HIDE DEF A!To
      <4> QED
        BY <2>3, <2>5, <4>1, <4>2, <4>3
    <3> QED
      BY <3>2, <3>3
  <2> QED
    BY <2>4, <2>5
<1>22. ASSUME A!Stop(o) PROVE AerialsInv'
  <2>1. /\ op[o].at = "wait" /\ op[o].at \in Written /\ op[o].exit = A!Running
        /\ step[o].at \notin {"none", "ended"} /\ step[o].exit = A!Running
    BY <1>0, <1>22 DEF CallOK, Written, A!Stop
  <2>2. CASE op' = [op EXCEPT ![o].at = "judge", ![o].exit = A!Unknown] /\ UNCHANGED step
    BY <1>14, <1>15, <1>16, <1>22, <2>1, <2>2 DEF A!Stop
  <2>3. ASSUME NEW exit \in {A!Nothing, A!Unknown}, A!Ends(o, exit), UNCHANGED op,
               step[o].at = "begun" \/ exit = A!Unknown
        PROVE  AerialsInv'
    <3>1. op' = [op EXCEPT ![o].at = "wait", ![o].exit = A!Running]
      BY <1>0, <2>1, <2>3 DEF Calls
    <3> DEFINE t == [step[o] EXCEPT !.at = "ended", !.exit = IF step[o].shell THEN exit ELSE A!Unknown]
    <3>2. t \in Steps /\ step' = [step EXCEPT ![o] = t] /\ t.at = "ended" /\ t.exit \in {exit, A!Unknown}
      BY <1>0, <1>14, <2>3 DEF Steps, A!Ends
    <3> HIDE DEF t
    <3>3. CallOK(G("wait", A!Running), t, o \in lock)
      <4>0. "wait" \in Stages
        BY <1>12
      <4>1. PICK c \in Calls : /\ c = G("wait", A!Running) /\ c.at = "wait"
                               /\ c.exit = A!Running /\ c.kind = op[o].kind
        BY <1>1, <1>14, <4>0
      <4>2. t.exit # A!Lived /\ t.exit # A!Running
        BY <2>3, <3>2 DEF A!Running, A!Lived, A!Nothing, A!Unknown
      <4> QED
        BY <1>13, <2>1, <3>2, <4>1, <4>2, InTheLock
    <3>4. t.exit # A!Done /\ (step[o].at \in {"begun"} \/ t.exit = A!Unknown)
      BY <1>15, <2>3, <3>2
    <3>5. UNCHANGED <<record, lock, A!macVars>>
      BY <1>22 DEF A!Stop
    <3> QED
      BY <1>7, <1>12, <1>13, <1>14, <2>1, <3>1, <3>2, <3>3, <3>4, <3>5
  <2>4. CASE /\ step[o].at = "holding"
             /\ op' = [op EXCEPT ![o].at = "judge", ![o].exit = A!Unknown]
             /\ step' = [step EXCEPT ![o].shell = FALSE]
    <3> DEFINE t == [step[o] EXCEPT !.shell = FALSE]
    <3>1. t \in Steps /\ step' = [step EXCEPT ![o] = t] /\ t.at = "holding" /\ t.exit = A!Running
      BY <1>0, <2>1, <2>4 DEF Steps
    <3> HIDE DEF t
    <3>2. CallOK(G("judge", A!Unknown), t, o \in lock)
      <4>0. "judge" \in Stages
        BY <1>12
      <4>1. PICK c \in Calls : /\ c = G("judge", A!Unknown) /\ c.at = "judge"
                               /\ c.exit = A!Unknown /\ c.kind = op[o].kind
        BY <1>1, <1>14, <4>0
      <4>2. t.exit # A!Lived
        BY <3>1 DEF A!Running, A!Lived
      <4> QED
        BY <1>13, <1>15, <2>1, <3>1, <4>1, <4>2, InTheLock
    <3>3. UNCHANGED <<record, lock, A!macVars>>
      BY <1>22 DEF A!Stop
    <3> QED
      BY <1>7, <1>12, <1>13, <1>14, <2>1, <2>4, <3>1, <3>2, <3>3
  <2> QED
    BY <1>22, <2>2, <2>3, <2>4 DEF A!Stop
<1> QED
  BY <1>8, <1>9, <1>10, <1>11, <1>18, <1>19, <1>20, <1>21, <1>22

\* Reading the record, and writing it: before the step, back after it, and
\* what is done with it.
LEMMA RecordInv ==
  ASSUME AerialsInv, NEW o \in Op, A!ReadAgain(o) \/ A!WriteRecord(o) \/ A!PutBack(o) \/ A!Mark(o)
  PROVE  AerialsInv'
<1>0. /\ op \in [Op -> Calls] /\ step \in [Op -> Steps] /\ op[o] \in Calls /\ step[o] \in Steps
      /\ CallOK(op[o], step[o], o \in lock)
  BY DEF AerialsInv, CallsOK
<1>1. op[o].at # "over" /\ o \in lock /\ lock = {o}
  BY <1>0 DEF CallOK, InLock, A!ReadAgain, A!WriteRecord, A!PutBack, A!Mark, AerialsInv, OneHolder
<1>2. RecordOK(op[o], record) /\ record \in Records /\ op[o].prev \in Records
  BY <1>0, <1>1 DEF AerialsInv, OneHolder, Calls
<1>3. step' = [step EXCEPT ![o] = step[o]] /\ UNCHANGED A!macVars
  BY <1>0 DEF A!ReadAgain, A!WriteRecord, A!PutBack, A!Mark
<1>4. ASSUME NEW p \in Base PROVE p \in A!Waiting
  BY <1>4 DEF Base
\* It gives the lock up with the record as it was, or as it may be then.
<1>5. ASSUME A!Over(o), record' \in Records,
             Armed(step[o]) \/ Cleared(step[o]) => ~A!Off(o),
             \A p \in Base \cap Carryable : p \in owed \/ (\E x \in Op : A!LeftBehind(x, p)) => Safe(p)'
      PROVE  AerialsInv'
  <2> DEFINE c == [op[o] EXCEPT !.at = "over"]
  <2>1. c \in Calls /\ op' = [op EXCEPT ![o] = c] /\ c.at = "over" /\ c.exit = op[o].exit
    BY <1>0, <1>5 DEF A!Over, A!To, Calls, Stages
  <2>2. c.kind = op[o].kind /\ c.prev = op[o].prev /\ c.before = op[o].before
    BY <1>0 DEF Calls
  <2>3. o \notin lock' /\ LockMoves(o)
    BY <1>5 DEF A!Over, LockMoves
  <2> HIDE DEF c
  <2>4. CallOK(c, step[o], o \in lock')
    BY <1>0, <2>1, <2>2, <2>3, Ended
  <2>5. ~(c.at = "over" /\ c.kind = "off" /\ (Armed(step[o]) \/ Cleared(step[o])))
    BY <1>5, <2>2 DEF A!Off
  <2> QED
    BY <1>1, <1>3, <1>5, <2>1, <2>2, <2>3, <2>4, <2>5, CallMoves
<1>6. ASSUME NEW c \in Calls, op' = [op EXCEPT ![o] = c], c.at \in {"record", "journal"},
             c.kind = op[o].kind, c.exit = op[o].exit, op[o].at \in {"authorize", "record"},
             c.at = "record" => c.kind = "off",
             op[o].at # "authorize" => c.prev = op[o].prev /\ c.before = op[o].before,
             record' \in Records, RecordOK(c, record'), UNCHANGED lock, Base \subseteq Base'
      PROVE  AerialsInv'
  <2>1. step[o].at = "none" /\ op[o].exit = A!Running /\ step[o].exit = A!Running
    BY <1>0, <1>6 DEF CallOK
  <2>2. CallOK(c, step[o], o \in lock')
    <3>1. A!Running # A!Lived
      BY DEF A!Running, A!Lived
    <3> QED
      BY <1>0, <1>1, <1>6, <2>1, <3>1, InTheLock
  <2>3. \A p \in Base : Safe(p)'
    BY <1>6 DEF Safe
  <2>4. c.at \notin {"over", "mark"} /\ ~(step[o].at = "ended")
    BY <1>6, <2>1
  <2> QED
    BY <1>1, <1>3, <1>6, <2>1, <2>2, <2>3, <2>4, CallMoves DEF LockMoves
<1>7. ASSUME A!ReadAgain(o) PROVE AerialsInv'
  <2>1. op[o].at = "authorize" /\ step[o].at = "none"
    BY <1>0, <1>7 DEF CallOK, A!ReadAgain
  <2>2. CASE A!Over(o)
    <3>1. ~Armed(step[o]) /\ ~Cleared(step[o])
      BY <2>1 DEF Armed, Cleared
    <3>2. record' = record /\ lock' = {}
      BY <1>1, <1>7, <2>2 DEF A!ReadAgain, A!Over
    <3>3. \A p \in Base : Safe(p)'
      BY <1>4, <3>2 DEF Safe, Base, A!Waiting
    <3> QED
      BY <1>2, <1>5, <2>2, <3>1, <3>2, <3>3
  <2>3. CASE /\ op' = [op EXCEPT ![o].at = IF A!Off(o) THEN "record" ELSE "journal",
                                 ![o].before = db, ![o].prev = record]
             /\ UNCHANGED lock
    <3> DEFINE at == IF A!Off(o) THEN "record" ELSE "journal"
               c == [op[o] EXCEPT !.at = at, !.before = db, !.prev = record]
    <3>0. db \in SUBSET Pick /\ at \in Stages
      BY DEF AerialsInv, PicksOK, Stages, InLock
    <3>1. c \in Calls /\ op' = [op EXCEPT ![o] = c]
      BY <1>0, <1>2, <2>3, <3>0 DEF Calls
    <3>2. c.at = at /\ c.exit = op[o].exit /\ c.kind = op[o].kind /\ c.prev = record
      BY <1>0 DEF Calls
    <3>3. /\ c.at \in {"record", "journal"} /\ (c.at = "record" <=> c.kind = "off")
      BY <3>2 DEF A!Off
    <3> HIDE DEF c
    <3>4. record' = record /\ lock' = lock
      BY <1>7, <2>3 DEF A!ReadAgain
    <3>5. RecordOK(c, record')
      BY <3>2, <3>3, <3>4 DEF RecordOK
    <3>6. Base \subseteq Base'
      <4>1. o \in lock' /\ c.kind = "off" /\ c.at \in Written =>
              o \in lock /\ op[o].kind = "off" /\ op[o].at \in Written /\ c.prev = op[o].prev
        BY <3>3 DEF Written
      <4> QED
        BY <3>1, <3>4, <4>1, BaseKept DEF LockMoves
    <3> QED
      BY <1>2, <1>6, <2>1, <3>1, <3>2, <3>3, <3>4, <3>5, <3>6
  <2> QED
    BY <1>7, <2>2, <2>3 DEF A!ReadAgain
<1>8. ASSUME A!WriteRecord(o) PROVE AerialsInv'
  <2>1. op[o].at = "record" /\ step[o].at = "none" /\ A!Off(o) /\ record = op[o].prev
    BY <1>0, <1>2, <1>8 DEF CallOK, A!WriteRecord, RecordOK, A!Off
  <2>2. CASE A!Over(o) /\ UNCHANGED record
    <3>1. ~Armed(step[o]) /\ ~Cleared(step[o])
      BY <2>1 DEF Armed, Cleared
    <3>2. lock' = {}
      BY <1>1, <2>2 DEF A!Over
    <3>3. \A p \in Base : Safe(p)'
      BY <1>4, <2>2, <3>2 DEF Safe, Base, A!Waiting
    <3> QED
      BY <1>2, <1>5, <2>2, <3>1, <3>3
  <2>3. CASE /\ record' = [picks |-> A!Waiting \cup op[o].before, restored |-> FALSE]
             /\ A!To(o, "journal") /\ UNCHANGED lock
    <3> DEFINE c == [op[o] EXCEPT !.at = "journal"]
    <3>1. c \in Calls /\ op' = [op EXCEPT ![o] = c]
      BY <1>0, <2>3 DEF Calls, A!To, Stages, InLock
    <3>2. /\ c.at = "journal" /\ c.exit = op[o].exit /\ c.kind = op[o].kind
          /\ c.prev = op[o].prev /\ c.before = op[o].before
      BY <1>0 DEF Calls
    <3> HIDE DEF c
    <3>3. op[o].before \in SUBSET Pick /\ A!Waiting \in SUBSET Pick
      BY <1>0, <1>2 DEF Calls, Records, A!Waiting
    <3>4. record' \in Records
      BY <2>3, <3>3 DEF Records
    <3>5. A!Waiting = Left(c.prev)
      BY <2>1, <3>2 DEF A!Waiting, Left
    <3>6. RecordOK(c, record')
      BY <2>1, <2>3, <3>2, <3>5 DEF RecordOK, A!Off
    <3>7. Base \subseteq Base'
      <4>1. A!Waiting' = A!Waiting \cup op[o].before
        BY <2>3 DEF A!Waiting
      <4>2. op'[o] = c /\ lock' = {o}
        BY <1>0, <1>1, <2>3, <3>1
      <4> QED
        BY <1>4, <3>5, <4>1, <4>2 DEF Base
    <3>8. c.at \in {"record", "journal"} /\ c.at # "record"
      BY <3>2
    <3> QED
      BY <1>6, <2>1, <2>3, <3>1, <3>2, <3>4, <3>6, <3>7, <3>8
  <2> QED
    BY <1>8, <2>2, <2>3 DEF A!WriteRecord
<1>9. ASSUME A!PutBack(o) PROVE AerialsInv'
  <2>1. op[o].at = "put back" /\ op[o].exit = A!Nothing /\ A!Off(o)
    BY <1>0, <1>9 DEF CallOK, A!PutBack, A!Off
  <2>2. ~Armed(step[o]) /\ ~Cleared(step[o])
    BY <1>0, <2>1 DEF CallOK, Armed, Cleared, A!Nothing, A!Done, A!Lived
  <2>3. A!Over(o) /\ lock' = {} /\ record' \in {op[o].prev, record}
    BY <1>1, <1>9 DEF A!PutBack, A!Over
  <2>4. \A p \in Base : p \in Left(op[o].prev)
    BY <1>1, <2>1 DEF Base, Written
  <2>5. \A p \in Base : p \in A!Waiting'
    BY <1>4, <2>3, <2>4 DEF A!Waiting, Left
  <2>6. \A p \in Base : Safe(p)'
    BY <2>3, <2>5 DEF Safe, Base
  <2> QED
    BY <1>2, <1>5, <2>2, <2>3, <2>6
<1>10. ASSUME A!Mark(o) PROVE AerialsInv'
  <2>1. op[o].at = "mark" /\ op[o].exit \in {A!Done, A!Unknown} /\ ~A!Off(o) /\ record = op[o].prev
    BY <1>0, <1>2, <1>10 DEF CallOK, A!Mark, A!Off, RecordOK
  <2>2. A!Over(o) /\ lock' = {} /\ record' \in {[op[o].prev EXCEPT !.restored = TRUE], record}
    BY <1>1, <1>10 DEF A!Mark, A!Over
  <2>3. record' \in Records
    BY <1>2, <2>2 DEF Records
  <2>4. \A q \in Op : /\ op'[q].kind = op[q].kind /\ op'[q].prev = op[q].prev /\ op'[q].exit = op[q].exit
                      /\ op'[q].before = op[q].before /\ (q # o => op'[q].at = op[q].at)
    BY <1>0, <2>2 DEF A!Over, A!To, Calls
  <2>5. ASSUME NEW p \in Base \cap Carryable, p \in owed \/ (\E x \in Op : A!LeftBehind(x, p))
        PROVE  Safe(p)'
    <3>1. p \in op[o].prev.picks
      BY <1>4, <2>1, <2>5 DEF A!Waiting
    <3>2. PICK x \in Op : A!LeftBehind(x, p)
      BY <1>1, <2>1, <2>5, <3>1 DEF AerialsInv, PutInSafe
    <3>3. A!LeftBehind(x, p)'
      BY <2>1, <2>4, <3>2 DEF A!LeftBehind, A!Off
    <3>4. (~A!Off(o) /\ p \in op[o].prev.picks /\ op[o].exit \in {A!Done, A!Unknown})'
      BY <2>1, <2>4, <3>1 DEF A!Off
    <3> QED
      BY <3>3, <3>4 DEF Safe, A!Overtaken
  <2> QED
    BY <1>5, <2>1, <2>2, <2>3, <2>5
<1> QED
  BY <1>7, <1>8, <1>9, <1>10

\* A root step that answers for what the downloader still does.
Excused(s) == s.at = "cleared" \/ s.exit \in {A!Lived, A!Unknown}

\* After a step of the root step, what the downloader reads is answered for as
\* before, or by this step.
LEMMA LoaderKept ==
  ASSUME AerialsInv, NEW o \in Op, NEW s, UNCHANGED A!callVars, step' = [step EXCEPT ![o] = s],
         Excused(step[o]) => Excused(s) \/ loader'.reads = {},
         \A p \in (loader'.reads \ db') \cap catalogue' :
           p \in (loader.reads \ db) \cap catalogue \/ (A!Off(o) /\ p \in op[o].before /\ Excused(s))
  PROVE  A!LoaderStopped'
<1>1. op' = op /\ \A q \in Op : step'[q] = IF q = o THEN s ELSE step[q]
  BY DEF AerialsInv, CallsOK, A!callVars
<1> SUFFICES ASSUME NEW p \in (loader'.reads \ db') \cap catalogue'
             PROVE  \E q \in Op : A!Off(q) /\ p \in op[q].before /\ Excused(step'[q])
  BY <1>1 DEF A!LoaderStopped, A!Off, Excused
<1>2. CASE A!Off(o) /\ p \in op[o].before /\ Excused(s)
  BY <1>1, <1>2
<1>3. CASE p \in (loader.reads \ db) \cap catalogue
  <2>1. PICK q \in Op : A!Off(q) /\ p \in op[q].before /\ Excused(step[q])
    BY <1>3 DEF AerialsInv, A!LoaderStopped, Excused
  <2> QED
    BY <1>1, <2>1
<1> QED
  BY <1>2, <1>3

\* Each of the root step's own steps keeps the invariant.
LEMMA RootInv ==
  ASSUME AerialsInv, NEW o \in Op,
         A!TakeRootLock(o) \/ A!Clear(o) \/ A!StopLoader(o) \/ A!PutIn(o) \/ A!RollBack(o)
  PROVE  AerialsInv'
<1>0. /\ op \in [Op -> Calls] /\ step \in [Op -> Steps] /\ op[o] \in Calls /\ step[o] \in Steps
      /\ CallOK(op[o], step[o], o \in lock)
  BY DEF AerialsInv, CallsOK
<1>1. step[o].at \in {"begun", "holding", "cleared"} /\ UNCHANGED A!callVars
  BY DEF A!TakeRootLock, A!Clear, A!StopLoader, A!PutIn, A!RollBack
<1>1a. Stepping(step[o])
  BY <1>1 DEF Stepping
<1>2. step[o].exit = A!Running
  BY <1>0, <1>1 DEF CallOK
\* A step that ends does so with what it says, or unheard.
<1>3. ASSUME NEW exit \in Exits \ {A!Running}, A!Ends(o, exit), exit = A!Lived => A!Off(o)
      PROVE  \E s \in Steps : /\ step' = [step EXCEPT ![o] = s] /\ CallOK(op[o], s, o \in lock)
                              /\ s.at = "ended" /\ s.exit \in {exit, A!Unknown}
                              /\ step[o].shell => s.exit = exit
                              /\ step'[o] = s
  <2> DEFINE s == [step[o] EXCEPT !.at = "ended", !.exit = IF step[o].shell THEN exit ELSE A!Unknown]
  <2>1. s \in Steps /\ s.at = "ended" /\ s.exit \in {exit, A!Unknown} /\ (step[o].shell => s.exit = exit)
    BY <1>0 DEF Steps, Exits
  <2>2. step' = [step EXCEPT ![o] = s] /\ step'[o] = s
    BY <1>0, <1>3 DEF A!Ends
  <2> HIDE DEF s
  <2>3. s.exit # A!Running /\ (s.exit = A!Lived => op[o].kind = "off")
    BY <1>3, <2>1 DEF A!Running, A!Unknown, A!Lived, A!Off
  <2>4. op[o].exit \notin {A!Done, A!Nothing, A!Lived}
    BY <1>0, <1>1, <1>2 DEF CallOK, A!Running, A!Done, A!Nothing, A!Lived
  <2>5. CallOK(op[o], s, o \in lock)
    BY <1>0, <1>1, <2>1, <2>3, <2>4 DEF CallOK
  <2> QED
    BY <2>1, <2>2, <2>5
<1>4. A!Nothing \in Exits \ {A!Running} /\ A!Unknown \in Exits \ {A!Running} /\ A!Done \in Exits \ {A!Running}
      /\ A!Lived \in Exits \ {A!Running} /\ A!Unknown # A!Nothing /\ A!Done # A!Nothing /\ A!Lived # A!Nothing
      /\ A!Nothing # A!Done /\ A!Unknown # A!Done /\ A!Lived # A!Done
  BY DEF Exits, A!Nothing, A!Unknown, A!Done, A!Lived, A!Running
<1>5. ASSUME step[o].at \in {"begun", "holding"}, A!Ends(o, A!Nothing), UNCHANGED A!macVars PROVE AerialsInv'
  <2>1. PICK s \in Steps : /\ step' = [step EXCEPT ![o] = s] /\ CallOK(op[o], s, o \in lock)
                           /\ s.at = "ended" /\ s.exit \in {A!Nothing, A!Unknown} /\ step'[o] = s
    BY <1>3, <1>4, <1>5
  <2>2. PicksOK' /\ owed' = owed
    BY <1>5 DEF AerialsInv, PicksOK, A!macVars
  <2>3. ~Excused(step[o])
    BY <1>2, <1>5 DEF Excused, A!Running, A!Lived, A!Unknown
  <2>4. A!LoaderStopped'
    BY <1>1, <1>5, <2>1, <2>3, LoaderKept DEF A!macVars
  <2>5. ~Cleared(step[o]) /\ ~Armed(s)
    BY <1>5, <2>1 DEF Cleared, Armed
  <2>6. s.exit # A!Done
    BY <1>4, <2>1
  <2>7. owed' \subseteq owed
    BY <2>2
  <2> QED
    BY <1>1, <2>1, <2>2, <2>4, <2>5, <2>6, <2>7, <1>1a, RootMoves
<1>6. ASSUME A!TakeRootLock(o) PROVE AerialsInv'
  <2>1. CASE step' = [step EXCEPT ![o].at = "holding"]
    <3> DEFINE s == [step[o] EXCEPT !.at = "holding"]
    <3>1. s \in Steps /\ step' = [step EXCEPT ![o] = s] /\ s.at = "holding" /\ s.exit = A!Running
      BY <1>0, <1>2, <2>1 DEF Steps
    <3> HIDE DEF s
    <3>2. step[o].at = "begun" /\ UNCHANGED A!macVars
      BY <1>6 DEF A!TakeRootLock
    <3>3. op[o].exit \notin {A!Done, A!Nothing, A!Lived}
      BY <1>0, <1>1, <1>2 DEF CallOK, A!Running, A!Done, A!Nothing, A!Lived
    <3>4. s.exit # A!Lived /\ s.exit # A!Done
      BY <3>1 DEF A!Running, A!Lived, A!Done
    <3>5. CallOK(op[o], s, o \in lock)
      BY <1>0, <3>1, <3>2, <3>3, <3>4 DEF CallOK
    <3>6. PicksOK' /\ owed' = owed
      BY <3>2 DEF AerialsInv, PicksOK, A!macVars
    <3>7. ~Excused(step[o])
      BY <1>2, <3>2 DEF Excused, A!Running, A!Lived, A!Unknown
    <3>8. A!LoaderStopped'
      BY <1>1, <3>1, <3>2, <3>7, LoaderKept DEF A!macVars
    <3>9. ~Cleared(step[o]) /\ Armed(step[o]) /\ owed' \subseteq owed
      BY <3>2, <3>6 DEF Cleared, Armed
    <3> QED
      BY <1>1, <3>1, <3>4, <3>5, <3>6, <3>8, <3>9, <1>1a, RootMoves
  <2>2. CASE A!Ends(o, A!Nothing)
    BY <1>5, <1>6, <2>2 DEF A!TakeRootLock
  <2> QED
    BY <1>6, <2>1, <2>2 DEF A!TakeRootLock
<1>7. ASSUME A!RollBack(o) PROVE AerialsInv'
  BY <1>5, <1>7 DEF A!RollBack
<1>8. ASSUME A!Clear(o) PROVE AerialsInv'
  <2>1. A!Off(o) /\ step[o].at = "holding" /\ db' = db \ op[o].before /\ owed' = owed \cup (db \cap op[o].before)
        /\ UNCHANGED <<catalogue, loader>>
    BY <1>8 DEF A!Clear
  <2>2. PICK s \in Steps : /\ step' = [step EXCEPT ![o] = s] /\ CallOK(op[o], s, o \in lock)
                           /\ s.at = "cleared" \/ (s.at = "ended" /\ s.exit = A!Unknown)
                           /\ s.exit # A!Done
    <3>1. CASE step[o].shell
      <4> DEFINE s == [step[o] EXCEPT !.at = "cleared"]
      <4>1. s \in Steps /\ step' = [step EXCEPT ![o] = s] /\ s.at = "cleared" /\ s.exit = A!Running
        BY <1>0, <1>2, <1>8, <3>1 DEF Steps, A!Clear
      <4> HIDE DEF s
      <4>2. op[o].exit \notin {A!Done, A!Nothing, A!Lived} /\ s.exit # A!Lived /\ s.exit # A!Done
        BY <1>0, <1>1, <1>2, <4>1 DEF CallOK, A!Running, A!Done, A!Nothing, A!Lived
      <4>3. CallOK(op[o], s, o \in lock)
        BY <1>0, <2>1, <4>1, <4>2 DEF CallOK, A!Off
      <4> QED
        BY <4>1, <4>2, <4>3
    <3>2. CASE ~step[o].shell
      <4>1. A!Ends(o, A!Unknown)
        BY <1>8, <3>2 DEF A!Clear
      <4>2. A!Unknown \in Exits \ {A!Running} /\ A!Unknown # A!Lived /\ A!Unknown # A!Done
        BY DEF Exits, A!Unknown, A!Running, A!Lived, A!Done
      <4>3. PICK s \in Steps : /\ step' = [step EXCEPT ![o] = s] /\ CallOK(op[o], s, o \in lock)
                               /\ s.at = "ended" /\ s.exit \in {A!Unknown, A!Unknown}
        BY <1>3, <4>1, <4>2
      <4> QED
        BY <4>2, <4>3
    <3> QED
      BY <3>1, <3>2
  <2>3. PicksOK'
    BY <2>1 DEF AerialsInv, PicksOK
  <2>4. Cleared(s) /\ ~Armed(s) /\ Excused(s)
    BY <1>4, <2>2 DEF Cleared, Armed, Excused
  <2>5. A!LoaderStopped'
    BY <1>1, <2>1, <2>2, <2>4, LoaderKept
  <2>6. A!Off(o) /\ owed' \subseteq owed \cup op[o].before /\ Cleared(s) /\ Armed(step[o])
    BY <2>1, <2>4 DEF Armed
  <2> QED
    BY <1>1, <2>1, <2>2, <2>3, <2>4, <2>5, <2>6, <1>1a, RootMoves
<1>9. ASSUME A!StopLoader(o) PROVE AerialsInv'
  <2>1. step[o].at = "cleared" /\ A!Off(o) /\ UNCHANGED <<db, catalogue, owed>>
    BY <1>0, <1>9 DEF A!StopLoader, CallOK, A!Off
  <2>2. PICK exit \in {A!Done, A!Lived} : A!Ends(o, exit) /\ loader' = IF exit = A!Done THEN A!Asleep ELSE loader
    BY <1>4, <1>9 DEF A!StopLoader
  <2>3. PICK s \in Steps : /\ step' = [step EXCEPT ![o] = s] /\ CallOK(op[o], s, o \in lock)
                           /\ s.at = "ended" /\ s.exit \in {exit, A!Unknown}
    BY <1>3, <1>4, <2>1, <2>2
  <2>4. Cleared(s) /\ ~Armed(s)
    BY <1>4, <2>2, <2>3 DEF Cleared, Armed
  <2>5. PicksOK' /\ owed' \subseteq owed
    BY <2>1 DEF AerialsInv, PicksOK
  <2>6. Excused(s) \/ loader'.reads = {}
    BY <2>2, <2>3 DEF Excused, A!Asleep
  <2>7. A!LoaderStopped'
    <3>1. loader'.reads \subseteq loader.reads
      BY <2>2 DEF A!Asleep
    <3> QED
      BY <1>1, <2>1, <2>3, <2>6, <3>1, LoaderKept
  <2> QED
    BY <1>1, <2>1, <2>3, <2>4, <2>5, <2>7, <1>1a, RootMoves
<1>10. ASSUME A!PutIn(o) PROVE AerialsInv'
  <2>1. /\ ~A!Off(o) /\ step[o].at = "holding" /\ UNCHANGED <<catalogue, loader>>
        /\ db' = db \cup (op[o].prev.picks \cap Carryable \cap catalogue) /\ owed' = owed \ db'
        /\ A!Ends(o, A!Done)
    BY <1>10 DEF A!PutIn
  <2>2. PICK s \in Steps : /\ step' = [step EXCEPT ![o] = s] /\ CallOK(op[o], s, o \in lock)
                           /\ s.at = "ended"
    BY <1>3, <1>4, <2>1
  <2>3. ~Cleared(step[o]) /\ ~Excused(step[o]) /\ ~Armed(s)
    BY <1>2, <2>1, <2>2 DEF Cleared, Excused, Armed, A!Running, A!Lived, A!Unknown
  <2>4. PicksOK' /\ owed' \subseteq owed /\ db \subseteq db'
    BY <2>1 DEF AerialsInv, PicksOK
  <2>5. A!LoaderStopped'
    BY <1>1, <2>1, <2>2, <2>3, <2>4, LoaderKept
  <2>6. owed' \cap op[o].prev.picks \cap Carryable = {}
    BY <2>1 DEF AerialsInv, PicksOK
  <2> QED
    BY <1>1, <2>1, <2>2, <2>3, <2>4, <2>5, <2>6, <1>1a, RootMoves
<1> QED
  BY <1>6, <1>7, <1>8, <1>9, <1>10

\* The owner, macOS and the downloader keep it.
LEMMA WorldInv ==
  ASSUME AerialsInv,
         \/ \E p \in Pick : A!OwnerPicks(p) \/ A!CatalogueLoses(p)
         \/ A!LoaderStarts \/ A!LoaderEnds \/ UNCHANGED A!vars
  PROVE  AerialsInv'
<1>1. UNCHANGED <<A!callVars, step>> /\ owed' \subseteq owed
  BY DEF A!OwnerPicks, A!CatalogueLoses, A!LoaderStarts, A!LoaderEnds, A!vars, A!macVars
<1>2. PicksOK'
  BY DEF AerialsInv, PicksOK, A!OwnerPicks, A!CatalogueLoses, A!LoaderStarts, A!LoaderEnds, A!vars, A!macVars
<1>3. (loader'.reads \ db') \cap catalogue' \subseteq (loader.reads \ db) \cap catalogue
  BY DEF AerialsInv, PicksOK, A!OwnerPicks, A!CatalogueLoses, A!LoaderStarts, A!LoaderEnds, A!vars, A!macVars,
         A!Asleep, A!WorksFor
<1>4. A!LoaderStopped'
  BY <1>1, <1>3 DEF AerialsInv, A!LoaderStopped, A!callVars, A!Off
<1> QED
  BY <1>1, <1>2, <1>4, WorldMoves

\* Every step of internal/aerials and of what is around it keeps the invariant.
LEMMA AerialsNext ==
  ASSUME AerialsInv, [A!Next]_(A!vars)
  PROVE  AerialsInv'
  BY CallInv, RecordInv, RootInv, WorldInv DEF A!Next

\* The invariant tells what is promised: what an off in the lock has deleted
\* is in the record it wrote before.
LEMMA AerialsKept ==
  ASSUME AerialsInv
  PROVE  A!PicksKept /\ A!LoaderStopped
<1>1. A!LoaderStopped
  BY DEF AerialsInv
<1>2. ASSUME NEW p \in owed \cap Carryable PROVE p \in A!Waiting \/ \E o \in Op : A!Overtaken(o, p)
  <2>1. CASE Safe(p)
    BY <2>1 DEF Safe, Base
  <2>2. ASSUME NEW h \in lock, A!Off(h), p \in op[h].before, Cleared(step[h]) PROVE p \in A!Waiting
    <3>1. h \in Op /\ CallOK(op[h], step[h], h \in lock)
      BY DEF AerialsInv, OneHolder, CallsOK
    <3>2. op[h].at \in Written \cup {"mark"}
      BY <2>2, <3>1 DEF CallOK, Calls, Cleared, InLock, Written
    <3> QED
      BY <2>2, <3>2, BeforeRecorded
  <2> QED
    BY <2>1, <2>2 DEF AerialsInv, OwedSafe
<1> QED
  BY <1>1, <1>2 DEF A!PicksKept

----------------------------------------------------------------------------
(* Self update. *)

UpdateSteps == {"idle", "due", "owned", "mark", "latest", "sums", "archive", "try",
          "rename", "over"}

\* The steps of a process that was offered a release newer than itself.
Offered == {"sums", "archive", "try", "rename"}

UpdateTypes == /\ latest \in U!Release
           /\ assets \in [U!Release -> Int]
           /\ binary \in Int
           /\ proc \in [Proc -> [at : UpdateSteps, current : Int, rel : Int,
                                 sum : Int, build : Int]]

OffersNewer == \A p \in Proc : proc[p].at \in Offered =>
                 proc[p].rel \in U!Release /\ proc[p].rel > proc[p].current

TriedOut == \A p \in Proc : proc[p].at = "rename" => proc[p].build = proc[p].rel

StillItself == \A p \in Proc : proc[p].at \notin {"idle", "over"} /\ p \notin outrun =>
                 binary = proc[p].current

UpdatesInv == UpdateTypes /\ OffersNewer /\ TriedOut /\ StillItself

\* What a step of p alone needs: p's own record keeps the invariant, and the
\* binary and the releases are as they were.
\* Every check, fetch and trial of internal/selfupdate up to the rename is one.
LEMMA OwnStep ==
  ASSUME UpdatesInv, NEW p \in Proc,
         UNCHANGED <<latest, assets, binary, outrun>>,
         NEW r \in [at : UpdateSteps, current : Int, rel : Int, sum : Int, build : Int],
         proc' = [proc EXCEPT ![p] = r],
         r.at \in Offered => r.rel \in U!Release /\ r.rel > r.current,
         r.at = "rename" => r.build = r.rel,
         r.at \notin {"idle", "over"} /\ p \notin outrun => binary = r.current
  PROVE  UpdatesInv'
<1>1. UpdateTypes'
  BY DEF UpdatesInv, UpdateTypes, U!Release
<1>2. \A q \in Proc : proc'[q] = IF q = p THEN r ELSE proc[q]
  BY DEF UpdatesInv, UpdateTypes
<1>3. OffersNewer'
  BY <1>2 DEF UpdatesInv, OffersNewer, U!Release
<1>4. TriedOut'
  BY <1>2 DEF UpdatesInv, TriedOut
<1>5. StillItself'
  BY <1>2 DEF UpdatesInv, StillItself
<1> QED
  BY <1>1, <1>3, <1>4, <1>5 DEF UpdatesInv

\* A step that leaves every process as it was keeps what is said of them.
LEMMA WorldStep ==
  ASSUME UpdatesInv, UNCHANGED <<binary, proc, outrun>>,
         latest' \in U!Release, assets' \in [U!Release -> Int]
  PROVE  UpdatesInv'
  BY DEF UpdatesInv, UpdateTypes, OffersNewer, TriedOut, StillItself, U!Release

\* The invariant holds of what a machine starts with: no process has begun.
LEMMA UpdatesInit ==
  ASSUME U!Init
  PROVE  UpdatesInv
  BY MachineAssumption DEF U!Init, UpdatesInv, UpdateTypes, OffersNewer, TriedOut,
         StillItself, U!Release, UpdateSteps, Offered, U!Dev, U!Broken

\* Every step of a process, of GitHub, of the owner and of the clock keeps it.
LEMMA UpdatesNext ==
  ASSUME UpdatesInv, [U!Next]_(U!vars)
  PROVE  UpdatesInv'
<1> USE DEF UpdateSteps, Offered
<1>1. ASSUME NEW p \in Proc, U!Runs(p) PROVE UpdatesInv'
  <2>1. PICK at \in {"due", "owned"} :
          proc' = [proc EXCEPT ![p].at = at, ![p].current = binary]
    BY <1>1 DEF U!Runs
  <2> DEFINE r == [proc[p] EXCEPT !.at = at, !.current = binary]
  <2>2. r \in [at : UpdateSteps, current : Int, rel : Int, sum : Int, build : Int]
    BY DEF UpdatesInv, UpdateTypes
  <2>3. proc' = [proc EXCEPT ![p] = r]
    BY <2>1 DEF UpdatesInv, UpdateTypes
  <2>4. r.at = at /\ r.current = binary
    BY DEF UpdatesInv, UpdateTypes
  <2> QED
    BY <1>1, <2>2, <2>3, <2>4, OwnStep DEF U!Runs, U!world
<1>2. ASSUME NEW p \in Proc, NEW at \in UpdateSteps, U!To(p, at), proc[p].at \notin {"idle", "over"},
             at \in Offered => proc[p].at \in Offered,
             at = "rename" => proc[p].build = proc[p].rel,
             UNCHANGED <<latest, assets, binary, outrun>>
      PROVE  UpdatesInv'
  <2> DEFINE r == [proc[p] EXCEPT !.at = at]
  <2>1. r \in [at : UpdateSteps, current : Int, rel : Int, sum : Int, build : Int]
    BY DEF UpdatesInv, UpdateTypes
  <2>2. proc' = [proc EXCEPT ![p] = r]
    BY <1>2 DEF UpdatesInv, UpdateTypes, U!To
  <2>3. /\ r.at = at /\ r.current = proc[p].current
        /\ r.rel = proc[p].rel /\ r.build = proc[p].build
    BY DEF UpdatesInv, UpdateTypes
  <2>4. /\ r.at \in Offered => r.rel \in U!Release /\ r.rel > r.current
        /\ r.at = "rename" => r.build = r.rel
        /\ r.at \notin {"idle", "over"} /\ p \notin outrun => binary = r.current
    BY <1>2, <2>3 DEF UpdatesInv, OffersNewer, StillItself
  <2> HIDE DEF r
  <2> QED
    BY <1>2, <2>1, <2>2, <2>4, OwnStep
<1>3. ASSUME NEW p \in Proc, U!CheckDue(p) PROVE UpdatesInv'
  BY <1>2, <1>3 DEF U!CheckDue, U!world
<1>4. ASSUME NEW p \in Proc, U!MarkChecked(p) PROVE UpdatesInv'
  BY <1>2, <1>4 DEF U!MarkChecked, U!world
<1>5. ASSUME NEW p \in Proc, U!Owned(p) PROVE UpdatesInv'
  BY <1>2, <1>5 DEF U!Owned, U!world
<1>6. ASSUME NEW p \in Proc, U!ReadLatest(p) PROVE UpdatesInv'
  <2> DEFINE at == IF U!Newer(latest, proc[p].current) THEN "sums" ELSE "over"
             r == [proc[p] EXCEPT !.rel = latest, !.at = at]
  <2>1. latest \in Int /\ at \in UpdateSteps
    BY DEF UpdatesInv, UpdateTypes, U!Release
  <2>2. r \in [at : UpdateSteps, current : Int, rel : Int, sum : Int, build : Int]
    BY <2>1 DEF UpdatesInv, UpdateTypes
  <2>3. proc' = [proc EXCEPT ![p] = r]
    BY <1>6 DEF UpdatesInv, UpdateTypes, U!ReadLatest
  <2>4. /\ r.at = IF latest > proc[p].current THEN "sums" ELSE "over"
        /\ r.current = proc[p].current /\ r.rel = latest
    BY DEF UpdatesInv, UpdateTypes, U!Newer
  <2>5. /\ r.at \in Offered => r.rel \in U!Release /\ r.rel > r.current
        /\ r.at # "rename"
        /\ r.at \notin {"idle", "over"} /\ p \notin outrun => binary = r.current
    BY <1>6, <2>4 DEF UpdatesInv, UpdateTypes, StillItself, U!ReadLatest
  <2>6. UNCHANGED <<latest, assets, binary, outrun>>
    BY <1>6 DEF U!ReadLatest, U!world
  <2> HIDE DEF r
  <2> QED
    BY <2>2, <2>3, <2>5, <2>6, OwnStep
<1>7. ASSUME NEW p \in Proc, U!FetchSums(p) PROVE UpdatesInv'
  <2> DEFINE r == [proc[p] EXCEPT !.at = "archive", !.sum = assets[proc[p].rel]]
  <2>1. r \in [at : UpdateSteps, current : Int, rel : Int, sum : Int, build : Int]
    BY <1>7 DEF UpdatesInv, UpdateTypes, OffersNewer, U!FetchSums
  <2>2. proc' = [proc EXCEPT ![p] = r]
    BY <1>7 DEF UpdatesInv, UpdateTypes, U!FetchSums
  <2>3. r.at = "archive" /\ r.current = proc[p].current /\ r.rel = proc[p].rel
    BY DEF UpdatesInv, UpdateTypes
  <2>4. /\ r.rel \in U!Release /\ r.rel > r.current
        /\ p \notin outrun => binary = r.current
    BY <1>7, <2>3 DEF UpdatesInv, OffersNewer, StillItself, U!FetchSums
  <2>5. UNCHANGED <<latest, assets, binary, outrun>>
    BY <1>7 DEF U!FetchSums, U!world
  <2> HIDE DEF r
  <2> QED
    BY <2>1, <2>2, <2>3, <2>4, <2>5, OwnStep
<1>8. ASSUME NEW p \in Proc, U!FetchArchive(p) PROVE UpdatesInv'
  <2>1. CASE assets[proc[p].rel] = proc[p].sum
    <3> DEFINE r == [proc[p] EXCEPT !.at = "try", !.build = assets[proc[p].rel]]
    <3>1. r \in [at : UpdateSteps, current : Int, rel : Int, sum : Int, build : Int]
      BY <1>8 DEF UpdatesInv, UpdateTypes, OffersNewer, U!FetchArchive
    <3>2. proc' = [proc EXCEPT ![p] = r]
      BY <1>8, <2>1 DEF UpdatesInv, UpdateTypes, U!FetchArchive
    <3>3. r.at = "try" /\ r.current = proc[p].current /\ r.rel = proc[p].rel
      BY DEF UpdatesInv, UpdateTypes
    <3>4. /\ r.rel \in U!Release /\ r.rel > r.current
          /\ p \notin outrun => binary = r.current
      BY <1>8, <3>3 DEF UpdatesInv, OffersNewer, StillItself, U!FetchArchive
    <3>5. UNCHANGED <<latest, assets, binary, outrun>>
      BY <1>8 DEF U!FetchArchive, U!world
    <3> HIDE DEF r
    <3> QED
      BY <3>1, <3>2, <3>3, <3>4, <3>5, OwnStep
  <2>2. CASE assets[proc[p].rel] # proc[p].sum
    BY <1>2, <1>8, <2>2 DEF U!FetchArchive, U!world
  <2> QED
    BY <2>1, <2>2
<1>9. ASSUME NEW p \in Proc, U!Try(p) PROVE UpdatesInv'
  BY <1>2, <1>9 DEF U!Try, U!world
<1>10. ASSUME NEW p \in Proc, U!Rename(p) PROVE UpdatesInv'
  <2>1. UpdateTypes'
    BY <1>10 DEF UpdatesInv, UpdateTypes, U!Rename, U!To, U!world
  <2>2. \A q \in Proc : /\ proc'[q].at = IF q = p THEN "over" ELSE proc[q].at
                        /\ proc'[q].rel = proc[q].rel
                        /\ proc'[q].current = proc[q].current
                        /\ proc'[q].build = proc[q].build
    BY <1>10 DEF UpdatesInv, UpdateTypes, U!Rename, U!To
  <2>3. OffersNewer' /\ TriedOut'
    BY <2>2, <1>10 DEF UpdatesInv, OffersNewer, TriedOut, U!Rename, U!world, U!Release
  <2>4. StillItself'
    BY <2>2, <1>10 DEF StillItself, U!Rename, U!Replaced
  <2> QED
    BY <2>1, <2>3, <2>4 DEF UpdatesInv
<1>11. ASSUME NEW p \in Proc, U!GivesUp(p) PROVE UpdatesInv'
  BY <1>2, <1>11 DEF U!GivesUp, U!world
<1>12. ASSUME NEW r \in U!Release, U!Publish(r) PROVE UpdatesInv'
  BY <1>12, WorldStep DEF U!Publish, UpdatesInv, UpdateTypes
<1>13. ASSUME NEW r \in U!Release, NEW build \in {r, U!Broken, U!Dev}, U!Reupload(r, build)
       PROVE  UpdatesInv'
  <2>1. build \in Int
    BY DEF U!Release, U!Broken, U!Dev
  <2> QED
    BY <1>13, <2>1, WorldStep DEF U!Reupload, UpdatesInv, UpdateTypes
<1>14. ASSUME U!InstallLine PROVE UpdatesInv'
  <2>1. UpdateTypes' /\ OffersNewer' /\ TriedOut'
    BY <1>14 DEF UpdatesInv, UpdateTypes, OffersNewer, TriedOut, U!InstallLine, U!world, U!Release
  <2>2. StillItself'
    BY <1>14 DEF StillItself, U!InstallLine, U!Replaced
  <2> QED
    BY <2>1, <2>2 DEF UpdatesInv
<1>15. ASSUME U!NextDay PROVE UpdatesInv'
  BY <1>15, WorldStep DEF U!NextDay, U!world, UpdatesInv, UpdateTypes
<1>16. ASSUME UNCHANGED U!vars PROVE UpdatesInv'
  BY <1>16, WorldStep DEF U!vars, U!world, UpdatesInv, UpdateTypes
<1> QED
  BY <1>1, <1>3, <1>4, <1>5, <1>6, <1>7, <1>8, <1>9, <1>10, <1>11, <1>12, <1>13,
     <1>14, <1>15, <1>16 DEF U!Next

\* A step into the rename's end is the rename: only it puts a build in place,
\* and giving up there leaves the binary alone.
LEMMA StepForward ==
  ASSUME UpdatesInv, [U!Next]_(U!vars)
  PROVE  U!Forward
<1> SUFFICES ASSUME NEW p \in Proc, proc[p].at = "rename", proc'[p].at = "over",
                    binary' # binary
             PROVE  /\ binary' = proc[p].rel
                    /\ binary' < binary => p \in outrun
  BY DEF U!Forward
<1>1. PICK q \in Proc : U!Rename(q)
  <2>1. ~U!InstallLine
    BY DEF U!InstallLine
  <2> QED
    BY <2>1 DEF U!Next, U!vars, U!Runs, U!CheckDue, U!MarkChecked, U!Owned, U!ReadLatest, U!FetchSums,
                U!FetchArchive, U!Try, U!GivesUp, U!Publish, U!Reupload, U!NextDay
<1>2. q = p
  BY <1>1 DEF U!Rename, U!To, UpdatesInv, UpdateTypes
<1>3. binary' = proc[p].rel
  BY <1>1, <1>2 DEF U!Rename, UpdatesInv, TriedOut
<1>4. p \notin outrun => binary = proc[p].current
  BY DEF UpdatesInv, StillItself
<1>5. /\ proc[p].rel \in Int /\ proc[p].current \in Int
      /\ proc[p].rel > proc[p].current
  BY DEF UpdatesInv, UpdateTypes, OffersNewer, Offered
<1> QED
  BY <1>3, <1>4, <1>5

----------------------------------------------------------------------------
(* The headroom history. *)

\* In a finite set in which each element comes after a set of others, the
\* elements are told apart by how many those are.
LEMMA Ranked ==
  ASSUME NEW K, IsFiniteSet(K), NEW B, \A k \in K : B[k] \in SUBSET K,
         \A k \in K : k \notin B[k],
         \A j, k \in K : j \in B[k] => B[j] \subseteq B[k],
         \A j, k \in K : j # k => j \in B[k] \/ k \in B[j]
  PROVE  /\ \A k \in K : Cardinality(B[k]) \in 0..(Cardinality(K) - 1)
         /\ \A j, k \in K : j \in B[k] => Cardinality(B[j]) < Cardinality(B[k])
         /\ \A j, k \in K : Cardinality(B[j]) = Cardinality(B[k]) => j = k
         /\ \A n \in 0..(Cardinality(K) - 1) : \E k \in K : Cardinality(B[k]) = n
<1>1. \A k \in K : /\ IsFiniteSet(B[k]) /\ Cardinality(B[k]) \in Nat
                   /\ Cardinality(B[k]) <= Cardinality(K) - 1
  <2> TAKE k \in K
  <2>1. B[k] \in SUBSET (K \ {k})
    OBVIOUS
  <2>2. IsFiniteSet(K \ {k}) /\ Cardinality(K \ {k}) = Cardinality(K) - 1
    BY FS_RemoveElement
  <2>3. IsFiniteSet(B[k]) /\ Cardinality(B[k]) <= Cardinality(K \ {k})
    BY <2>1, <2>2, FS_Subset
  <2> QED
    BY <2>2, <2>3, FS_CardinalityType
<1>2. Cardinality(K) \in Nat
  BY FS_CardinalityType
<1>3. \A j, k \in K : j \in B[k] => Cardinality(B[j]) < Cardinality(B[k])
  <2> SUFFICES ASSUME NEW j \in K, NEW k \in K, j \in B[k]
               PROVE  Cardinality(B[j]) < Cardinality(B[k])
    OBVIOUS
  <2>1. B[j] \in SUBSET B[k] /\ B[j] # B[k]
    OBVIOUS
  <2>2. Cardinality(B[j]) <= Cardinality(B[k]) /\ Cardinality(B[j]) # Cardinality(B[k])
    BY <1>1, <2>1, FS_Subset
  <2> QED
    BY <1>1, <2>2
<1>4. \A j, k \in K : Cardinality(B[j]) = Cardinality(B[k]) => j = k
  <2> SUFFICES ASSUME NEW j \in K, NEW k \in K, Cardinality(B[j]) = Cardinality(B[k]), j # k
               PROVE  FALSE
    OBVIOUS
  <2> QED
    BY <1>1, <1>3
<1>5. \A k \in K : Cardinality(B[k]) \in 0..(Cardinality(K) - 1)
  BY <1>1, <1>2
<1>6. \A n \in 0..(Cardinality(K) - 1) : \E k \in K : Cardinality(B[k]) = n
  <2> DEFINE N == 0..(Cardinality(K) - 1)  f == [k \in K |-> Cardinality(B[k])]
  <2>1. f \in Injection(K, N)
    BY <1>4, <1>5 DEF Injection, IsInjective
  <2>2. IsFiniteSet(N) /\ Cardinality(N) = Cardinality(K)
    <3>1. Cardinality(K) - 1 \in Int /\ 0 \in Int
      BY <1>2
    <3>2. IsFiniteSet(N) /\ Cardinality(N) = IF 0 > Cardinality(K) - 1 THEN 0 ELSE Cardinality(K) - 1 - 0 + 1
      BY <3>1, FS_Interval
    <3> QED
      BY <1>2, <3>2
  <2> HIDE DEF N, f
  <2>3. f \in Surjection(K, N)
    BY <2>1, <2>2, FS_Injection
  <2> QED
    BY <2>3 DEF Surjection, N, f
<1> QED
  BY <1>3, <1>4, <1>5, <1>6

\* The count of a part's own copy of FiniteSets is the library's.
LEMMA SameCount == \A S : H!Cardinality(S) = Cardinality(S)
  BY DEF H!Cardinality, Cardinality

Lines == [at : Int, free : Int]

\* Tail's samples are the lines that parse of the times from since on, in the
\* order of their times.
TailIs(lines, since, s) ==
  /\ s \in Seq(Lines)
  /\ \A i \in DOMAIN lines : H!Sample(lines[i]) /\ lines[i].at >= since =>
       \E n \in DOMAIN s : s[n] = lines[i]
  /\ \A n \in DOMAIN s : \E i \in DOMAIN lines :
       s[n] = lines[i] /\ H!Sample(lines[i]) /\ lines[i].at >= since
  /\ \A m, n \in DOMAIN s : m < n => s[m].at <= s[n].at

\* Reading a file gives just that: the ranks TailOf goes by are all taken once.
LEMMA Tails ==
  ASSUME NEW lines \in Seq(Lines), NEW since
  PROVE  TailIs(lines, since, H!TailOf(lines, since))
<1> DEFINE K == {k \in DOMAIN lines : H!Sample(lines[k]) /\ lines[k].at >= since}
           Before(k) == {j \in K : \/ lines[j].at < lines[k].at
                                   \/ lines[j].at = lines[k].at /\ j < k}
           B == [k \in K |-> Before(k)]
           s == H!TailOf(lines, since)
<1>1. IsFiniteSet(K) /\ K \subseteq Nat /\ \A k \in K : lines[k].at \in Int
  <2>1. IsFiniteSet(DOMAIN lines) /\ DOMAIN lines \subseteq Nat
    BY FS_Interval
  <2>2. K \in SUBSET DOMAIN lines
    OBVIOUS
  <2>3. \A k \in DOMAIN lines : lines[k] \in Lines
    OBVIOUS
  <2>4. \A x \in Lines : x.at \in Int
    BY DEF Lines
  <2> QED
    BY <2>1, <2>2, <2>3, <2>4, FS_Subset
<1>3. s = [n \in 1..H!Cardinality(K) |-> lines[CHOOSE k \in K : H!Cardinality(Before(k)) = n - 1]]
  BY DEF H!TailOf
<1> HIDE DEF K, s
<1>4. \A k \in K : B[k] \in SUBSET K /\ k \notin B[k]
  BY <1>1
<1>5. \A j, k \in K : j \in B[k] => B[j] \subseteq B[k]
  <2> SUFFICES ASSUME NEW j \in K, NEW k \in K, j \in B[k], NEW h \in B[j]
               PROVE  h \in B[k]
    OBVIOUS
  <2>1. h \in K
    OBVIOUS
  <2>2. lines[h].at \in Int /\ lines[j].at \in Int /\ lines[k].at \in Int /\ h \in Nat /\ j \in Nat /\ k \in Nat
    BY <1>1, <2>1
  <2>3. \/ lines[j].at < lines[k].at
        \/ lines[j].at = lines[k].at /\ j < k
    OBVIOUS
  <2>4. \/ lines[h].at < lines[j].at
        \/ lines[h].at = lines[j].at /\ h < j
    OBVIOUS
  <2>5. \/ lines[h].at < lines[k].at
        \/ lines[h].at = lines[k].at /\ h < k
    BY <2>2, <2>3, <2>4
  <2> QED
    BY <2>1, <2>5
<1>6. \A j, k \in K : j # k => j \in B[k] \/ k \in B[j]
  <2> SUFFICES ASSUME NEW j \in K, NEW k \in K, j # k
               PROVE  j \in B[k] \/ k \in B[j]
    OBVIOUS
  <2>1. lines[j].at \in Int /\ lines[k].at \in Int /\ j \in Nat /\ k \in Nat
    BY <1>1
  <2>2. \/ lines[j].at < lines[k].at
        \/ lines[j].at = lines[k].at /\ j < k
        \/ lines[k].at < lines[j].at
        \/ lines[k].at = lines[j].at /\ k < j
    BY <2>1
  <2> QED
    BY <2>2
<1>7. \A k \in K : Before(k) = B[k]
  OBVIOUS
<1>8. \A j, k \in K : j \in B[k] => lines[j].at <= lines[k].at
  <2> SUFFICES ASSUME NEW j \in K, NEW k \in K, j \in B[k]
               PROVE  lines[j].at <= lines[k].at
    OBVIOUS
  <2>1. lines[j].at < lines[k].at \/ lines[j].at = lines[k].at
    OBVIOUS
  <2>2. lines[j].at \in Int /\ lines[k].at \in Int
    BY <1>1
  <2> QED
    BY <2>1, <2>2
<1> HIDE DEF B, Before
<1>9. /\ \A k \in K : Cardinality(B[k]) \in 0..(Cardinality(K) - 1)
      /\ \A j, k \in K : j \in B[k] => Cardinality(B[j]) < Cardinality(B[k])
      /\ \A j, k \in K : Cardinality(B[j]) = Cardinality(B[k]) => j = k
      /\ \A n \in 0..(Cardinality(K) - 1) : \E k \in K : Cardinality(B[k]) = n
  BY <1>1, <1>4, <1>5, <1>6, Ranked
<1>10. Cardinality(K) \in Nat
  BY <1>1, FS_CardinalityType
<1> DEFINE At(n) == CHOOSE k \in K : H!Cardinality(Before(k)) = n - 1
<1>11. \A n \in 1..Cardinality(K) : At(n) \in K /\ Cardinality(B[At(n)]) = n - 1
  <2> SUFFICES ASSUME NEW n \in 1..Cardinality(K)
               PROVE  At(n) \in K /\ Cardinality(B[At(n)]) = n - 1
    OBVIOUS
  <2>1. n - 1 \in 0..(Cardinality(K) - 1)
    BY <1>10
  <2>2. PICK k \in K : Cardinality(B[k]) = n - 1
    BY <1>9, <2>1
  <2>3. H!Cardinality(Before(k)) = n - 1
    BY SameCount, <1>7, <2>2
  <2>4. At(n) \in K /\ H!Cardinality(Before(At(n))) = n - 1
    BY <2>3
  <2> QED
    BY SameCount, <1>7, <2>4
<1>12. s = [n \in 1..Cardinality(K) |-> lines[At(n)]]
  BY SameCount, <1>3
<1> HIDE DEF At
<1>13. s \in Seq(Lines) /\ DOMAIN s = 1..Cardinality(K)
  <2>1. \A n \in 1..Cardinality(K) : lines[At(n)] \in Lines
    BY <1>11 DEF K
  <2> QED
    BY <1>10, <1>12, <2>1
<1>14. \A i \in DOMAIN lines : H!Sample(lines[i]) /\ lines[i].at >= since =>
         \E n \in DOMAIN s : s[n] = lines[i]
  <2> SUFFICES ASSUME NEW i \in DOMAIN lines, H!Sample(lines[i]), lines[i].at >= since
               PROVE  \E n \in DOMAIN s : s[n] = lines[i]
    OBVIOUS
  <2> DEFINE n == Cardinality(B[i]) + 1
  <2>1. i \in K
    BY DEF K
  <2>2. n \in 1..Cardinality(K) /\ n - 1 = Cardinality(B[i])
    BY <1>9, <1>10, <2>1
  <2> HIDE DEF n
  <2>3. At(n) = i
    BY <1>9, <1>11, <2>1, <2>2
  <2> QED
    BY <1>12, <1>13, <2>2, <2>3
<1>15. \A n \in DOMAIN s : \E i \in DOMAIN lines : s[n] = lines[i] /\ H!Sample(lines[i]) /\ lines[i].at >= since
  <2> SUFFICES ASSUME NEW n \in DOMAIN s
               PROVE  \E i \in DOMAIN lines : s[n] = lines[i] /\ H!Sample(lines[i]) /\ lines[i].at >= since
    OBVIOUS
  <2>1. At(n) \in K /\ s[n] = lines[At(n)]
    BY <1>11, <1>12, <1>13
  <2> QED
    BY <2>1 DEF K
<1>16. \A m, n \in DOMAIN s : m < n => s[m].at <= s[n].at
  <2> SUFFICES ASSUME NEW m \in DOMAIN s, NEW n \in DOMAIN s, m < n
               PROVE  s[m].at <= s[n].at
    OBVIOUS
  <2>1. /\ At(m) \in K /\ At(n) \in K /\ m \in Nat /\ n \in Nat
        /\ Cardinality(B[At(m)]) = m - 1 /\ Cardinality(B[At(n)]) = n - 1
    BY <1>11, <1>13
  <2>2. At(m) # At(n)
    BY <2>1
  <2>3. At(n) \notin B[At(m)]
    BY <1>9, <2>1
  <2>4. lines[At(m)].at <= lines[At(n)].at
    BY <1>6, <1>8, <2>1, <2>2, <2>3
  <2> QED
    BY <1>12, <1>13, <2>4
<1> QED
  BY <1>13, <1>14, <1>15, <1>16 DEF s, TailIs

\* What is read are lines,
LEMMA TailTyped ==
  ASSUME NEW lines \in Seq(Lines), NEW since
  PROVE  H!TailOf(lines, since) \in Seq(Lines)
BY Tails DEF TailIs

\* and no line of the time asked for is left out.
LEMMA TailHolds ==
  ASSUME NEW lines \in Seq(Lines), NEW since, NEW i \in DOMAIN lines,
         H!Sample(lines[i]), lines[i].at >= since
  PROVE  lines[i] \in H!ToSet(H!TailOf(lines, since))
<1> DEFINE s == H!TailOf(lines, since)
<1>1. TailIs(lines, since, s)
  BY Tails
<1> HIDE DEF s
<1>2. \E n \in DOMAIN s : s[n] = lines[i]
  BY <1>1 DEF TailIs
<1> QED
  BY <1>2 DEF H!ToSet, s

\* The samples that must be in the history: appended, not risked, not too old.
Due == {x \in written \ risked : x.at >= clock - 1 - Retention}

Ats == {"idle", "prev", "compact", "create", "fill", "rename", "open", "write", "report"}
Ticks == [at : Ats, s : Lines, prev : Seq(Lines), readable : BOOLEAN, keep : Seq(Lines),
          fd : H!Inode \cup {0}, fresh : BOOLEAN]
HistoryTyped ==
  /\ clock \in Nat
  /\ disk \in [H!Inode -> Seq(Lines)]
  /\ name \in H!Inode /\ tmp \in H!Inode \cup {0} /\ name # tmp
  /\ tick \in [Ticker -> Ticks]
  /\ \A p \in Ticker : tick[p].at # "idle" => tick[p].s.at \in 0..(clock - 1)
  /\ \A x \in written : x \in Lines /\ x.at >= 0
  /\ scene \in Scenes

\* Where they are: in the history, in what a tick is about to put in its place,
\* and in the .tmp once it is written.  Where two ticks rewrite it at once,
\* nothing is due.
InFile == Due \subseteq H!ToSet(disk[name])
InKeep == \A p \in Ticker : tick[p].at \in {"create", "fill"} => Due \subseteq H!ToSet(tick[p].keep)
InTmp == \A p \in Ticker : tick[p].at = "rename" /\ tmp # 0 => Due \subseteq H!ToSet(disk[tmp])
AtTmp == \A p \in Ticker : tick[p].at = "fill" => Due = {} \/ (tick[p].fd = tmp /\ tmp # 0)
OneRewrites == \A p, q \in Ticker :
  p # q /\ tick[p].at \in {"fill", "rename"} /\ tick[q].at \in {"fill", "rename"} => Due = {}

HistoryInv == HistoryTyped /\ InFile /\ InKeep /\ InTmp /\ AtTmp /\ OneRewrites

\* There is an inode nobody has open.
LEMMA FreeInode ==
  ASSUME HistoryTyped, tmp = 0
  PROVE  H!NewInode \in H!Inode /\ H!NewInode # name
<1> DEFINE c == Cardinality(Ticker)  fds == {tick[p].fd : p \in Ticker}
           f == [p \in Ticker |-> tick[p].fd]
<1>1. IsFiniteSet(Ticker) /\ c \in Nat
  BY MachineAssumption, FS_CardinalityType
<1>2. f \in Surjection(Ticker, fds)
  BY DEF Surjection
<1>3. IsFiniteSet(fds) /\ Cardinality(fds) <= c
  BY <1>1, <1>2, FS_Surjection
<1>4. IsFiniteSet(fds \cup {name}) /\ Cardinality(fds \cup {name}) <= c + 1
  <2>1. Cardinality(fds) \in Nat
    BY <1>3, FS_CardinalityType
  <2>2. IsFiniteSet(fds \cup {name})
        /\ Cardinality(fds \cup {name}) = IF name \in fds THEN Cardinality(fds) ELSE Cardinality(fds) + 1
    BY <1>3, FS_AddElement
  <2> HIDE DEF fds, c
  <2> QED
    BY <1>1, <1>3, <2>1, <2>2
<1>5. H!Inode = 1..(c + 2)
  BY SameCount DEF H!Inode
<1>6. Cardinality(H!Inode) = c + 2 /\ IsFiniteSet(H!Inode)
  <2> DEFINE m == c + 2
  <2>1. 1 \in Int /\ m \in Int /\ m >= 1 /\ H!Inode = 1..m
    BY <1>1, <1>5
  <2> HIDE DEF m
  <2>2. IsFiniteSet(1..m) /\ Cardinality(1..m) = IF 1 > m THEN 0 ELSE m - 1 + 1
    BY <2>1, FS_Interval
  <2>3. IsFiniteSet(1..m) /\ Cardinality(1..m) = m
    BY <2>1, <2>2
  <2> QED
    BY <2>1, <2>3 DEF m
<1> HIDE DEF c, fds
<1>7. ~(H!Inode \subseteq fds \cup {name})
  <2> SUFFICES ASSUME H!Inode \subseteq fds \cup {name} PROVE FALSE
    OBVIOUS
  <2>1. Cardinality(H!Inode) <= Cardinality(fds \cup {name})
    BY <1>4, FS_Subset
  <2>2. Cardinality(fds \cup {name}) \in Nat
    BY <1>4, FS_CardinalityType
  <2> QED
    BY <1>1, <1>4, <1>6, <2>1, <2>2
<1>8. PICK i \in H!Inode : i \notin fds \cup {name}
  BY <1>7
<1>9. i # 0
  BY <1>1, <1>5
<1>10. H!Opened = {name, tmp} \cup fds
  BY DEF H!Opened, fds
<1>11. i \notin H!Opened
  BY <1>8, <1>9, <1>10
<1>12. H!NewInode \in H!Inode /\ H!NewInode \notin H!Opened
  BY <1>11 DEF H!NewInode
<1> QED
  BY <1>10, <1>12

\* What joins a file's end replaces no sample of it.
LEMMA JoinKeeps ==
  ASSUME NEW lines \in Seq(Lines), NEW fresh, NEW x \in Lines
  PROVE  /\ H!Joined(lines, fresh, x) \in Seq(Lines)
         /\ \A y \in H!ToSet(lines) : y.at >= 0 => y \in H!ToSet(H!Joined(lines, fresh, x))
<1> DEFINE whole == [k \in DOMAIN lines |-> IF lines[k] = H!Cut THEN H!Bad ELSE lines[k]]
           j == H!Joined(lines, fresh, x)
<1>1. j \in {Append(whole, x), whole, lines}
  BY DEF H!Joined
<1>2. whole \in Seq(Lines) /\ DOMAIN whole = DOMAIN lines
  <2>1. H!Bad \in Lines
    BY DEF H!Bad, Lines
  <2>2. \A k \in DOMAIN lines : whole[k] \in Lines
    BY <2>1
  <2>3. Len(lines) \in Nat /\ DOMAIN lines = 1..Len(lines)
    OBVIOUS
  <2> QED
    BY <2>2, <2>3
<1>3. H!Cut.at = -2
  BY DEF H!Cut
<1>4. ASSUME NEW y \in H!ToSet(lines), y.at >= 0
      PROVE  y \in H!ToSet(j)
  <2>1. PICK k \in DOMAIN lines : y = lines[k]
    BY DEF H!ToSet
  <2>2. y # H!Cut
    BY <1>3, <1>4
  <2>3. whole[k] = y
    BY <2>1, <2>2
  <2> HIDE DEF j, whole
  <2>4. CASE j = lines
    BY <1>4, <2>4
  <2>5. CASE j = whole
    BY <1>2, <2>1, <2>3, <2>5 DEF H!ToSet
  <2>6. CASE j = Append(whole, x)
    <3>1. k \in DOMAIN j /\ j[k] = whole[k]
      BY <1>2, <2>1, <2>6
    <3> QED
      BY <2>3, <3>1 DEF H!ToSet
  <2> QED
    BY <1>1, <2>4, <2>5, <2>6
<1>5. j \in Seq(Lines)
  <2> HIDE DEF j, whole
  <2> QED
    BY <1>1, <1>2
<1> QED
  BY <1>4, <1>5

\* A tick leaves what is due where it is, when it writes nothing.
LEMMA DueStays ==
  ASSUME clock' \in Nat, clock \in Nat, clock' >= clock, written' = written, risked \subseteq risked',
         \A x \in written : x.at \in Int
  PROVE  Due' \subseteq Due
<1> SUFFICES ASSUME NEW x \in Due' PROVE x \in Due
  OBVIOUS
<1>1. x \in written /\ x \notin risked /\ x.at >= clock' - 1 - Retention /\ x.at \in Int
  BY DEF Due
<1>2. x.at >= clock - 1 - Retention
  BY <1>1, MachineAssumption
<1> QED
  BY <1>1, <1>2 DEF Due

\* A step of one tick that leaves the files alone, and does not come to fill or
\* rename one, keeps the invariant.
LEMMA QuietTick ==
  ASSUME HistoryInv, NEW p \in Ticker, NEW t \in Ticks, t.at \notin {"fill", "rename"},
         t.at = "create" => Due \subseteq H!ToSet(t.keep),
         t.at # "idle" => t.s.at \in 0..(clock' - 1),
         tick' = [tick EXCEPT ![p] = t], clock' \in Nat, clock' >= clock,
         UNCHANGED <<scene, disk, name, tmp, written, risked>>
  PROVE  HistoryInv'
<1>1. Due' \subseteq Due
  BY DueStays DEF HistoryInv, HistoryTyped, Lines
<1>2. HistoryTyped'
  <2>1. tick' \in [Ticker -> Ticks] /\ \A q \in Ticker : tick'[q] = IF q = p THEN t ELSE tick[q]
    BY DEF HistoryInv, HistoryTyped
  <2>2. \A q \in Ticker : tick'[q].at # "idle" => tick'[q].s.at \in 0..(clock' - 1)
    <3> SUFFICES ASSUME NEW q \in Ticker, tick'[q].at # "idle", q # p
                 PROVE  tick'[q].s.at \in 0..(clock' - 1)
      BY <2>1
    <3>1. tick[q].s.at \in 0..(clock - 1) /\ clock \in Nat
      BY <2>1 DEF HistoryInv, HistoryTyped
    <3>2. tick'[q].s.at \in 0..(clock - 1)
      BY <2>1, <3>1
    <3> QED
      BY <3>1, <3>2
  <2> QED
    BY <2>1, <2>2 DEF HistoryInv, HistoryTyped
<1>3. \A q \in Ticker : tick'[q] = IF q = p THEN t ELSE tick[q]
  BY DEF HistoryInv, HistoryTyped
<1>4. InFile'
  BY <1>1 DEF HistoryInv, InFile
<1>5. InKeep'
  BY <1>1, <1>3 DEF HistoryInv, InKeep
<1>6. InTmp'
  BY <1>1, <1>3 DEF HistoryInv, InTmp
<1>7. AtTmp'
  BY <1>1, <1>3 DEF HistoryInv, AtTmp
<1>8. OneRewrites'
  BY <1>1, <1>3 DEF HistoryInv, OneRewrites
<1> QED
  BY <1>2, <1>4, <1>5, <1>6, <1>7, <1>8 DEF HistoryInv

\* The tick of a process between two.
LEMMA IdleTick == H!Idle \in Ticks /\ H!Idle.at = "idle"
<1>1. H!Bad \in Lines
  BY DEF H!Bad, Lines
<1> QED
  BY <1>1 DEF H!Idle, Ticks, Ats

\* A tick with some of its fields replaced.
LEMMA TickAt ==
  ASSUME NEW t \in Ticks, NEW at \in Ats
  PROVE  [t EXCEPT !.at = at] \in Ticks /\ [t EXCEPT !.at = at].at = at /\ [t EXCEPT !.at = at].s = t.s
  BY DEF Ticks

LEMMA TickKeeps ==
  ASSUME NEW t \in Ticks, NEW at \in Ats, NEW keep \in Seq(Lines)
  PROVE  [t EXCEPT !.at = at, !.keep = keep] \in Ticks
  BY DEF Ticks

LEMMA TickReads ==
  ASSUME NEW t \in Ticks, NEW at \in Ats, NEW prev \in Seq(Lines), NEW readable \in BOOLEAN
  PROVE  [t EXCEPT !.at = at, !.readable = readable, !.prev = prev] \in Ticks
  BY DEF Ticks

LEMMA TickOpens ==
  ASSUME NEW t \in Ticks, NEW at \in Ats, NEW fd \in H!Inode \cup {0}
  PROVE  [t EXCEPT !.at = at, !.fd = fd] \in Ticks
  BY DEF Ticks

LEMMA TickFrames ==
  ASSUME NEW t \in Ticks, NEW at \in Ats, NEW fd \in H!Inode \cup {0}, NEW fresh \in BOOLEAN
  PROVE  [t EXCEPT !.at = at, !.fd = fd, !.fresh = fresh] \in Ticks
  BY DEF Ticks

\* A tick's steps, each of them: those that read or append to no file,
LEMMA BeginHistory ==
  ASSUME HistoryInv, NEW p \in Ticker, NEW free, H!Begin(p, free)
  PROVE  HistoryInv'
<1> DEFINE x == [at |-> clock, free |-> free]  t == [H!Idle EXCEPT !.at = "prev", !.s = x]
<1>1. scene \in Scenes /\ clock \in Nat
  BY DEF HistoryInv, HistoryTyped
<1>2. x \in Lines
  BY <1>1, MachineAssumption DEF H!Begin, Lines
<1>3. t \in Ticks /\ t.at = "prev" /\ t.s = x
  BY <1>2, IdleTick DEF Ticks, Ats
<1>4. clock' = clock + 1 /\ tick' = [tick EXCEPT ![p] = t] /\ UNCHANGED <<scene, disk, name, tmp, written, risked>>
  BY DEF H!Begin
<1>5. t.s.at \in 0..(clock' - 1)
  BY <1>1, <1>3, <1>4
<1> HIDE DEF t
<1>6. /\ t.at \notin {"fill", "rename"} /\ (t.at = "create" => Due \subseteq H!ToSet(t.keep))
      /\ (t.at # "idle" => t.s.at \in 0..(clock' - 1)) /\ clock' \in Nat /\ clock' >= clock
  BY <1>1, <1>3, <1>4, <1>5
<1> QED
  BY <1>3, <1>4, <1>6, QuietTick, Zenon

LEMMA ReadPrevHistory ==
  ASSUME HistoryInv, NEW p \in Ticker, H!ReadPrev(p)
  PROVE  HistoryInv'
<1>1. tick[p] \in Ticks /\ tick[p].at = "prev" /\ clock \in Nat /\ tick[p].s.at \in 0..(clock - 1)
  BY DEF HistoryInv, HistoryTyped, H!ReadPrev
<1>2. PICK ok \in BOOLEAN : tick' = [tick EXCEPT ![p].at = "compact", ![p].readable = ok,
             ![p].prev = IF ok THEN H!TailOf(disk[name], tick[p].s.at - Window) ELSE <<>>]
  BY DEF H!ReadPrev
<1> DEFINE prev == IF ok THEN H!TailOf(disk[name], tick[p].s.at - Window) ELSE <<>>
           t == [tick[p] EXCEPT !.at = "compact", !.readable = ok, !.prev = prev]
<1>3. prev \in Seq(Lines)
  <2>1. disk[name] \in Seq(Lines)
    BY DEF HistoryInv, HistoryTyped
  <2>2. H!TailOf(disk[name], tick[p].s.at - Window) \in Seq(Lines)
    BY <2>1, TailTyped, Zenon
  <2> QED
    BY <2>2
<1>4. tick' = [tick EXCEPT ![p] = t]
  BY <1>2 DEF HistoryInv, HistoryTyped
<1> HIDE DEF prev
<1>5. t \in Ticks /\ t.at = "compact" /\ t.s = tick[p].s
  <2>1. t \in Ticks
    BY <1>1, <1>3, TickReads DEF Ats
  <2> QED
    BY <1>1, <2>1 DEF Ticks
<1> HIDE DEF t
<1>6. UNCHANGED <<scene, clock, disk, name, tmp, written, risked>>
  BY DEF H!ReadPrev
<1>7. /\ t.at \notin {"fill", "rename"} /\ (t.at = "create" => Due \subseteq H!ToSet(t.keep))
      /\ (t.at # "idle" => t.s.at \in 0..(clock' - 1)) /\ clock' \in Nat /\ clock' >= clock
  BY <1>1, <1>5, <1>6
<1> QED
  BY <1>4, <1>5, <1>6, <1>7, QuietTick, Zenon

LEMMA CompactHistory ==
  ASSUME HistoryInv, NEW p \in Ticker, H!Compact(p)
  PROVE  HistoryInv'
<1> DEFINE cutoff == tick[p].s.at - Retention  keep == H!TailOf(disk[name], cutoff)
<1>1. tick[p] \in Ticks /\ tick[p].at = "compact" /\ clock \in Nat /\ tick[p].s.at \in 0..(clock - 1)
  BY DEF HistoryInv, HistoryTyped, H!Compact
<1>2. disk[name] \in Seq(Lines)
  BY DEF HistoryInv, HistoryTyped
<1>3. UNCHANGED <<scene, clock, disk, name, tmp, written, risked>>
  BY DEF H!Compact
<1>4. Due \subseteq H!ToSet(keep)
  <2> SUFFICES ASSUME NEW x \in Due PROVE x \in H!ToSet(keep)
    OBVIOUS
  <2>1. PICK i \in DOMAIN disk[name] : x = disk[name][i]
    BY DEF HistoryInv, InFile, H!ToSet
  <2>2. x.at >= clock - 1 - Retention /\ x.at \in Int /\ x.at >= 0
    BY DEF Due, HistoryInv, HistoryTyped, Lines
  <2>3. H!Sample(disk[name][i]) /\ disk[name][i].at >= cutoff
    BY <1>1, <2>1, <2>2, MachineAssumption DEF H!Sample
  <2> HIDE DEF cutoff
  <2>4. disk[name][i] \in H!ToSet(keep)
    BY <1>2, <2>3, TailHolds, Zenon
  <2> QED
    BY <2>1, <2>4
<1>5. keep \in Seq(Lines)
  <2> HIDE DEF cutoff
  <2> QED
    BY <1>2, TailTyped, Zenon
<1>6. \/ tick' = [tick EXCEPT ![p].at = "create", ![p].keep = keep]
      \/ tick' = [tick EXCEPT ![p].at = "open"]
  BY DEF H!Compact, H!At
<1> HIDE DEF keep
<1>7. CASE tick' = [tick EXCEPT ![p].at = "create", ![p].keep = keep]
  <2> DEFINE t == [tick[p] EXCEPT !.at = "create", !.keep = keep]
  <2>1. tick' = [tick EXCEPT ![p] = t]
    BY <1>7 DEF HistoryInv, HistoryTyped
  <2>2. t \in Ticks
    BY <1>1, <1>5, TickKeeps DEF Ats
  <2>3. t.at = "create" /\ t.s = tick[p].s /\ t.keep = keep
    BY <1>1 DEF Ticks
  <2> HIDE DEF t
  <2>4. /\ t.at \notin {"fill", "rename"} /\ (t.at = "create" => Due \subseteq H!ToSet(t.keep))
        /\ (t.at # "idle" => t.s.at \in 0..(clock' - 1)) /\ clock' \in Nat /\ clock' >= clock
    BY <1>1, <1>3, <1>4, <2>3
  <2> QED
    BY <1>3, <2>1, <2>2, <2>4, QuietTick, Zenon
<1>8. CASE tick' = [tick EXCEPT ![p].at = "open"]
  <2> DEFINE t == [tick[p] EXCEPT !.at = "open"]
  <2>1. tick' = [tick EXCEPT ![p] = t]
    BY <1>8 DEF HistoryInv, HistoryTyped
  <2>2. t \in Ticks
    BY <1>1, TickAt DEF Ats
  <2>3. t.at = "open" /\ t.s = tick[p].s
    BY <1>1 DEF Ticks
  <2> HIDE DEF t
  <2>4. /\ t.at \notin {"fill", "rename"} /\ (t.at = "create" => Due \subseteq H!ToSet(t.keep))
        /\ (t.at # "idle" => t.s.at \in 0..(clock' - 1)) /\ clock' \in Nat /\ clock' >= clock
    BY <1>1, <1>3, <2>3
  <2> QED
    BY <1>3, <2>1, <2>2, <2>4, QuietTick, Zenon
<1> QED
  BY <1>6, <1>7, <1>8

\* the one that opens the history, and the last;
LEMMA ToWriteHistory ==
  ASSUME HistoryInv, NEW p \in Ticker, H!OpenToAppend(p)
  PROVE  HistoryInv'
<1> DEFINE fresh == disk[name] # <<>> /\ H!Last(disk[name]) = H!Cut
           t == [tick[p] EXCEPT !.at = "write", !.fd = name, !.fresh = fresh]
<1>1. tick[p] \in Ticks /\ tick[p].at = "open" /\ clock \in Nat /\ tick[p].s.at \in 0..(clock - 1)
      /\ name \in H!Inode
  BY DEF HistoryInv, HistoryTyped, H!OpenToAppend
<1>2. tick' = [tick EXCEPT ![p].at = "write", ![p].fd = name, ![p].fresh = fresh]
      /\ UNCHANGED <<scene, clock, disk, name, tmp, written, risked>>
  BY DEF H!OpenToAppend
<1>3. fresh \in BOOLEAN
  OBVIOUS
<1> HIDE DEF fresh
<1>4. tick' = [tick EXCEPT ![p] = t]
  BY <1>2 DEF HistoryInv, HistoryTyped
<1>5. t \in Ticks
  BY <1>1, <1>3, TickFrames DEF Ats
<1>6. t.at = "write" /\ t.s = tick[p].s
  BY <1>1 DEF Ticks
<1> HIDE DEF t
<1>7. /\ t.at \notin {"fill", "rename"} /\ (t.at = "create" => Due \subseteq H!ToSet(t.keep))
      /\ (t.at # "idle" => t.s.at \in 0..(clock' - 1)) /\ clock' \in Nat /\ clock' >= clock
  BY <1>1, <1>2, <1>6
<1> QED
  BY <1>2, <1>4, <1>5, <1>7, QuietTick, Zenon

LEMMA EndHistory ==
  ASSUME HistoryInv, NEW p \in Ticker, H!Report(p) \/ H!Kill(p)
  PROVE  HistoryInv'
<1>1. tick' = [tick EXCEPT ![p] = H!Idle] /\ UNCHANGED <<scene, clock, disk, name, tmp, written, risked>>
  BY DEF H!Report, H!Kill
<1>2. clock \in Nat
  BY DEF HistoryInv, HistoryTyped
<1>3. /\ H!Idle.at \notin {"fill", "rename"} /\ (H!Idle.at = "create" => Due \subseteq H!ToSet(H!Idle.keep))
      /\ (H!Idle.at # "idle" => H!Idle.s.at \in 0..(clock' - 1)) /\ clock' \in Nat /\ clock' >= clock
  BY <1>1, <1>2, IdleTick
<1> QED
  BY <1>1, <1>3, IdleTick, QuietTick, Zenon

\* The .tmp is made anew, or another tick's is emptied; and then nothing is due.
LEMMA CreateHistory ==
  ASSUME HistoryInv, NEW p \in Ticker, H!CreateTmp(p)
  PROVE  HistoryInv'
<1> DEFINE i == IF tmp = 0 THEN H!NewInode ELSE tmp
           t == [tick[p] EXCEPT !.at = "fill", !.fd = i]
<1>1. tick[p] \in Ticks /\ tick[p].at = "create" /\ clock \in Nat /\ tick[p].s.at \in 0..(clock - 1)
  BY DEF HistoryInv, HistoryTyped, H!CreateTmp
<1>2. i \in H!Inode /\ i # name /\ i # 0
  <2>1. 0 \notin H!Inode
    BY DEF H!Inode
  <2> QED
    BY <2>1, FreeInode DEF HistoryInv, HistoryTyped
<1>3. /\ tmp' = i /\ disk' = [disk EXCEPT ![i] = <<>>]
      /\ tick' = [tick EXCEPT ![p].at = "fill", ![p].fd = i]
      /\ UNCHANGED <<scene, clock, name, written>>
  BY DEF H!CreateTmp
<1>4. risked \subseteq risked' \/ risked' = written
  BY DEF H!CreateTmp
<1>5. \A q \in Ticker : q # p /\ tick[q].at \in {"create", "fill", "rename"} => Due' = {}
  <2> SUFFICES ASSUME NEW q \in Ticker, q # p, tick[q].at \in {"create", "fill", "rename"}
               PROVE  Due' = {}
    OBVIOUS
  <2>1. \E r \in Ticker \ {p} : H!Rewriting(r)
    BY DEF H!Rewriting
  <2>2. risked' = written
    BY <2>1 DEF H!CreateTmp
  <2> QED
    BY <1>3, <2>2 DEF Due
<1>6. Due' \subseteq Due
  BY <1>3, <1>4 DEF Due
<1> HIDE DEF i
<1>7. tick' = [tick EXCEPT ![p] = t]
  BY <1>3 DEF HistoryInv, HistoryTyped
<1>8. t \in Ticks
  BY <1>1, <1>2, TickOpens DEF Ats
<1>9. t.at = "fill" /\ t.s = tick[p].s /\ t.fd = i /\ t.keep = tick[p].keep
  BY <1>1 DEF Ticks
<1> HIDE DEF t
<1>10. \A q \in Ticker : tick'[q] = IF q = p THEN t ELSE tick[q]
  BY <1>7 DEF HistoryInv, HistoryTyped
<1>11. HistoryTyped'
  <2>1. tick' \in [Ticker -> Ticks]
    BY <1>7, <1>8 DEF HistoryInv, HistoryTyped
  <2>2. disk' \in [H!Inode -> Seq(Lines)]
    <3>1. disk \in [H!Inode -> Seq(Lines)] /\ <<>> \in Seq(Lines)
      BY DEF HistoryInv, HistoryTyped
    <3>2. disk' = [disk EXCEPT ![i] = <<>>]
      BY <1>3
    <3> QED
      BY <3>1, <3>2
  <2>3. \A q \in Ticker : tick'[q].at # "idle" => tick'[q].s.at \in 0..(clock' - 1)
    BY <1>1, <1>3, <1>9, <1>10 DEF HistoryInv, HistoryTyped
  <2> QED
    BY <1>2, <1>3, <2>1, <2>2, <2>3 DEF HistoryInv, HistoryTyped
<1>12. InFile'
  <2>1. disk'[name'] = disk[name]
    BY <1>2, <1>3 DEF HistoryInv, HistoryTyped
  <2> QED
    BY <1>6, <2>1 DEF HistoryInv, InFile
<1>13. InKeep'
  BY <1>1, <1>5, <1>6, <1>9, <1>10 DEF HistoryInv, InKeep
<1>14. InTmp'
  BY <1>5, <1>9, <1>10 DEF InTmp
<1>15. AtTmp'
  BY <1>2, <1>3, <1>5, <1>9, <1>10 DEF AtTmp
<1>16. OneRewrites'
  BY <1>5, <1>10 DEF OneRewrites
<1> QED
  BY <1>11, <1>12, <1>13, <1>14, <1>15, <1>16 DEF HistoryInv

\* The kept samples go to the .tmp the tick opened; or the disk is full, and the
\* .tmp goes.
LEMMA FillHistory ==
  ASSUME HistoryInv, NEW p \in Ticker, H!FillTmp(p)
  PROVE  HistoryInv'
<1> DEFINE f == tick[p].fd
           Fills(at) == [tick[p] EXCEPT !.at = at, !.fd = 0]
<1>1. tick[p] \in Ticks /\ tick[p].at = "fill" /\ clock \in Nat /\ tick[p].s.at \in 0..(clock - 1)
      /\ tick \in [Ticker -> Ticks] /\ disk \in [H!Inode -> Seq(Lines)]
  BY DEF HistoryInv, HistoryTyped, H!FillTmp
<1>2. UNCHANGED <<scene, clock, name, written, risked>>
  BY DEF H!FillTmp
<1>3. Due' = Due
  BY <1>2 DEF Due
<1>4. PICK at \in {"rename", "open"} :
        /\ tick' = [tick EXCEPT ![p].at = at, ![p].fd = 0]
        /\ at = "rename" => disk' = [disk EXCEPT ![f] = tick[p].keep] /\ tmp' = tmp
        /\ at = "open" => disk' = [disk EXCEPT ![f] = <<H!Cut>>] /\ tmp' = 0
  BY DEF H!FillTmp
<1>5. Due = {} \/ (f = tmp /\ tmp # 0 /\ f # name)
  BY <1>1 DEF HistoryInv, AtTmp, HistoryTyped
<1>6. Due \subseteq H!ToSet(tick[p].keep)
  BY <1>1 DEF HistoryInv, InKeep
<1> DEFINE t == Fills(at)
<1>7. tick' = [tick EXCEPT ![p] = t]
  BY <1>1, <1>4
<1>8. t \in Ticks
  BY <1>1, TickOpens DEF Ats
<1>9. t.at = at /\ t.s = tick[p].s
  BY <1>1 DEF Ticks
<1> HIDE DEF t, f
<1>10. \A q \in Ticker : tick'[q] = IF q = p THEN t ELSE tick[q]
  BY <1>1, <1>7
<1>11. HistoryTyped'
  <2>1. tick' \in [Ticker -> Ticks]
    BY <1>1, <1>7, <1>8
  <2>2. disk' \in [H!Inode -> Seq(Lines)]
    <3>1. H!Cut \in Lines
      BY DEF H!Cut, Lines
    <3>2. <<H!Cut>> \in Seq(Lines) /\ tick[p].keep \in Seq(Lines)
      BY <1>1, <3>1 DEF Ticks
    <3> QED
      BY <1>1, <1>4, <3>2
  <2>3. \A q \in Ticker : tick'[q].at # "idle" => tick'[q].s.at \in 0..(clock' - 1)
    BY <1>1, <1>2, <1>9, <1>10 DEF HistoryInv, HistoryTyped
  <2>4. name' # tmp' /\ tmp' \in H!Inode \cup {0}
    <3>1. name # 0
      BY DEF HistoryInv, HistoryTyped, H!Inode
    <3> QED
      BY <1>2, <1>4, <3>1 DEF HistoryInv, HistoryTyped
  <2> QED
    BY <1>2, <2>1, <2>2, <2>3, <2>4 DEF HistoryInv, HistoryTyped
<1>12. InFile'
  <2>1. CASE Due = {}
    BY <1>3, <2>1 DEF InFile
  <2>2. CASE f # name
    <3>1. disk'[name'] = disk[name]
      BY <1>1, <1>2, <1>4, <2>2 DEF HistoryInv, HistoryTyped
    <3> QED
      BY <1>3, <3>1 DEF HistoryInv, InFile
  <2> QED
    BY <1>5, <2>1, <2>2
<1>13. InKeep'
  BY <1>3, <1>9, <1>10 DEF HistoryInv, InKeep
<1>14. \A q \in Ticker : q # p /\ tick[q].at \in {"fill", "rename"} => Due = {}
  BY <1>1 DEF HistoryInv, OneRewrites
<1>15. InTmp'
  <2> SUFFICES ASSUME NEW q \in Ticker, tick'[q].at = "rename", tmp' # 0, Due # {}
               PROVE  Due \subseteq H!ToSet(disk'[tmp'])
    BY <1>3 DEF InTmp
  <2>1. q = p /\ at = "rename"
    BY <1>9, <1>10, <1>14
  <2>2. disk'[tmp'] = tick[p].keep
    BY <1>1, <1>4, <1>5, <2>1 DEF HistoryInv, HistoryTyped
  <2> QED
    BY <1>6, <2>2
<1>16. AtTmp'
  BY <1>3, <1>9, <1>10, <1>14 DEF AtTmp
<1>17. OneRewrites'
  BY <1>3, <1>10, <1>14 DEF OneRewrites
<1> QED
  BY <1>11, <1>12, <1>13, <1>15, <1>16, <1>17 DEF HistoryInv

\* The .tmp takes the history's place, if it is still there.
LEMMA RenameHistory ==
  ASSUME HistoryInv, NEW p \in Ticker, H!Rename(p)
  PROVE  HistoryInv'
<1> DEFINE t == [tick[p] EXCEPT !.at = "open"]
<1>1. tick[p] \in Ticks /\ tick[p].at = "rename" /\ tick \in [Ticker -> Ticks]
  BY DEF HistoryInv, HistoryTyped, H!Rename
<1>2. /\ \/ tmp # 0 /\ name' = tmp /\ tmp' = 0
         \/ tmp = 0 /\ name' = name /\ tmp' = 0
      /\ UNCHANGED <<scene, clock, disk, written, risked>>
  BY DEF H!Rename
<1>3. tick' = [tick EXCEPT ![p] = t]
  BY <1>1 DEF H!Rename, H!At
<1>4. t \in Ticks /\ t.at = "open" /\ t.s = tick[p].s
  BY <1>1, TickAt DEF Ats
<1> HIDE DEF t
<1>5. \A q \in Ticker : tick'[q] = IF q = p THEN t ELSE tick[q]
  BY <1>1, <1>3
<1>6. Due' = Due
  BY <1>2 DEF Due
<1>7. HistoryTyped'
  <2>1. tick' \in [Ticker -> Ticks]
    BY <1>1, <1>3, <1>4
  <2>2. \A q \in Ticker : tick'[q].at # "idle" => tick'[q].s.at \in 0..(clock' - 1)
    BY <1>1, <1>2, <1>4, <1>5 DEF HistoryInv, HistoryTyped
  <2>3. name' \in H!Inode /\ tmp' = 0 /\ name' # tmp'
    <3>1. 0 \notin H!Inode
      BY DEF H!Inode
    <3> QED
      BY <1>2, <3>1 DEF HistoryInv, HistoryTyped
  <2> QED
    BY <1>2, <2>1, <2>2, <2>3 DEF HistoryInv, HistoryTyped
<1>8. InFile'
  BY <1>1, <1>2, <1>6 DEF HistoryInv, InFile, InTmp
<1>9. InKeep'
  BY <1>4, <1>5, <1>6 DEF HistoryInv, InKeep
<1>10. InTmp'
  BY <1>2 DEF InTmp
<1>11. AtTmp'
  <2> SUFFICES ASSUME NEW q \in Ticker, tick'[q].at = "fill" PROVE Due = {}
    BY <1>6 DEF AtTmp
  <2> QED
    BY <1>1, <1>4, <1>5 DEF HistoryInv, OneRewrites
<1>12. OneRewrites'
  BY <1>4, <1>5, <1>6 DEF HistoryInv, OneRewrites
<1> QED
  BY <1>7, <1>8, <1>9, <1>10, <1>11, <1>12 DEF HistoryInv

\* A sample that was appended to the history while nobody else rewrote it is due
\* from then on; any other is risked.
LEMMA WriteHistory ==
  ASSUME HistoryInv, NEW p \in Ticker, H!Write(p)
  PROVE  HistoryInv'
<1> DEFINE f == tick[p].fd  s == tick[p].s  fresh == tick[p].fresh
           t == [tick[p] EXCEPT !.at = "report", !.fd = 0]
<1>1. tick[p] \in Ticks /\ tick[p].at = "write" /\ tick \in [Ticker -> Ticks] /\ clock \in Nat
      /\ s.at \in 0..(clock - 1) /\ disk \in [H!Inode -> Seq(Lines)]
  BY DEF HistoryInv, HistoryTyped, H!Write
<1>2. s \in Lines /\ H!Cut \in Lines
  BY <1>1 DEF Ticks, H!Cut, Lines
<1>3. /\ UNCHANGED <<scene, clock, name, tmp>>
      /\ tick' = [tick EXCEPT ![p].at = "report", ![p].fd = 0]
  BY DEF H!Write
<1>4. PICK x \in {s, H!Cut} : disk' = [disk EXCEPT ![f] = H!Joined(@, fresh, x)]
  BY DEF H!Write
<1>5. \/ /\ written' = written \cup {s}
         /\ risked' = IF \/ f # name \/ \E q \in Ticker \ {p} : H!Rewriting(q)
                         \/ s \notin H!ToSet(disk'[f])
                      THEN risked \cup {s} ELSE risked
      \/ written' = written /\ risked' = risked
  BY DEF H!Write
<1> HIDE DEF fresh
<1>6. tick' = [tick EXCEPT ![p] = t]
  BY <1>1, <1>3
<1>7. t \in Ticks
  BY <1>1, TickOpens DEF Ats
<1>8. t.at = "report" /\ t.s = s
  BY <1>1 DEF Ticks
<1> HIDE DEF t, f, s
<1>9. \A q \in Ticker : tick'[q] = IF q = p THEN t ELSE tick[q]
  BY <1>1, <1>6
<1>10. \A d \in H!Inode : /\ disk'[d] \in Seq(Lines)
                          /\ \A y \in H!ToSet(disk[d]) : y.at >= 0 => y \in H!ToSet(disk'[d])
  <2> SUFFICES ASSUME NEW d \in H!Inode
               PROVE  /\ disk'[d] \in Seq(Lines)
                      /\ \A y \in H!ToSet(disk[d]) : y.at >= 0 => y \in H!ToSet(disk'[d])
    OBVIOUS
  <2>1. disk[d] \in Seq(Lines) /\ x \in Lines
    BY <1>1, <1>2
  <2>2. CASE d = f
    <3>1. disk'[d] = H!Joined(disk[d], fresh, x)
      BY <1>1, <1>4, <2>2
    <3> QED
      BY <2>1, <3>1, JoinKeeps
  <2>3. CASE d # f
    <3>1. disk'[d] = disk[d]
      BY <1>1, <1>4, <2>3
    <3> QED
      BY <2>1, <3>1
  <2> QED
    BY <2>2, <2>3
<1>11. \A y \in Due : y \in written /\ y.at >= 0
  BY DEF Due, HistoryInv, HistoryTyped
<1>12. ASSUME NEW y \in Due', y \notin Due
       PROVE  y = s /\ f = name /\ s \in H!ToSet(disk'[f]) /\ \A q \in Ticker \ {p} : ~H!Rewriting(q)
  <2>1. y \in written' \ risked' /\ y.at >= clock - 1 - Retention
    BY <1>3, <1>12 DEF Due
  <2>2. y \notin written \ risked
    BY <1>12, <2>1 DEF Due
  <2> QED
    BY <1>5, <2>1, <2>2
<1>13. HistoryTyped'
  <2>1. tick' \in [Ticker -> Ticks]
    BY <1>1, <1>6, <1>7
  <2>2. disk' \in [H!Inode -> Seq(Lines)]
    BY <1>1, <1>4, <1>10
  <2>3. \A q \in Ticker : tick'[q].at # "idle" => tick'[q].s.at \in 0..(clock' - 1)
    BY <1>1, <1>3, <1>8, <1>9 DEF HistoryInv, HistoryTyped
  <2>4. \A y \in written' : y \in Lines /\ y.at >= 0
    BY <1>1, <1>2, <1>5 DEF HistoryInv, HistoryTyped
  <2> QED
    BY <1>3, <2>1, <2>2, <2>3, <2>4 DEF HistoryInv, HistoryTyped
<1>14. InFile'
  <2> SUFFICES ASSUME NEW y \in Due' PROVE y \in H!ToSet(disk'[name])
    BY <1>3 DEF InFile
  <2>1. CASE y \in Due
    BY <1>10, <1>11, <2>1 DEF HistoryInv, InFile, HistoryTyped
  <2>2. CASE y \notin Due
    BY <1>12, <2>2
  <2> QED
    BY <2>1, <2>2
<1>15. \A q \in Ticker : tick'[q].at \in {"create", "fill", "rename"} =>
          q # p /\ tick'[q] = tick[q] /\ Due' \subseteq Due
  <2> SUFFICES ASSUME NEW q \in Ticker, tick'[q].at \in {"create", "fill", "rename"}
               PROVE  q # p /\ tick'[q] = tick[q] /\ Due' \subseteq Due
    OBVIOUS
  <2>1. q # p /\ tick'[q] = tick[q]
    BY <1>8, <1>9
  <2>2. H!Rewriting(q)
    BY <2>1 DEF H!Rewriting
  <2> QED
    BY <1>12, <2>1, <2>2
<1>16. InKeep'
  BY <1>15 DEF HistoryInv, InKeep
<1>17. InTmp'
  <2> SUFFICES ASSUME NEW q \in Ticker, tick'[q].at = "rename", tmp # 0, NEW y \in Due'
               PROVE  y \in H!ToSet(disk'[tmp])
    BY <1>3 DEF InTmp
  <2>1. tmp \in H!Inode /\ y \in Due /\ tick[q].at = "rename"
    BY <1>15 DEF HistoryInv, HistoryTyped
  <2>2. y \in H!ToSet(disk[tmp])
    BY <2>1 DEF HistoryInv, InTmp
  <2> QED
    BY <1>10, <1>11, <2>1, <2>2
<1>18. AtTmp'
  <2> SUFFICES ASSUME NEW q \in Ticker, tick'[q].at = "fill", Due' # {}
               PROVE  tick'[q].fd = tmp /\ tmp # 0
    BY <1>3 DEF AtTmp
  <2>1. tick'[q] = tick[q] /\ Due # {}
    BY <1>15
  <2> QED
    BY <2>1 DEF HistoryInv, AtTmp
<1>19. OneRewrites'
  <2> SUFFICES ASSUME NEW a \in Ticker, NEW b \in Ticker, a # b, tick'[a].at \in {"fill", "rename"},
                      tick'[b].at \in {"fill", "rename"}
               PROVE  Due' = {}
    BY DEF OneRewrites
  <2>1. tick'[a] = tick[a] /\ tick'[b] = tick[b] /\ Due' \subseteq Due
    BY <1>15
  <2> QED
    BY <2>1 DEF HistoryInv, OneRewrites
<1> QED
  BY <1>13, <1>14, <1>16, <1>17, <1>18, <1>19 DEF HistoryInv

\* The history begins with what is due in it.
LEMMA HistoryInit ==
  ASSUME H!Init
  PROVE  HistoryInv
<1>1. /\ scene \in Scenes /\ clock = Now /\ name = 1 /\ tmp = 0 /\ risked = {}
      /\ disk = [i \in H!Inode |-> IF i = 1 THEN scene.earlier ELSE <<>>]
      /\ written = {x \in H!ToSet(scene.earlier) : H!Sample(x)}
      /\ tick = [p \in Ticker |-> H!Idle]
  BY DEF H!Init
<1>2. scene.earlier \in Seq(Lines)
  BY <1>1, MachineAssumption DEF Lines
<1>3. 1 \in H!Inode /\ 0 \notin H!Inode
  <2>1. Cardinality(Ticker) \in Nat
    BY MachineAssumption, FS_CardinalityType
  <2> QED
    BY <2>1, SameCount DEF H!Inode
<1>4. \A p \in Ticker : tick[p].at = "idle"
  BY <1>1, IdleTick
<1>5. HistoryTyped
  <2>1. tick \in [Ticker -> Ticks]
    BY <1>1, IdleTick
  <2>2. disk \in [H!Inode -> Seq(Lines)]
    <3>1. <<>> \in Seq(Lines)
      OBVIOUS
    <3> QED
      BY <1>1, <1>2, <3>1
  <2>3. \A x \in written : x \in Lines /\ x.at >= 0
    <3>1. \A x \in H!ToSet(scene.earlier) : x \in Lines
      BY <1>2 DEF H!ToSet
    <3> QED
      BY <1>1, <3>1 DEF H!Sample
  <2>4. clock \in Nat
    BY <1>1, MachineAssumption
  <2> QED
    BY <1>1, <1>3, <1>4, <2>1, <2>2, <2>3, <2>4 DEF HistoryTyped
<1>6. InFile
  <2>1. disk[name] = scene.earlier
    BY <1>1, <1>3
  <2> QED
    BY <1>1, <2>1 DEF InFile, Due
<1> QED
  BY <1>4, <1>5, <1>6 DEF HistoryInv, InKeep, InTmp, AtTmp, OneRewrites

\* Every step of a tick keeps the invariant, and it tells what is promised.
LEMMA HistoryNext ==
  ASSUME HistoryInv, [H!Next]_(H!vars)
  PROVE  HistoryInv'
<1>1. CASE H!Next
  BY <1>1, BeginHistory, ReadPrevHistory, CompactHistory, CreateHistory, FillHistory, RenameHistory,
     ToWriteHistory, WriteHistory, EndHistory DEF H!Next
<1>2. CASE UNCHANGED H!vars
  BY <1>2 DEF H!vars, HistoryInv, HistoryTyped, InFile, InKeep, InTmp, AtTmp, OneRewrites, Due
<1> QED
  BY <1>1, <1>2

LEMMA HistoryHolds ==
  ASSUME HistoryInv
  PROVE  H!HistoryKept
  BY DEF HistoryInv, InFile, Due, H!HistoryKept

----------------------------------------------------------------------------
(* The headroom alerts. *)

\* A set of naturals that is not empty has a least element.
LEMMA Least ==
  ASSUME NEW T, T \subseteq Nat, T # {}
  PROVE  \E k \in T : \A m \in T : k <= m
<1>1. PICK k \in T : \A m \in T : ~(<<m, k>> \in OpToRel(<, Nat))
  BY NatLessThanWellFounded, WFMin
<1>2. \A m \in T : ~(m < k)
  BY <1>1 DEF OpToRel
<1> QED
  BY <1>2

\* What the first m samples leave tripped, after each of them.
Held(s, m, h) == h = [n \in 0..m |->
  IF n = 0 THEN [i \in DOMAIN Bands |-> FALSE] ELSE H!Step(h[n - 1], s[n])]

\* There is such a sequence, so the recursion in Replay says what it is.
LEMMA HeldStep ==
  ASSUME NEW s, NEW m \in Nat, NEW f, Held(s, m, f)
  PROVE  \E g : Held(s, m + 1, g)
<1> DEFINE none == [i \in DOMAIN Bands |-> FALSE]
           after(h, k) == H!Step(h, s[k])
           g == [k \in 0..(m + 1) |-> IF k = m + 1 THEN after(f[m], m + 1) ELSE f[k]]
<1> HIDE DEF after, none
<1>1. f = [k \in 0..m |-> IF k = 0 THEN none ELSE after(f[k - 1], k)]
  BY DEF Held, after, none
<1>2. \A k \in 0..m : f[k] = IF k = 0 THEN none ELSE after(f[k - 1], k)
  BY <1>1
<1>3. ASSUME NEW k \in 0..(m + 1)
      PROVE  g[k] = IF k = 0 THEN none ELSE after(g[k - 1], k)
  <2>1. CASE k = m + 1
    <3>1. g[k] = after(f[m], m + 1) /\ g[k - 1] = f[m] /\ k # 0
      BY <2>1
    <3> QED
      BY <2>1, <3>1
  <2>2. CASE k # m + 1 /\ k # 0
    <3>1. k \in 0..m /\ k - 1 \in 0..m /\ k - 1 \in 0..(m + 1) /\ k - 1 # m + 1
      BY <2>2
    <3>2. g[k] = f[k] /\ g[k - 1] = f[k - 1]
      BY <2>2, <3>1
    <3> QED
      BY <1>2, <2>2, <3>1, <3>2
  <2>3. CASE k = 0
    <3>1. k \in 0..m /\ k # m + 1
      BY <2>3
    <3> QED
      BY <1>2, <2>3, <3>1
  <2> QED
    BY <2>1, <2>2, <2>3
<1>4. g = [k \in 0..(m + 1) |-> g[k]]
  OBVIOUS
<1> HIDE DEF g
<1>5. g = [k \in 0..(m + 1) |-> IF k = 0 THEN none ELSE after(g[k - 1], k)]
  BY <1>3, <1>4
<1>6. Held(s, m + 1, g)
  BY <1>5 DEF Held, after, none
<1> QED
  BY <1>6

LEMMA HeldExists ==
  ASSUME NEW s, NEW n \in Nat
  PROVE  \E h : Held(s, n, h)
<1> DEFINE T == {m \in Nat : ~\E h : Held(s, m, h)}
<1> SUFFICES ASSUME T # {} PROVE FALSE
  OBVIOUS
<1>1. PICK m \in T : \A l \in T : m <= l
  <2>1. T \subseteq Nat
    OBVIOUS
  <2> HIDE DEF T
  <2> QED
    BY <2>1, Least
<1>2. m # 0
  <2>1. Held(s, 0, [k \in 0..0 |-> [i \in DOMAIN Bands |-> FALSE]])
    BY DEF Held
  <2> QED
    BY <2>1
<1>3. m \in Nat /\ m - 1 \in Nat /\ ~(m <= m - 1)
  BY <1>2
<1>4. m - 1 \notin T
  BY <1>1, <1>3
<1>5. PICK h : Held(s, m - 1, h)
  BY <1>3, <1>4
<1>6. \E g : Held(s, (m - 1) + 1, g)
  BY <1>3, <1>5, HeldStep
<1>7. (m - 1) + 1 = m
  BY <1>3
<1> QED
  BY <1>6, <1>7

HeldBy(s) == CHOOSE h : Held(s, Len(s), h)

\* The recursion is the last of them.
LEMMA ReplayIs ==
  ASSUME NEW s
  PROVE  H!Replay(s) = HeldBy(s)[Len(s)]
BY Zenon DEF H!Replay, HeldBy, Held

\* Under line i, and not past where it is rearmed since.
Tripped(s, n, i) == \E k \in 1..n : /\ s[k].free < Bands[i]
                                    /\ \A j \in (k + 1)..n : s[j].free < H!Rearm(Bands[i])

\* One sample more trips a line, keeps it tripped, or rearms it.
LEMMA TripStep ==
  ASSUME NEW s, NEW n \in Nat, n # 0, NEW i
  PROVE  Tripped(s, n, i) <=> \/ s[n].free < Bands[i]
                              \/ Tripped(s, n - 1, i) /\ s[n].free < H!Rearm(Bands[i])
<1> DEFINE Low(x) == x.free < Bands[i]  Near(x) == x.free < H!Rearm(Bands[i])
<1>1. Tripped(s, n, i) <=> \E k \in 1..n : Low(s[k]) /\ \A j \in (k + 1)..n : Near(s[j])
  BY DEF Tripped
<1>2. Tripped(s, n - 1, i) <=> \E k \in 1..(n - 1) : Low(s[k]) /\ \A j \in (k + 1)..(n - 1) : Near(s[j])
  BY DEF Tripped
<1> HIDE DEF Low, Near
<1>3. ASSUME Tripped(s, n, i), ~Low(s[n])
      PROVE  Tripped(s, n - 1, i) /\ Near(s[n])
  <2>1. PICK k \in 1..n : Low(s[k]) /\ \A j \in (k + 1)..n : Near(s[j])
    BY <1>1, <1>3
  <2>2. k # n
    BY <1>3, <2>1
  <2>3. k \in 1..(n - 1) /\ n \in (k + 1)..n /\ \A j \in (k + 1)..(n - 1) : j \in (k + 1)..n
    BY <2>2
  <2> QED
    BY <1>2, <2>1, <2>3
<1>4. ASSUME Low(s[n])
      PROVE  Tripped(s, n, i)
  <2>1. n \in 1..n /\ \A j \in (n + 1)..n : FALSE
    OBVIOUS
  <2> QED
    BY <1>1, <1>4, <2>1
<1>5. ASSUME Tripped(s, n - 1, i), Near(s[n])
      PROVE  Tripped(s, n, i)
  <2>1. PICK k \in 1..(n - 1) : Low(s[k]) /\ \A j \in (k + 1)..(n - 1) : Near(s[j])
    BY <1>2, <1>5
  <2>2. k \in 1..n /\ \A j \in (k + 1)..n : j = n \/ j \in (k + 1)..(n - 1)
    OBVIOUS
  <2>3. \A j \in (k + 1)..n : Near(s[j])
    BY <1>5, <2>1, <2>2
  <2> QED
    BY <1>1, <2>1, <2>2, <2>3
<1> QED
  BY <1>3, <1>4, <1>5 DEF Low, Near

\* A replay says just that.
LEMMA ReplayTells ==
  ASSUME NEW s, Len(s) \in Nat, NEW i \in DOMAIN Bands
  PROVE  H!Replay(s)[i] <=> Tripped(s, Len(s), i)
<1> DEFINE N == Len(s)  h == HeldBy(s)
           T == {n \in 0..N : ~(h[n][i] <=> Tripped(s, n, i))}
<1>1. Held(s, N, h)
  BY HeldExists DEF HeldBy
<1> HIDE DEF h
<1>2. \A n \in 0..N : h[n] = IF n = 0 THEN [b \in DOMAIN Bands |-> FALSE] ELSE H!Step(h[n - 1], s[n])
  BY <1>1 DEF Held
<1>3. SUFFICES ASSUME T # {} PROVE FALSE
  <2>1. N \in 0..N
    OBVIOUS
  <2> QED
    BY <1>3, <2>1, ReplayIs DEF h
<1>4. PICK n \in T : \A m \in T : n <= m
  <2>1. T \subseteq Nat
    OBVIOUS
  <2> HIDE DEF T
  <2> QED
    BY <1>3, <2>1, Least
<1>5. CASE n = 0
  <2>1. h[n][i] = FALSE
    BY <1>2, <1>4, <1>5
  <2>2. ~Tripped(s, n, i)
    BY <1>5 DEF Tripped
  <2> QED
    BY <1>4, <2>1, <2>2
<1>6. CASE n # 0
  <2>1. n - 1 \in 0..N /\ n \in Nat /\ n \in 0..N /\ ~(n <= n - 1)
    BY <1>4, <1>6
  <2>2. h[n - 1][i] <=> Tripped(s, n - 1, i)
    BY <1>4, <2>1
  <2>3. h[n] = H!Step(h[n - 1], s[n])
    BY <1>2, <1>6, <2>1
  <2>4. h[n][i] = (s[n].free < Bands[i] \/ (h[n - 1][i] /\ s[n].free < H!Rearm(Bands[i])))
    BY <2>3 DEF H!Step
  <2>5. Tripped(s, n, i) <=> s[n].free < Bands[i] \/ (Tripped(s, n - 1, i) /\ s[n].free < H!Rearm(Bands[i]))
    BY <1>6, <2>1, TripStep
  <2>6. h[n][i] <=> Tripped(s, n, i)
    BY <2>2, <2>4, <2>5, Zenon
  <2> QED
    BY <1>4, <2>6
<1> QED
  BY <1>5, <1>6

\* A bounded set of naturals that is not empty has a greatest element.
LEMMA Greatest ==
  ASSUME NEW n \in Nat, NEW T, T \subseteq 0..n, T # {}
  PROVE  H!Max(T) \in T /\ \A k \in T : k <= H!Max(T)
<1> DEFINE V == {m \in Nat : n - m \in T}
<1>1. PICK t \in T : TRUE
  OBVIOUS
<1>2. t \in 0..n /\ n - t \in Nat /\ n - (n - t) = t
  BY <1>1
<1>3. n - t \in V
  BY <1>1, <1>2
<1>4. PICK u \in V : \A m \in V : u <= m
  <2>1. V \subseteq Nat /\ V # {}
    BY <1>3
  <2> HIDE DEF V
  <2> QED
    BY <2>1, Least
<1>5. n - u \in T /\ u \in Nat
  BY <1>4
<1>6. ASSUME NEW k \in T
      PROVE  n - u >= k /\ k \in Int
  <2>1. k \in 0..n /\ n - k \in Nat /\ n - (n - k) = k
    BY <1>6
  <2>2. n - k \in V
    BY <2>1, <1>6
  <2>3. u <= n - k
    BY <1>4, <2>2
  <2> HIDE DEF V
  <2> QED
    BY <1>5, <2>1, <2>3
<1> HIDE DEF V
<1>7. H!Max(T) \in T /\ \A k \in T : H!Max(T) >= k
  BY <1>5, <1>6 DEF H!Max
<1>8. H!Max(T) \in Int
  BY <1>6, <1>7
<1> QED
  BY <1>6, <1>7, <1>8

\* A line is rearmed no lower than it is.
LEMMA RearmsAbove ==
  ASSUME NEW i \in DOMAIN Bands
  PROVE  Bands[i] \in Nat /\ H!Rearm(Bands[i]) \in Nat /\ Bands[i] <= H!Rearm(Bands[i])
<1> DEFINE d == Bands[i] \div 10
<1>1. Bands[i] \in Nat /\ GiB \in Nat
  BY MachineAssumption
<1>2. d \in Nat
  BY <1>1
<1> HIDE DEF d
<1>3. H!Max({d, GiB}) \in {d, GiB}
  <2>1. \E x \in {d, GiB} : \A y \in {d, GiB} : x >= y
    BY <1>1, <1>2
  <2> QED
    BY <2>1 DEF H!Max
<1>4. H!Rearm(Bands[i]) = Bands[i] + H!Max({d, GiB})
  BY DEF H!Rearm, d
<1> QED
  BY <1>1, <1>2, <1>3, <1>4

\* What a report says of a line: it tells of one that was not tripped, and stays
\* silent of one it is under only when that was.
LEMMA AlertTells ==
  ASSUME NEW prev \in Seq(Lines), NEW s \in Lines, NEW b, b = H!Alert(prev, Append(prev, s))
  PROVE  /\ b \in Nat
         /\ b # 0 => b \in DOMAIN Bands /\ ~Tripped(prev, Len(prev), b)
         /\ \A i \in DOMAIN Bands : s.free < Bands[i] /\ ~(b >= i) => Tripped(prev, Len(prev), i)
<1> DEFINE cur == Append(prev, s)  C == H!Crossed(prev, cur)  T == {0} \cup C
<1>1. Len(prev) \in Nat /\ Len(cur) = Len(prev) + 1 /\ cur[Len(cur)] = s
  OBVIOUS
<1>2. Len(Bands) \in Nat /\ DOMAIN Bands = 1..Len(Bands)
  BY MachineAssumption
<1>3. \A i \in DOMAIN Bands : /\ H!Replay(prev)[i] <=> Tripped(prev, Len(prev), i)
                              /\ H!Replay(cur)[i] <=> Tripped(cur, Len(cur), i)
  <2> HIDE DEF cur
  <2> TAKE i \in DOMAIN Bands
  <2>1. Len(cur) \in Nat
    BY <1>1
  <2>2. H!Replay(prev)[i] <=> Tripped(prev, Len(prev), i)
    BY <1>1, ReplayTells, Zenon
  <2>3. H!Replay(cur)[i] <=> Tripped(cur, Len(cur), i)
    BY <2>1, ReplayTells, Zenon
  <2> QED
    BY <2>2, <2>3
<1>4. \A i : i \in C <=> i \in DOMAIN Bands /\ H!Replay(cur)[i] /\ ~H!Replay(prev)[i]
  BY DEF H!Crossed
<1>5. b = H!Max(T)
  BY DEF H!Alert, H!NoBand
<1>6. T \subseteq 0..Len(Bands) /\ T # {}
  BY <1>2, <1>4
<1>7. b \in T /\ \A k \in T : k <= b
  BY <1>2, <1>5, <1>6, Greatest
<1>8. b \in Nat
  BY <1>6, <1>7
<1>9. b # 0 => b \in DOMAIN Bands /\ ~Tripped(prev, Len(prev), b)
  BY <1>3, <1>4, <1>7
<1>10. ASSUME NEW i \in DOMAIN Bands, s.free < Bands[i], ~(b >= i)
       PROVE  Tripped(prev, Len(prev), i)
  <2>1. Tripped(cur, Len(cur), i)
    <3>1. Len(cur) \in 1..Len(cur) /\ \A j \in (Len(cur) + 1)..Len(cur) : FALSE
      BY <1>1
    <3> QED
      BY <1>1, <1>10, <3>1 DEF Tripped
  <2>2. i \notin C
    <3>1. i \in T => i <= b
      BY <1>7
    <3>2. i \in Nat
      BY <1>2
    <3> QED
      BY <1>8, <1>10, <3>1, <3>2
  <2> QED
    BY <1>3, <1>4, <2>1, <2>2
<1> QED
  BY <1>8, <1>9, <1>10

\* What a tick saw before its sample: samples appended, of its window, none of
\* its own time, in order.
Saw(w, t) ==
  /\ \A k \in DOMAIN t.prev : t.prev[k] \in w /\ t.prev[k].at >= t.s.at - Window /\ t.prev[k].at # t.s.at
  /\ \A j, k \in DOMAIN t.prev : j < k => t.prev[j].at <= t.prev[k].at
InTurn(w, t) == /\ \A x \in w : x.at >= t.s.at - Window /\ x.at < t.s.at => x \in H!ToSet(t.prev)
                /\ \A k \in DOMAIN t.prev : t.prev[k].at <= t.s.at
Begun == {p \in Ticker : tick[p].at # "idle"}

\* Nothing is in a file, or about to be, that was not appended.
Sound ==
  /\ \A i \in H!Inode : \A k \in DOMAIN disk[i] : H!Sample(disk[i][k]) => disk[i][k] \in written
  /\ \A p \in Ticker : \A k \in DOMAIN tick[p].keep : tick[p].keep[k] \in written
\* A sample is known by its time, and appended once its tick comes to report.
Timed ==
  /\ \A x \in written : x.at < clock
  /\ \A p, q \in Begun : p # q => tick[p].s.at # tick[q].s.at
  /\ \A p \in Begun, x \in written : x.at = tick[p].s.at => tick[p].at = "report" /\ x = tick[p].s
  /\ \A r \in told : r.s.at < clock /\ \A p \in Begun : r.s.at # tick[p].s.at
  /\ \A r \in told, x \in written : x.at = r.s.at => x = r.s
\* A report says what its tick saw.
Reported(r) ==
  /\ r.s \in Lines /\ r.prev \in Seq(Lines) /\ r.readable \in BOOLEAN
  /\ r.band = IF r.readable THEN H!Alert(r.prev, Append(r.prev, r.s)) ELSE H!NoBand
Tellings ==
  /\ \A p \in Ticker : Saw(written, tick[p])
  /\ \A r \in told : Reported(r) /\ Saw(written, r)
\* One process alone has the file to itself.
Alone ==
  /\ Begun \subseteq scene.tickers
  /\ ~H!Several =>
       /\ risked = {}
       /\ \A p \in Begun : tick[p].s.at = clock - 1
       /\ \A p \in Ticker : tick[p].at = "write" =>
            tick[p].fd = name /\ (disk[name] # <<>> /\ H!Last(disk[name]) = H!Cut => tick[p].fresh)
       /\ \A p \in Begun : tick[p].at # "prev" /\ tick[p].readable => InTurn(written, tick[p])
       /\ \A r \in H!Answered : InTurn(written, r)
TellInv == Sound /\ Timed /\ Tellings /\ Alone

\* Of lines, each has its time.
LEMMA LineTimes ==
  ASSUME NEW s \in Seq(Lines)
  PROVE  \A k \in DOMAIN s : s[k] \in Lines /\ s[k].at \in Int /\ s[k].free \in Int
<1>1. \A k \in DOMAIN s : s[k] \in Lines
  OBVIOUS
<1> QED
  BY <1>1 DEF Lines

\* In turn is not out of turn, and only where several tick is a report that.
LEMMA TurnIs ==
  ASSUME NEW t, InTurn(written, t), t.prev \in Seq(Lines), t.s.at \in Int
  PROVE  ~H!OutOfTurn(t)
<1>1. \A k \in DOMAIN t.prev : t.prev[k].at \in Int
  BY LineTimes
<1> QED
  BY <1>1 DEF InTurn, H!OutOfTurn

LEMMA OutMeansSeveral ==
  ASSUME TellInv, NEW r \in H!Answered, H!OutOfTurn(r)
  PROVE  H!Several
<1>1. r \in told /\ r.prev \in Seq(Lines) /\ r.s.at \in Int
  BY DEF H!Answered, TellInv, Tellings, Reported, Lines
<1> QED
  BY <1>1, TurnIs DEF TellInv, Alone

\* Under line i since x, up to r's reading.
Below(r, i) == {x \in written : x.free < Bands[i] /\ H!Since(r, x, i)}

\* A report that stays silent of a line it is under, in its turn, saw another
\* that was before it.
LEMMA SilentSaw ==
  ASSUME HistoryInv, TellInv, NEW r \in H!Answered, NEW i \in DOMAIN Bands,
         r.s.free < Bands[i], ~(r.band >= i), ~H!OutOfTurn(r)
  PROVE  \E k \in DOMAIN r.prev :
           /\ r.prev[k].free < Bands[i] /\ r.prev[k].at < r.s.at
           /\ \A j \in DOMAIN r.prev : r.prev[j].at > r.prev[k].at => r.prev[j].free < H!Rearm(Bands[i])
<1>1. r \in told /\ r.s \in Lines /\ r.prev \in Seq(Lines) /\ r.readable
      /\ r.band = H!Alert(r.prev, Append(r.prev, r.s)) /\ Saw(written, r)
  BY DEF H!Answered, TellInv, Tellings, Reported
<1>2. Tripped(r.prev, Len(r.prev), i)
  <2> DEFINE prev == r.prev  s == r.s  b == r.band
  <2>1. prev \in Seq(Lines) /\ s \in Lines /\ b = H!Alert(prev, Append(prev, s))
    BY <1>1
  <2>2. s.free < Bands[i] /\ ~(b >= i)
    OBVIOUS
  <2> HIDE DEF prev, s, b
  <2>3. Tripped(prev, Len(prev), i)
    BY <2>1, <2>2, AlertTells
  <2> QED
    BY <2>3 DEF prev
<1>3. Len(r.prev) \in Nat /\ DOMAIN r.prev = 1..Len(r.prev)
  BY <1>1
<1>4. PICK k \in DOMAIN r.prev : /\ r.prev[k].free < Bands[i]
                                 /\ \A j \in (k + 1)..Len(r.prev) : r.prev[j].free < H!Rearm(Bands[i])
  BY <1>2, <1>3 DEF Tripped
<1>5. \A j \in DOMAIN r.prev : r.prev[j].at \in Int
  BY <1>1, LineTimes
<1>6. r.s.at \in Int /\ r.prev[k].at # r.s.at /\ ~(r.prev[k].at > r.s.at)
  BY <1>1, <1>4 DEF Lines, Saw, H!OutOfTurn
<1>7. r.prev[k].at < r.s.at
  BY <1>4, <1>5, <1>6
<1>8. ASSUME NEW j \in DOMAIN r.prev, r.prev[j].at > r.prev[k].at
      PROVE  r.prev[j].free < H!Rearm(Bands[i])
  <2>1. ~(j < k) /\ j # k
    BY <1>1, <1>4, <1>5, <1>8 DEF Saw
  <2>2. j \in (k + 1)..Len(r.prev)
    BY <1>3, <2>1
  <2> QED
    BY <1>4, <2>2
<1> QED
  BY <1>4, <1>7, <1>8

\* Of the samples under the line since which it was not seen rearmed, the first
\* was told of, never reported, or reported out of turn.
LEMMA CrossingTold ==
  ASSUME HistoryInv, TellInv, NEW r \in H!Answered, NEW i \in DOMAIN Bands, r.s.free < Bands[i]
  PROVE  \/ r.band >= i
         \/ \E t \in told : t.band >= i /\ H!Since(r, t.s, i)
         \/ \E x \in H!Unsaid : x.free < Bands[i] /\ H!Since(r, x, i)
         \/ H!Several /\ \E t \in H!Answered : /\ t.s.free < Bands[i] /\ t.band < i
                                              /\ t.s.at <= r.s.at /\ H!OutOfTurn(t)
<1> SUFFICES ASSUME ~(r.band >= i),
                    ~\E t \in told : t.band >= i /\ H!Since(r, t.s, i),
                    ~\E x \in H!Unsaid : x.free < Bands[i] /\ H!Since(r, x, i),
                    \A t \in H!Answered : t.s.free < Bands[i] /\ t.band < i /\ t.s.at <= r.s.at =>
                      ~H!OutOfTurn(t)
             PROVE  FALSE
  BY OutMeansSeveral
<1>1. \A t \in H!Answered : /\ t \in told /\ t.s \in Lines /\ t.s.at \in Int /\ t.s.free \in Int
                            /\ t.prev \in Seq(Lines) /\ Saw(written, t) /\ t.band \in Nat
  <2> TAKE t \in H!Answered
  <2>1. t \in told /\ Reported(t) /\ Saw(written, t) /\ t.readable
    BY DEF H!Answered, TellInv, Tellings
  <2>2. t.s \in Lines /\ t.prev \in Seq(Lines) /\ t.band = H!Alert(t.prev, Append(t.prev, t.s))
    BY <2>1 DEF Reported
  <2>3. t.band \in Nat
    BY <2>2, AlertTells
  <2> QED
    BY <2>1, <2>2, <2>3 DEF Lines
<1>2. i \in Nat /\ Bands[i] \in Nat /\ H!Rearm(Bands[i]) \in Nat /\ Bands[i] <= H!Rearm(Bands[i])
  BY MachineAssumption, RearmsAbove
<1>3. \A x \in written : x \in Lines /\ x.at \in Nat /\ x.free \in Int
  BY DEF HistoryInv, HistoryTyped, Lines
<1>4. \A t \in H!Answered : t.s.free < Bands[i] /\ ~(t.band >= i) /\ t.s.at <= r.s.at =>
        \E y \in written : /\ y.free < Bands[i] /\ y.at < t.s.at /\ y.at >= t.s.at - Window
                           /\ \A j \in DOMAIN t.prev : t.prev[j].at > y.at => t.prev[j].free < H!Rearm(Bands[i])
  <2> SUFFICES ASSUME NEW t \in H!Answered, t.s.free < Bands[i], ~(t.band >= i), t.s.at <= r.s.at
               PROVE  \E y \in written : /\ y.free < Bands[i] /\ y.at < t.s.at /\ y.at >= t.s.at - Window
                        /\ \A j \in DOMAIN t.prev : t.prev[j].at > y.at => t.prev[j].free < H!Rearm(Bands[i])
    OBVIOUS
  <2>1. t.band < i
    BY <1>1, <1>2
  <2>2. ~H!OutOfTurn(t)
    BY <2>1
  <2>3. PICK k \in DOMAIN t.prev :
           /\ t.prev[k].free < Bands[i] /\ t.prev[k].at < t.s.at
           /\ \A j \in DOMAIN t.prev : t.prev[j].at > t.prev[k].at => t.prev[j].free < H!Rearm(Bands[i])
    BY <2>2, SilentSaw
  <2>4. t.prev[k] \in written /\ t.prev[k].at >= t.s.at - Window
    BY <1>1, <2>3 DEF Saw
  <2> QED
    BY <2>3, <2>4
<1> DEFINE W == Below(r, i)  T == {x.at : x \in W}
<1>5. W # {}
  <2>1. r.s.at <= r.s.at
    BY <1>1
  <2>2. PICK y \in written : /\ y.free < Bands[i] /\ y.at < r.s.at
                             /\ \A j \in DOMAIN r.prev : r.prev[j].at > y.at => r.prev[j].free < H!Rearm(Bands[i])
    BY <1>4, <2>1
  <2>3. H!Since(r, y, i)
    BY <1>1, <1>3, <2>2 DEF H!Since
  <2> QED
    BY <2>2, <2>3 DEF Below
<1>6. PICK x \in W : \A y \in W : x.at <= y.at
  <2>1. T \subseteq Nat /\ T # {}
    BY <1>3, <1>5 DEF Below
  <2> HIDE DEF T, W
  <2>2. PICK n \in T : \A m \in T : n <= m
    BY <2>1, Least
  <2> QED
    BY <2>2 DEF T
<1>7. x \in written /\ x.free < Bands[i] /\ H!Since(r, x, i) /\ x.at \in Nat /\ x.at <= r.s.at
  BY <1>3, <1>6 DEF Below, H!Since
<1>8. PICK t \in H!Answered : t.s = x
  BY <1>7 DEF H!Unsaid
<1>9. ~(t.band >= i)
  BY <1>1, <1>7, <1>8
<1>10. PICK y \in written : /\ y.free < Bands[i] /\ y.at < x.at /\ y.at >= x.at - Window
                            /\ \A j \in DOMAIN t.prev : t.prev[j].at > y.at => t.prev[j].free < H!Rearm(Bands[i])
  BY <1>4, <1>7, <1>8, <1>9
<1>11. ~H!OutOfTurn(t)
  BY <1>1, <1>2, <1>7, <1>8, <1>9
<1>12. ASSUME NEW j \in DOMAIN r.prev, r.prev[j].at > y.at
       PROVE  r.prev[j].free < H!Rearm(Bands[i])
  <2> DEFINE z == r.prev[j]
  <2>1. z \in written /\ z.at \in Nat /\ y.at \in Nat /\ z.free \in Int
    BY <1>1, <1>3 DEF Saw
  <2>2. CASE z.at > x.at
    BY <1>7, <2>2 DEF H!Since
  <2>3. CASE z.at = x.at
    <3>1. t \in told /\ z.at = t.s.at
      BY <1>1, <1>8, <2>3
    <3>2. z = x
      BY <1>8, <2>1, <3>1 DEF TellInv, Timed
    <3>3. z.free < Bands[i]
      BY <1>7, <3>2
    <3> HIDE DEF z
    <3>4. z.free < H!Rearm(Bands[i])
      BY <1>2, <2>1, <3>3
    <3> QED
      BY <3>4 DEF z
  <2>4. CASE z.at < x.at
    <3>1. z.at >= x.at - Window
      BY <1>7, <1>10, <1>12, <2>1, MachineAssumption
    <3>2. z \in H!ToSet(t.prev)
      BY <1>8, <1>11, <2>1, <2>4, <3>1 DEF H!OutOfTurn
    <3>3. PICK k \in DOMAIN t.prev : z = t.prev[k]
      BY <3>2 DEF H!ToSet
    <3> QED
      BY <1>10, <1>12, <3>3
  <2> QED
    BY <1>7, <2>1, <2>2, <2>3, <2>4
<1>13. y \in W
  <2>1. y.at <= r.s.at
    BY <1>1, <1>3, <1>7, <1>10
  <2>2. H!Since(r, y, i)
    BY <1>12, <2>1 DEF H!Since
  <2> QED
    BY <1>10, <2>2 DEF Below
<1> HIDE DEF W
<1> QED
  BY <1>3, <1>6, <1>7, <1>10, <1>13

\* What a report tells of, it had not seen tripped.
LEMMA ToldOnce ==
  ASSUME TellInv, NEW r \in told, r.band # H!NoBand, NEW k \in DOMAIN r.prev,
         r.prev[k].free < Bands[r.band]
  PROVE  \E j \in k..Len(r.prev) : r.prev[j].free >= H!Rearm(Bands[r.band])
<1> DEFINE prev == r.prev  s == r.s  b == r.band
<1>1. prev \in Seq(Lines) /\ s \in Lines /\ b = H!Alert(prev, Append(prev, s)) /\ b # 0
  BY DEF TellInv, Tellings, Reported, H!NoBand
<1>2. k \in DOMAIN prev /\ prev[k].free < Bands[b]
  OBVIOUS
<1> SUFFICES \E j \in k..Len(prev) : prev[j].free >= H!Rearm(Bands[b])
  OBVIOUS
<1> HIDE DEF prev, s, b
<1>3. b \in DOMAIN Bands /\ ~Tripped(prev, Len(prev), b)
  BY <1>1, AlertTells
<1>4. Len(prev) \in Nat /\ DOMAIN prev = 1..Len(prev)
  BY <1>1
<1>5. PICK j \in (k + 1)..Len(prev) : ~(prev[j].free < H!Rearm(Bands[b]))
  BY <1>2, <1>3, <1>4 DEF Tripped
<1>6. j \in k..Len(prev) /\ j \in DOMAIN prev
  BY <1>2, <1>4
<1>7. prev[j].free \in Int /\ H!Rearm(Bands[b]) \in Nat
  BY <1>1, <1>3, <1>6, LineTimes, RearmsAbove
<1>8. prev[j].free >= H!Rearm(Bands[b])
  BY <1>5, <1>7
<1> QED
  BY <1>6, <1>8

\* So the invariant tells what is promised.
LEMMA TellHolds ==
  ASSUME HistoryInv, TellInv
  PROVE  H!CrossingsTold
<1>1. \A r \in H!Answered, i \in DOMAIN Bands : r.s.free < Bands[i] =>
         \/ r.band >= i
         \/ \E t \in told : t.band >= i /\ H!Since(r, t.s, i)
         \/ \E x \in H!Unsaid : x.free < Bands[i] /\ H!Since(r, x, i)
         \/ H!Several /\ \E t \in H!Answered : /\ t.s.free < Bands[i] /\ t.band < i
                                              /\ t.s.at <= r.s.at /\ H!OutOfTurn(t)
  BY CrossingTold
<1>2. \A r \in told : r.band # H!NoBand =>
        \A k \in DOMAIN r.prev : r.prev[k].free < Bands[r.band] =>
          \E j \in k..Len(r.prev) : r.prev[j].free >= H!Rearm(Bands[r.band])
  BY ToldOnce
<1> QED
  BY <1>1, <1>2 DEF H!CrossingsTold

\* The tick that step is of.
LEMMA TickGoes ==
  ASSUME HistoryInv, NEW p \in Ticker, NEW t, tick' = [tick EXCEPT ![p] = t]
  PROVE  /\ \A q \in Ticker : tick'[q] = IF q = p THEN t ELSE tick[q]
         /\ Begun' = IF t.at = "idle" THEN Begun \ {p} ELSE Begun \cup {p}
<1>1. tick \in [Ticker -> Ticks]
  BY DEF HistoryInv, HistoryTyped
<1>2. \A q \in Ticker : tick'[q] = IF q = p THEN t ELSE tick[q]
  BY <1>1
<1> QED
  BY <1>2 DEF Begun

\* A step that leaves a tick alone with the file as it should,
LEMMA AloneStays ==
  ASSUME HistoryInv, TellInv, NEW p \in Ticker, p \in scene.tickers, NEW t,
         tick' = [tick EXCEPT ![p] = t], scene' = scene,
         ~H!Several =>
           /\ risked' = {}
           /\ t.at # "idle" => t.s.at = clock' - 1
           /\ t.at = "write" =>
                t.fd = name' /\ (disk'[name'] # <<>> /\ H!Last(disk'[name']) = H!Cut => t.fresh)
           /\ t.at \notin {"idle", "prev"} /\ t.readable => InTurn(written', t)
           /\ \A r \in told' : r.readable => InTurn(written', r)
  PROVE  Alone'
<1>1. \A q \in Ticker : tick'[q] = IF q = p THEN t ELSE tick[q]
  <2>1. tick \in [Ticker -> Ticks]
    BY DEF HistoryInv, HistoryTyped
  <2> QED
    BY <2>1
<1>2. Begun' \subseteq scene'.tickers
  <2>1. Begun \subseteq scene.tickers
    BY DEF TellInv, Alone
  <2>2. \A q \in Begun' : q \in Begun \cup {p}
    BY <1>1 DEF Begun
  <2> QED
    BY <2>1, <2>2
<1>3. H!Several' = H!Several
  BY DEF H!Several
<1>4. ASSUME ~H!Several
      PROVE  \A q \in Begun' : q = p
  BY <1>2, <1>4 DEF H!Several
<1>5. \A q \in Ticker : q \in Begun' <=> tick'[q].at # "idle"
  BY DEF Begun
<1>6. H!Answered' = {r \in told' : r.readable}
  BY DEF H!Answered
<1>7. ASSUME ~H!Several
      PROVE  /\ \A q \in Begun' : tick'[q].s.at = clock' - 1
             /\ \A q \in Ticker : tick'[q].at = "write" =>
                  tick'[q].fd = name' /\ (disk'[name'] # <<>> /\ H!Last(disk'[name']) = H!Cut => tick'[q].fresh)
             /\ \A q \in Begun' : tick'[q].at # "prev" /\ tick'[q].readable => InTurn(written', tick'[q])
  <2>1. \A q \in Ticker : tick'[q].at # "idle" => q = p /\ tick'[q] = t
    BY <1>1, <1>4, <1>5, <1>7
  <2>2. \A q \in Begun' : q \in Ticker /\ tick'[q].at # "idle"
    BY DEF Begun
  <2> QED
    BY <1>7, <2>1, <2>2
<1> QED
  BY <1>2, <1>3, <1>6, <1>7 DEF Alone

\* and with what it has seen.
LEMMA SeenStays ==
  ASSUME HistoryInv, TellInv, NEW p \in Ticker, NEW t, tick' = [tick EXCEPT ![p] = t],
         told' = told, written \subseteq written', Saw(written', t)
  PROVE  Tellings'
<1>1. \A q \in Ticker : tick'[q] = IF q = p THEN t ELSE tick[q]
  <2>1. tick \in [Ticker -> Ticks]
    BY DEF HistoryInv, HistoryTyped
  <2> QED
    BY <2>1
<1>2. \A r : Saw(written, r) => Saw(written', r)
  BY DEF Saw
<1>3. \A q \in Ticker : Saw(written', tick'[q])
  BY <1>1, <1>2 DEF TellInv, Tellings
<1>4. \A r \in told' : Reported(r) /\ Saw(written', r)
  BY <1>2 DEF TellInv, Tellings
<1> QED
  BY <1>3, <1>4 DEF Tellings, Reported

\* A step of a tick under way that appends nothing and reports nothing.
LEMMA TickTells ==
  ASSUME HistoryInv, TellInv, NEW p \in Ticker, tick[p].at # "idle", NEW t,
         tick' = [tick EXCEPT ![p] = t], UNCHANGED <<scene, clock, written, told>>,
         t.at = "idle" \/ (t.s = tick[p].s /\ (t.at = "report" <=> tick[p].at = "report")),
         Saw(written, t), Sound',
         ~H!Several =>
           /\ risked' = {}
           /\ t.at = "write" =>
                t.fd = name' /\ (disk'[name'] # <<>> /\ H!Last(disk'[name']) = H!Cut => t.fresh)
           /\ t.at \notin {"idle", "prev"} /\ t.readable => InTurn(written, t)
  PROVE  TellInv'
<1>1. \A q \in Ticker : tick'[q] = IF q = p THEN t ELSE tick[q]
  <2>1. tick \in [Ticker -> Ticks]
    BY DEF HistoryInv, HistoryTyped
  <2> QED
    BY <2>1
<1>2. p \in Begun /\ p \in scene.tickers
  BY DEF Begun, TellInv, Alone
<1>3. Begun' \subseteq Begun
  BY <1>2, TickGoes
<1>4. \A q \in Begun' : q \in Ticker /\ tick'[q].s = tick[q].s
                        /\ (tick'[q].at = "report" <=> tick[q].at = "report")
  <2> TAKE q \in Begun'
  <2>1. q \in Ticker /\ tick'[q].at # "idle"
    BY DEF Begun
  <2> QED
    BY <1>1, <2>1
<1>5. Timed'
  <2>1. \A x \in written' : x.at < clock'
    BY DEF TellInv, Timed
  <2>2. \A q, o \in Begun' : q # o => tick'[q].s.at # tick'[o].s.at
    BY <1>3, <1>4 DEF TellInv, Timed
  <2>3. \A q \in Begun', x \in written' : x.at = tick'[q].s.at => tick'[q].at = "report" /\ x = tick'[q].s
    BY <1>3, <1>4 DEF TellInv, Timed
  <2>4. \A r \in told' : r.s.at < clock' /\ \A q \in Begun' : r.s.at # tick'[q].s.at
    BY <1>3, <1>4 DEF TellInv, Timed
  <2>5. \A r \in told', x \in written' : x.at = r.s.at => x = r.s
    BY DEF TellInv, Timed
  <2> QED
    BY <2>1, <2>2, <2>3, <2>4, <2>5 DEF Timed
<1>6. Tellings'
  BY SeenStays, Zenon
<1>7. ~H!Several =>
           /\ risked' = {}
           /\ t.at # "idle" => t.s.at = clock' - 1
           /\ t.at = "write" =>
                t.fd = name' /\ (disk'[name'] # <<>> /\ H!Last(disk'[name']) = H!Cut => t.fresh)
           /\ t.at \notin {"idle", "prev"} /\ t.readable => InTurn(written', t)
           /\ \A r \in told' : r.readable => InTurn(written', r)
  <2>1. ASSUME ~H!Several
        PROVE  tick[p].s.at = clock - 1 /\ \A r \in told : r.readable => InTurn(written, r)
    BY <1>2, <2>1 DEF TellInv, Alone, H!Answered
  <2> QED
    BY <2>1
<1>8. Alone'
  BY <1>2, <1>7, AloneStays, Zenon
<1> QED
  BY <1>5, <1>6, <1>8 DEF TellInv

\* What a tick reads from a file was appended.
LEMMA TailSound ==
  ASSUME HistoryInv, TellInv, NEW since
  PROVE  \A k \in DOMAIN H!TailOf(disk[name], since) :
           LET x == H!TailOf(disk[name], since)[k] IN x \in written /\ x.at >= since
<1> DEFINE s == H!TailOf(disk[name], since)
<1>1. disk[name] \in Seq(Lines) /\ name \in H!Inode
  BY DEF HistoryInv, HistoryTyped
<1>2. TailIs(disk[name], since, s)
  BY <1>1, Tails, Zenon
<1> HIDE DEF s
<1>3. \A k \in DOMAIN s : s[k] \in written /\ s[k].at >= since
  <2> TAKE k \in DOMAIN s
  <2>1. PICK i \in DOMAIN disk[name] : s[k] = disk[name][i] /\ H!Sample(disk[name][i]) /\ disk[name][i].at >= since
    BY <1>2 DEF TailIs
  <2> QED
    BY <1>1, <2>1 DEF TellInv, Sound
<1> QED
  BY <1>3 DEF s

\* A step that leaves the files as they are, or one that changes one, leaves in
\* them only what was appended.
LEMMA SoundStays ==
  ASSUME HistoryInv, TellInv, NEW p \in Ticker, NEW t, tick' = [tick EXCEPT ![p] = t],
         disk' = disk, written' = written, \A k \in DOMAIN t.keep : t.keep[k] \in written
  PROVE  Sound'
<1>1. \A q \in Ticker : tick'[q] = IF q = p THEN t ELSE tick[q]
  <2>1. tick \in [Ticker -> Ticks]
    BY DEF HistoryInv, HistoryTyped
  <2> QED
    BY <2>1
<1>2. \A q \in Ticker : \A k \in DOMAIN tick'[q].keep : tick'[q].keep[k] \in written'
  BY <1>1 DEF TellInv, Sound
<1>3. \A i \in H!Inode : \A k \in DOMAIN disk'[i] : H!Sample(disk'[i][k]) => disk'[i][k] \in written'
  BY DEF TellInv, Sound
<1> QED
  BY <1>2, <1>3 DEF Sound, H!Sample

\* A tick alone sees, of its window, all that was appended before it.
LEMMA SeesAll ==
  ASSUME HistoryInv, TellInv, NEW p \in Begun, ~H!Several, NEW x \in written,
         x.at >= tick[p].s.at - Window
  PROVE  x \in H!ToSet(H!TailOf(disk[name], tick[p].s.at - Window))
<1> DEFINE since == tick[p].s.at - Window
<1>1. risked = {} /\ tick[p].s.at = clock - 1
  BY DEF TellInv, Alone
<1>2. x.at \in Int /\ x.at >= 0 /\ clock \in Nat /\ disk[name] \in Seq(Lines)
  BY DEF HistoryInv, HistoryTyped, Lines
<1>3. x.at >= clock - 1 - Retention
  BY <1>1, <1>2, MachineAssumption
<1>4. x \in Due
  BY <1>1, <1>3 DEF Due
<1>5. PICK i \in DOMAIN disk[name] : x = disk[name][i]
  BY <1>4 DEF HistoryInv, InFile, H!ToSet
<1>6. H!Sample(disk[name][i]) /\ disk[name][i].at >= since
  BY <1>2, <1>5 DEF H!Sample
<1> HIDE DEF since
<1>7. disk[name][i] \in H!ToSet(H!TailOf(disk[name], since))
  BY <1>2, <1>6, TailHolds, Zenon
<1> QED
  BY <1>5, <1>7 DEF since

\* The steps of a tick before it appends,
LEMMA ReadPrevTells ==
  ASSUME HistoryInv, TellInv, NEW p \in Ticker, H!ReadPrev(p)
  PROVE  TellInv'
<1>1. tick[p] \in Ticks /\ tick[p].at = "prev" /\ tick[p].at # "idle" /\ p \in Begun
  BY DEF HistoryInv, HistoryTyped, H!ReadPrev, Begun
<1>2. PICK ok \in BOOLEAN : tick' = [tick EXCEPT ![p].at = "compact", ![p].readable = ok,
             ![p].prev = IF ok THEN H!TailOf(disk[name], tick[p].s.at - Window) ELSE <<>>]
  BY DEF H!ReadPrev
<1> DEFINE since == tick[p].s.at - Window  tail == H!TailOf(disk[name], since)
           prev == IF ok THEN tail ELSE <<>>
           t == [tick[p] EXCEPT !.at = "compact", !.readable = ok, !.prev = prev]
<1>3. tick' = [tick EXCEPT ![p] = t]
  BY <1>2 DEF HistoryInv, HistoryTyped
<1>4. UNCHANGED <<scene, clock, disk, name, tmp, written, risked, told>>
  BY DEF H!ReadPrev
<1>5. disk[name] \in Seq(Lines) /\ clock \in Nat /\ tick[p].s.at \in Int
  BY <1>1 DEF HistoryInv, HistoryTyped, Ticks, Lines
<1>6. TailIs(disk[name], since, tail)
  <2> HIDE DEF since
  <2> QED
    BY <1>5, Tails, Zenon
<1>7. \A k \in DOMAIN tail : tail[k] \in written /\ tail[k].at >= since
  BY TailSound
<1>8. ~H!Several => \A x \in written : x.at >= since => x \in H!ToSet(tail)
  BY <1>1, SeesAll
<1>9. \A x \in written : x.at # tick[p].s.at /\ x.at < clock /\ x.at \in Int
  BY <1>1 DEF TellInv, Timed, HistoryInv, HistoryTyped, Lines
<1>10. ~H!Several => tick[p].s.at = clock - 1
  BY <1>1 DEF TellInv, Alone
<1> HIDE DEF tail
<1>11. t.s = tick[p].s /\ t.at = "compact" /\ t.keep = tick[p].keep /\ t.prev = prev /\ t.readable = ok
  BY <1>1 DEF Ticks
<1> HIDE DEF t
<1>12. Saw(written, t)
  <2>1. \A j, k \in DOMAIN tail : j < k => tail[j].at <= tail[k].at
    BY <1>6 DEF TailIs
  <2>2. CASE ok
    BY <1>7, <1>9, <1>11, <2>1, <2>2 DEF Saw
  <2>3. CASE ~ok
    BY <1>11, <2>3 DEF Saw
  <2> QED
    BY <2>2, <2>3
<1>13. ~H!Several /\ t.readable => InTurn(written, t)
  <2> SUFFICES ASSUME ~H!Several, ok PROVE InTurn(written, t)
    BY <1>11
  <2>1. \A k \in DOMAIN tail : tail[k].at <= tick[p].s.at
    BY <1>5, <1>7, <1>9, <1>10
  <2> QED
    BY <1>8, <1>11, <2>1 DEF InTurn
<1>14. \A k \in DOMAIN t.keep : t.keep[k] \in written
  BY <1>11 DEF TellInv, Sound
<1>15. Sound'
  BY <1>3, <1>4, <1>14, SoundStays, Zenon
<1>16. ~H!Several =>
           /\ risked' = {}
           /\ t.at = "write" =>
                t.fd = name' /\ (disk'[name'] # <<>> /\ H!Last(disk'[name']) = H!Cut => t.fresh)
           /\ t.at \notin {"idle", "prev"} /\ t.readable => InTurn(written, t)
  BY <1>4, <1>11, <1>13 DEF TellInv, Alone
<1>17. t.at = "idle" \/ (t.s = tick[p].s /\ (t.at = "report" <=> tick[p].at = "report"))
  BY <1>1, <1>11
<1>18. UNCHANGED <<scene, clock, written, told>>
  BY <1>4
<1> QED
  BY <1>1, <1>3, <1>12, <1>15, <1>16, <1>17, <1>18, TickTells, Zenon

\* A step between reading and appending.
LEMMA QuietTells ==
  ASSUME HistoryInv, TellInv, NEW p \in Ticker, tick[p].at \notin {"idle", "prev", "report"}, NEW t,
         tick' = [tick EXCEPT ![p] = t], UNCHANGED <<scene, clock, written, told>>,
         t.at # "report", t.s = tick[p].s, t.prev = tick[p].prev, t.readable = tick[p].readable,
         Sound',
         ~H!Several =>
           /\ risked' = {}
           /\ t.at = "write" =>
                t.fd = name' /\ (disk'[name'] # <<>> /\ H!Last(disk'[name']) = H!Cut => t.fresh)
  PROVE  TellInv'
<1>1. tick[p].at # "idle" /\ p \in Begun
  BY DEF Begun
<1>2. Saw(written, t)
  <2>1. Saw(written, tick[p])
    BY DEF TellInv, Tellings
  <2> QED
    BY <2>1 DEF Saw
<1>3. ~H!Several /\ t.readable => InTurn(written, t)
  <2> SUFFICES ASSUME ~H!Several, t.readable PROVE InTurn(written, t)
    OBVIOUS
  <2>1. InTurn(written, tick[p])
    BY <1>1 DEF TellInv, Alone
  <2> QED
    BY <2>1 DEF InTurn
<1>4. ~H!Several =>
           /\ risked' = {}
           /\ t.at = "write" =>
                t.fd = name' /\ (disk'[name'] # <<>> /\ H!Last(disk'[name']) = H!Cut => t.fresh)
           /\ t.at \notin {"idle", "prev"} /\ t.readable => InTurn(written, t)
  BY <1>3
<1>5. t.at = "idle" \/ (t.s = tick[p].s /\ (t.at = "report" <=> tick[p].at = "report"))
  OBVIOUS
<1> QED
  BY <1>1, <1>2, <1>4, <1>5, TickTells, Zenon

\* A tick alone has no other beside it.
LEMMA Single ==
  ASSUME TellInv, ~H!Several, NEW p \in Begun, NEW q \in Ticker \ {p}
  PROVE  tick[q].at = "idle"
<1>1. \A x, y \in scene.tickers : x = y
  BY DEF H!Several
<1> QED
  BY <1>1 DEF TellInv, Alone, Begun

LEMMA CompactTells ==
  ASSUME HistoryInv, TellInv, NEW p \in Ticker, H!Compact(p)
  PROVE  TellInv'
<1> DEFINE cutoff == tick[p].s.at - Retention  keep == H!TailOf(disk[name], cutoff)
<1>1. tick[p] \in Ticks /\ tick[p].at = "compact" /\ tick \in [Ticker -> Ticks]
  BY DEF HistoryInv, HistoryTyped, H!Compact
<1>2. UNCHANGED <<scene, clock, disk, name, tmp, written, risked, told>>
  BY DEF H!Compact
<1>3. \A k \in DOMAIN keep : keep[k] \in written
  <2> HIDE DEF cutoff
  <2> QED
    BY TailSound
<1>4. \/ tick' = [tick EXCEPT ![p].at = "create", ![p].keep = keep]
      \/ tick' = [tick EXCEPT ![p].at = "open"]
  BY DEF H!Compact, H!At
<1> HIDE DEF keep
<1>5. \E t : /\ tick' = [tick EXCEPT ![p] = t] /\ t.at \in {"create", "open"}
             /\ t.s = tick[p].s /\ t.prev = tick[p].prev /\ t.readable = tick[p].readable
             /\ t.keep \in {keep, tick[p].keep}
  <2>1. CASE tick' = [tick EXCEPT ![p].at = "create", ![p].keep = keep]
    <3> DEFINE t == [tick[p] EXCEPT !.at = "create", !.keep = keep]
    <3>1. tick' = [tick EXCEPT ![p] = t]
      BY <1>1, <2>1
    <3>2. /\ t.at \in {"create", "open"} /\ t.s = tick[p].s /\ t.prev = tick[p].prev
          /\ t.readable = tick[p].readable /\ t.keep \in {keep, tick[p].keep}
      BY <1>1 DEF Ticks
    <3> QED
      BY <3>1, <3>2
  <2>2. CASE tick' = [tick EXCEPT ![p].at = "open"]
    <3> DEFINE t == [tick[p] EXCEPT !.at = "open"]
    <3>1. tick' = [tick EXCEPT ![p] = t]
      BY <1>1, <2>2
    <3>2. /\ t.at \in {"create", "open"} /\ t.s = tick[p].s /\ t.prev = tick[p].prev
          /\ t.readable = tick[p].readable /\ t.keep \in {keep, tick[p].keep}
      BY <1>1 DEF Ticks
    <3> QED
      BY <3>1, <3>2
  <2> QED
    BY <1>4, <2>1, <2>2
<1>6. PICK t : /\ tick' = [tick EXCEPT ![p] = t] /\ t.at \in {"create", "open"}
               /\ t.s = tick[p].s /\ t.prev = tick[p].prev /\ t.readable = tick[p].readable
               /\ t.keep \in {keep, tick[p].keep}
  BY <1>5
<1>7. \A k \in DOMAIN t.keep : t.keep[k] \in written
  BY <1>3, <1>6 DEF TellInv, Sound
<1>8. disk' = disk /\ written' = written /\ UNCHANGED <<scene, clock, written, told>>
  BY <1>2
<1>9. Sound'
  BY <1>6, <1>7, <1>8, SoundStays, Zenon
<1>10. ~H!Several =>
           /\ risked' = {}
           /\ t.at = "write" =>
                t.fd = name' /\ (disk'[name'] # <<>> /\ H!Last(disk'[name']) = H!Cut => t.fresh)
  BY <1>2, <1>6 DEF TellInv, Alone
<1>11. tick[p].at \notin {"idle", "prev", "report"} /\ t.at # "report"
  BY <1>1, <1>6
<1> QED
  BY <1>6, <1>8, <1>9, <1>10, <1>11, QuietTells, Zenon

LEMMA RenameTells ==
  ASSUME HistoryInv, TellInv, NEW p \in Ticker, H!Rename(p)
  PROVE  TellInv'
<1> DEFINE t == [tick[p] EXCEPT !.at = "open"]
<1>1. tick[p] \in Ticks /\ tick[p].at = "rename" /\ tick \in [Ticker -> Ticks]
  BY DEF HistoryInv, HistoryTyped, H!Rename
<1>2. UNCHANGED <<scene, clock, disk, written, risked, told>>
  BY DEF H!Rename
<1>3. tick' = [tick EXCEPT ![p] = t]
  BY <1>1 DEF H!Rename, H!At
<1>4. /\ t.at = "open" /\ t.s = tick[p].s /\ t.prev = tick[p].prev
      /\ t.readable = tick[p].readable /\ t.keep = tick[p].keep
  BY <1>1 DEF Ticks
<1> HIDE DEF t
<1>5. \A k \in DOMAIN t.keep : t.keep[k] \in written
  BY <1>4 DEF TellInv, Sound
<1>6. disk' = disk /\ written' = written /\ UNCHANGED <<scene, clock, written, told>>
  BY <1>2
<1>7. Sound'
  BY <1>3, <1>5, <1>6, SoundStays, Zenon
<1>8. ~H!Several =>
           /\ risked' = {}
           /\ t.at = "write" =>
                t.fd = name' /\ (disk'[name'] # <<>> /\ H!Last(disk'[name']) = H!Cut => t.fresh)
  BY <1>2, <1>4 DEF TellInv, Alone
<1>9. tick[p].at \notin {"idle", "prev", "report"} /\ t.at # "report"
  BY <1>1, <1>4
<1> QED
  BY <1>3, <1>4, <1>6, <1>7, <1>8, <1>9, QuietTells, Zenon

LEMMA ToWriteTells ==
  ASSUME HistoryInv, TellInv, NEW p \in Ticker, H!OpenToAppend(p)
  PROVE  TellInv'
<1> DEFINE cut == disk[name] # <<>> /\ H!Last(disk[name]) = H!Cut
           t == [tick[p] EXCEPT !.at = "write", !.fd = name, !.fresh = cut]
<1>1. tick[p] \in Ticks /\ tick[p].at = "open" /\ tick \in [Ticker -> Ticks]
  BY DEF HistoryInv, HistoryTyped, H!OpenToAppend
<1>2. UNCHANGED <<scene, clock, disk, name, written, risked, told>>
  BY DEF H!OpenToAppend
<1>3. tick' = [tick EXCEPT ![p].at = "write", ![p].fd = name, ![p].fresh = cut]
  BY DEF H!OpenToAppend
<1>4. cut \in BOOLEAN /\ (disk'[name'] # <<>> /\ H!Last(disk'[name']) = H!Cut => cut)
  BY <1>2
<1> HIDE DEF cut
<1>5. tick' = [tick EXCEPT ![p] = t]
  BY <1>1, <1>3
<1>6. /\ t.at = "write" /\ t.s = tick[p].s /\ t.prev = tick[p].prev /\ t.fd = name /\ t.fresh = cut
      /\ t.readable = tick[p].readable /\ t.keep = tick[p].keep
  BY <1>1 DEF Ticks
<1> HIDE DEF t
<1>7. \A k \in DOMAIN t.keep : t.keep[k] \in written
  BY <1>6 DEF TellInv, Sound
<1>8. disk' = disk /\ written' = written /\ UNCHANGED <<scene, clock, written, told>>
  BY <1>2
<1>9. Sound'
  BY <1>5, <1>7, <1>8, SoundStays, Zenon
<1>10. ~H!Several =>
           /\ risked' = {}
           /\ t.at = "write" =>
                t.fd = name' /\ (disk'[name'] # <<>> /\ H!Last(disk'[name']) = H!Cut => t.fresh)
  BY <1>2, <1>4, <1>6 DEF TellInv, Alone
<1>11. tick[p].at \notin {"idle", "prev", "report"} /\ t.at # "report"
  BY <1>1, <1>6
<1> QED
  BY <1>5, <1>6, <1>8, <1>9, <1>10, <1>11, QuietTells, Zenon

LEMMA SoundGrows ==
  ASSUME HistoryInv, TellInv, NEW p \in Ticker, NEW t, tick' = [tick EXCEPT ![p] = t],
         NEW i, NEW lines, disk' = [disk EXCEPT ![i] = lines], written \subseteq written',
         \A k \in DOMAIN lines : H!Sample(lines[k]) => lines[k] \in written',
         \A k \in DOMAIN t.keep : t.keep[k] \in written
  PROVE  Sound'
<1>1. \A q \in Ticker : tick'[q] = IF q = p THEN t ELSE tick[q]
  <2>1. tick \in [Ticker -> Ticks]
    BY DEF HistoryInv, HistoryTyped
  <2> QED
    BY <2>1
<1>2. \A q \in Ticker : \A k \in DOMAIN tick'[q].keep : tick'[q].keep[k] \in written'
  BY <1>1 DEF TellInv, Sound
<1>3. \A j \in H!Inode : disk'[j] = IF j = i THEN lines ELSE disk[j]
  BY DEF HistoryInv, HistoryTyped
<1>4. \A j \in H!Inode : \A k \in DOMAIN disk'[j] : H!Sample(disk'[j][k]) => disk'[j][k] \in written'
  BY <1>3 DEF TellInv, Sound
<1> QED
  BY <1>2, <1>4 DEF Sound, H!Sample

\* those that write the .tmp, and a kill,
LEMMA CreateTells ==
  ASSUME HistoryInv, TellInv, NEW p \in Ticker, H!CreateTmp(p)
  PROVE  TellInv'
<1> DEFINE i == IF tmp = 0 THEN H!NewInode ELSE tmp
           t == [tick[p] EXCEPT !.at = "fill", !.fd = i]
<1>1. tick[p] \in Ticks /\ tick[p].at = "create" /\ tick \in [Ticker -> Ticks]
  BY DEF HistoryInv, HistoryTyped, H!CreateTmp
<1>2. /\ disk' = [disk EXCEPT ![i] = <<>>] /\ written' = written
      /\ tick' = [tick EXCEPT ![p].at = "fill", ![p].fd = i]
      /\ UNCHANGED <<scene, clock, written, told>>
      /\ risked' = IF \E q \in Ticker \ {p} : H!Rewriting(q) THEN written ELSE risked
  BY DEF H!CreateTmp
<1> HIDE DEF i
<1>3. tick' = [tick EXCEPT ![p] = t]
  BY <1>1, <1>2
<1>4. /\ t.at = "fill" /\ t.s = tick[p].s /\ t.prev = tick[p].prev
      /\ t.readable = tick[p].readable /\ t.keep = tick[p].keep
  BY <1>1 DEF Ticks
<1> HIDE DEF t
<1>5. \A k \in DOMAIN t.keep : t.keep[k] \in written
  BY <1>4 DEF TellInv, Sound
<1>6. Sound'
  <2> DEFINE none == <<>>
  <2>1. \A k \in DOMAIN none : H!Sample(none[k]) => none[k] \in written'
    OBVIOUS
  <2>2. disk' = [disk EXCEPT ![i] = none] /\ written \subseteq written'
    BY <1>2
  <2> HIDE DEF none
  <2> QED
    BY <1>3, <1>5, <2>1, <2>2, SoundGrows
<1>7. ~H!Several => risked' = {}
  <2> SUFFICES ASSUME ~H!Several PROVE risked' = {}
    OBVIOUS
  <2>1. p \in Begun /\ risked = {}
    BY <1>1 DEF Begun, TellInv, Alone
  <2>2. \A q \in Ticker \ {p} : ~H!Rewriting(q)
    BY <2>1, Single DEF H!Rewriting
  <2> QED
    BY <1>2, <2>1, <2>2
<1>8. ~H!Several =>
           /\ risked' = {}
           /\ t.at = "write" =>
                t.fd = name' /\ (disk'[name'] # <<>> /\ H!Last(disk'[name']) = H!Cut => t.fresh)
  BY <1>4, <1>7
<1>9. tick[p].at \notin {"idle", "prev", "report"} /\ t.at # "report" /\ UNCHANGED <<scene, clock, written, told>>
  BY <1>1, <1>2, <1>4
<1> QED
  BY <1>3, <1>4, <1>6, <1>8, <1>9, QuietTells, Zenon

LEMMA FillTells ==
  ASSUME HistoryInv, TellInv, NEW p \in Ticker, H!FillTmp(p)
  PROVE  TellInv'
<1>1. tick[p] \in Ticks /\ tick[p].at = "fill" /\ tick \in [Ticker -> Ticks]
  BY DEF HistoryInv, HistoryTyped, H!FillTmp
<1>2. UNCHANGED <<scene, clock, written, risked, told>> /\ written' = written
  BY DEF H!FillTmp
<1>3. PICK at \in {"rename", "open"}, lines \in {tick[p].keep, <<H!Cut>>} :
        /\ tick' = [tick EXCEPT ![p].at = at, ![p].fd = 0]
        /\ disk' = [disk EXCEPT ![tick[p].fd] = lines]
  BY DEF H!FillTmp
<1> DEFINE t == [tick[p] EXCEPT !.at = at, !.fd = 0]
<1>4. tick' = [tick EXCEPT ![p] = t]
  BY <1>1, <1>3
<1>5. /\ t.at \in {"rename", "open"} /\ t.s = tick[p].s /\ t.prev = tick[p].prev
      /\ t.readable = tick[p].readable /\ t.keep = tick[p].keep
  BY <1>1 DEF Ticks
<1> HIDE DEF t
<1>6. \A k \in DOMAIN t.keep : t.keep[k] \in written
  BY <1>5 DEF TellInv, Sound
<1>7. \A k \in DOMAIN lines : H!Sample(lines[k]) => lines[k] \in written'
  <2>1. CASE lines = tick[p].keep
    BY <1>2, <2>1 DEF TellInv, Sound
  <2>2. CASE lines = <<H!Cut>>
    BY <2>2 DEF H!Sample, H!Cut
  <2> QED
    BY <2>1, <2>2
<1>8. Sound'
  BY <1>2, <1>3, <1>4, <1>6, <1>7, SoundGrows
<1>9. ~H!Several =>
           /\ risked' = {}
           /\ t.at = "write" =>
                t.fd = name' /\ (disk'[name'] # <<>> /\ H!Last(disk'[name']) = H!Cut => t.fresh)
  BY <1>2, <1>5 DEF TellInv, Alone
<1>10. tick[p].at \notin {"idle", "prev", "report"} /\ t.at # "report" /\ UNCHANGED <<scene, clock, written, told>>
  BY <1>1, <1>2, <1>5
<1> QED
  BY <1>4, <1>5, <1>8, <1>9, <1>10, QuietTells, Zenon

LEMMA KillTells ==
  ASSUME HistoryInv, TellInv, NEW p \in Ticker, H!Kill(p)
  PROVE  TellInv'
<1> DEFINE t == H!Idle
<1>1. tick[p].at # "idle" /\ tick' = [tick EXCEPT ![p] = t]
      /\ UNCHANGED <<scene, clock, disk, name, tmp, written, risked, told>>
  BY DEF H!Kill
<1>2. t.at = "idle" /\ t.prev = <<>> /\ t.keep = <<>>
  BY DEF H!Idle
<1> HIDE DEF t
<1>3. Saw(written, t) /\ \A k \in DOMAIN t.keep : t.keep[k] \in written
  BY <1>2 DEF Saw
<1>4. disk' = disk /\ written' = written /\ UNCHANGED <<scene, clock, written, told>>
  BY <1>1
<1>5. Sound'
  BY <1>1, <1>3, <1>4, SoundStays, Zenon
<1>6. ~H!Several =>
           /\ risked' = {}
           /\ t.at = "write" =>
                t.fd = name' /\ (disk'[name'] # <<>> /\ H!Last(disk'[name']) = H!Cut => t.fresh)
           /\ t.at \notin {"idle", "prev"} /\ t.readable => InTurn(written, t)
  BY <1>1, <1>2 DEF TellInv, Alone
<1>7. t.at = "idle" \/ (t.s = tick[p].s /\ (t.at = "report" <=> tick[p].at = "report"))
  BY <1>2
<1> QED
  BY <1>1, <1>3, <1>4, <1>5, <1>6, <1>7, TickTells, Zenon

\* its first and its last,
LEMMA BeginTells ==
  ASSUME HistoryInv, TellInv, NEW p \in Ticker, NEW free, H!Begin(p, free)
  PROVE  TellInv'
<1> DEFINE x == [at |-> clock, free |-> free]  t == [H!Idle EXCEPT !.at = "prev", !.s = x]
<1>1. clock \in Nat /\ p \in scene.tickers
  BY DEF HistoryInv, HistoryTyped, H!Begin
<1>2. t.at = "prev" /\ t.s = x /\ t.prev = <<>> /\ t.keep = <<>> /\ x.at = clock
  BY DEF H!Idle
<1>3. clock' = clock + 1 /\ tick' = [tick EXCEPT ![p] = t]
      /\ UNCHANGED <<scene, disk, name, tmp, written, risked, told>>
  BY DEF H!Begin
<1> HIDE DEF t, x
<1>4. \A q \in Ticker : tick'[q] = IF q = p THEN t ELSE tick[q]
  <2>1. tick \in [Ticker -> Ticks]
    BY DEF HistoryInv, HistoryTyped
  <2> QED
    BY <1>3, <2>1
<1>5. \A q \in Begun' : q \in Ticker /\ (q = p \/ q \in Begun)
  BY <1>4 DEF Begun
<1>6. Timed'
  <2>1. \A w \in written : w.at \in Int /\ w.at < clock
    BY DEF TellInv, Timed, HistoryInv, HistoryTyped, Lines
  <2>2. \A q \in Begun : tick[q].s.at \in Int /\ tick[q].s.at < clock
    BY <1>1 DEF Begun, HistoryInv, HistoryTyped
  <2>3. \A r \in told : r.s.at \in Int /\ r.s.at < clock
    BY DEF TellInv, Timed, Tellings, Reported, Lines
  <2>4. \A w \in written' : w.at < clock'
    BY <1>1, <1>3, <2>1
  <2>5. \A q \in Begun' : IF q = p THEN tick'[q].s.at = clock ELSE q \in Begun /\ tick'[q] = tick[q]
    BY <1>2, <1>4, <1>5
  <2>6. \A q, o \in Begun' : q # o => tick'[q].s.at # tick'[o].s.at
    BY <1>1, <2>2, <2>5 DEF TellInv, Timed
  <2>7. \A q \in Begun', w \in written' : w.at = tick'[q].s.at => tick'[q].at = "report" /\ w = tick'[q].s
    BY <1>1, <1>3, <2>1, <2>5 DEF TellInv, Timed
  <2>8. \A r \in told' : r.s.at < clock' /\ \A q \in Begun' : r.s.at # tick'[q].s.at
    BY <1>1, <1>3, <2>3, <2>5 DEF TellInv, Timed
  <2>9. \A r \in told', w \in written' : w.at = r.s.at => w = r.s
    BY <1>3 DEF TellInv, Timed
  <2> QED
    BY <2>4, <2>6, <2>7, <2>8, <2>9 DEF Timed
<1>7. Saw(written, t) /\ \A k \in DOMAIN t.keep : t.keep[k] \in written
  BY <1>2 DEF Saw
<1>8. Tellings'
  <2>1. told' = told /\ written \subseteq written' /\ Saw(written', t)
    BY <1>3, <1>7
  <2> QED
    BY <1>3, <2>1, SeenStays, Zenon
<1>9. Sound'
  <2>1. disk' = disk /\ written' = written
    BY <1>3
  <2> QED
    BY <1>3, <1>7, <2>1, SoundStays, Zenon
<1>10. Alone'
  <2>1. ~H!Several =>
           /\ risked' = {}
           /\ t.at # "idle" => t.s.at = clock' - 1
           /\ t.at = "write" =>
                t.fd = name' /\ (disk'[name'] # <<>> /\ H!Last(disk'[name']) = H!Cut => t.fresh)
           /\ t.at \notin {"idle", "prev"} /\ t.readable => InTurn(written', t)
           /\ \A r \in told' : r.readable => InTurn(written', r)
    <3>1. clock = clock' - 1
      BY <1>1, <1>3
    <3> QED
      BY <1>2, <1>3, <3>1 DEF TellInv, Alone, H!Answered
  <2>2. scene' = scene /\ p \in scene.tickers /\ tick' = [tick EXCEPT ![p] = t]
    BY <1>1, <1>3
  <2> QED
    BY <2>1, <2>2, AloneStays, Zenon
<1> QED
  BY <1>6, <1>8, <1>9, <1>10 DEF TellInv

LEMMA ReportTells ==
  ASSUME HistoryInv, TellInv, NEW p \in Ticker, H!Report(p)
  PROVE  TellInv'
<1> DEFINE b == IF tick[p].readable THEN H!Alert(tick[p].prev, Append(tick[p].prev, tick[p].s)) ELSE H!NoBand
           a == [s |-> tick[p].s, prev |-> tick[p].prev, readable |-> tick[p].readable, band |-> b]
           t == H!Idle
<1>1. tick[p] \in Ticks /\ tick[p].at = "report" /\ tick \in [Ticker -> Ticks] /\ clock \in Nat
  BY DEF HistoryInv, HistoryTyped, H!Report
<1>2. p \in Begun /\ p \in scene.tickers
  BY <1>1 DEF Begun, TellInv, Alone
<1>3. told' = told \cup {a} /\ tick' = [tick EXCEPT ![p] = t]
      /\ UNCHANGED <<scene, clock, disk, name, tmp, written, risked>>
  BY DEF H!Report
<1>4. t.at = "idle" /\ t.prev = <<>> /\ t.keep = <<>>
  BY DEF H!Idle
<1>5. Reported(a)
  BY <1>1 DEF Reported, Ticks
<1>6. a.s = tick[p].s /\ a.prev = tick[p].prev /\ a.readable = tick[p].readable
  OBVIOUS
<1> HIDE DEF t, a
<1>7. \A q \in Ticker : tick'[q] = IF q = p THEN t ELSE tick[q]
  BY <1>1, <1>3
<1>8. \A q \in Begun' : q \in Begun /\ q # p /\ tick'[q] = tick[q]
  <2> TAKE q \in Begun'
  <2>1. q \in Ticker /\ tick'[q].at # "idle"
    BY DEF Begun
  <2> QED
    BY <1>4, <1>7, <2>1 DEF Begun
<1>9. Saw(written, a)
  <2>1. Saw(written, tick[p])
    BY DEF TellInv, Tellings
  <2> QED
    BY <1>6, <2>1 DEF Saw
<1>10. Timed'
  <2>1. \A w \in written' : w.at < clock'
    BY <1>3 DEF TellInv, Timed
  <2>2. \A q, o \in Begun' : q # o => tick'[q].s.at # tick'[o].s.at
    BY <1>8 DEF TellInv, Timed
  <2>3. \A q \in Begun', w \in written' : w.at = tick'[q].s.at => tick'[q].at = "report" /\ w = tick'[q].s
    BY <1>3, <1>8 DEF TellInv, Timed
  <2>4. \A r \in told' : r \in told \/ r.s = tick[p].s
    BY <1>3, <1>6
  <2>5. tick[p].s.at < clock
    BY <1>1 DEF HistoryInv, HistoryTyped
  <2>6. \A r \in told' : r.s.at < clock' /\ \A q \in Begun' : r.s.at # tick'[q].s.at
    BY <1>2, <1>3, <1>8, <2>4, <2>5 DEF TellInv, Timed
  <2>7. \A r \in told', w \in written' : w.at = r.s.at => w = r.s
    BY <1>2, <1>3, <2>4 DEF TellInv, Timed
  <2> QED
    BY <2>1, <2>2, <2>3, <2>6, <2>7 DEF Timed
<1>11. Tellings'
  <2>1. \A q \in Ticker : Saw(written', tick'[q])
    <3>1. Saw(written, t)
      BY <1>4 DEF Saw
    <3> QED
      BY <1>3, <1>7, <3>1 DEF TellInv, Tellings
  <2>2. \A r \in told' : Reported(r) /\ Saw(written', r)
    BY <1>3, <1>5, <1>9 DEF TellInv, Tellings
  <2> QED
    BY <2>1, <2>2 DEF Tellings, Reported
<1>12. Sound'
  <2>1. disk' = disk /\ written' = written /\ \A k \in DOMAIN t.keep : t.keep[k] \in written
    BY <1>3, <1>4
  <2> QED
    BY <1>3, <2>1, SoundStays, Zenon
<1>13. Alone'
  <2>1. ASSUME ~H!Several, a.readable
        PROVE  InTurn(written, a)
    <3>1. InTurn(written, tick[p])
      BY <1>1, <1>2, <1>6, <2>1 DEF TellInv, Alone
    <3> QED
      BY <1>6, <3>1 DEF InTurn
  <2>2. ~H!Several =>
           /\ risked' = {}
           /\ t.at # "idle" => t.s.at = clock' - 1
           /\ t.at = "write" =>
                t.fd = name' /\ (disk'[name'] # <<>> /\ H!Last(disk'[name']) = H!Cut => t.fresh)
           /\ t.at \notin {"idle", "prev"} /\ t.readable => InTurn(written', t)
           /\ \A r \in told' : r.readable => InTurn(written', r)
    BY <1>3, <1>4, <2>1 DEF TellInv, Alone, H!Answered
  <2>3. scene' = scene /\ tick' = [tick EXCEPT ![p] = t]
    BY <1>3
  <2> QED
    BY <1>2, <2>2, <2>3, AloneStays, Zenon
<1> QED
  BY <1>10, <1>11, <1>12, <1>13 DEF TellInv

\* What joins a file's end is what was to, and whole unless behind a cut line.
LEMMA JoinSound ==
  ASSUME NEW lines \in Seq(Lines), NEW fresh, NEW x \in Lines
  PROVE  /\ \A k \in DOMAIN H!Joined(lines, fresh, x) :
              LET y == H!Joined(lines, fresh, x)[k] IN
                H!Sample(y) => y = x \/ \E j \in DOMAIN lines : y = lines[j]
         /\ (lines # <<>> /\ H!Last(lines) = H!Cut => fresh) => x \in H!ToSet(H!Joined(lines, fresh, x))
<1> DEFINE whole == [k \in DOMAIN lines |-> IF lines[k] = H!Cut THEN H!Bad ELSE lines[k]]
           j == H!Joined(lines, fresh, x)
<1>1. j \in {Append(whole, x), whole, lines}
      /\ ((lines # <<>> /\ H!Last(lines) = H!Cut => fresh) => j = Append(whole, x))
  BY DEF H!Joined
<1>2. whole \in Seq(Lines) /\ DOMAIN whole = DOMAIN lines
  <2>1. H!Bad \in Lines
    BY DEF H!Bad, Lines
  <2>2. \A k \in DOMAIN lines : whole[k] \in Lines
    BY <2>1
  <2>3. Len(lines) \in Nat /\ DOMAIN lines = 1..Len(lines)
    OBVIOUS
  <2> QED
    BY <2>2, <2>3
<1>3. ~H!Sample(H!Bad)
  BY DEF H!Bad, H!Sample
<1>4. \A k \in DOMAIN whole : H!Sample(whole[k]) => \E m \in DOMAIN lines : whole[k] = lines[m]
  <2> SUFFICES ASSUME NEW k \in DOMAIN whole, H!Sample(whole[k])
               PROVE  whole[k] = lines[k] /\ k \in DOMAIN lines
    OBVIOUS
  <2>1. whole[k] # H!Bad
    BY <1>3
  <2> QED
    BY <1>2, <2>1
<1> HIDE DEF j, whole
<1>5. \A k \in DOMAIN j : H!Sample(j[k]) => j[k] = x \/ \E m \in DOMAIN lines : j[k] = lines[m]
  <2>1. CASE j = lines
    BY <2>1
  <2>2. CASE j = whole
    BY <1>4, <2>2
  <2>3. CASE j = Append(whole, x)
    <3>1. \A k \in DOMAIN j : (k \in DOMAIN whole /\ j[k] = whole[k]) \/ j[k] = x
      BY <1>2, <2>3
    <3> QED
      BY <1>4, <3>1
  <2> QED
    BY <1>1, <2>1, <2>2, <2>3
<1>6. j = Append(whole, x) => x \in H!ToSet(j)
  <2> SUFFICES ASSUME j = Append(whole, x) PROVE x \in H!ToSet(j)
    OBVIOUS
  <2>1. Len(whole) + 1 \in DOMAIN j /\ j[Len(whole) + 1] = x
    BY <1>2
  <2> QED
    BY <2>1 DEF H!ToSet
<1> QED
  BY <1>1, <1>5, <1>6 DEF j

\* and its append.
LEMMA WriteTells ==
  ASSUME HistoryInv, TellInv, NEW p \in Ticker, H!Write(p)
  PROVE  TellInv'
<1> DEFINE f == tick[p].fd  s == tick[p].s  lines == disk[f]
           t == [tick[p] EXCEPT !.at = "report", !.fd = 0]
<1>1. tick[p] \in Ticks /\ tick[p].at = "write" /\ tick \in [Ticker -> Ticks] /\ clock \in Nat
      /\ disk \in [H!Inode -> Seq(Lines)] /\ name \in H!Inode
  BY DEF HistoryInv, HistoryTyped, H!Write
<1>2. p \in Begun /\ p \in scene.tickers
  BY <1>1 DEF Begun, TellInv, Alone
<1>3. UNCHANGED <<scene, clock, name, tmp, told>> /\ tick' = [tick EXCEPT ![p].at = "report", ![p].fd = 0]
  BY DEF H!Write
<1>4. tick' = [tick EXCEPT ![p] = t]
  BY <1>1, <1>3
<1>5. /\ t.at = "report" /\ t.s = s /\ t.prev = tick[p].prev
      /\ t.readable = tick[p].readable /\ t.keep = tick[p].keep
  BY <1>1 DEF Ticks
<1>6. PICK x \in {s, H!Cut} :
        /\ disk' = [disk EXCEPT ![f] = H!Joined(disk[f], tick[p].fresh, x)]
        /\ IF x = s
           THEN written' = written \cup {s}
                /\ risked' = IF \/ f # name \/ \E q \in Ticker \ {p} : H!Rewriting(q)
                                \/ s \notin H!ToSet(disk'[f])
                             THEN risked \cup {s} ELSE risked
           ELSE written' = written /\ risked' = risked
  <2>1. s # H!Cut
    <3>1. s.at \in 0..(clock - 1)
      BY <1>1 DEF HistoryInv, HistoryTyped
    <3>2. H!Cut.at = -2
      BY DEF H!Cut
    <3> QED
      BY <1>1, <3>1, <3>2
  <2>2. CASE /\ disk' = [disk EXCEPT ![f] = H!Joined(@, tick[p].fresh, s)]
             /\ written' = written \cup {s}
             /\ risked' = IF \/ f # name \/ \E q \in Ticker \ {p} : H!Rewriting(q)
                             \/ s \notin H!ToSet(disk'[f])
                          THEN risked \cup {s} ELSE risked
    BY <2>2, Zenon
  <2>3. CASE /\ disk' = [disk EXCEPT ![f] = H!Joined(@, tick[p].fresh, H!Cut)]
             /\ UNCHANGED <<written, risked>>
    BY <2>1, <2>3, Zenon
  <2> QED
    BY <2>2, <2>3 DEF H!Write
<1>7. x \in Lines /\ s \in Lines /\ s.at \in 0..(clock - 1) /\ written \subseteq written' /\ ~H!Sample(H!Cut)
      /\ written' \subseteq written \cup {s}
  <2>1. H!Cut \in Lines /\ ~H!Sample(H!Cut)
    BY DEF H!Cut, Lines, H!Sample
  <2>2. s \in Lines /\ s.at \in 0..(clock - 1)
    BY <1>1 DEF HistoryInv, HistoryTyped, Ticks
  <2> QED
    BY <1>6, <2>1, <2>2
<1>8. \A k \in DOMAIN t.keep : t.keep[k] \in written
  BY <1>5 DEF TellInv, Sound
<1> HIDE DEF t, s, f
<1>9. \A q \in Ticker : tick'[q] = IF q = p THEN t ELSE tick[q]
  BY <1>1, <1>4
<1>10. Sound'
  <2>1. ASSUME NEW d \in H!Inode, NEW k \in DOMAIN disk'[d], H!Sample(disk'[d][k])
        PROVE  disk'[d][k] \in written'
    <3>1. CASE d = f
      <4> DEFINE js == H!Joined(disk[d], tick[p].fresh, x)
      <4>1. disk'[d] = js /\ disk[d] \in Seq(Lines)
        BY <1>1, <1>6, <2>1, <3>1
      <4>2. \A m \in DOMAIN js : H!Sample(js[m]) => js[m] = x \/ \E n \in DOMAIN disk[d] : js[m] = disk[d][n]
        BY <1>7, <4>1, JoinSound
      <4> HIDE DEF js
      <4>3. js[k] = x \/ \E n \in DOMAIN disk[d] : js[k] = disk[d][n]
        BY <2>1, <4>1, <4>2
      <4>4. CASE js[k] = x
        BY <1>6, <1>7, <2>1, <4>1, <4>4
      <4>5. CASE \E n \in DOMAIN disk[d] : js[k] = disk[d][n]
        BY <1>7, <2>1, <4>1, <4>5 DEF TellInv, Sound
      <4> QED
        BY <4>3, <4>4, <4>5
    <3>2. CASE d # f
      <4>1. disk'[d] = disk[d]
        BY <1>1, <1>6, <2>1, <3>2
      <4> QED
        BY <1>7, <2>1, <4>1 DEF TellInv, Sound
    <3> QED
      BY <3>1, <3>2
  <2>2. \A q \in Ticker : \A k \in DOMAIN tick'[q].keep : tick'[q].keep[k] \in written'
    BY <1>7, <1>8, <1>9 DEF TellInv, Sound
  <2> QED
    BY <2>1, <2>2 DEF Sound, H!Sample
<1>11. Timed'
  <2>1. /\ \A q \in Begun' : q \in Begun /\ tick'[q].s = tick[q].s
        /\ \A q \in Begun' : tick[q].at = "report" \/ q = p => tick'[q].at = "report"
    <3> SUFFICES ASSUME NEW q \in Begun'
                 PROVE  /\ q \in Begun /\ tick'[q].s = tick[q].s
                        /\ tick[q].at = "report" \/ q = p => tick'[q].at = "report"
      OBVIOUS
    <3>1. q \in Ticker /\ tick'[q].at # "idle"
      BY DEF Begun
    <3> QED
      BY <1>2, <1>5, <1>9, <3>1 DEF Begun, s
  <2>2. tick[p].s = s
    BY DEF s
  <2>3. \A w \in written' : w \in written \/ w = s
    BY <1>7
  <2>4. \A w \in written' : w.at < clock'
    BY <1>1, <1>3, <1>7, <2>3 DEF TellInv, Timed
  <2>5. \A q, o \in Begun' : q # o => tick'[q].s.at # tick'[o].s.at
    BY <2>1 DEF TellInv, Timed
  <2>6. \A q \in Begun', w \in written' : w.at = tick'[q].s.at => tick'[q].at = "report" /\ w = tick'[q].s
    <3> SUFFICES ASSUME NEW q \in Begun', NEW w \in written', w.at = tick'[q].s.at
                 PROVE  tick'[q].at = "report" /\ w = tick'[q].s
      OBVIOUS
    <3>1. CASE w \in written
      BY <2>1, <3>1 DEF TellInv, Timed
    <3>2. CASE w = s
      <4>1. q = p
        BY <1>2, <2>1, <2>2, <3>2 DEF TellInv, Timed
      <4> QED
        BY <2>1, <2>2, <3>2, <4>1
    <3> QED
      BY <2>3, <3>1, <3>2
  <2>7. \A r \in told' : r.s.at < clock' /\ \A q \in Begun' : r.s.at # tick'[q].s.at
    <3>1. told' = told /\ clock' = clock
      BY <1>3
    <3>2. \A r \in told : r.s.at < clock /\ \A q \in Begun : r.s.at # tick[q].s.at
      BY DEF TellInv, Timed
    <3> QED
      BY <2>1, <3>1, <3>2
  <2>8. \A r \in told', w \in written' : w.at = r.s.at => w = r.s
    BY <1>2, <1>3, <2>2, <2>3 DEF TellInv, Timed
  <2> QED
    BY <2>4, <2>5, <2>6, <2>7, <2>8 DEF Timed
<1>12. Tellings'
  <2>1. Saw(written', t)
    <3>1. Saw(written, tick[p])
      BY DEF TellInv, Tellings
    <3> QED
      BY <1>5, <1>7, <3>1 DEF Saw, s
  <2>2. told' = told
    BY <1>3
  <2> QED
    BY <1>4, <1>7, <2>1, <2>2, SeenStays, Zenon
<1>13. ASSUME ~H!Several
       PROVE  /\ risked' = {} /\ s.at = clock - 1
              /\ t.readable => InTurn(written', t)
              /\ \A r \in told' : r.readable => InTurn(written', r)
  <2>1. /\ risked = {} /\ s.at = clock - 1 /\ f = name
        /\ (disk[f] # <<>> /\ H!Last(disk[f]) = H!Cut => tick[p].fresh)
    BY <1>1, <1>2, <1>13 DEF TellInv, Alone, s, f
  <2>2. x = s => s \in H!ToSet(disk'[f])
    <3>1. disk'[f] = H!Joined(disk[f], tick[p].fresh, x) /\ disk[f] \in Seq(Lines)
      BY <1>1, <1>6, <2>1
    <3> QED
      BY <1>7, <2>1, <3>1, JoinSound
  <2>3. \A q \in Ticker \ {p} : ~H!Rewriting(q)
    BY <1>2, <1>13, Single DEF H!Rewriting
  <2>4. risked' = {}
    BY <1>6, <2>1, <2>2, <2>3
  <2>5. t.readable => InTurn(written', t)
    <3> SUFFICES ASSUME t.readable PROVE InTurn(written', t)
      OBVIOUS
    <3>1. InTurn(written, tick[p])
      BY <1>1, <1>2, <1>5, <1>13 DEF TellInv, Alone
    <3>2. ~(s.at < s.at)
      BY <1>7
    <3> QED
      BY <1>5, <1>7, <3>1, <3>2 DEF InTurn, s
  <2>6. \A r \in told' : r.readable => InTurn(written', r)
    <3> SUFFICES ASSUME NEW r \in told, r.readable PROVE InTurn(written', r)
      BY <1>3
    <3>1. InTurn(written, r)
      BY <1>13 DEF TellInv, Alone, H!Answered
    <3>2. r.s.at \in Int /\ r.s.at < clock
      BY DEF TellInv, Timed, Tellings, Reported, Lines
    <3>3. ~(s.at < r.s.at)
      BY <1>1, <2>1, <3>2
    <3> QED
      BY <1>7, <3>1, <3>3 DEF InTurn
  <2> QED
    BY <2>1, <2>4, <2>5, <2>6
<1>14. Alone'
  <2>1. ~H!Several =>
           /\ risked' = {}
           /\ t.at # "idle" => t.s.at = clock' - 1
           /\ t.at = "write" =>
                t.fd = name' /\ (disk'[name'] # <<>> /\ H!Last(disk'[name']) = H!Cut => t.fresh)
           /\ t.at \notin {"idle", "prev"} /\ t.readable => InTurn(written', t)
           /\ \A r \in told' : r.readable => InTurn(written', r)
    BY <1>3, <1>5, <1>13
  <2>2. scene' = scene
    BY <1>3
  <2> QED
    BY <1>2, <1>4, <2>1, <2>2, AloneStays, Zenon
<1> QED
  BY <1>10, <1>11, <1>12, <1>14 DEF TellInv

\* Nothing has been told yet.
LEMMA TellInit ==
  ASSUME H!Init
  PROVE  TellInv
<1>1. /\ scene \in Scenes /\ clock = Now /\ name = 1 /\ risked = {} /\ told = {}
      /\ disk = [i \in H!Inode |-> IF i = 1 THEN scene.earlier ELSE <<>>]
      /\ written = {x \in H!ToSet(scene.earlier) : H!Sample(x)}
      /\ tick = [p \in Ticker |-> H!Idle]
  BY DEF H!Init
<1>2. Begun = {} /\ \A p \in Ticker : tick[p].at = "idle" /\ tick[p].prev = <<>> /\ tick[p].keep = <<>>
  BY <1>1 DEF Begun, H!Idle
<1>3. Sound
  <2>1. \A i \in H!Inode : \A k \in DOMAIN disk[i] : H!Sample(disk[i][k]) => disk[i][k] \in written
    BY <1>1 DEF H!ToSet
  <2> QED
    BY <1>2, <2>1 DEF Sound
<1>4. Timed
  <2>1. \A x \in written : x.at < clock
    <3> SUFFICES ASSUME NEW x \in written PROVE x.at < Now
      BY <1>1
    <3>1. PICK k \in DOMAIN scene.earlier : x = scene.earlier[k]
      BY <1>1 DEF H!ToSet
    <3> QED
      BY <1>1, <3>1, MachineAssumption
  <2> QED
    BY <1>1, <1>2, <2>1 DEF Timed
<1>5. Tellings
  BY <1>1, <1>2 DEF Tellings, Saw
<1>6. Alone
  BY <1>1, <1>2 DEF Alone, H!Answered
<1> QED
  BY <1>3, <1>4, <1>5, <1>6 DEF TellInv

\* Every step of a tick keeps the invariant.
LEMMA TellNext ==
  ASSUME HistoryInv, TellInv, [H!Next]_(H!vars)
  PROVE  TellInv'
<1>1. CASE H!Next
  BY <1>1, BeginTells, ReadPrevTells, CompactTells, CreateTells, FillTells, RenameTells,
     ToWriteTells, WriteTells, ReportTells, KillTells DEF H!Next
<1>2. CASE UNCHANGED H!vars
  BY <1>2 DEF H!vars, TellInv, Sound, Timed, Tellings, Reported, Alone, Begun, H!Answered, H!Several
<1> QED
  BY <1>1, <1>2

----------------------------------------------------------------------------
(* The whole. *)

\* Each part's invariant, while the machine is at that part.
Inv == /\ part = "aerials" => AerialsInv
       /\ part = "updates" => UpdatesInv
       /\ part = "headroom" => HistoryInv /\ TellInv

\* Whichever part the machine is at, its invariant holds of it.
LEMMA Whole == Spec => []Inv
<1>1. Init => Inv
  BY AerialsInit, UpdatesInit, HistoryInit, TellInit DEF Init, Inv
<1>2. ASSUME Inv, [Next]_vars PROVE Inv'
  <2>1. part' = part
    BY <1>2 DEF Next, vars
  <2>2. CASE part = "aerials"
    <3>1. [A!Next]_(A!vars)
      BY <1>2, <2>2 DEF Next, vars, aerialsVars, A!vars, A!callVars, A!macVars
    <3> QED
      BY <1>2, <2>1, <2>2, <3>1, AerialsNext DEF Inv
  <2>3. CASE part = "updates"
    <3>1. [U!Next]_(U!vars)
      BY <1>2, <2>3 DEF Next, vars, updateVars, U!vars, U!world
    <3> QED
      BY <1>2, <2>1, <2>3, <3>1, UpdatesNext DEF Inv
  <2>4. CASE part = "headroom"
    <3>1. [H!Next]_(H!vars)
      BY <1>2, <2>4 DEF Next, vars, headroomVars, H!vars
    <3> QED
      BY <1>2, <2>1, <2>4, <3>1, HistoryNext, TellNext DEF Inv
  <2>5. CASE part \notin {"aerials", "updates", "headroom"}
    BY <2>1, <2>5 DEF Inv
  <2> QED
    BY <2>2, <2>3, <2>4, <2>5
<1> QED
  BY <1>1, <1>2, PTL DEF Spec

\* A pick that off deleted and nothing brought back is in the record on goes
\* by, whatever was stopped, killed or failed and in whatever order offs and
\* ons ran, except as PicksKept says (internal/aerials).
THEOREM PicksStayKept == Spec => []PicksKept
<1>1. Inv => PicksKept
  BY AerialsKept DEF Inv, PicksKept
<1> QED
  BY <1>1, Whole, PTL

\* Whenever the downloader goes on with a pick that is gone, an off is at
\* stopping it or told that it could not (internal/aerials).
THEOREM DownloadsEnd == Spec => []LoaderStopped
<1>1. Inv => LoaderStopped
  BY AerialsKept DEF Inv, LoaderStopped
<1> QED
  BY <1>1, Whole, PTL

\* An update puts in place the release it was offered, one that runs and says
\* that version, and goes back to an older one only when something else had
\* replaced the binary since that regrow started (internal/selfupdate).
THEOREM UpdatesGoForward == Spec => InstallsForward
<1>1. ASSUME Inv, [Next]_vars PROVE [part = "updates" => U!Forward]_vars
  <2>1. CASE part = "updates"
    <3>1. [U!Next]_(U!vars)
      BY <1>1, <2>1 DEF Next, vars, updateVars, U!vars, U!world
    <3> QED
      BY <1>1, <2>1, <3>1, StepForward DEF Inv
  <2>2. CASE part # "updates"
    BY <2>2
  <2> QED
    BY <2>1, <2>2
<1> QED
  BY <1>1, Whole, PTL DEF Spec, InstallsForward

\* A sample whose Append returned nil stays in the history for the retention,
\* through every rewrite, full disk and kill of the ticks that may be at it,
\* but for those the missing lock may cost (internal/headroom's Append and
\* compact).
THEOREM SamplesStay == Spec => []HistoryKept
<1>1. Inv => HistoryKept
  BY HistoryHolds DEF Inv, HistoryKept
<1> QED
  BY <1>1, Whole, PTL

\* A free-space line that is crossed is told of by the tick that crosses it or
\* had been before, but for what a tick that was killed or failed to append
\* never told and what several at it may miss of one another; and a line is
\* told of again only when it was seen rearmed (internal/headroom's Alerts).
THEOREM CrossingsAreTold == Spec => []CrossingsTold
<1>1. Inv => CrossingsTold
  BY TellHolds DEF Inv, CrossingsTold
<1> QED
  BY <1>1, Whole, PTL
=============================================================================

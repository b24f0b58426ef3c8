--------------------------- MODULE ExecutorProofs ---------------------------
(***************************************************************************)
(* What the journal says of the Trash, for any number of runs, any plans   *)
(* and any owner: whatever moves has its start line there before, and a    *)
(* receipt after unless the run was cut short; nothing is put where        *)
(* something is; no run empties the Trash of its own moves; what OnDisk    *)
(* adds up is what the moves still hold; what undo puts back is what was   *)
(* moved, and where it was, as far as its receipt can tell; and the        *)
(* history's counts are the runs' own.                                     *)
(*                                                                         *)
(* JournaledFirst speaks of what has moved; IInv says it already of what   *)
(* may still move: a run between its start line and its after line, and    *)
(* the moves a run gave up on or a kill left to Finder.  The invariants    *)
(* beside it are of the lines (Books), of what may have moved (Kept), of   *)
(* the place a rename goes to (Clear), of a run that empties the Trash     *)
(* (Spared), of the order of the lines for one place (InOrder), and of     *)
(* what a receipt tells of (Vouches, Holder).                              *)
(***************************************************************************)
EXTENDS Executor, FiniteSetTheorems, WellFoundedInduction, TLAPS

Pcs == {"next", "act", "stage", "identify", "after", "ended"}
Begun == {"act", "stage", "identify", "after"}

TypeInv == pc \in [Run -> Pcs] /\ seq \in [Run -> Nat]

Log == \E S : journal \in Seq(S)

Announced == \A r \in Run : pc[r] \in Begun => HasLine("start", r, seq[r])

StraysAnnounced == \A m \in strays : HasLine("start", m.run, m.seq)

IInv == TypeInv /\ Log /\ Announced /\ StraysAnnounced /\ JournaledFirst

Grows == journal' = journal \/ \E e : journal' = Append(journal, e)

\* A sequence with one element more holds what it held, where it was.
LEMMA OneMore ==
  ASSUME NEW S, NEW q \in Seq(S), NEW e
  PROVE  /\ Append(q, e) \in Seq(S \cup {e})
         /\ DOMAIN q \subseteq DOMAIN Append(q, e)
         /\ \A i \in DOMAIN q : Append(q, e)[i] = q[i]
         /\ Len(q) + 1 \in DOMAIN Append(q, e) /\ Append(q, e)[Len(q) + 1] = e
<1>1. q \in Seq(S \cup {e})
  OBVIOUS
<1> QED
  BY <1>1

\* The journal is only appended to: no line is lost by it, an append that
\* failed included.
LEMMA LinesStay ==
  ASSUME Log, Grows
  PROVE  /\ Log'
         /\ \A event, r, k : HasLine(event, r, k) => HasLine(event, r, k)'
<1>1. CASE journal' = journal
  BY <1>1 DEF Log, HasLine
<1>2. ASSUME NEW e, journal' = Append(journal, e)
      PROVE  /\ Log'
             /\ \A event, r, k : HasLine(event, r, k) => HasLine(event, r, k)'
  <2>1. PICK S : journal \in Seq(S)
    BY DEF Log
  <2>2. /\ journal' \in Seq(S \cup {e})
        /\ DOMAIN journal \subseteq DOMAIN journal'
        /\ \A i \in DOMAIN journal : journal'[i] = journal[i]
    BY <1>2, <2>1, OneMore
  <2>3. Log'
    BY <2>2 DEF Log
  <2>4. ASSUME NEW event, NEW r, NEW k, HasLine(event, r, k) PROVE HasLine(event, r, k)'
    BY <2>2, <2>4 DEF HasLine
  <2> QED
    BY <2>3, <2>4
<1> QED
  BY <1>1, <1>2 DEF Grows

\* A start line appended is there.
LEMMA StartIsThere ==
  ASSUME Log, NEW r, NEW k, NEW a, journal' = Append(journal, Start(r, k, a))
  PROVE  HasLine("start", r, k)'
<1> DEFINE e == Start(r, k, a)
<1>1. PICK S : journal \in Seq(S)
  BY DEF Log
<1>2. e.event = "start" /\ e.run = r /\ e.seq = k
  BY DEF Start
<1> HIDE DEF e
<1>3. Len(journal) + 1 \in DOMAIN journal' /\ journal'[Len(journal) + 1] = e
  <2>1. journal' = Append(journal, e)
    BY DEF e
  <2> QED
    BY <1>1, <2>1, OneMore
<1> QED
  BY <1>2, <1>3 DEF HasLine, Is

\* What a step owes the invariant: whoever is at an action, is left to move
\* or has moved was announced before, or is by this step.
LEMMA Step ==
  ASSUME IInv, Grows, TypeInv',
         \A r \in Run : pc'[r] \in Begun =>
           (pc[r] \in Begun /\ seq'[r] = seq[r]) \/ HasLine("start", r, seq[r])',
         \A m \in strays' : m \in strays \/ HasLine("start", m.run, m.seq)',
         \A m \in moved' : m \in moved \/ HasLine("start", m.run, m.seq)'
  PROVE  IInv'
<1>1. /\ Log'
      /\ \A event, r, k : HasLine(event, r, k) => HasLine(event, r, k)'
  BY LinesStay DEF IInv
<1>2. Announced'
  <2> SUFFICES ASSUME NEW r \in Run, pc'[r] \in Begun PROVE HasLine("start", r, seq[r])'
    BY DEF Announced
  <2>1. CASE pc[r] \in Begun /\ seq'[r] = seq[r]
    <3>1. PICK k : k = seq[r]
      OBVIOUS
    <3>2. HasLine("start", r, k)
      BY <2>1, <3>1 DEF IInv, Announced
    <3>3. HasLine("start", r, k)'
      BY <1>1, <3>2
    <3> QED
      BY <2>1, <3>1, <3>3 DEF HasLine
  <2>2. CASE HasLine("start", r, seq[r])'
    BY <2>2
  <2> QED
    BY <2>1, <2>2
<1>3. StraysAnnounced'
  BY <1>1 DEF IInv, StraysAnnounced
<1>4. JournaledFirst'
  BY <1>1 DEF IInv, JournaledFirst
<1> QED
  BY <1>1, <1>2, <1>3, <1>4 DEF IInv

----------------------------------------------------------------------------
(* The steps. *)

\* A run's step that journals nothing: a run that is at an action after it was
\* before, with the same one.
LEMMA QuietStep ==
  ASSUME IInv, UNCHANGED <<journal, seq>>, NEW r \in Run, NEW p \in Pcs,
         pc' = [pc EXCEPT ![r] = p],
         p \in Begun => pc[r] \in Begun,
         \A m \in strays' : m \in strays \/ HasLine("start", m.run, m.seq),
         \A m \in moved' : m \in moved \/ HasLine("start", m.run, m.seq)
  PROVE  IInv'
<1>1. TypeInv' /\ Grows
  BY DEF IInv, TypeInv, Grows
<1>2. \A x \in Run : pc'[x] \in Begun => pc[x] \in Begun /\ seq'[x] = seq[x]
  BY DEF IInv, TypeInv
<1>3. \A k, l : HasLine("start", k, l) => HasLine("start", k, l)'
  BY DEF HasLine
<1> QED
  BY <1>1, <1>2, <1>3, Step

\* The start line, kept or in the file or not.
LEMMA JournalStartInv == ASSUME IInv, NEW r \in Run, JournalStart(r) PROVE IInv'
<1> DEFINE e == Start(r, seq[r], Act(r))
<1>1. UNCHANGED <<seq, strays, moved>>
  BY DEF JournalStart, diskVars, history
<1>2. CASE Appends(e) /\ pc' = [pc EXCEPT ![r] = "act"]
  <2>1. PICK k : k = seq[r]
    OBVIOUS
  <2>2. HasLine("start", r, k)'
    BY <1>2, <2>1, StartIsThere DEF IInv, Appends
  <2>3. HasLine("start", r, seq[r])'
    BY <1>1, <2>1, <2>2 DEF HasLine
  <2>4. TypeInv' /\ Grows
    BY <1>1, <1>2 DEF IInv, TypeInv, Pcs, Grows, Appends
  <2>5. \A x \in Run : x # r => pc'[x] = pc[x] /\ seq'[x] = seq[x]
    BY <1>1, <1>2 DEF IInv, TypeInv
  <2> QED
    BY <1>1, <2>3, <2>4, <2>5, Step
<1>3. CASE AppendFails(e) /\ pc' = [pc EXCEPT ![r] = "ended"]
  <2>1. TypeInv' /\ Grows
    BY <1>1, <1>3 DEF IInv, TypeInv, Pcs, Grows, AppendFails
  <2>2. \A x \in Run : pc'[x] \in Begun => pc[x] \in Begun /\ seq'[x] = seq[x]
    BY <1>1, <1>3 DEF IInv, TypeInv, Begun
  <2> QED
    BY <1>1, <2>1, <2>2, Step
<1> QED
  BY <1>2, <1>3 DEF JournalStart, Journals

\* The after line ends the action, kept or not.
LEMMA JournalAfterInv == ASSUME IInv, NEW r \in Run, JournalAfter(r) PROVE IInv'
<1>1. UNCHANGED <<strays, moved>> /\ seq' = [seq EXCEPT ![r] = @ + 1]
  BY DEF JournalAfter, diskVars, history
<1>2. Grows /\ \E p \in {"next", "ended"} : pc' = [pc EXCEPT ![r] = p]
  BY DEF JournalAfter, Journals, Appends, AppendFails, Grows
<1>3. TypeInv'
  BY <1>1, <1>2 DEF IInv, TypeInv, Pcs
<1>4. \A x \in Run : pc'[x] \in Begun => pc[x] \in Begun /\ seq'[x] = seq[x]
  BY <1>1, <1>2 DEF IInv, TypeInv, Begun
<1> QED
  BY <1>1, <1>2, <1>3, <1>4, Step

\* A skipped action journals nothing and has not begun.
LEMMA SkipInv == ASSUME IInv, NEW r \in Run, SkipTrash(r) PROVE IInv'
<1>1. UNCHANGED <<journal, pc, strays, moved>> /\ seq' = [seq EXCEPT ![r] = @ + 1] /\ pc[r] = "next"
  BY DEF SkipTrash, Ready, diskVars, history
<1>2. TypeInv' /\ Grows
  BY <1>1 DEF IInv, TypeInv, Grows
<1>3. \A x \in Run : pc'[x] \in Begun => pc[x] \in Begun /\ seq'[x] = seq[x]
  BY <1>1 DEF IInv, TypeInv, Begun
<1> QED
  BY <1>1, <1>2, <1>3, Step

\* What a move at an action records has the action's line.
LEMMA RecordsAnnounced ==
  ASSUME NEW r, NEW k, NEW src, NEW dst, RecordMove(r, k, src, dst), HasLine("start", r, k)
  PROVE  \A m \in moved' : m \in moved \/ HasLine("start", m.run, m.seq)
  BY DEF RecordMove

\* Finder's move and the staging rename are moves of an action begun.
LEMMA MovesInv ==
  ASSUME IInv, NEW r \in Run, FinderMoves(r) \/ StageRenames(r)
  PROVE  IInv'
<1>1. /\ UNCHANGED <<journal, seq, strays>> /\ pc[r] \in Begun
      /\ pc' = [pc EXCEPT ![r] = "identify"]
  BY DEF FinderMoves, StageRenames, Begun
<1>2. HasLine("start", r, seq[r])
  BY <1>1 DEF IInv, Announced
<1>3. \E src, dst : RecordMove(r, seq[r], src, dst)
  BY DEF FinderMoves, StageRenames
<1>4. \A m \in moved' : m \in moved \/ HasLine("start", m.run, m.seq)
  BY <1>2, <1>3, RecordsAnnounced
<1>5. "identify" \in Pcs
  BY DEF Pcs
<1> QED
  BY <1>1, <1>4, <1>5, QuietStep

\* A move left behind has the line of the action it was left at.
LEMMA LeavesInv ==
  ASSUME IInv, NEW r \in Run, FinderFails(r) \/ GiveUp(r) \/ Kill(r)
  PROVE  IInv'
<1>1. UNCHANGED <<journal, seq, moved>>
  BY DEF FinderFails, GiveUp, Kill, history
<1>2. PICK p \in {"stage", "after", "ended"} :
        pc' = [pc EXCEPT ![r] = p] /\ (p \in Begun => pc[r] \in Begun)
  BY DEF FinderFails, GiveUp, Kill, Outcome, Begun
<1>3. ASSUME NEW m \in strays' PROVE m \in strays \/ HasLine("start", m.run, m.seq)
  <2>1. \/ m \in strays
        \/ pc[r] \in Begun /\ \E dst : m = Stray(r, dst)
    BY DEF FinderFails, GiveUp, Kill, Begun
  <2>2. ASSUME NEW dst, m = Stray(r, dst), pc[r] \in Begun
        PROVE  HasLine("start", m.run, m.seq)
    <3>1. m.run = r /\ m.seq = seq[r]
      BY <2>2 DEF Stray
    <3> QED
      BY <2>2, <3>1 DEF IInv, Announced
  <2> QED
    BY <2>1, <2>2
<1>4. p \in Pcs
  BY <1>2 DEF Pcs
<1> QED
  BY <1>1, <1>2, <1>3, <1>4, QuietStep

\* The steps of a run that move and journal nothing.
LEMMA PlainInv ==
  ASSUME IInv, NEW r \in Run,
         \/ Finish(r) \/ Refuse(r) \/ StageFails(r) \/ Identify(r) \/ RunCommand(r)
  PROVE  IInv'
<1>1. UNCHANGED <<journal, seq, moved, strays>>
  BY DEF Finish, Refuse, StageFails, Identify, RunCommand, diskVars, history
<1>2. PICK p \in {"ended", "after"} :
        pc' = [pc EXCEPT ![r] = p] /\ (p \in Begun => pc[r] \in Begun)
  BY DEF Finish, Refuse, StageFails, Identify, RunCommand, Outcome, Begun
<1>3. p \in Pcs
  BY <1>2 DEF Pcs
<1> QED
  BY <1>1, <1>2, <1>3, QuietStep

\* Undo, the owner, Finder and the apps: no run takes a step, and only a move
\* left behind may add to what has moved.
LEMMA BesideInv ==
  ASSUME IInv, UNCHANGED <<pc, seq>>, Grows,
         \A m \in strays' : m \in strays,
         \A m \in moved' : m \in moved \/ HasLine("start", m.run, m.seq)
  PROVE  IInv'
<1>1. TypeInv'
  BY DEF IInv, TypeInv
<1>2. \A k, l : HasLine("start", k, l) => HasLine("start", k, l)'
  BY LinesStay DEF IInv
<1> QED
  BY <1>1, <1>2, Step

\* An undo pass journals, and moves nothing by a run.
LEMMA UndoKeepsInv == ASSUME IInv, UndoNext PROVE IInv'
<1>1. UNCHANGED <<pc, seq, strays, moved>>
  BY DEF UndoNext, UndoStart, UndoCheck, UndoRename, UndoLog, UndoEnds, runVars, diskVars, history
<1>2. Grows
  BY DEF UndoNext, UndoStart, UndoCheck, UndoRename, UndoLog, UndoEnds, Appends, AppendFails, Grows
<1> QED
  BY <1>1, <1>2, BesideInv

\* The owner, Finder and the apps, a move left behind among what Finder does.
LEMMA OutsideInv == ASSUME IInv, OutsideNext PROVE IInv'
<1>1. CASE \E m \in strays : StrayLands(m)
  <2>1. PICK m \in strays : StrayLands(m)
    BY <1>1
  <2>2. HasLine("start", m.run, m.seq)
    BY DEF IInv, StraysAnnounced
  <2>3. \E src, dst : RecordMove(m.run, m.seq, src, dst)
    BY <2>1 DEF StrayLands
  <2>4. \A x \in moved' : x \in moved \/ HasLine("start", x.run, x.seq)
    BY <2>2, <2>3, RecordsAnnounced
  <2>5. UNCHANGED <<pc, seq, journal>> /\ strays' = strays \ {m}
    BY <2>1 DEF StrayLands, runVars
  <2> QED
    BY <2>4, <2>5, BesideInv DEF Grows
<1>2. CASE UNCHANGED <<pc, seq, journal, strays, moved>>
  BY <1>2, BesideInv DEF Grows
<1>3. OutsideNext => (\E m \in strays : StrayLands(m)) \/ UNCHANGED <<pc, seq, journal, strays, moved>>
  BY DEF OutsideNext, Regrows, OwnerTrashesItem, CopyRemoved, PutBack, TrashEmptied,
         FinderEmpties, LstatTurns, OthersUnchanged, runVars, history, diskVars, undoVars
<1> QED
  BY <1>1, <1>2, <1>3

\* Every step keeps the invariant.
LEMMA NextInv == ASSUME IInv, [Next]_vars PROVE IInv'
<1>1. CASE ExecuteNext
  <2>1. PICK r \in Run : \/ Finish(r) \/ SkipTrash(r) \/ JournalStart(r) \/ Refuse(r)
                \/ FinderMoves(r) \/ FinderFails(r) \/ StageRenames(r) \/ StageFails(r)
                \/ Identify(r) \/ GiveUp(r) \/ RunCommand(r) \/ JournalAfter(r)
                \/ AskStop(r) \/ Kill(r)
    BY <1>1 DEF ExecuteNext
  <2>2. CASE AskStop(r)
    <3>1. UNCHANGED <<pc, seq, journal, strays, moved>>
      BY <2>2 DEF AskStop, diskVars, history
    <3> QED
      BY <3>1, BesideInv DEF Grows
  <2> QED
    BY <2>1, <2>2, PlainInv, SkipInv, JournalStartInv, MovesInv, LeavesInv, JournalAfterInv
<1>2. CASE UNCHANGED vars
  <2>1. UNCHANGED <<pc, seq, journal, strays, moved>>
    BY <1>2 DEF vars
  <2> QED
    BY <2>1, BesideInv DEF Grows
<1> QED
  BY <1>1, <1>2, UndoKeepsInv, OutsideInv DEF Next

\* All begins with an empty journal and nothing moved.
LEMMA InitInv == Init => IInv
<1> SUFFICES ASSUME Init PROVE IInv
  OBVIOUS
<1>1. TypeInv
  BY DEF Init, TypeInv, Pcs
<1>2. Log
  <2>1. journal \in Seq({})
    BY DEF Init
  <2> QED
    BY <2>1 DEF Log
<1>3. Announced /\ StraysAnnounced /\ JournaledFirst
  BY DEF Init, Announced, StraysAnnounced, JournaledFirst, Begun
<1> QED
  BY <1>1, <1>2, <1>3 DEF IInv

\* Nothing regrow moves, now or in a move given up on or left by a kill, moves
\* without its start line in the journal, whatever fails.
THEOREM MovesAreJournaled == Spec => []JournaledFirst
<1>1. IInv => JournaledFirst
  BY DEF IInv
<1> QED
  BY <1>1, InitInv, NextInv, PTL DEF Spec

----------------------------------------------------------------------------
(***************************************************************************)
(* What the other properties rest on: how the lines of a run are numbered, *)
(* what an action in progress is, and that undo works off done lines of    *)
(* its run.                                                                *)
(***************************************************************************)

Ground == /\ world \in Worlds
          /\ DOMAIN to = Run /\ DOMAIN out = Run /\ DOMAIN unsafe = Run
          /\ DOMAIN undo = {"pc", "run", "todo", "ok"}
          /\ \A r \in Run : seq[r] \in Nat \ {0}

\* No line is ahead of its run, and a done line is behind it.
Lines == \A i \in DOMAIN journal :
  /\ journal[i].run \in Run /\ journal[i].seq \in Nat
  /\ journal[i].seq <= seq[journal[i].run]
  /\ Is(journal[i], "done") => journal[i].seq < seq[journal[i].run]
  /\ Is(journal[i], "done") /\ Restorable(journal[i].receipt) => journal[i].receipt.from \in Path

DoneOnce == \A i, j \in DOMAIN journal :
  /\ Is(journal[i], "done") /\ Is(journal[j], "done")
  /\ journal[i].run = journal[j].run /\ journal[i].seq = journal[j].seq
  => i = j

AtAction == \A r \in Run :
  /\ pc[r] \in Begun => seq[r] \in 1..Len(Plan[r])
  /\ pc[r] \in {"stage", "identify"} => Act(r).kind = "trash"
  /\ pc[r] = "after" /\ Restorable(out[r].receipt) => out[r].receipt.from \in Path

\* A receipt undo has still to put back is in the journal, as a done line of
\* the run it undoes.
DoneLineOf(r, e) == \E i \in DOMAIN journal :
  journal[i] = e /\ e.run = r /\ Is(e, "done") /\ Restorable(e.receipt)

UndoInv == /\ \E S : undo.todo \in Seq(S)
           /\ \A k \in DOMAIN undo.todo : DoneLineOf(undo.run, undo.todo[k])
           /\ undo.pc \in {"rename", "log"} => undo.todo # <<>>

Books == Ground /\ Lines /\ DoneOnce /\ AtAction /\ UndoInv

LEMMA GrownBy ==
  ASSUME Log, NEW e, journal' = journal \/ journal' = Append(journal, e)
  PROVE  /\ \A i \in DOMAIN journal : i \in DOMAIN journal' /\ journal'[i] = journal[i]
         /\ \A i \in DOMAIN journal' :
              \/ i \in DOMAIN journal
              \/ i = Len(journal) + 1 /\ i \notin DOMAIN journal /\ journal'[i] = e
                 /\ journal' = Append(journal, e)
<1>1. PICK S : journal \in Seq(S)
  BY DEF Log
<1>2. CASE journal' = journal
  BY <1>2
<1>3. CASE journal' = Append(journal, e)
  <2>1. /\ DOMAIN journal \subseteq DOMAIN journal'
        /\ \A i \in DOMAIN journal : journal'[i] = journal[i]
        /\ journal'[Len(journal) + 1] = e
    BY <1>1, <1>3, OneMore
  <2>2. /\ DOMAIN journal = 1..Len(journal) /\ Len(journal) \in Nat
        /\ DOMAIN journal' = 1..(Len(journal) + 1)
    BY <1>1, <1>3
  <2>3. \A i \in DOMAIN journal' : i \in DOMAIN journal \/ (i = Len(journal) + 1 /\ i \notin DOMAIN journal)
    BY <2>2
  <2> QED
    BY <1>3, <2>1, <2>3
<1> QED
  BY <1>2, <1>3

\* What a line of an action, or of an undo, owes the numbering.
Owes(e) == /\ e.run \in Run /\ e.seq \in Nat /\ e.seq <= seq'[e.run]
           /\ Is(e, "done") => /\ e.seq = seq[e.run] /\ e.seq < seq'[e.run]
                               /\ Restorable(e.receipt) => e.receipt.from \in Path

LEMMA LinesStep ==
  ASSUME Log, Ground, Lines, DoneOnce,
         \A r \in Run : seq'[r] \in Nat /\ seq[r] <= seq'[r],
         NEW e, journal' = journal \/ (journal' = Append(journal, e) /\ Owes(e))
  PROVE  Lines' /\ DoneOnce'
<1>1. /\ \A i \in DOMAIN journal : i \in DOMAIN journal' /\ journal'[i] = journal[i]
      /\ \A i \in DOMAIN journal' :
           \/ i \in DOMAIN journal
           \/ i = Len(journal) + 1 /\ i \notin DOMAIN journal /\ journal'[i] = e
              /\ journal' = Append(journal, e)
  BY GrownBy
<1>2. \A i \in DOMAIN journal' : i \notin DOMAIN journal =>
        journal'[i] = e /\ i = Len(journal) + 1 /\ Owes(e)
  BY <1>1
<1>3. \A r \in Run : seq[r] \in Nat /\ seq'[r] \in Nat /\ seq[r] <= seq'[r]
  BY DEF Ground
<1>4. Lines'
  <2> SUFFICES ASSUME NEW i \in DOMAIN journal' PROVE Lines!(i)'
    BY DEF Lines
  <2>1. CASE i \in DOMAIN journal
    <3>1. Lines!(i) /\ journal'[i] = journal[i]
      BY <2>1, <1>1 DEF Lines
    <3>2. /\ journal'[i].run \in Run /\ journal'[i].seq \in Nat
          /\ journal'[i].seq <= seq[journal'[i].run]
          /\ Is(journal'[i], "done") => journal'[i].seq < seq[journal'[i].run]
          /\ Is(journal'[i], "done") /\ Restorable(journal'[i].receipt) => journal'[i].receipt.from \in Path
      BY <3>1
    <3> QED
      BY <3>2, <1>3
  <2>2. CASE i \notin DOMAIN journal
    BY <2>2, <1>2, <1>3 DEF Owes
  <2> QED
    BY <2>1, <2>2
<1>5. DoneOnce'
  <2> SUFFICES ASSUME NEW i \in DOMAIN journal', NEW j \in DOMAIN journal',
                      Is(journal'[i], "done"), Is(journal'[j], "done"),
                      journal'[i].run = journal'[j].run, journal'[i].seq = journal'[j].seq
               PROVE  i = j
    BY DEF DoneOnce
  <2>1. \A k \in DOMAIN journal' : k \in DOMAIN journal /\ Is(journal'[k], "done") =>
          journal'[k].run \in Run /\ journal'[k].seq \in Nat /\ journal'[k].seq < seq[journal'[k].run]
    BY <1>1 DEF Lines
  <2>2. \A k \in DOMAIN journal' : k \notin DOMAIN journal /\ Is(journal'[k], "done") =>
          k = Len(journal) + 1 /\ journal'[k].seq = seq[journal'[k].run]
    BY <1>2 DEF Owes
  <2>3. CASE i \in DOMAIN journal /\ j \in DOMAIN journal
    BY <2>3, <1>1 DEF DoneOnce
  <2>4. CASE i \notin DOMAIN journal /\ j \notin DOMAIN journal
    BY <2>4, <2>2
  <2>5. CASE i \in DOMAIN journal /\ j \notin DOMAIN journal
    BY <2>5, <2>1, <2>2, <1>3
  <2>6. CASE i \notin DOMAIN journal /\ j \in DOMAIN journal
    BY <2>6, <2>1, <2>2, <1>3
  <2> QED
    BY <2>3, <2>4, <2>5, <2>6
<1> QED
  BY <1>4, <1>5

LEMMA DoneLinesStay ==
  ASSUME Log, Grows, NEW r, NEW e, DoneLineOf(r, e)
  PROVE  DoneLineOf(r, e)'
<1>1. PICK x : journal' = journal \/ journal' = Append(journal, x)
  BY DEF Grows
<1>2. \A i \in DOMAIN journal : i \in DOMAIN journal' /\ journal'[i] = journal[i]
  BY <1>1, GrownBy
<1> QED
  BY <1>2 DEF DoneLineOf

\* Undo as it was, or further down its list.
LEMMA UndoStep ==
  ASSUME Log, UndoInv, Grows,
         \/ undo' = undo
         \/ undo' = Idle
         \/ /\ undo'.todo = undo.todo /\ undo'.run = undo.run /\ undo.todo # <<>>
         \/ /\ undo.todo # <<>> /\ undo'.todo = SubSeq(undo.todo, 2, Len(undo.todo))
            /\ undo'.run = undo.run /\ undo'.pc = "check"
  PROVE  UndoInv'
<1>1. \A r, e : DoneLineOf(r, e) => DoneLineOf(r, e)'
  BY DoneLinesStay
<1>2. CASE undo' = Idle
  <2>1. undo'.todo = <<>> /\ undo'.pc = "idle"
    BY <1>2 DEF Idle
  <2>2. undo'.todo \in Seq({}) /\ DOMAIN undo'.todo = {}
    BY <2>1
  <2> QED
    BY <2>1, <2>2 DEF UndoInv
<1>3. CASE /\ undo'.todo = undo.todo /\ undo'.run = undo.run
           /\ undo.todo # <<>> \/ undo' = undo
  <2>1. PICK rr, td : rr = undo.run /\ td = undo.todo
    OBVIOUS
  <2>2. \A k \in DOMAIN td : DoneLineOf(rr, td[k])
    BY <2>1 DEF UndoInv
  <2>3. \A k \in DOMAIN td : DoneLineOf(rr, td[k])'
    BY <2>2, <1>1
  <2>4. \A k \in DOMAIN undo'.todo : DoneLineOf(undo.run, undo.todo[k])'
    BY <2>1, <2>3, <1>3
  <2> QED
    BY <2>4, <1>3 DEF UndoInv
<1>4. CASE /\ undo.todo # <<>> /\ undo'.todo = SubSeq(undo.todo, 2, Len(undo.todo))
           /\ undo'.run = undo.run /\ undo'.pc = "check"
  <2>1. PICK rr, td : rr = undo.run /\ td = undo.todo
    OBVIOUS
  <2>2. PICK S : td \in Seq(S)
    BY <2>1 DEF UndoInv
  <2>3. \A k \in DOMAIN td : DoneLineOf(rr, td[k])'
    BY <2>1, <1>1 DEF UndoInv
  <2>4. /\ SubSeq(td, 2, Len(td)) \in Seq(S)
        /\ \A k \in DOMAIN SubSeq(td, 2, Len(td)) :
             k + 1 \in DOMAIN td /\ SubSeq(td, 2, Len(td))[k] = td[k + 1]
    BY <2>2
  <2>5. undo'.todo \in Seq(S) /\ \A k \in DOMAIN undo'.todo : \E l \in DOMAIN td : undo'.todo[k] = td[l]
    BY <2>1, <2>4, <1>4
  <2>6. \A k \in DOMAIN undo'.todo : DoneLineOf(undo.run, undo.todo[k])'
    BY <2>1, <2>3, <2>5, <1>4
  <2> QED
    BY <2>5, <2>6, <1>4 DEF UndoInv
<1> QED
  BY <1>2, <1>3, <1>4

----------------------------------------------------------------------------
(* The order undo takes: the ranks of the copies on disk are 1, 2, ... as   *)
(* long as no two lines of a run are done lines of one action.             *)

LEMMA RanksOnto ==
  ASSUME NEW I, IsFiniteSet(I), NEW v, \A i \in I : v[i] \in Nat,
         \A i, j \in I : v[i] = v[j] => i = j,
         NEW k \in 1..Cardinality(I)
  PROVE  \E i \in I : Cardinality({j \in I : v[j] > v[i]}) + 1 = k
<1> DEFINE above(i) == {j \in I : v[j] > v[i]}
           rank == [i \in I |-> Cardinality(above(i)) + 1]
           n == Cardinality(I)
<1>1. n \in Nat
  BY FS_CardinalityType
<1>2. ASSUME NEW i \in I
      PROVE  IsFiniteSet(above(i)) /\ Cardinality(above(i)) \in Nat /\ Cardinality(above(i)) < n
  <2>1. above(i) \in SUBSET (I \ {i})
    <3>1. ~(v[i] > v[i])
      OBVIOUS
    <3> QED
      BY <3>1
  <2>2. IsFiniteSet(I \ {i}) /\ Cardinality(I \ {i}) = n - 1
    BY FS_RemoveElement
  <2> HIDE DEF above
  <2>3. IsFiniteSet(above(i)) /\ Cardinality(above(i)) <= n - 1
    BY <2>1, <2>2, FS_Subset
  <2>4. Cardinality(above(i)) \in Nat
    BY <2>3, FS_CardinalityType
  <2> QED
    BY <2>3, <2>4, <1>1
<1>3. ASSUME NEW i \in I, NEW j \in I, v[i] < v[j]
      PROVE  Cardinality(above(j)) < Cardinality(above(i))
  <2>1. above(j) \in SUBSET above(i) /\ j \in above(i) /\ j \notin above(j)
    <3>1. \A x \in I : v[x] > v[j] => v[x] > v[i]
      BY <1>3
    <3>2. ~(v[j] > v[j])
      OBVIOUS
    <3> QED
      BY <3>1, <3>2, <1>3
  <2> HIDE DEF above
  <2>2. /\ Cardinality(above(j)) <= Cardinality(above(i))
        /\ Cardinality(above(i)) = Cardinality(above(j)) => above(i) = above(j)
    BY <2>1, <1>2, FS_Subset
  <2> QED
    BY <2>1, <2>2, <1>2
<1>4. \A i, j \in I : rank[i] = rank[j] => i = j
  <2> SUFFICES ASSUME NEW i \in I, NEW j \in I, rank[i] = rank[j], i # j PROVE FALSE
    OBVIOUS
  <2>1. v[i] < v[j] \/ v[j] < v[i]
    OBVIOUS
  <2>2. Cardinality(above(i)) + 1 = Cardinality(above(j)) + 1
    OBVIOUS
  <2> HIDE DEF rank, above
  <2>3. Cardinality(above(i)) \in Nat /\ Cardinality(above(j)) \in Nat
    BY <1>2
  <2>4. Cardinality(above(i)) = Cardinality(above(j))
    BY <2>2, <2>3
  <2>5. CASE v[i] < v[j]
    BY <2>3, <2>4, <2>5, <1>3
  <2>6. CASE v[j] < v[i]
    BY <2>3, <2>4, <2>6, <1>3
  <2> QED
    BY <2>1, <2>5, <2>6
<1> SUFFICES ASSUME \A i \in I : rank[i] # k PROVE FALSE
  OBVIOUS
<1>5. rank \in [I -> (1..n) \ {k}]
  <2>1. \A i \in I : rank[i] = Cardinality(above(i)) + 1
    OBVIOUS
  <2>2. DOMAIN rank = I /\ rank = [i \in I |-> rank[i]]
    OBVIOUS
  <2> HIDE DEF rank, above
  <2>3. \A i \in I : rank[i] \in (1..n) \ {k}
    BY <2>1, <1>1, <1>2
  <2> QED
    BY <2>2, <2>3
<1>6. IsFiniteSet(1..n) /\ Cardinality(1..n) = n
  <2>1. Cardinality(1..n) = IF 1 > n THEN 0 ELSE n - 1 + 1
    BY <1>1, FS_Interval, SMTT(20)
  <2> QED
    BY <2>1, <1>1, FS_Interval
<1>7. IsFiniteSet((1..n) \ {k}) /\ Cardinality((1..n) \ {k}) = n - 1
  BY <1>6, FS_RemoveElement
<1>8. Cardinality((1..n) \ {k}) < Cardinality(I)
  BY <1>1, <1>7
<1> HIDE DEF rank, n
<1> QED
  BY <1>4, <1>5, <1>7, <1>8, FS_PigeonHole

LEMMA PresentOrdered ==
  ASSUME Log, Ground, Lines, DoneOnce, NEW r \in Run
  PROVE  LET todo == PresentInOrder(journal, where, r) IN
           /\ \E S : todo \in Seq(S)
           /\ \A k \in DOMAIN todo : DoneLineOf(r, todo[k])
           /\ \A k \in DOMAIN todo : \E i \in Present(journal, where, r) : journal[i] = todo[k]
<1> DEFINE idx == Present(journal, where, r)
           v == [i \in idx |-> journal[i].seq]
           n == Cardinality(idx)
           pick(k) == CHOOSE i \in idx : Cardinality({j \in idx : journal[j].seq > journal[i].seq}) + 1 = k
           todo == [k \in 1..n |-> journal[pick(k)]]
<1>1. \A i \in idx : i \in DOMAIN journal /\ Is(journal[i], "done") /\ journal[i].run = r
                     /\ Restorable(journal[i].receipt)
  BY DEF Present, Pending, OfRun
<1>2. PICK S : journal \in Seq(S)
  BY DEF Log
<1>3. IsFiniteSet(idx)
  <2>1. idx \in SUBSET (1..Len(journal)) /\ Len(journal) \in Nat
    BY <1>1, <1>2
  <2>2. IsFiniteSet(1..Len(journal))
    BY <2>1, FS_Interval
  <2> HIDE DEF idx
  <2> QED
    BY <2>1, <2>2, FS_Subset
<1>4. /\ \A i \in idx : v[i] \in Nat
      /\ \A i, j \in idx : v[i] = v[j] => i = j
  BY <1>1 DEF Lines, DoneOnce
<1>5. ASSUME NEW k \in 1..n PROVE pick(k) \in idx
  <2>1. \E i \in idx : Cardinality({j \in idx : v[j] > v[i]}) + 1 = k
    <3> HIDE DEF idx, v
    <3> QED
      BY <1>3, <1>4, RanksOnto
  <2>2. \A i \in idx : {j \in idx : v[j] > v[i]} = {j \in idx : journal[j].seq > journal[i].seq}
    OBVIOUS
  <2>3. \E i \in idx : Cardinality({j \in idx : journal[j].seq > journal[i].seq}) + 1 = k
    <3> HIDE DEF idx, v
    <3> QED
      BY <2>1, <2>2
  <2> HIDE DEF idx
  <2> QED
    BY <2>3
<1>6. n \in Nat
  BY <1>3, FS_CardinalityType
<1>7. PresentInOrder(journal, where, r) = todo
  BY DEF PresentInOrder
<1> HIDE DEF idx, pick
<1>8. \A k \in 1..n : todo[k] = journal[pick(k)] /\ pick(k) \in idx
  BY <1>5
<1>9. \A k \in 1..n : DoneLineOf(r, todo[k])
  BY <1>1, <1>8 DEF DoneLineOf
<1>10. \A k \in 1..n : \E i \in Present(journal, where, r) : journal[i] = todo[k]
  BY <1>8 DEF idx
<1>11. todo \in Seq({journal[pick(k)] : k \in 1..n}) /\ DOMAIN todo = 1..n
  BY <1>6
<1> QED
  BY <1>7, <1>9, <1>10, <1>11

----------------------------------------------------------------------------
(* Books, action by action. *)

LEMMA BooksStep ==
  ASSUME IInv, Books, world' = world,
         DOMAIN to' = Run, DOMAIN out' = Run, DOMAIN unsafe' = Run,
         DOMAIN undo' = {"pc", "run", "todo", "ok"},
         \A r \in Run : seq'[r] \in Nat /\ seq[r] <= seq'[r],
         NEW e, journal' = journal \/ (journal' = Append(journal, e) /\ Owes(e)),
         UndoInv', AtAction'
  PROVE  Books'
<1>1. Lines' /\ DoneOnce'
  BY LinesStep DEF IInv, Books
<1>2. Ground'
  <2>1. \A r \in Run : seq'[r] \in Nat \ {0}
    BY DEF Books, Ground
  <2> QED
    BY <2>1 DEF Books, Ground
<1> QED
  BY <1>1, <1>2 DEF Books

\* The run that steps, and the others.
LEMMA AtActionStep ==
  ASSUME AtAction, world' = world, NEW r \in Run,
         \A x \in Run : x # r => pc'[x] = pc[x] /\ seq'[x] = seq[x] /\ out'[x] = out[x],
         /\ pc'[r] \in Begun => seq'[r] \in 1..Len(Plan[r])
         /\ pc'[r] \in {"stage", "identify"} => Plan[r][seq'[r]].kind = "trash"
         /\ pc'[r] = "after" /\ Restorable(out'[r].receipt) => out'[r].receipt.from \in Path
  PROVE  AtAction'
<1> SUFFICES ASSUME NEW x \in Run PROVE AtAction!(x)'
  BY DEF AtAction
<1>1. Plan' = Plan
  BY DEF Plan
<1>2. CASE x # r
  <2>1. pc'[x] = pc[x] /\ seq'[x] = seq[x] /\ out'[x] = out[x]
    BY <1>2
  <2>2. AtAction!(x)
    BY DEF AtAction
  <2> QED
    BY <1>1, <2>1, <2>2 DEF Act
<1>3. CASE x = r
  BY <1>1, <1>3 DEF Act
<1> QED
  BY <1>2, <1>3

\* A step of a run that journals nothing and stays at its action.
LEMMA BooksQuiet ==
  ASSUME IInv, Books, UNCHANGED <<world, journal, seq, unsafe, undo>>,
         NEW r \in Run, NEW p \in Pcs, pc' = [pc EXCEPT ![r] = p],
         DOMAIN to' = Run, DOMAIN out' = Run,
         \A x \in Run : x # r => out'[x] = out[x],
         /\ p \in Begun => seq[r] \in 1..Len(Plan[r])
         /\ p \in {"stage", "identify"} => Act(r).kind = "trash"
         /\ p = "after" /\ Restorable(out'[r].receipt) => out'[r].receipt.from \in Path
  PROVE  Books'
<1>1. \A x \in Run : pc'[x] = IF x = r THEN p ELSE pc[x]
  BY DEF IInv, TypeInv
<1>2. AtAction'
  <2>1. AtAction
    BY DEF Books
  <2>2. \A x \in Run : x # r => pc'[x] = pc[x] /\ seq'[x] = seq[x] /\ out'[x] = out[x]
    BY <1>1
  <2>3. /\ pc'[r] \in Begun => seq'[r] \in 1..Len(Plan[r])
        /\ pc'[r] \in {"stage", "identify"} => Plan[r][seq'[r]].kind = "trash"
        /\ pc'[r] = "after" /\ Restorable(out'[r].receipt) => out'[r].receipt.from \in Path
    BY <1>1 DEF Act
  <2> QED
    BY <2>1, <2>2, <2>3, AtActionStep
<1>3. UndoInv'
  BY UndoStep DEF IInv, Books, Grows
<1>4. \A x \in Run : seq'[x] \in Nat /\ seq[x] <= seq'[x]
  BY DEF IInv, TypeInv
<1>5. /\ world' = world /\ DOMAIN unsafe' = Run
      /\ DOMAIN undo' = {"pc", "run", "todo", "ok"}
      /\ \E e : journal' = journal \/ (journal' = Append(journal, e) /\ Owes(e))
  BY DEF Books, Ground
<1> QED
  BY <1>2, <1>3, <1>4, <1>5, BooksStep

\* An action in progress is one of the plan; a move is of a path.
LEMMA ActInPlan ==
  ASSUME Books, NEW r \in Run, pc[r] \in Begun
  PROVE  /\ seq[r] \in 1..Len(Plan[r])
         /\ Act(r).kind = "trash" => Act(r).path \in Path
<1>1. seq[r] \in 1..Len(Plan[r]) /\ world \in Worlds
  BY DEF Books, AtAction, Ground
<1> QED
  BY <1>1, WorldsAssumption DEF Act, Plan

LEMMA FailedKeepsNothing == ~Restorable(Failed.receipt) /\ ~Failed.ok
  BY DEF Restorable, Failed, NoReceipt

LEMMA PlainBooks ==
  ASSUME IInv, Books, NEW r \in Run,
         \/ Finish(r) \/ Refuse(r) \/ FinderFails(r) \/ StageFails(r) \/ GiveUp(r)
  PROVE  Books'
<1>1. UNCHANGED <<world, journal, seq, unsafe, undo>>
  BY DEF Finish, Refuse, FinderFails, StageFails, GiveUp, undoVars
<1>2. PICK p \in {"ended", "after", "stage"} :
        /\ pc' = [pc EXCEPT ![r] = p]
        /\ p \in Begun => pc[r] \in Begun
        /\ p = "stage" => Act(r).kind = "trash"
        /\ p = "after" => out' = [out EXCEPT ![r] = Failed]
        /\ p # "after" => out' = out
  BY DEF Finish, Refuse, FinderFails, StageFails, GiveUp, Outcome, Begun
<1>3. DOMAIN to' = Run
  BY DEF Finish, Refuse, FinderFails, StageFails, GiveUp, Books, Ground
<1>4. DOMAIN out' = Run /\ \A x \in Run : x # r => out'[x] = out[x]
  BY <1>2 DEF Books, Ground
<1>5. p = "after" => out'[r] = Failed
  BY <1>2 DEF Books, Ground
<1>6. p \in Begun => seq[r] \in 1..Len(Plan[r])
  BY <1>2, ActInPlan
<1>7. p \in Pcs
  BY <1>2 DEF Pcs
<1>8. p = "after" /\ Restorable(out'[r].receipt) => out'[r].receipt.from \in Path
  BY <1>5, FailedKeepsNothing
<1> QED
  BY <1>1, <1>2, <1>3, <1>4, <1>6, <1>7, <1>8, BooksQuiet

LEMMA MovesBooks ==
  ASSUME IInv, Books, NEW r \in Run, FinderMoves(r) \/ StageRenames(r)
  PROVE  Books'
<1>1. /\ UNCHANGED <<world, journal, seq, unsafe, undo, out>> /\ pc[r] \in Begun
      /\ pc' = [pc EXCEPT ![r] = "identify"]
  BY DEF FinderMoves, StageRenames, Begun, undoVars
<1>2. Act(r).kind = "trash"
  BY DEF FinderMoves, StageRenames, Books, AtAction
<1>3. DOMAIN to' = Run /\ DOMAIN out' = Run
  BY <1>1 DEF FinderMoves, StageRenames, Books, Ground
<1>4. seq[r] \in 1..Len(Plan[r])
  BY <1>1, ActInPlan
<1>5. "identify" \in Pcs
  BY DEF Pcs
<1> QED
  BY <1>1, <1>2, <1>3, <1>4, <1>5, BooksQuiet

LEMMA IdentifyBooks ==
  ASSUME IInv, Books, NEW r \in Run, Identify(r)
  PROVE  Books'
<1>1. /\ UNCHANGED <<world, journal, seq, unsafe, undo, to>> /\ pc[r] = "identify"
      /\ pc' = [pc EXCEPT ![r] = "after"]
  BY DEF Identify, Outcome, undoVars
<1>2. PICK ino : out' = [out EXCEPT ![r] = [Failed EXCEPT !.ok = TRUE,
                                              !.receipt = MoveReceipt(Act(r).path, to[r], ino)]]
  BY DEF Identify, Outcome
<1>3. Act(r).kind = "trash" /\ pc[r] \in Begun
  BY <1>1 DEF Books, AtAction, Begun
<1>4. seq[r] \in 1..Len(Plan[r]) /\ Act(r).path \in Path
  BY <1>3, ActInPlan
<1>5. DOMAIN to' = Run /\ DOMAIN out' = Run /\ \A x \in Run : x # r => out'[x] = out[x]
  BY <1>1, <1>2 DEF Books, Ground
<1>6. out'[r].receipt = MoveReceipt(Act(r).path, to[r], ino)
  BY <1>2 DEF Books, Ground, Failed
<1>7. out'[r].receipt.from \in Path
  BY <1>4, <1>6 DEF MoveReceipt
<1>8. "after" \in Pcs
  BY DEF Pcs
<1> QED
  BY <1>1, <1>4, <1>5, <1>7, <1>8, BooksQuiet

LEMMA CommandBooks ==
  ASSUME IInv, Books, NEW r \in Run, RunCommand(r)
  PROVE  Books'
<1>1. /\ UNCHANGED <<world, journal, seq, unsafe, undo, to>> /\ pc[r] = "act"
      /\ pc' = [pc EXCEPT ![r] = "after"]
  BY DEF RunCommand, Outcome, undoVars
<1>2. PICK ok, pruned, receipt :
        /\ out' = [out EXCEPT ![r] = [ok |-> ok, pruned |-> pruned, receipt |-> receipt]]
        /\ receipt \in {ExportReceipt, NoReceipt}
  BY DEF RunCommand, Outcome
<1>3. seq[r] \in 1..Len(Plan[r])
  BY <1>1, ActInPlan DEF Begun
<1>4. DOMAIN to' = Run /\ DOMAIN out' = Run /\ \A x \in Run : x # r => out'[x] = out[x]
  BY <1>1, <1>2 DEF Books, Ground
<1>5. ~Restorable(out'[r].receipt)
  <2>1. out'[r].receipt = receipt
    BY <1>2 DEF Books, Ground
  <2>2. ~Restorable(ExportReceipt) /\ ~Restorable(NoReceipt)
    BY DEF Restorable, ExportReceipt, NoReceipt
  <2> QED
    BY <2>1, <2>2, <1>2
<1>6. "after" \in Pcs
  BY DEF Pcs
<1> QED
  BY <1>1, <1>3, <1>4, <1>5, <1>6, BooksQuiet

LEMMA KillBooks ==
  ASSUME IInv, Books, NEW r \in Run, Kill(r)
  PROVE  Books'
<1>1. /\ UNCHANGED <<world, journal, seq, unsafe, undo, to, out>>
      /\ pc' = [pc EXCEPT ![r] = "ended"]
  BY DEF Kill, undoVars
<1>2. DOMAIN to' = Run /\ DOMAIN out' = Run
  BY <1>1 DEF Books, Ground
<1>3. "ended" \in Pcs /\ "ended" \notin Begun
  BY DEF Pcs, Begun
<1> QED
  BY <1>1, <1>2, <1>3, BooksQuiet

\* An action skipped: the run is one on.
LEMMA SkipBooks ==
  ASSUME IInv, Books, NEW r \in Run, SkipTrash(r)
  PROVE  Books'
<1>1. /\ UNCHANGED <<world, journal, pc, unsafe, undo, to, out>> /\ pc[r] = "next"
      /\ seq' = [seq EXCEPT ![r] = @ + 1]
  BY DEF SkipTrash, Ready, undoVars
<1>2. \A x \in Run : seq'[x] \in Nat /\ seq[x] <= seq'[x] /\ (x # r => seq'[x] = seq[x])
  BY <1>1 DEF IInv, TypeInv
<1>3. AtAction'
  <2>1. pc'[r] \notin Begun
    BY <1>1 DEF Begun
  <2>2. pc'[r] = "next"
    BY <1>1
  <2> QED
    BY <2>1, <2>2, <1>1, <1>2, AtActionStep DEF Books
<1>4. UndoInv'
  BY <1>1, UndoStep DEF IInv, Books, Grows
<1>5. /\ world' = world /\ DOMAIN to' = Run /\ DOMAIN out' = Run /\ DOMAIN unsafe' = Run
      /\ DOMAIN undo' = {"pc", "run", "todo", "ok"}
  BY <1>1 DEF Books, Ground
<1> QED
  BY <1>1, <1>2, <1>3, <1>4, <1>5, BooksStep

\* The start line, of an action of the plan.
LEMMA StartBooks ==
  ASSUME IInv, Books, NEW r \in Run, JournalStart(r)
  PROVE  Books'
<1> DEFINE e == Start(r, seq[r], Act(r))
<1>1. UNCHANGED <<world, seq, unsafe, undo, to, out>> /\ seq[r] <= Len(Plan[r])
  BY DEF JournalStart, Ready, undoVars
<1>2. /\ journal' = journal \/ journal' = Append(journal, e)
      /\ \E p \in {"act", "ended"} : pc' = [pc EXCEPT ![r] = p]
  BY DEF JournalStart, Journals, Appends, AppendFails
<1>3. \A x \in Run : seq'[x] \in Nat /\ seq[x] <= seq'[x] /\ seq'[x] = seq[x]
  BY <1>1 DEF IInv, TypeInv
<1>4. Owes(e)
  BY <1>3 DEF Start, Is, Owes
<1>5. seq[r] \in 1..Len(Plan[r])
  <2>1. seq[r] \in Nat \ {0} /\ Len(Plan[r]) \in Nat
    BY WorldsAssumption DEF Books, Ground, Plan
  <2> QED
    BY <2>1, <1>1
<1>6. AtAction'
  <2>1. \A x \in Run : x # r => pc'[x] = pc[x]
    BY <1>2 DEF IInv, TypeInv
  <2>2. pc'[r] \in {"act", "ended"}
    BY <1>2 DEF IInv, TypeInv
  <2> QED
    BY <2>1, <2>2, <1>1, <1>3, <1>5, AtActionStep DEF Books
<1>7. UndoInv'
  BY <1>1, <1>2, UndoStep DEF IInv, Books, Grows
<1>8. /\ world' = world /\ DOMAIN to' = Run /\ DOMAIN out' = Run /\ DOMAIN unsafe' = Run
      /\ DOMAIN undo' = {"pc", "run", "todo", "ok"}
  BY <1>1 DEF Books, Ground
<1> HIDE DEF e
<1> QED
  BY <1>2, <1>3, <1>4, <1>6, <1>7, <1>8, BooksStep

\* The after line, of the action the run is at; the run is one on.
LEMMA AfterBooks ==
  ASSUME IInv, Books, NEW r \in Run, JournalAfter(r)
  PROVE  Books'
<1> DEFINE e == After(r, seq[r], out[r])
<1>1. /\ UNCHANGED <<world, undo>> /\ pc[r] = "after"
      /\ seq' = [seq EXCEPT ![r] = @ + 1]
      /\ DOMAIN unsafe' = Run /\ DOMAIN to' = Run
      /\ out' = [out EXCEPT ![r] = Failed]
  BY DEF JournalAfter, Books, Ground, undoVars
<1>2. /\ journal' = journal \/ journal' = Append(journal, e)
      /\ \E p \in {"next", "ended"} : pc' = [pc EXCEPT ![r] = p]
  BY DEF JournalAfter, Journals, Appends, AppendFails
<1>3. /\ \A x \in Run : seq'[x] \in Nat /\ seq[x] <= seq'[x] /\ (x # r => seq'[x] = seq[x])
      /\ seq[r] \in Nat /\ seq'[r] = seq[r] + 1
  BY <1>1 DEF IInv, TypeInv
<1>4. Owes(e)
  <2>1. Restorable(out[r].receipt) => out[r].receipt.from \in Path
    BY <1>1 DEF Books, AtAction
  <2>2. e.run = r /\ e.seq = seq[r] /\ e.receipt = out[r].receipt
    BY DEF After
  <2> HIDE DEF e
  <2> QED
    BY <2>1, <2>2, <1>3 DEF Owes
<1>5. DOMAIN out' = Run /\ \A x \in Run : x # r => out'[x] = out[x]
  BY <1>1 DEF Books, Ground
<1>6. AtAction'
  <2>1. \A x \in Run : x # r => pc'[x] = pc[x]
    BY <1>2 DEF IInv, TypeInv
  <2>2. pc'[r] \in {"next", "ended"}
    BY <1>2 DEF IInv, TypeInv
  <2>3. pc'[r] \notin Begun /\ pc'[r] \notin {"stage", "identify", "after"}
    BY <2>2 DEF Begun
  <2> QED
    BY <2>1, <2>3, <1>1, <1>3, <1>5, AtActionStep DEF Books
<1>7. UndoInv'
  BY <1>1, <1>2, UndoStep DEF IInv, Books, Grows
<1>8. DOMAIN undo' = {"pc", "run", "todo", "ok"}
  BY <1>1 DEF Books, Ground
<1> HIDE DEF e
<1> QED
  BY <1>1, <1>2, <1>3, <1>4, <1>5, <1>6, <1>7, <1>8, BooksStep

\* The books' part of a step no run takes.
LEMMA BesideBooks ==
  ASSUME IInv, Books, UNCHANGED <<world, pc, seq, to, out, unsafe>>,
         DOMAIN undo' = {"pc", "run", "todo", "ok"}, UndoInv',
         NEW e, journal' = journal \/ (journal' = Append(journal, e) /\ Owes(e))
  PROVE  Books'
<1>1. AtAction'
  <2>1. Plan' = Plan
    BY DEF Plan
  <2> QED
    BY <2>1 DEF Books, AtAction, Act
<1>2. \A r \in Run : seq'[r] \in Nat /\ seq[r] <= seq'[r]
  BY DEF IInv, TypeInv
<1>3. world' = world /\ DOMAIN to' = Run /\ DOMAIN out' = Run /\ DOMAIN unsafe' = Run
  BY DEF Books, Ground
<1> QED
  BY <1>1, <1>2, <1>3, BooksStep

\* Undo: it starts with done lines of its run, and goes down its list.
LEMMA UndoBooks ==
  ASSUME IInv, Books, UndoNext
  PROVE  Books'
<1>1. UNCHANGED <<world, pc, seq, to, out, unsafe>>
  BY DEF UndoNext, UndoStart, UndoCheck, UndoRename, UndoLog, UndoEnds, runVars
<1>2. DOMAIN Idle = {"pc", "run", "todo", "ok"}
  BY DEF Idle
<1>3. \A r \in Run : seq'[r] = seq[r] /\ seq[r] \in Nat
  BY <1>1 DEF IInv, TypeInv
<1>4. ASSUME NEW r \in Run, UndoStart(r) PROVE Books'
  <2>1. /\ journal' = journal
        /\ undo' = [pc |-> "check", run |-> r, todo |-> PresentInOrder(journal, where, r), ok |-> FALSE]
    BY <1>4 DEF UndoStart
  <2>2. PICK td : td = PresentInOrder(journal, where, r)
    OBVIOUS
  <2>3. (\E S : td \in Seq(S)) /\ \A k \in DOMAIN td : DoneLineOf(r, td[k])
    BY <2>2, PresentOrdered DEF IInv, Books
  <2>4. \A k \in DOMAIN td : DoneLineOf(r, td[k])'
    BY <2>1, <2>3 DEF DoneLineOf
  <2>5. undo'.run = r /\ undo'.todo = td /\ undo'.pc = "check" /\ DOMAIN undo' = {"pc", "run", "todo", "ok"}
    BY <2>1, <2>2
  <2>6. UndoInv'
    BY <2>3, <2>4, <2>5 DEF UndoInv
  <2> QED
    BY <1>1, <2>1, <2>5, <2>6, BesideBooks
<1>5. CASE UndoCheck \/ UndoRename \/ UndoEnds
  <2>1. journal' = journal
    BY <1>5 DEF UndoCheck, UndoRename, UndoEnds
  <2>2. /\ DOMAIN undo' = {"pc", "run", "todo", "ok"}
        /\ \/ undo' = Idle
           \/ undo'.todo = undo.todo /\ undo'.run = undo.run
        /\ undo' = Idle \/ undo.todo # <<>>
    BY <1>2, <1>5 DEF Books, Ground, UndoInv, UndoCheck, UndoRename, UndoEnds
  <2>3. UndoInv'
    BY <2>1, <2>2, UndoStep DEF IInv, Books, Grows
  <2> QED
    BY <1>1, <2>1, <2>2, <2>3, BesideBooks
<1>6. CASE UndoLog
  <2> DEFINE e == UndoEntry(undo.run, Current.seq, undo.ok)
  <2>1. undo.todo # <<>> /\ undo.pc = "log"
    BY <1>6 DEF UndoLog, Books, UndoInv
  <2>2. /\ journal' = journal \/ journal' = Append(journal, e)
        /\ \/ undo' = Idle
           \/ undo' = [undo EXCEPT !.pc = "check", !.todo = SubSeq(@, 2, Len(@))]
    BY <1>6 DEF UndoLog, Appends, AppendFails
  <2>3. /\ DOMAIN undo' = {"pc", "run", "todo", "ok"}
        /\ \/ undo' = Idle
           \/ undo'.todo = SubSeq(undo.todo, 2, Len(undo.todo)) /\ undo'.run = undo.run /\ undo'.pc = "check"
    BY <1>2, <2>2 DEF Books, Ground
  <2>4. Owes(e)
    <3>1. PICK S : undo.todo \in Seq(S)
      BY DEF Books, UndoInv
    <3>2. 1 \in DOMAIN undo.todo
      BY <2>1, <3>1
    <3>3. DoneLineOf(undo.run, Current)
      BY <3>2 DEF Books, UndoInv, Current
    <3>4. PICK i \in DOMAIN journal : journal[i] = Current /\ Current.run = undo.run
      BY <3>3 DEF DoneLineOf
    <3>5. undo.run \in Run /\ Current.seq \in Nat /\ Current.seq <= seq[undo.run]
      BY <3>4 DEF Books, Lines
    <3>6. e.run = undo.run /\ e.seq = Current.seq /\ e.event = "undo"
      BY DEF UndoEntry
    <3> HIDE DEF e
    <3> QED
      BY <3>5, <3>6, <1>3 DEF Owes, Is
  <2> HIDE DEF e
  <2>5. UndoInv'
    BY <2>1, <2>2, <2>3, UndoStep DEF IInv, Books, Grows
  <2> QED
    BY <1>1, <2>2, <2>3, <2>4, <2>5, BesideBooks
<1> QED
  BY <1>4, <1>5, <1>6 DEF UndoNext

\* The owner, Finder and the apps have no part in the books.
LEMMA OutsideBooks ==
  ASSUME IInv, Books, UNCHANGED <<world, journal, pc, seq, to, out, unsafe, undo>>
  PROVE  Books'
<1>1. UndoInv'
  BY UndoStep DEF IInv, Books, Grows
<1>2. DOMAIN undo' = {"pc", "run", "todo", "ok"}
  BY DEF Books, Ground
<1> QED
  BY <1>1, <1>2, BesideBooks

LEMMA NextBooks == ASSUME IInv, Books, [Next]_vars PROVE Books'
<1>1. CASE ExecuteNext
  <2>1. PICK r \in Run : \/ Finish(r) \/ SkipTrash(r) \/ JournalStart(r) \/ Refuse(r)
                \/ FinderMoves(r) \/ FinderFails(r) \/ StageRenames(r) \/ StageFails(r)
                \/ Identify(r) \/ GiveUp(r) \/ RunCommand(r) \/ JournalAfter(r)
                \/ AskStop(r) \/ Kill(r)
    BY <1>1 DEF ExecuteNext
  <2>2. CASE AskStop(r)
    <3>1. UNCHANGED <<world, journal, pc, seq, to, out, unsafe, undo>>
      BY <2>2 DEF AskStop, undoVars
    <3> QED
      BY <3>1, OutsideBooks
  <2> QED
    BY <2>1, <2>2, PlainBooks, SkipBooks, StartBooks, MovesBooks, IdentifyBooks, CommandBooks,
       AfterBooks, KillBooks
<1>2. CASE OutsideNext \/ UNCHANGED vars
  <2>1. UNCHANGED <<world, journal, pc, seq, to, out, unsafe, undo>>
    BY <1>2 DEF vars, OutsideNext, Regrows, OwnerTrashesItem, CopyRemoved, PutBack, TrashEmptied,
                FinderEmpties, LstatTurns, StrayLands, OthersUnchanged, runVars, undoVars, diskVars, history
  <2> QED
    BY <2>1, OutsideBooks
<1> QED
  BY <1>1, <1>2, UndoBooks DEF Next

LEMMA InitBooks == Init => Books
<1> SUFFICES ASSUME Init PROVE Books
  OBVIOUS
<1>1. Ground
  BY DEF Init, Ground, Idle
<1>2. journal = <<>> /\ DOMAIN journal = {}
  BY DEF Init
<1>3. Lines /\ DoneOnce
  BY <1>2 DEF Lines, DoneOnce
<1>4. AtAction
  BY DEF Init, AtAction, Begun
<1>5. UndoInv
  <2>1. undo.todo = <<>> /\ undo.pc = "idle"
    BY DEF Init, Idle
  <2>2. undo.todo \in Seq({}) /\ DOMAIN undo.todo = {}
    BY <2>1
  <2> QED
    BY <2>1, <2>2 DEF UndoInv
<1> QED
  BY <1>1, <1>3, <1>4, <1>5 DEF Books

----------------------------------------------------------------------------
(* Places.  The Trash, each run's staging directory and the paths are       *)
(* apart, folded or not.                                                    *)

TrashPlace(loc) == \E name \in DOMAIN Fold, n \in 1..Copies : loc = InTrash(name, n)
StagingPlace(r, loc) == \E name \in DOMAIN Fold, n \in 1..Copies : loc = InStaging(r, name, n)

LEMMA PlacesApart ==
  /\ \A loc : TrashPlace(loc) => TrashPlace(Place(loc)) /\ loc \notin Path
  /\ \A r \in Run : \A loc : StagingPlace(r, loc) => StagingPlace(r, Place(loc)) /\ loc \notin Path
  /\ \A p \in Path : Place(p) = p /\ p # Nowhere
  /\ Place(Nowhere) = Nowhere
  /\ \A loc : TrashPlace(loc) => loc # Nowhere /\ \A r \in Run : ~StagingPlace(r, loc)
  /\ \A r \in Run : \A loc : StagingPlace(r, loc) => loc # Nowhere /\ \A x \in Run \ {r} : ~StagingPlace(x, loc)
<1>1. ASSUME NEW loc, TrashPlace(loc)
      PROVE  /\ TrashPlace(Place(loc)) /\ loc \notin Path
             /\ loc # Nowhere /\ \A r \in Run : ~StagingPlace(r, loc)
  <2>1. PICK name \in DOMAIN Fold, n \in 1..Copies : loc = InTrash(name, n)
    BY <1>1 DEF TrashPlace
  <2>2. loc \notin Path
    BY <2>1, PathAssumption
  <2>3. loc # Nowhere /\ loc[1] = "trash" /\ loc[2] = name /\ loc[3] = n /\ Len(loc) = 3
    BY <2>1 DEF InTrash, Nowhere
  <2>4. FoldLoc(loc) = InTrash(Fold[name], n)
    BY <2>2, <2>3 DEF FoldLoc, IsTrash
  <2>5. TrashPlace(FoldLoc(loc))
    BY <2>4, PathAssumption DEF TrashPlace
  <2>6. \A r \in Run : ~StagingPlace(r, loc)
    BY <2>3 DEF StagingPlace, InStaging
  <2> QED
    BY <1>1, <2>2, <2>3, <2>5, <2>6 DEF Place
<1>2. ASSUME NEW r \in Run, NEW loc, StagingPlace(r, loc)
      PROVE  /\ StagingPlace(r, Place(loc)) /\ loc \notin Path
             /\ loc # Nowhere /\ \A x \in Run \ {r} : ~StagingPlace(x, loc)
  <2>1. PICK name \in DOMAIN Fold, n \in 1..Copies : loc = InStaging(r, name, n)
    BY <1>2 DEF StagingPlace
  <2>2. loc \notin Path
    BY <2>1, PathAssumption
  <2>3. loc # Nowhere /\ loc[1] = "staging" /\ loc[2] = r /\ loc[3] = name /\ loc[4] = n
    BY <2>1 DEF InStaging, Nowhere
  <2>4. FoldLoc(loc) = InStaging(r, Fold[name], n)
    BY <2>2, <2>3 DEF FoldLoc, IsTrash, IsStaging
  <2>5. StagingPlace(r, FoldLoc(loc))
    BY <2>4, PathAssumption DEF StagingPlace
  <2>6. \A x \in Run \ {r} : ~StagingPlace(x, loc)
    BY <2>3 DEF StagingPlace, InStaging
  <2> QED
    BY <1>2, <2>2, <2>3, <2>5, <2>6 DEF Place
<1>3. \A p \in Path : Place(p) = p /\ p # Nowhere
  BY PathAssumption DEF Place, FoldLoc, IsTrash, IsStaging
<1>4. Place(Nowhere) = Nowhere
  BY DEF Place, FoldLoc, IsTrash, IsStaging
<1> QED
  BY <1>1, <1>2, <1>3, <1>4

\* Something of a finite set comes first.
LEMMA FirstOf ==
  ASSUME NEW I, IsFiniteSet(I), I # {}, NEW v, \A i \in I : v[i] \in Nat,
         \A i, j \in I : v[i] = v[j] => i = j
  PROVE  \E i \in I : \A j \in I : v[i] <= v[j]
<1> DEFINE above(i) == {j \in I : v[j] > v[i]}
<1>1. Cardinality(I) \in Nat /\ Cardinality(I) # 0
  BY FS_CardinalityType, FS_EmptySet
<1>2. PICK i \in I : Cardinality({j \in I : v[j] > v[i]}) + 1 = Cardinality(I)
  <2>1. \A k \in 1..Cardinality(I) : \E i \in I : Cardinality({j \in I : v[j] > v[i]}) + 1 = k
    <3> HIDE DEF above
    <3> SUFFICES ASSUME NEW k \in 1..Cardinality(I)
                 PROVE  \E i \in I : Cardinality({j \in I : v[j] > v[i]}) + 1 = k
      OBVIOUS
    <3> QED
      BY RanksOnto
  <2>2. Cardinality(I) \in 1..Cardinality(I)
    BY <1>1
  <2> QED
    BY <2>1, <2>2
<1>3. above(i) = I \ {i}
  <2>1. IsFiniteSet(I \ {i}) /\ Cardinality(I \ {i}) = Cardinality(I) - 1
    BY <1>1, FS_RemoveElement
  <2>2. above(i) \in SUBSET (I \ {i})
    <3>1. ~(v[i] > v[i])
      OBVIOUS
    <3> QED
      BY <3>1
  <2>3. Cardinality(above(i)) + 1 = Cardinality(I)
    BY <1>2
  <2> HIDE DEF above
  <2>4. IsFiniteSet(above(i)) /\ Cardinality(above(i)) \in Nat
    BY <2>1, <2>2, FS_Subset, FS_CardinalityType
  <2>5. Cardinality(above(i)) = Cardinality(I \ {i})
    BY <1>1, <2>1, <2>3, <2>4
  <2> QED
    BY <2>1, <2>2, <2>5, FS_Subset
<1>4. \A m \in I : v[i] <= v[m]
  <2>1. \A m \in I : m = i \/ m \in above(i)
    BY <1>3
  <2>2. \A m \in above(i) : m \in I /\ v[m] > v[i]
    OBVIOUS
  <2> QED
    BY <2>1, <2>2
<1> QED
  BY <1>4

\* Some number of a set of numbers up to N is its least.
LEMMA LeastOf ==
  ASSUME NEW N \in Nat, NEW S, S \subseteq 1..N, S # {}
  PROVE  Least(S) \in S
<1>1. IsFiniteSet(S)
  <2>1. IsFiniteSet(1..N) /\ S \in SUBSET (1..N)
    BY FS_Interval
  <2> QED
    BY <2>1, FS_Subset
<1>2. PICK v : v = [n \in S |-> n]
  OBVIOUS
<1>3. (\A n \in S : v[n] \in Nat) /\ \A i, j \in S : v[i] = v[j] => i = j
  BY <1>2
<1>4. \E n \in S : \A m \in S : v[n] <= v[m]
  BY <1>1, <1>3, FirstOf
<1>5. \E n \in S : \A m \in S : n <= m
  BY <1>2, <1>4
<1> QED
  BY <1>5 DEF Least

\* Finder's name, and stage's, are free as they are taken.
LEMMA TrashNameFree ==
  ASSUME Ground, NEW p \in Path, FreeInTrash(where, Base[p]) # {}
  PROVE  TrashPlace(FinderName(where, p)) /\ ~Exists(where, FinderName(where, p))
<1>1. Base[p] \in DOMAIN Fold /\ Copies \in Nat
  BY WorldsAssumption, CopiesAssumption DEF Ground, Base
<1>2. FreeInTrash(where, Base[p]) \subseteq 1..Copies
  BY DEF FreeInTrash
<1>3. Least(FreeInTrash(where, Base[p])) \in FreeInTrash(where, Base[p])
  BY <1>1, <1>2, LeastOf
<1>4. PICK n : n = Least(FreeInTrash(where, Base[p]))
  OBVIOUS
<1>5. n \in 1..Copies /\ ~Exists(where, InTrash(Base[p], n))
  BY <1>3, <1>4 DEF FreeInTrash
<1>6. FinderName(where, p) = InTrash(Base[p], n)
  BY <1>4 DEF FinderName
<1> QED
  BY <1>1, <1>5, <1>6 DEF TrashPlace

LEMMA StagingNameFree ==
  ASSUME Ground, NEW r \in Run, NEW p \in Path, FreeInStaging(where, r, Base[p]) # {}
  PROVE  StagingPlace(r, StagingName(where, r, p)) /\ ~Exists(where, StagingName(where, r, p))
<1>1. Base[p] \in DOMAIN Fold /\ Copies \in Nat
  BY WorldsAssumption, CopiesAssumption DEF Ground, Base
<1>2. FreeInStaging(where, r, Base[p]) \subseteq 1..Copies
  BY DEF FreeInStaging
<1>3. Least(FreeInStaging(where, r, Base[p])) \in FreeInStaging(where, r, Base[p])
  BY <1>1, <1>2, LeastOf
<1>4. PICK n : n = Least(FreeInStaging(where, r, Base[p]))
  OBVIOUS
<1>5. n \in 1..Copies /\ ~Exists(where, InStaging(r, Base[p], n))
  BY <1>3, <1>4 DEF FreeInStaging
<1>6. StagingName(where, r, p) = InStaging(r, Base[p], n)
  BY <1>4 DEF StagingName
<1> QED
  BY <1>1, <1>5, <1>6 DEF StagingPlace

\* What names a place of the Trash or of staging says so.
LEMMA PlacesTell ==
  /\ \A loc : TrashPlace(loc) => IsTrash(loc)
  /\ \A r \in Run : \A loc : StagingPlace(r, loc) => IsStaging(loc)
<1>1. ASSUME NEW loc, TrashPlace(loc) PROVE IsTrash(loc)
  <2>1. loc # Nowhere /\ loc[1] = "trash"
    BY <1>1 DEF TrashPlace, InTrash, Nowhere
  <2> QED
    BY <1>1, <2>1, PlacesApart DEF IsTrash
<1>2. ASSUME NEW r \in Run, NEW loc, StagingPlace(r, loc) PROVE IsStaging(loc)
  <2>1. loc # Nowhere /\ loc[1] = "staging"
    BY <1>2 DEF StagingPlace, InStaging, Nowhere
  <2> QED
    BY <1>2, <2>1, PlacesApart DEF IsStaging
<1> QED
  BY <1>1, <1>2

----------------------------------------------------------------------------
(***************************************************************************)
(* Every move is accounted for.  It has its receipt, or its run gave it up *)
(* and said so, or nothing of its run comes after it; and until one of     *)
(* these is so the run still has it at hand, to look at or to journal.  A  *)
(* move left behind is accounted for before it lands: what Finder was asked*)
(* before it answered with an error, as late as the staging of its item.   *)
(***************************************************************************)

GivenUp(m) == HasLine("fail", m.run, m.seq)

Cut(m) == pc[m.run] = "ended" /\ \A i \in OfRun(journal, m.run) : journal[i].seq <= m.seq

Failing(m) == seq[m.run] = m.seq /\ pc[m.run] = "after" /\ ~out[m.run].ok

AtHand(m) == /\ seq[m.run] = m.seq
             /\ \/ pc[m.run] = "identify" /\ Act(m.run).path = m.from /\ to[m.run] = m.to
                \/ /\ pc[m.run] = "after" /\ out[m.run].ok
                   /\ out[m.run].receipt.from = m.from /\ out[m.run].receipt.to = m.to
                \/ Failing(m)

\* The run of m stages the item m was of, or has.
Staging(m) == seq[m.run] = m.seq /\ pc[m.run] = "stage" /\ StagingPlace(m.run, to[m.run])
Late(m) == Staging(m) \/ \E n \in moved : /\ n.run = m.run /\ n.seq = m.seq /\ IsStaging(n.to)
                                          /\ Receipted(n) \/ AtHand(n)

\* Moves are of the plan's trash actions.
OfPlan(m) == /\ m.run \in Run /\ m.seq \in 1..Len(Plan[m.run]) /\ m.seq <= seq[m.run]
             /\ Plan[m.run][m.seq].kind = "trash"

MovesKept == \A m \in moved : OfPlan(m) /\ (Receipted(m) \/ GivenUp(m) \/ Cut(m) \/ AtHand(m)
                                            \/ (IsTrash(m.to) /\ Late(m)))
StraysKept == \A m \in strays : OfPlan(m) /\ m.path \in Path
                                /\ (GivenUp(m) \/ Cut(m) \/ Failing(m) \/ (m.to = Nowhere /\ Late(m)))
Kept == MovesKept /\ StraysKept

\* No line comes after the cut, as a run that ended journals nothing and
\* undo journals for an action with a done line.
LEMMA AccountsStay ==
  ASSUME IInv, world' = world, \A x \in Run : pc[x] = "ended" => pc'[x] = "ended",
         NEW e, \/ journal' = journal
                \/ /\ journal' = Append(journal, e)
                   /\ \/ pc[e.run] # "ended"
                      \/ \E i \in DOMAIN journal : journal[i].run = e.run /\ journal[i].seq = e.seq
  PROVE  \A m : m.run \in Run => /\ Receipted(m) => Receipted(m)'
                                 /\ GivenUp(m) => GivenUp(m)'
                                 /\ Cut(m) => Cut(m)'
<1> SUFFICES ASSUME NEW m, m.run \in Run
             PROVE  /\ Receipted(m) => Receipted(m)'
                    /\ GivenUp(m) => GivenUp(m)'
                    /\ Cut(m) => Cut(m)'
  OBVIOUS
<1>1. /\ \A i \in DOMAIN journal : i \in DOMAIN journal' /\ journal'[i] = journal[i]
      /\ \A i \in DOMAIN journal' :
           \/ i \in DOMAIN journal
           \/ i = Len(journal) + 1 /\ i \notin DOMAIN journal /\ journal'[i] = e
              /\ journal' = Append(journal, e)
  BY GrownBy DEF IInv
<1>2. Receipted(m) => Receipted(m)'
  BY <1>1 DEF Receipted
<1>3. GivenUp(m) => GivenUp(m)'
  BY <1>1 DEF GivenUp, HasLine
<1>4. ASSUME Cut(m) PROVE Cut(m)'
  <2>1. pc'[m.run] = "ended" /\ pc[m.run] = "ended"
    BY <1>4 DEF Cut
  <2>2. ASSUME NEW i \in DOMAIN journal', journal'[i].run = m.run
        PROVE  journal'[i].seq <= m.seq
    <3>1. \A k \in DOMAIN journal : journal[k].run = m.run => journal[k].seq <= m.seq
      BY <1>4 DEF Cut, OfRun
    <3>2. CASE i \in DOMAIN journal
      BY <1>1, <2>2, <3>1, <3>2
    <3>3. CASE i \notin DOMAIN journal
      <4>1. journal'[i] = e /\ i \notin DOMAIN journal /\ journal' = Append(journal, e)
        BY <1>1, <3>3
      <4>2. \/ \E k \in DOMAIN journal : journal[k].run = e.run /\ journal[k].seq = e.seq
            \/ journal' = journal
        BY <2>1, <2>2, <4>1
      <4> QED
        BY <2>2, <3>1, <3>3, <4>1, <4>2
    <3> QED
      BY <3>2, <3>3
  <2> QED
    BY <2>1, <2>2 DEF Cut, OfRun
<1> QED
  BY <1>2, <1>3, <1>4

LEMMA KeptStep ==
  ASSUME IInv, Kept, world' = world, moved \subseteq moved',
         \A r \in Run : seq'[r] \in Nat /\ seq[r] <= seq'[r],
         \A x \in Run : pc[x] = "ended" => pc'[x] = "ended",
         NEW e, \/ journal' = journal
                \/ /\ journal' = Append(journal, e)
                   /\ \/ pc[e.run] # "ended"
                      \/ \E i \in DOMAIN journal : journal[i].run = e.run /\ journal[i].seq = e.seq,
         \A m \in moved : OfPlan(m) /\ AtHand(m) =>
            Receipted(m)' \/ GivenUp(m)' \/ Cut(m)' \/ AtHand(m)',
         \A m \in strays : OfPlan(m) /\ Failing(m) => GivenUp(m)' \/ Cut(m)' \/ Failing(m)',
         \A m \in moved \cup strays : OfPlan(m) /\ Staging(m) => Cut(m)' \/ Failing(m)' \/ Late(m)',
         \A m \in moved' : \/ m \in moved
                           \/ /\ OfPlan(m)
                              /\ GivenUp(m)' \/ Cut(m)' \/ AtHand(m)' \/ (IsTrash(m.to) /\ Late(m)'),
         \A m \in strays' : \/ m \in strays
                            \/ /\ OfPlan(m) /\ m.path \in Path
                               /\ Cut(m)' \/ Failing(m)' \/ (m.to = Nowhere /\ Late(m)')
  PROVE  Kept'
<1>1. \A m : m.run \in Run => /\ Receipted(m) => Receipted(m)'
                              /\ GivenUp(m) => GivenUp(m)'
                              /\ Cut(m) => Cut(m)'
  BY AccountsStay
<1>2. \A m : OfPlan(m) => OfPlan(m)'
  <2> SUFFICES ASSUME NEW m, OfPlan(m) PROVE OfPlan(m)'
    OBVIOUS
  <2>1. /\ m.run \in Run /\ m.seq \in 1..Len(Plan[m.run]) /\ m.seq <= seq[m.run]
        /\ Plan[m.run][m.seq].kind = "trash"
    BY DEF OfPlan
  <2>2. m.seq <= seq'[m.run]
    BY <2>1 DEF IInv, TypeInv
  <2> QED
    BY <2>1, <2>2 DEF OfPlan, Plan
<1>3. \A m : OfPlan(m) => m.run \in Run
  BY DEF OfPlan
<1>4. ASSUME NEW m \in moved \cup strays, OfPlan(m), Late(m)
      PROVE  GivenUp(m)' \/ Cut(m)' \/ Failing(m)' \/ Late(m)'
  <2>1. CASE Staging(m)
    BY <1>4, <2>1
  <2>2. CASE ~Staging(m)
    <3>1. PICK n \in moved : /\ n.run = m.run /\ n.seq = m.seq /\ IsStaging(n.to)
                             /\ Receipted(n) \/ AtHand(n)
      BY <1>4, <2>2 DEF Late
    <3>2. OfPlan(n)
      BY <3>1 DEF Kept, MovesKept
    <3>3. Receipted(n)' \/ GivenUp(n)' \/ Cut(n)' \/ AtHand(n)'
      BY <3>1, <3>2, <1>1, <1>3
    <3>4. n \in moved' /\ IsStaging(n.to)
      BY <3>1
    <3>5. CASE Receipted(n)' \/ AtHand(n)'
      BY <3>1, <3>4, <3>5 DEF Late
    <3>6. CASE GivenUp(n)' \/ Cut(n)'
      BY <3>1, <3>6 DEF GivenUp, Cut
    <3> QED
      BY <3>3, <3>5, <3>6
  <2> QED
    BY <2>1, <2>2
<1>5. \A m : Failing(m)' => AtHand(m)'
  BY DEF Failing, AtHand
<1>6. MovesKept'
  <2> SUFFICES ASSUME NEW m \in moved'
               PROVE  OfPlan(m)' /\ (Receipted(m) \/ GivenUp(m) \/ Cut(m) \/ AtHand(m)
                                     \/ (IsTrash(m.to) /\ Late(m)))'
    BY DEF MovesKept
  <2>1. CASE m \in moved
    <3>1. OfPlan(m) /\ (Receipted(m) \/ GivenUp(m) \/ Cut(m) \/ AtHand(m) \/ (IsTrash(m.to) /\ Late(m)))
      BY <2>1 DEF Kept, MovesKept
    <3>2. OfPlan(m)' /\ m.run \in Run
      BY <3>1, <1>2, <1>3
    <3>3. CASE Receipted(m) \/ GivenUp(m) \/ Cut(m)
      BY <3>2, <3>3, <1>1
    <3>4. CASE AtHand(m)
      BY <2>1, <3>1, <3>2, <3>4
    <3>5. CASE IsTrash(m.to) /\ Late(m)
      BY <2>1, <3>1, <3>2, <3>5, <1>4, <1>5
    <3> QED
      BY <3>1, <3>3, <3>4, <3>5
  <2> QED
    BY <2>1, <1>2
<1>7. StraysKept'
  <2> SUFFICES ASSUME NEW m \in strays'
               PROVE  OfPlan(m)' /\ m.path \in Path
                      /\ (GivenUp(m) \/ Cut(m) \/ Failing(m) \/ (m.to = Nowhere /\ Late(m)))'
    BY DEF StraysKept
  <2>1. CASE m \in strays
    <3>1. OfPlan(m) /\ m.path \in Path
          /\ (GivenUp(m) \/ Cut(m) \/ Failing(m) \/ (m.to = Nowhere /\ Late(m)))
      BY <2>1 DEF Kept, StraysKept
    <3>2. OfPlan(m)' /\ m.run \in Run
      BY <3>1, <1>2, <1>3
    <3>3. CASE GivenUp(m) \/ Cut(m)
      BY <3>1, <3>2, <3>3, <1>1
    <3>4. CASE Failing(m)
      BY <2>1, <3>1, <3>2, <3>4
    <3>5. CASE m.to = Nowhere /\ Late(m)
      BY <2>1, <3>1, <3>2, <3>5, <1>4
    <3> QED
      BY <3>1, <3>3, <3>4, <3>5
  <2> QED
    BY <2>1, <1>2
<1> QED
  BY <1>6, <1>7 DEF Kept

\* A step of run r: the moves the other runs have at hand stay there.
LEMMA RunKept ==
  ASSUME IInv, Kept, world' = world, moved \subseteq moved', NEW r \in Run, pc[r] # "ended",
         \A x \in Run : x # r => /\ pc'[x] = pc[x] /\ seq'[x] = seq[x]
                                 /\ to'[x] = to[x] /\ out'[x] = out[x],
         seq'[r] \in Nat /\ seq[r] <= seq'[r],
         NEW e, journal' = journal \/ (journal' = Append(journal, e) /\ e.run = r),
         \A m \in moved : m.run = r /\ OfPlan(m) /\ AtHand(m) =>
            Receipted(m)' \/ GivenUp(m)' \/ Cut(m)' \/ AtHand(m)',
         \A m \in strays : m.run = r /\ OfPlan(m) /\ Failing(m) => GivenUp(m)' \/ Cut(m)' \/ Failing(m)',
         \A m \in moved \cup strays : m.run = r /\ OfPlan(m) /\ Staging(m) =>
            Cut(m)' \/ Failing(m)' \/ Late(m)',
         \A m \in moved' : m \in moved \/ (OfPlan(m) /\ AtHand(m)'),
         \A m \in strays' : \/ m \in strays
                            \/ /\ OfPlan(m) /\ m.path \in Path
                               /\ Cut(m)' \/ Failing(m)' \/ (m.to = Nowhere /\ Late(m)')
  PROVE  Kept'
<1>1. \A x \in Run : seq'[x] \in Nat /\ seq[x] <= seq'[x]
  BY DEF IInv, TypeInv
<1>2. \A x \in Run : pc[x] = "ended" => pc'[x] = "ended"
  OBVIOUS
<1>3. ASSUME NEW m, m.run \in Run, m.run # r
      PROVE  (AtHand(m) => AtHand(m)') /\ (Failing(m) => Failing(m)') /\ (Staging(m) => Late(m)')
  <2>1. /\ pc'[m.run] = pc[m.run] /\ seq'[m.run] = seq[m.run]
        /\ to'[m.run] = to[m.run] /\ out'[m.run] = out[m.run]
    BY <1>3
  <2>2. (Failing(m) => Failing(m)') /\ (Staging(m) => Staging(m)')
    BY <2>1 DEF Failing, Staging, StagingPlace
  <2>3. Act(m.run)' = Act(m.run)
    BY <2>1 DEF Act, Plan
  <2> QED
    BY <2>1, <2>2, <2>3 DEF AtHand, Late
<1>4. \A m : OfPlan(m) => m.run \in Run
  BY DEF OfPlan
<1>5. \A m \in moved : OfPlan(m) /\ AtHand(m) =>
            Receipted(m)' \/ GivenUp(m)' \/ Cut(m)' \/ AtHand(m)'
  BY <1>3, <1>4
<1>6. \A m \in strays : OfPlan(m) /\ Failing(m) => GivenUp(m)' \/ Cut(m)' \/ Failing(m)'
  BY <1>3, <1>4
<1>7. \A m \in moved \cup strays : OfPlan(m) /\ Staging(m) => Cut(m)' \/ Failing(m)' \/ Late(m)'
  BY <1>3, <1>4
<1>8. \/ journal' = journal
      \/ /\ journal' = Append(journal, e)
         /\ \/ pc[e.run] # "ended"
            \/ \E i \in DOMAIN journal : journal[i].run = e.run /\ journal[i].seq = e.seq
  OBVIOUS
<1>9. \A m \in moved' : \/ m \in moved
                        \/ /\ OfPlan(m)
                           /\ GivenUp(m)' \/ Cut(m)' \/ AtHand(m)' \/ (IsTrash(m.to) /\ Late(m)')
  OBVIOUS
<1> QED
  BY <1>1, <1>2, <1>5, <1>6, <1>7, <1>8, <1>9, KeptStep

\* Nothing is at hand in a run that has not moved yet.
LEMMA NothingAtHand ==
  ASSUME NEW r \in Run, pc[r] \notin {"identify", "after"}
  PROVE  \A m : m.run = r => ~AtHand(m) /\ ~Failing(m)
  BY DEF AtHand, Failing

LEMMA NothingStaging ==
  ASSUME NEW r \in Run, pc[r] # "stage"
  PROVE  \A m : m.run = r => ~Staging(m)
  BY DEF Staging

\* What only a run in its place can be at.
LEMMA RunSteps ==
  ASSUME IInv, Books, NEW r \in Run,
         \/ Finish(r) \/ SkipTrash(r) \/ JournalStart(r) \/ Refuse(r)
         \/ FinderMoves(r) \/ FinderFails(r) \/ StageRenames(r) \/ StageFails(r)
         \/ Identify(r) \/ GiveUp(r) \/ RunCommand(r) \/ JournalAfter(r) \/ AskStop(r) \/ Kill(r)
  PROVE  /\ world' = world /\ pc[r] # "ended"
         /\ \A x \in Run : x # r => /\ pc'[x] = pc[x] /\ seq'[x] = seq[x]
                                    /\ to'[x] = to[x] /\ out'[x] = out[x]
         /\ seq'[r] \in Nat /\ seq[r] <= seq'[r]
         /\ \E e : journal' = journal \/ (journal' = Append(journal, e) /\ e.run = r)
<1>1. \E p : pc' = pc \/ pc' = [pc EXCEPT ![r] = p]
  BY DEF Finish, SkipTrash, JournalStart, Refuse, FinderMoves, FinderFails, StageRenames, StageFails,
         Identify, GiveUp, RunCommand, JournalAfter, AskStop, Kill, Outcome, Journals
<1>2. \E o : out' = out \/ out' = [out EXCEPT ![r] = o]
  BY DEF Finish, SkipTrash, JournalStart, Refuse, FinderMoves, FinderFails, StageRenames, StageFails,
         Identify, GiveUp, RunCommand, JournalAfter, AskStop, Kill, Outcome, Journals
<1>3. \E d : to' = to \/ to' = [to EXCEPT ![r] = d]
  BY DEF Finish, SkipTrash, JournalStart, Refuse, FinderMoves, FinderFails, StageRenames, StageFails,
         Identify, GiveUp, RunCommand, JournalAfter, AskStop, Kill, Outcome, Journals
<1>4. seq' = seq \/ seq' = [seq EXCEPT ![r] = @ + 1]
  BY DEF Finish, SkipTrash, JournalStart, Refuse, FinderMoves, FinderFails, StageRenames, StageFails,
         Identify, GiveUp, RunCommand, JournalAfter, AskStop, Kill, Outcome, Journals
<1>5. world' = world /\ pc[r] # "ended"
  BY DEF Finish, SkipTrash, JournalStart, Refuse, FinderMoves, FinderFails, StageRenames, StageFails,
         Identify, GiveUp, RunCommand, JournalAfter, AskStop, Kill, Ready
<1>6. \E e : journal' = journal \/ (journal' = Append(journal, e) /\ e.run = r)
  <2>1. Start(r, seq[r], Act(r)).run = r /\ After(r, seq[r], out[r]).run = r
    BY DEF Start, After
  <2>2. CASE JournalStart(r)
    BY <2>1, <2>2 DEF JournalStart, Journals, Appends, AppendFails
  <2>3. CASE JournalAfter(r)
    BY <2>1, <2>3 DEF JournalAfter, Journals, Appends, AppendFails
  <2>4. CASE ~JournalStart(r) /\ ~JournalAfter(r)
    BY <2>4 DEF Finish, SkipTrash, Refuse, FinderMoves, FinderFails, StageRenames, StageFails,
                Identify, GiveUp, RunCommand, AskStop, Kill
  <2> QED
    BY <2>2, <2>3, <2>4
<1>7. \A x \in Run : x # r => /\ pc'[x] = pc[x] /\ seq'[x] = seq[x]
                              /\ to'[x] = to[x] /\ out'[x] = out[x]
  BY <1>1, <1>2, <1>3, <1>4 DEF IInv, TypeInv, Books, Ground
<1>8. seq'[r] \in Nat /\ seq[r] <= seq'[r]
  BY <1>4 DEF IInv, TypeInv
<1> QED
  BY <1>5, <1>6, <1>7, <1>8

\* The steps before an item has moved, and those that are no move.
LEMMA EarlyKept ==
  ASSUME IInv, Books, Kept, NEW r \in Run,
         \/ Finish(r) \/ SkipTrash(r) \/ JournalStart(r) \/ Refuse(r) \/ RunCommand(r)
  PROVE  Kept'
<1>1. pc[r] \notin {"identify", "after", "stage"} /\ UNCHANGED <<strays, moved>>
  BY DEF Finish, SkipTrash, JournalStart, Refuse, RunCommand, Ready, diskVars, history
<1>2. \A m : m.run = r => ~AtHand(m) /\ ~Failing(m) /\ ~Staging(m)
  BY <1>1, NothingAtHand, NothingStaging
<1> QED
  BY <1>1, <1>2, RunSteps, RunKept

\* Finder answered with an error: what it may move yet is of the item that
\* is staged now.
LEMMA FinderFailsKept ==
  ASSUME IInv, Books, Kept, NEW r \in Run, FinderFails(r)
  PROVE  Kept'
<1>1. /\ pc[r] = "act" /\ Act(r).kind = "trash"
      /\ FreeInStaging(where, r, Base[Act(r).path]) # {}
      /\ UNCHANGED <<moved, seq, world>>
      /\ pc' = [pc EXCEPT ![r] = "stage"]
      /\ to' = [to EXCEPT ![r] = StagingName(where, r, Act(r).path)]
      /\ strays' \subseteq strays \cup {Stray(r, Nowhere)}
  BY DEF FinderFails, history
<1>2. pc'[r] = "stage" /\ seq'[r] = seq[r] /\ to'[r] = StagingName(where, r, Act(r).path)
  BY <1>1 DEF IInv, TypeInv, Books, Ground
<1>3. seq[r] \in 1..Len(Plan[r]) /\ Act(r).path \in Path /\ seq[r] \in Nat
  BY <1>1, ActInPlan DEF IInv, TypeInv, Begun
<1>4. StagingPlace(r, to'[r])
  BY <1>1, <1>2, <1>3, StagingNameFree DEF Books
<1>5. \A m : m.run = r /\ m.seq = seq[r] => Late(m)'
  BY <1>2, <1>4 DEF Late, Staging, StagingPlace
<1>6. \A m \in strays' : m \in strays \/ (OfPlan(m) /\ m.path \in Path /\ m.to = Nowhere /\ Late(m)')
  <2>1. PICK s : s = Stray(r, Nowhere)
    OBVIOUS
  <2>2. s.run = r /\ s.seq = seq[r] /\ s.path = Act(r).path /\ s.to = Nowhere
    BY <2>1 DEF Stray
  <2>3. OfPlan(s) /\ s.path \in Path
    BY <1>1, <1>3, <2>2 DEF OfPlan, Act
  <2> QED
    BY <2>1, <2>2, <2>3, <1>1, <1>5
<1>7. \A m : m.run = r => ~AtHand(m) /\ ~Failing(m) /\ ~Staging(m)
  BY <1>1, NothingAtHand, NothingStaging
<1> QED
  BY <1>1, <1>6, <1>7, RunSteps, RunKept

\* A cancel asked for: only that is new.
LEMMA AskKept ==
  ASSUME IInv, Books, Kept, NEW r \in Run, AskStop(r)
  PROVE  Kept'
<1>1. UNCHANGED <<world, pc, seq, to, out, strays, moved>>
  BY DEF AskStop, diskVars, history
<1>2. \A m : /\ AtHand(m) => AtHand(m)'
             /\ Failing(m) => Failing(m)'
             /\ Staging(m) => Late(m)'
  BY <1>1 DEF AtHand, Failing, Act, Plan, Staging, Late, StagingPlace
<1> QED
  BY <1>1, <1>2, RunSteps, RunKept

\* The rename to staging failed: the run will say so.
LEMMA StageFailsKept ==
  ASSUME IInv, Books, Kept, NEW r \in Run, StageFails(r)
  PROVE  Kept'
<1>1. /\ pc[r] = "stage" /\ UNCHANGED <<strays, moved, seq>>
      /\ pc' = [pc EXCEPT ![r] = "after"] /\ out' = [out EXCEPT ![r] = Failed]
  BY DEF StageFails, Outcome, diskVars, history
<1>2. pc'[r] = "after" /\ seq'[r] = seq[r] /\ ~out'[r].ok
  BY <1>1 DEF IInv, TypeInv, Books, Ground, Failed
<1>3. \A m : m.run = r /\ Staging(m) => Failing(m)'
  BY <1>2 DEF Failing, Staging
<1>4. \A m : m.run = r => ~AtHand(m) /\ ~Failing(m)
  BY <1>1, NothingAtHand
<1> QED
  BY <1>1, <1>3, <1>4, RunSteps, RunKept

\* A move is at hand in the run that made it.
LEMMA MovesKeptStep ==
  ASSUME IInv, Books, Kept, NEW r \in Run, FinderMoves(r) \/ StageRenames(r)
  PROVE  Kept'
<1>1. /\ pc[r] \notin {"identify", "after"} /\ pc[r] \in Begun
      /\ UNCHANGED <<strays, seq>> /\ pc' = [pc EXCEPT ![r] = "identify"]
      /\ RecordMove(r, seq[r], Act(r).path, to'[r])
      /\ Act(r).kind = "trash" /\ moved \subseteq moved'
      /\ pc[r] = "stage" => to' = to
      /\ Exists(where, Act(r).path)
  BY DEF FinderMoves, StageRenames, Begun, Books, Ground, AtAction, RecordMove
<1>2. seq[r] \in 1..Len(Plan[r]) /\ seq[r] \in Nat
  BY <1>1, ActInPlan DEF IInv, TypeInv
<1>3. world' = world
  BY RunSteps
<1>4. pc'[r] = "identify" /\ seq'[r] = seq[r] /\ Act(r)' = Act(r)
  BY <1>1, <1>3 DEF IInv, TypeInv, Act, Plan
<1>5. \A m \in moved' : m \in moved \/ (OfPlan(m) /\ AtHand(m)')
  <2> SUFFICES ASSUME NEW m \in moved', m \notin moved PROVE OfPlan(m) /\ AtHand(m)'
    OBVIOUS
  <2>1. m.run = r /\ m.seq = seq[r] /\ m.from = Act(r).path /\ m.to = to'[r]
    BY <1>1 DEF RecordMove
  <2>2. OfPlan(m)
    BY <2>1, <1>1, <1>2 DEF OfPlan, Act
  <2>3. AtHand(m)'
    BY <2>1, <1>4 DEF AtHand
  <2> QED
    BY <2>2, <2>3
<1>6. ASSUME NEW m, m.run = r, Staging(m) PROVE Late(m)'
  <2>1. PICK o \in At(where, Act(r).path) : TRUE
    BY <1>1 DEF Exists
  <2>2. PICK n : n = [run |-> r, seq |-> seq[r], obj |-> o, from |-> Act(r).path, to |-> to'[r]]
    OBVIOUS
  <2>3. n \in moved'
    BY <1>1, <2>1, <2>2 DEF RecordMove
  <2>4. IsStaging(n.to)
    BY <1>1, <1>6, <2>2, PlacesTell DEF Staging
  <2>5. AtHand(n)'
    BY <1>4, <2>2 DEF AtHand
  <2> QED
    BY <1>6, <2>2, <2>3, <2>4, <2>5 DEF Late, Staging
<1>7. \A m : m.run = r => ~AtHand(m) /\ ~Failing(m)
  BY <1>1, NothingAtHand
<1> QED
  BY <1>1, <1>5, <1>6, <1>7, RunSteps, RunKept

\* The move at hand gets its receipt.
LEMMA IdentifyKept ==
  ASSUME IInv, Books, Kept, NEW r \in Run, Identify(r)
  PROVE  Kept'
<1>1. /\ pc[r] = "identify" /\ UNCHANGED <<strays, moved, seq>>
      /\ pc' = [pc EXCEPT ![r] = "after"]
  BY DEF Identify, Outcome, diskVars, history
<1>2. PICK ino : out' = [out EXCEPT ![r] = [Failed EXCEPT !.ok = TRUE,
                                              !.receipt = MoveReceipt(Act(r).path, to[r], ino)]]
  BY DEF Identify, Outcome
<1>3. out'[r].ok /\ out'[r].receipt = MoveReceipt(Act(r).path, to[r], ino)
  BY <1>2 DEF Books, Ground, Failed
<1>4. pc'[r] = "after" /\ seq'[r] = seq[r]
  BY <1>1 DEF IInv, TypeInv
<1>5. \A m : m.run = r /\ AtHand(m) => AtHand(m)'
  <2> SUFFICES ASSUME NEW m, m.run = r, AtHand(m) PROVE AtHand(m)'
    OBVIOUS
  <2>1. seq[r] = m.seq /\ Act(r).path = m.from /\ to[r] = m.to
    BY <1>1 DEF AtHand, Failing
  <2>2. out'[r].receipt.from = m.from /\ out'[r].receipt.to = m.to
    BY <2>1, <1>3 DEF MoveReceipt
  <2> QED
    BY <2>1, <2>2, <1>3, <1>4 DEF AtHand
<1>6. \A m : m.run = r => ~Failing(m) /\ ~Staging(m)
  BY <1>1 DEF Failing, Staging
<1> QED
  BY <1>1, <1>5, <1>6, RunSteps, RunKept

\* The move at hand, or left behind, is given up: the run will say it failed.
LEMMA GiveUpKept ==
  ASSUME IInv, Books, Kept, NEW r \in Run, GiveUp(r)
  PROVE  Kept'
<1>1. /\ pc[r] \in Begun /\ pc[r] # "after" /\ r \in Engine /\ Act(r).kind = "trash"
      /\ UNCHANGED <<moved, seq, world>>
      /\ pc' = [pc EXCEPT ![r] = "after"] /\ out' = [out EXCEPT ![r] = Failed]
      /\ strays' \subseteq strays \cup {Stray(r, to[r])}
  BY DEF GiveUp, Outcome, history, Begun
<1>2. pc'[r] = "after" /\ seq'[r] = seq[r] /\ ~out'[r].ok
  BY <1>1 DEF IInv, TypeInv, Books, Ground, Failed
<1>3. \A m : m.run = r /\ m.seq = seq[r] => Failing(m)' /\ AtHand(m)'
  BY <1>2 DEF Failing, AtHand
<1>4. \A m : m.run = r => (AtHand(m) => AtHand(m)') /\ (Staging(m) => Failing(m)')
  BY <1>3 DEF AtHand, Failing, Staging
<1>5. \A m : m.run = r => ~Failing(m)
  BY <1>1 DEF Failing
<1>6. \A m \in strays' : m \in strays \/ (OfPlan(m) /\ m.path \in Path /\ Failing(m)')
  <2>1. seq[r] \in 1..Len(Plan[r]) /\ Act(r).path \in Path /\ seq[r] \in Nat
    BY <1>1, ActInPlan DEF IInv, TypeInv
  <2>2. PICK s : s = Stray(r, to[r])
    OBVIOUS
  <2>3. s.run = r /\ s.seq = seq[r] /\ s.path = Act(r).path
    BY <2>2 DEF Stray
  <2>4. OfPlan(s) /\ s.path \in Path
    BY <2>1, <2>3, <1>1 DEF OfPlan, Act
  <2> QED
    BY <2>2, <2>3, <2>4, <1>1, <1>3
<1> QED
  BY <1>1, <1>4, <1>5, <1>6, RunSteps, RunKept

\* No line of a run is past the action it is at.
LEMMA CutAtEnd ==
  ASSUME Books, NEW r \in Run, UNCHANGED <<journal, seq>>, pc'[r] = "ended"
  PROVE  \A m : m.run = r /\ m.seq = seq[r] => Cut(m)'
<1>1. \A i \in DOMAIN journal : journal[i].run = r => journal[i].seq <= seq[r]
  BY DEF Books, Lines
<1> QED
  BY <1>1 DEF Cut, OfRun

\* What was at hand is the last thing of a run killed.
LEMMA KillKept ==
  ASSUME IInv, Books, Kept, NEW r \in Run, Kill(r)
  PROVE  Kept'
<1>1. /\ UNCHANGED <<world, moved, seq, journal>> /\ pc' = [pc EXCEPT ![r] = "ended"]
      /\ \/ strays' \subseteq strays
         \/ /\ pc[r] = "act" /\ Act(r).kind = "trash"
            /\ strays' \subseteq strays \cup {Stray(r, Nowhere)}
  BY DEF Kill, history
<1>2. pc'[r] = "ended"
  BY <1>1 DEF IInv, TypeInv
<1>3. \A m : m.run = r /\ m.seq = seq[r] => Cut(m)'
  BY <1>1, <1>2, CutAtEnd
<1>4. \A m : m.run = r /\ (AtHand(m) \/ Failing(m) \/ Staging(m)) => Cut(m)'
  BY <1>3 DEF AtHand, Failing, Staging
<1>5. \A m \in strays' : m \in strays \/ (OfPlan(m) /\ m.path \in Path /\ Cut(m)')
  <2>1. CASE strays' \subseteq strays
    BY <2>1
  <2>2. CASE /\ pc[r] = "act" /\ Act(r).kind = "trash"
             /\ strays' \subseteq strays \cup {Stray(r, Nowhere)}
    <3>1. seq[r] \in 1..Len(Plan[r]) /\ Act(r).path \in Path /\ seq[r] \in Nat
      BY <2>2, ActInPlan DEF IInv, TypeInv, Begun
    <3>2. PICK s : s = Stray(r, Nowhere)
      OBVIOUS
    <3>3. s.run = r /\ s.seq = seq[r] /\ s.path = Act(r).path
      BY <3>2 DEF Stray
    <3>4. OfPlan(s) /\ s.path \in Path
      BY <3>1, <3>3, <2>2 DEF OfPlan, Act
    <3> QED
      BY <3>2, <3>3, <3>4, <2>2, <1>3
  <2> QED
    BY <2>1, <2>2, <1>1
<1> QED
  BY <1>1, <1>4, <1>5, RunSteps, RunKept

\* The after line, kept or not: receipt, failure or the end of the run.
LEMMA AfterKept ==
  ASSUME IInv, Books, Kept, NEW r \in Run, JournalAfter(r)
  PROVE  Kept'
<1> DEFINE e == After(r, seq[r], out[r])
<1>1. /\ pc[r] = "after" /\ UNCHANGED <<world, moved, strays>>
      /\ \/ journal' = Append(journal, e) /\ pc' = [pc EXCEPT ![r] = "next"]
         \/ /\ journal' \in {journal, Append(journal, e)}
            /\ pc' = [pc EXCEPT ![r] = "ended"]
  BY DEF JournalAfter, Journals, Appends, AppendFails, diskVars, history
<1>2. /\ e.run = r /\ e.seq = seq[r] /\ e.receipt = out[r].receipt
      /\ e.event = IF out[r].ok THEN "done" ELSE "fail"
  BY DEF After
<1>3. \A i \in DOMAIN journal : journal[i].run = r => journal[i].seq <= seq[r]
  BY DEF Books, Lines
<1> HIDE DEF e
<1>4. /\ \A i \in DOMAIN journal : journal'[i] = journal[i]
      /\ \A i \in DOMAIN journal' : i \in DOMAIN journal \/ journal'[i] = e
  BY <1>1, GrownBy DEF IInv
<1>5. journal' = Append(journal, e) =>
        Len(journal) + 1 \in DOMAIN journal' /\ journal'[Len(journal) + 1] = e
  BY OneMore DEF IInv, Log
<1>6. seq[r] \in Nat
  BY DEF IInv, TypeInv
<1>7. ASSUME NEW m, m.run = r, m.seq = seq[r], pc' = [pc EXCEPT ![r] = "ended"]
      PROVE  Cut(m)'
  <2>1. \A i \in DOMAIN journal' : journal'[i].run = r => journal'[i].seq <= seq[r]
    BY <1>2, <1>3, <1>4, <1>6
  <2>2. pc'[r] = "ended"
    BY <1>7 DEF IInv, TypeInv
  <2> QED
    BY <1>7, <2>1, <2>2 DEF Cut, OfRun
<1>8. ASSUME NEW m, m.run = r, Failing(m) PROVE GivenUp(m)' \/ Cut(m)'
  <2>1. m.seq = seq[r] /\ ~out[r].ok
    BY <1>1, <1>8 DEF Failing
  <2>2. CASE pc' = [pc EXCEPT ![r] = "ended"]
    BY <2>1, <2>2, <1>7, <1>8
  <2>3. CASE journal' = Append(journal, e)
    BY <2>1, <2>3, <1>2, <1>5, <1>8 DEF GivenUp, HasLine, Is
  <2> QED
    BY <2>2, <2>3, <1>1
<1>9. ASSUME NEW m, m.run = r, AtHand(m), ~Failing(m) PROVE Receipted(m)' \/ Cut(m)'
  <2>1. /\ m.seq = seq[r] /\ out[r].ok
        /\ out[r].receipt.from = m.from /\ out[r].receipt.to = m.to
    BY <1>1, <1>9 DEF AtHand
  <2>2. CASE pc' = [pc EXCEPT ![r] = "ended"]
    BY <2>1, <2>2, <1>7, <1>9
  <2>3. CASE journal' = Append(journal, e)
    BY <2>1, <2>3, <1>2, <1>5, <1>9 DEF Receipted, Is
  <2> QED
    BY <2>2, <2>3, <1>1
<1>10. \A m : m.run = r => ~Staging(m)
  BY <1>1, NothingStaging
<1> QED
  BY <1>1, <1>8, <1>9, <1>10, RunSteps, RunKept

\* A step no run takes leaves at hand what is; a move that lands was
\* accounted for as it was left.
LEMMA BesideKept ==
  ASSUME IInv, Kept, UNCHANGED <<world, pc, seq, to, out>>, moved \subseteq moved',
         NEW e, \/ journal' = journal
                \/ /\ journal' = Append(journal, e)
                   /\ \E i \in DOMAIN journal : journal[i].run = e.run /\ journal[i].seq = e.seq,
         strays' \subseteq strays,
         \A m \in moved' : \/ m \in moved
                           \/ \E s \in strays : /\ m.run = s.run /\ m.seq = s.seq
                                                /\ s.to = Nowhere => IsTrash(m.to)
  PROVE  Kept'
<1>1. \A m : (AtHand(m) => AtHand(m)') /\ (Failing(m) => Failing(m)')
  BY DEF AtHand, Failing, Act, Plan
<1>2. \A r \in Run : seq'[r] \in Nat /\ seq[r] <= seq'[r]
  BY DEF IInv, TypeInv
<1>3. ASSUME NEW m, Late(m) PROVE Late(m)'
  <2>1. CASE Staging(m)
    BY <2>1 DEF Staging, Late, StagingPlace
  <2>2. CASE ~Staging(m)
    <3>1. PICK n \in moved : /\ n.run = m.run /\ n.seq = m.seq /\ IsStaging(n.to)
                             /\ Receipted(n) \/ AtHand(n)
      BY <1>3, <2>2 DEF Late
    <3>2. n.run \in Run
      BY <3>1 DEF Kept, MovesKept, OfPlan
    <3>3. Receipted(n)' \/ AtHand(n)'
      BY <3>1, <3>2, <1>1, AccountsStay
    <3> QED
      BY <3>1, <3>3 DEF Late
  <2> QED
    BY <2>1, <2>2
<1>4. \A m : Staging(m) => Late(m)'
  BY <1>3 DEF Late
<1>5. \A m \in moved' : \/ m \in moved
                        \/ /\ OfPlan(m)
                           /\ GivenUp(m)' \/ Cut(m)' \/ AtHand(m)' \/ (IsTrash(m.to) /\ Late(m)')
  <2> SUFFICES ASSUME NEW m \in moved', m \notin moved
               PROVE  OfPlan(m) /\ (GivenUp(m)' \/ Cut(m)' \/ AtHand(m)' \/ (IsTrash(m.to) /\ Late(m)'))
    OBVIOUS
  <2>1. PICK s \in strays : m.run = s.run /\ m.seq = s.seq /\ (s.to = Nowhere => IsTrash(m.to))
    OBVIOUS
  <2>2. OfPlan(s) /\ (GivenUp(s) \/ Cut(s) \/ Failing(s) \/ (s.to = Nowhere /\ Late(s)))
    BY DEF Kept, StraysKept
  <2>3. OfPlan(m) /\ m.run \in Run
    BY <2>1, <2>2 DEF OfPlan
  <2>4. GivenUp(m) \/ Cut(m) \/ Failing(m) \/ (IsTrash(m.to) /\ Late(m))
    BY <2>1, <2>2 DEF GivenUp, Cut, Failing, Late, Staging
  <2>5. /\ GivenUp(m) => GivenUp(m)'
        /\ Cut(m) => Cut(m)'
    BY <2>3, AccountsStay
  <2>6. Failing(m) => AtHand(m)'
    BY <1>1 DEF AtHand, Failing
  <2> QED
    BY <2>3, <2>4, <2>5, <2>6, <1>3
<1> QED
  BY <1>1, <1>2, <1>4, <1>5, KeptStep

LEMMA UndoKept == ASSUME IInv, Books, Kept, UndoNext PROVE Kept'
<1>1. UNCHANGED <<world, pc, seq, to, out, strays, moved>>
  BY DEF UndoNext, UndoStart, UndoCheck, UndoRename, UndoLog, UndoEnds, runVars, diskVars, history
<1>2. CASE UndoLog
  <2> DEFINE e == UndoEntry(undo.run, Current.seq, undo.ok)
  <2>1. undo.todo # <<>> /\ (journal' = journal \/ journal' = Append(journal, e))
    BY <1>2 DEF UndoLog, Books, UndoInv, Appends, AppendFails
  <2>2. PICK S : undo.todo \in Seq(S)
    BY DEF Books, UndoInv
  <2>3. 1 \in DOMAIN undo.todo
    BY <2>1, <2>2
  <2>4. DoneLineOf(undo.run, Current)
    BY <2>3 DEF Books, UndoInv, Current
  <2>5. \E i \in DOMAIN journal : journal[i].run = undo.run /\ journal[i].seq = Current.seq
    BY <2>4 DEF DoneLineOf
  <2>6. e.run = undo.run /\ e.seq = Current.seq
    BY DEF UndoEntry
  <2> HIDE DEF e
  <2> QED
    BY <1>1, <2>1, <2>5, <2>6, BesideKept
<1>3. CASE ~UndoLog
  <2>1. journal' = journal
    BY <1>3 DEF UndoNext, UndoStart, UndoCheck, UndoRename, UndoEnds
  <2> QED
    BY <1>1, <2>1, BesideKept
<1> QED
  BY <1>2, <1>3

LEMMA OutsideKept ==
  ASSUME IInv, Books, Kept, OutsideNext \/ UNCHANGED vars
  PROVE  Kept'
<1>1. ASSUME NEW s \in strays, StrayLands(s) PROVE Kept'
  <2>1. UNCHANGED <<world, pc, seq, to, out, journal>> /\ strays' \subseteq strays
    BY <1>1 DEF StrayLands, runVars
  <2>2. PICK dst : /\ RecordMove(s.run, s.seq, s.path, dst)
                   /\ s.to = Nowhere => /\ FreeInTrash(where, Base[s.path]) # {}
                                        /\ dst = FinderName(where, s.path)
    BY <1>1 DEF StrayLands
  <2>3. s.to = Nowhere => IsTrash(dst)
    BY <2>2, TrashNameFree, PlacesTell DEF Books, Kept, StraysKept
  <2>4. moved \subseteq moved' /\ \A m \in moved' :
          m \in moved \/ (m.run = s.run /\ m.seq = s.seq /\ m.to = dst)
    BY <2>2 DEF RecordMove
  <2> QED
    BY <2>1, <2>3, <2>4, BesideKept
<1>2. CASE UNCHANGED <<world, pc, seq, to, out, journal, strays, moved>>
  BY <1>2, BesideKept
<1>3. \/ \E s \in strays : StrayLands(s)
      \/ UNCHANGED <<world, pc, seq, to, out, journal, strays, moved>>
  BY DEF vars, OutsideNext, Regrows, OwnerTrashesItem, CopyRemoved, PutBack, TrashEmptied,
         FinderEmpties, LstatTurns, OthersUnchanged, runVars, history, diskVars, undoVars
<1> QED
  BY <1>1, <1>2, <1>3

LEMMA NextKept == ASSUME IInv, Books, Kept, [Next]_vars PROVE Kept'
<1>1. CASE ExecuteNext
  <2>1. PICK r \in Run : \/ Finish(r) \/ SkipTrash(r) \/ JournalStart(r) \/ Refuse(r)
                \/ FinderMoves(r) \/ FinderFails(r) \/ StageRenames(r) \/ StageFails(r)
                \/ Identify(r) \/ GiveUp(r) \/ RunCommand(r) \/ JournalAfter(r)
                \/ AskStop(r) \/ Kill(r)
    BY <1>1 DEF ExecuteNext
  <2> QED
    BY <2>1, EarlyKept, FinderFailsKept, StageFailsKept, AskKept, MovesKeptStep, IdentifyKept,
       GiveUpKept, AfterKept, KillKept
<1> QED
  BY <1>1, UndoKept, OutsideKept DEF Next

\* What is at hand is the last thing of its run, as no line is ahead of it.
LEMMA KeptGivesReceipts == ASSUME Books, Kept PROVE ReceiptUnlessCut
<1> SUFFICES ASSUME NEW m \in moved
             PROVE  \/ Receipted(m)
                    \/ HasLine("fail", m.run, m.seq)
                    \/ \A i \in OfRun(journal, m.run) : journal[i].seq <= m.seq
                    \/ MovedAfterStaging(m)
  BY DEF ReceiptUnlessCut
<1>1. Receipted(m) \/ GivenUp(m) \/ Cut(m) \/ AtHand(m) \/ (IsTrash(m.to) /\ Late(m))
  BY DEF Kept, MovesKept
<1>2. CASE seq[m.run] = m.seq
  BY <1>2 DEF Books, Lines, OfRun
<1>3. CASE IsTrash(m.to) /\ Late(m) /\ seq[m.run] # m.seq
  BY <1>3 DEF Late, Staging, AtHand, MovedAfterStaging
<1> QED
  BY <1>1, <1>2, <1>3 DEF GivenUp, Cut, AtHand

LEMMA InitKept == Init => Kept
  BY DEF Init, Kept, MovesKept, StraysKept

\* Everything the executor moved can be undone from the journal, unless the
\* action is journaled as failed, or the run stopped at it, or Finder moved it
\* late, after the item itself had been staged and journaled.
THEOREM ReceiptsKept == Spec => []ReceiptUnlessCut
<1> DEFINE Inv == IInv /\ Books /\ Kept
<1>1. Init => Inv
  BY InitInv, InitBooks, InitKept
<1>2. Inv /\ [Next]_vars => Inv'
  BY NextInv, NextBooks, NextKept
<1>3. Inv => ReceiptUnlessCut
  BY KeptGivesReceipts
<1> QED
  BY <1>1, <1>2, <1>3, PTL DEF Spec

----------------------------------------------------------------------------
(***************************************************************************)
(* A failed Empty Trash and the run's own moves.  Nothing was moved before *)
(* it, the plan's order; nothing is moved after it, for the rest of the    *)
(* run: either the run knows, or it has yet to journal what happened, or   *)
(* it has ended.                                                           *)
(***************************************************************************)

Spares(r) == /\ \A m \in moved \cup strays : m.run # r
             /\ \/ unsafe[r] \/ pc[r] = "ended"
                \/ pc[r] = "after" /\ ~out[r].ok /\ Act(r).empties

Spared == /\ emptying \subseteq Run
          /\ \A r \in emptying : Spares(r)
          /\ \A r \in Run : unsafe[r] /\ pc[r] \in {"act", "stage", "identify"} => Act(r).kind # "trash"

\* A run that is at a move does not spare anything: it was not told to.
LEMMA MoverEmptiesNothing ==
  ASSUME Spared, NEW r \in Run, pc[r] \in {"act", "stage", "identify"}, Act(r).kind = "trash"
  PROVE  r \notin emptying
  BY DEF Spared, Spares

\* A step of run r: the other runs spare what they spared.
LEMMA SparedStep ==
  ASSUME Spared, world' = world, NEW r \in Run,
         \A x \in Run : x # r => /\ pc'[x] = pc[x] /\ seq'[x] = seq[x]
                                 /\ out'[x] = out[x] /\ unsafe'[x] = unsafe[x],
         emptying' \subseteq emptying \cup {r},
         \A m \in moved' \cup strays' : m \in moved \cup strays \/ m.run = r,
         r \in emptying' => Spares(r)',
         unsafe'[r] /\ pc'[r] \in {"act", "stage", "identify"} => Plan[r][seq'[r]].kind # "trash"
  PROVE  Spared'
<1>1. \A x \in Run : x # r => Act(x)' = Act(x)
  BY DEF Act, Plan
<1>2. ASSUME NEW x \in emptying', x # r PROVE Spares(x)'
  <2>1. x \in emptying /\ x \in Run /\ Spares(x)
    BY <1>2 DEF Spared
  <2> QED
    BY <1>1, <1>2, <2>1 DEF Spares
<1>3. \A x \in Run : unsafe'[x] /\ pc'[x] \in {"act", "stage", "identify"} => Act(x)'.kind # "trash"
  <2> SUFFICES ASSUME NEW x \in Run, unsafe'[x], pc'[x] \in {"act", "stage", "identify"}
               PROVE  Act(x)'.kind # "trash"
    OBVIOUS
  <2>1. CASE x = r
    BY <2>1 DEF Act, Plan
  <2>2. CASE x # r
    BY <2>2, <1>1 DEF Spared
  <2> QED
    BY <2>1, <2>2
<1>4. emptying' \subseteq Run
  BY DEF Spared
<1> QED
  BY <1>2, <1>3, <1>4 DEF Spared

\* What each step of a run does to unsafe and emptying.
LEMMA RunUnsafe ==
  ASSUME Books, NEW r \in Run,
         \/ Finish(r) \/ SkipTrash(r) \/ JournalStart(r) \/ Refuse(r)
         \/ FinderMoves(r) \/ FinderFails(r) \/ StageRenames(r) \/ StageFails(r)
         \/ Identify(r) \/ GiveUp(r) \/ RunCommand(r) \/ JournalAfter(r) \/ AskStop(r) \/ Kill(r)
  PROVE  /\ \A x \in Run : x # r => unsafe'[x] = unsafe[x]
         /\ ~JournalAfter(r) => unsafe' = unsafe
         /\ ~RunCommand(r) => emptying' = emptying
<1>1. ~JournalAfter(r) => unsafe' = unsafe
  BY DEF Finish, SkipTrash, JournalStart, Refuse, FinderMoves, FinderFails, StageRenames, StageFails,
         Identify, GiveUp, RunCommand, AskStop, Kill
<1>2. ~RunCommand(r) => emptying' = emptying
  BY DEF Finish, SkipTrash, JournalStart, Refuse, FinderMoves, FinderFails, StageRenames, StageFails,
         Identify, GiveUp, JournalAfter, AskStop, Kill, diskVars
<1>3. JournalAfter(r) => \A x \in Run : x # r => unsafe'[x] = unsafe[x]
  BY DEF JournalAfter, Books, Ground
<1> QED
  BY <1>1, <1>2, <1>3

\* Steps at which the run moves nothing and learns nothing of the Trash: what it
\* spared before, it still does.
LEMMA IdleSpared ==
  ASSUME IInv, Books, Spared, NEW r \in Run,
         \/ Finish(r) \/ SkipTrash(r) \/ JournalStart(r) \/ Refuse(r)
         \/ StageFails(r) \/ Identify(r) \/ AskStop(r)
  PROVE  Spared'
<1>1. /\ UNCHANGED <<strays, moved, emptying, unsafe>>
      /\ pc[r] # "after" \/ AskStop(r)
  BY DEF Finish, SkipTrash, JournalStart, Refuse, StageFails, Identify, Ready, AskStop,
         diskVars, history
<1>2. /\ world' = world
      /\ \A x \in Run : x # r => /\ pc'[x] = pc[x] /\ seq'[x] = seq[x] /\ out'[x] = out[x]
  BY RunSteps
<1>3. ASSUME r \in emptying PROVE Spares(r)'
  <2>1. Spares(r)
    BY <1>3 DEF Spared
  <2>2. CASE AskStop(r)
    BY <2>1, <2>2, <1>1, <1>2 DEF AskStop, Spares, Act, Plan
  <2>3. CASE ~AskStop(r)
    <3>1. pc[r] # "ended"
      BY RunSteps
    <3> QED
      BY <2>1, <2>3, <3>1, <1>1 DEF Spares
  <2> QED
    BY <2>2, <2>3
<1>4. unsafe'[r] /\ pc'[r] \in {"act", "stage", "identify"} => Plan[r][seq'[r]].kind # "trash"
  <2> SUFFICES ASSUME unsafe[r], pc'[r] \in {"act", "stage", "identify"} PROVE Plan[r][seq'[r]].kind # "trash"
    BY <1>1
  <2>1. CASE JournalStart(r)
    BY <2>1 DEF JournalStart, Skips, Act
  <2>2. CASE AskStop(r)
    BY <2>2 DEF AskStop, Spared, Act
  <2>3. CASE Finish(r) \/ SkipTrash(r) \/ Refuse(r) \/ StageFails(r) \/ Identify(r)
    <3>1. pc'[r] \in {"ended", "next", "after"}
      BY <2>3 DEF Finish, SkipTrash, Refuse, StageFails, Identify, Outcome, Ready, IInv, TypeInv
    <3> QED
      BY <3>1
  <2> QED
    BY <2>1, <2>2, <2>3
<1> QED
  BY <1>1, <1>2, <1>3, <1>4, SparedStep

\* A run that moves, or leaves a move behind, spares nothing before or after.
LEMMA MoverSpared ==
  ASSUME IInv, Books, Spared, NEW r \in Run,
         FinderMoves(r) \/ FinderFails(r) \/ StageRenames(r) \/ GiveUp(r) \/ Kill(r)
  PROVE  Spared'
<1>1. /\ UNCHANGED <<emptying, unsafe, seq>> /\ world' = world
      /\ \A x \in Run : x # r => /\ pc'[x] = pc[x] /\ seq'[x] = seq[x] /\ out'[x] = out[x]
  BY RunSteps DEF FinderMoves, FinderFails, StageRenames, GiveUp, Kill
<1>2. \A m \in moved' \cup strays' : m \in moved \cup strays \/ m.run = r
  <2>1. \A m \in moved' : m \in moved \/ m.run = r
    BY DEF FinderMoves, FinderFails, StageRenames, GiveUp, Kill, RecordMove, history
  <2>2. \A dst : Stray(r, dst).run = r
    BY DEF Stray
  <2>3. \A m \in strays' : m \in strays \/ m.run = r
    BY <2>2 DEF FinderMoves, FinderFails, StageRenames, GiveUp, Kill
  <2> QED
    BY <2>1, <2>3
<1>3. CASE /\ pc[r] \in {"act", "stage", "identify"} /\ Act(r).kind = "trash"
  <2>1. r \notin emptying /\ ~unsafe[r]
    BY <1>3, MoverEmptiesNothing DEF Spared
  <2> QED
    BY <2>1, <1>1, <1>2, SparedStep
<1>4. CASE Kill(r) /\ ~(pc[r] = "act" /\ Act(r).kind = "trash")
  <2>1. moved' = moved /\ strays' \subseteq strays /\ pc' = [pc EXCEPT ![r] = "ended"]
    BY <1>4 DEF Kill, history
  <2>2. pc'[r] = "ended"
    BY <2>1 DEF IInv, TypeInv
  <2>3. r \in emptying => Spares(r)'
    BY <2>1, <2>2 DEF Spared, Spares
  <2> QED
    BY <1>1, <1>2, <2>2, <2>3, SparedStep
<1>5. FinderMoves(r) \/ FinderFails(r) \/ StageRenames(r) \/ GiveUp(r) =>
        pc[r] \in {"act", "stage", "identify"} /\ Act(r).kind = "trash"
  BY DEF FinderMoves, FinderFails, StageRenames, GiveUp, Books, AtAction
<1> QED
  BY <1>3, <1>4, <1>5

\* The command that fails to empty the Trash comes before every move.
LEMMA CommandSpared ==
  ASSUME IInv, Books, Kept, Spared, NEW r \in Run, RunCommand(r)
  PROVE  Spared'
<1>1. /\ UNCHANGED <<moved, strays, unsafe, seq, world>>
      /\ pc' = [pc EXCEPT ![r] = "after"] /\ pc[r] = "act"
      /\ \A x \in Run : x # r => /\ pc'[x] = pc[x] /\ seq'[x] = seq[x] /\ out'[x] = out[x]
  BY RunSteps DEF RunCommand, Outcome, history
<1>2. pc'[r] = "after"
  BY <1>1 DEF IInv, TypeInv
<1>3. \/ /\ ~out'[r].ok /\ Act(r).empties /\ emptying' = emptying \cup {r}
      \/ emptying' = emptying
  <2> DEFINE kept == IF Act(r).pre = "export" THEN ExportReceipt ELSE NoReceipt
  <2>1. PICK ok \in BOOLEAN, pruned \in IF Act(r).measured THEN {NoPruned, 0, 1} ELSE {NoPruned} :
          /\ Outcome(r, [ok |-> ok, pruned |-> pruned, receipt |-> kept])
          /\ emptying' = IF Act(r).empties /\ ~ok THEN emptying \cup {r} ELSE emptying
    BY Zenon DEF RunCommand
  <2>2. out'[r].ok = ok
    BY <2>1 DEF Outcome, Books, Ground
  <2> QED
    BY <2>1, <2>2
<1>4. Act(r).empties => \A m \in moved \cup strays : m.run # r
  <2> SUFFICES ASSUME Act(r).empties, NEW m \in moved \cup strays, m.run = r PROVE FALSE
    OBVIOUS
  <2>1. OfPlan(m)
    BY DEF Kept, MovesKept, StraysKept
  <2>2. seq[r] \in 1..Len(Plan[r]) /\ world \in Worlds
    BY <1>1, ActInPlan DEF Begun, Books, Ground
  <2>3. \A j \in 1..seq[r] : Plan[r][j].kind # "trash"
    BY <2>2, WorldsAssumption DEF Plan, Act
  <2>4. m.seq \in 1..seq[r] /\ Plan[r][m.seq].kind = "trash"
    <3>1. Len(Plan[r]) \in Nat
      BY <2>2, WorldsAssumption DEF Plan
    <3> QED
      BY <2>1, <2>2, <3>1 DEF OfPlan
  <2> QED
    BY <2>3, <2>4
<1>5. r \in emptying' => Spares(r)'
  <2> SUFFICES ASSUME r \in emptying' PROVE Spares(r)'
    OBVIOUS
  <2>1. Act(r)' = Act(r)
    BY <1>1 DEF Act, Plan
  <2>2. CASE ~out'[r].ok /\ Act(r).empties
    BY <2>1, <2>2, <1>1, <1>2, <1>4 DEF Spares
  <2>3. CASE emptying' = emptying
    BY <2>3, <1>1 DEF Spared, Spares
  <2> QED
    BY <2>2, <2>3, <1>3
<1> QED
  BY <1>1, <1>2, <1>3, <1>5, SparedStep

\* The run learns at its after line that its Empty Trash failed.
LEMMA AfterSpared ==
  ASSUME IInv, Books, Spared, NEW r \in Run, JournalAfter(r)
  PROVE  Spared'
<1>1. /\ UNCHANGED <<moved, strays, emptying, world>> /\ pc[r] = "after"
      /\ \A x \in Run : x # r => /\ pc'[x] = pc[x] /\ seq'[x] = seq[x] /\ out'[x] = out[x]
  BY RunSteps, ZenonT(30) DEF JournalAfter, diskVars, history
<1>2. \A x \in Run : x # r => unsafe'[x] = unsafe[x]
  BY RunUnsafe
<1>3. unsafe'[r] = (unsafe[r] \/ (~out[r].ok /\ Act(r).empties))
  BY DEF JournalAfter, Books, Ground
<1>4. pc'[r] \in {"next", "ended"}
  BY DEF JournalAfter, Journals, IInv, TypeInv
<1>5. r \in emptying => Spares(r)'
  BY <1>1, <1>3 DEF Spared, Spares
<1> QED
  BY <1>1, <1>2, <1>4, <1>5, SparedStep

\* A step no run takes empties at most what was to be emptied, and what lands
\* is of a run that spares nothing.
LEMMA BesideSpared ==
  ASSUME Spared, UNCHANGED <<world, pc, seq, out, unsafe>>, emptying' \subseteq emptying,
         \A m \in moved' \cup strays' : m \in moved \cup strays \/ (\E s \in strays : m.run = s.run)
  PROVE  Spared'
<1>1. \A x \in Run : Act(x)' = Act(x)
  BY DEF Act, Plan
<1>2. ASSUME NEW x \in emptying' PROVE Spares(x)'
  <2>1. x \in emptying /\ x \in Run /\ Spares(x)
    BY DEF Spared
  <2> QED
    BY <1>1, <2>1 DEF Spares
<1> QED
  BY <1>1, <1>2 DEF Spared

LEMMA NextSpared == ASSUME IInv, Books, Kept, Spared, [Next]_vars PROVE Spared'
<1>1. CASE ExecuteNext
  <2>1. PICK r \in Run : \/ Finish(r) \/ SkipTrash(r) \/ JournalStart(r) \/ Refuse(r)
                \/ FinderMoves(r) \/ FinderFails(r) \/ StageRenames(r) \/ StageFails(r)
                \/ Identify(r) \/ GiveUp(r) \/ RunCommand(r) \/ JournalAfter(r)
                \/ AskStop(r) \/ Kill(r)
    BY <1>1 DEF ExecuteNext
  <2> QED
    BY <2>1, IdleSpared, MoverSpared, CommandSpared, AfterSpared
<1>2. CASE UndoNext \/ UNCHANGED vars
  <2>1. UNCHANGED <<world, pc, seq, out, unsafe, emptying, moved, strays>>
    BY <1>2 DEF vars, UndoNext, UndoStart, UndoCheck, UndoRename, UndoLog, UndoEnds, runVars,
                diskVars, history
  <2> QED
    BY <2>1, BesideSpared
<1>3. CASE OutsideNext
  <2>1. UNCHANGED <<world, pc, seq, out, unsafe>> /\ emptying' \subseteq emptying
    BY <1>3 DEF OutsideNext, Regrows, OwnerTrashesItem, CopyRemoved, PutBack, TrashEmptied,
                FinderEmpties, LstatTurns, StrayLands, OthersUnchanged, runVars, diskVars, undoVars, history
  <2>2. ASSUME NEW s \in strays, StrayLands(s)
        PROVE  \A m \in moved' \cup strays' : m \in moved \cup strays \/ m.run = s.run
    BY <2>2 DEF StrayLands, RecordMove
  <2>3. (\E s \in strays : StrayLands(s)) \/ UNCHANGED <<moved, strays>>
    BY <1>3 DEF OutsideNext, Regrows, OwnerTrashesItem, CopyRemoved, PutBack, TrashEmptied,
                FinderEmpties, LstatTurns, OthersUnchanged, history, diskVars, runVars, undoVars
  <2> QED
    BY <2>1, <2>2, <2>3, BesideSpared
<1> QED
  BY <1>1, <1>2, <1>3 DEF Next

LEMMA InitSpared == Init => Spared
  BY DEF Init, Spared

\* What a run moved to the Trash is safe from an Empty Trash of its own that it
\* took for failed.
THEOREM OwnMovesSurvive == Spec => []OwnMovesSurviveOwnEmpty
<1> DEFINE Inv == IInv /\ Books /\ Kept /\ Spared
<1>1. Init => Inv
  BY InitInv, InitBooks, InitKept, InitSpared
<1>2. Inv /\ [Next]_vars => Inv'
  BY NextInv, NextBooks, NextKept, NextSpared
<1>3. Inv => OwnMovesSurviveOwnEmpty
  BY DEF Spared, Spares, OwnMovesSurviveOwnEmpty
<1> QED
  BY <1>1, <1>2, <1>3, PTL DEF Spec

----------------------------------------------------------------------------
(***************************************************************************)
(* Nothing is overwritten.  What a rename is about to land on was free     *)
(* when it was looked at, and stays free: the Trash, each run's staging    *)
(* directory and the paths are apart, folded or not.                       *)
(***************************************************************************)

\* What a rename will land on is free, while no abandoned staging goes on.
Clear ==
  /\ DOMAIN where = Obj
  /\ \A r \in Run : pc[r] = "stage" => StagingPlace(r, to[r])
  /\ Engine = {} =>
       /\ \A r \in Run : pc[r] = "stage" => ~Exists(where, to[r])
       /\ undo.pc = "rename" => ~Exists(where, Current.receipt.from)
       /\ \A m \in strays : m.to = Nowhere

\* Nothing gets to a place but by landing there.
LEMMA StaysFree ==
  ASSUME world' = world, NEW dst, \A o \in Obj : where'[o] \in {where[o], Nowhere, dst},
         NEW loc, ~Exists(where, loc), Place(loc) # Nowhere, Place(loc) # Place(dst)
  PROVE  ~Exists(where, loc)'
<1>1. \A x : Place(x)' = Place(x)
  BY DEF Place, CaseBlind, FoldLoc, IsTrash, IsStaging
<1>2. Place(Nowhere) = Nowhere
  BY PlacesApart
<1>3. \A o \in Obj : Place(where[o]) # Place(loc)
  BY DEF Exists, At
<1>4. \A o \in Obj : Place(where'[o]) # Place(loc)
  BY <1>2, <1>3
<1>5. \A o \in Obj : Place(where'[o]) = Place(where[o])'
  BY <1>1
<1> QED
  BY <1>1, <1>4, <1>5 DEF Exists, At

\* What undo is about to put back goes to a path.
LEMMA UndoToPath ==
  ASSUME Books, undo.todo # <<>>
  PROVE  Current.receipt.from \in Path
<1>1. PICK S : undo.todo \in Seq(S)
  BY DEF Books, UndoInv
<1>2. 1 \in DOMAIN undo.todo
  BY <1>1
<1>3. DoneLineOf(undo.run, Current)
  BY <1>2 DEF Books, UndoInv, Current
<1> QED
  BY <1>3 DEF DoneLineOf, Books, Lines

\* Whatever lands, lands apart from what the others are about to land on.
LEMMA ClearStep ==
  ASSUME Books, Clear, world' = world, DOMAIN where' = Obj,
         NEW dst, \A o \in Obj : where'[o] \in {where[o], Nowhere, dst},
         \/ dst = Nowhere
         \/ TrashPlace(dst)
         \/ \E x \in Run : StagingPlace(x, dst) /\ pc'[x] # "stage"
         \/ dst \in Path /\ undo'.pc # "rename"
         \/ Engine # {},
         \A r \in Run : pc'[r] = "stage" =>
            \/ pc[r] = "stage" /\ to'[r] = to[r]
            \/ StagingPlace(r, to'[r]) /\ ~Exists(where, to'[r]),
         undo'.pc = "rename" =>
            \/ undo' = undo
            \/ undo'.todo = undo.todo /\ undo.todo # <<>> /\ ~Exists(where, Current.receipt.from),
         Engine = {} => \A m \in strays' : m \in strays \/ m.to = Nowhere
  PROVE  Clear'
<1>1. \A r \in Run : pc'[r] = "stage" => StagingPlace(r, to'[r])
  BY DEF Clear
<1>2. Engine' = Engine
  BY DEF Engine
<1>3. ASSUME Engine = {}, NEW r \in Run, pc'[r] = "stage" PROVE ~Exists(where, to[r])'
  <2>1. PICK loc : loc = to'[r]
    OBVIOUS
  <2>2. StagingPlace(r, loc) /\ ~Exists(where, loc)
    BY <1>1, <1>3, <2>1 DEF Clear
  <2>3. StagingPlace(r, Place(loc)) /\ Place(loc) # Nowhere /\ Place(loc) \notin Path
    BY <2>2, PlacesApart
  <2>4. Place(loc) # Place(dst)
    <3>1. CASE dst = Nowhere \/ dst \in Path
      BY <3>1, <2>3, PlacesApart
    <3>2. CASE TrashPlace(dst)
      BY <3>2, <2>3, PlacesApart
    <3>3. CASE \E x \in Run : StagingPlace(x, dst) /\ pc'[x] # "stage"
      <4>1. PICK x \in Run : StagingPlace(x, dst) /\ x # r
        BY <3>3, <1>3
      <4>2. StagingPlace(x, Place(dst))
        BY <4>1, PlacesApart
      <4> QED
        BY <4>1, <4>2, <2>3, PlacesApart
    <3> QED
      BY <1>3, <3>1, <3>2, <3>3
  <2>5. ~Exists(where, loc)'
    BY <2>2, <2>3, <2>4, StaysFree
  <2> QED
    BY <2>1, <2>5 DEF Exists, At
<1>4. ASSUME Engine = {}, undo'.pc = "rename" PROVE ~Exists(where, Current.receipt.from)'
  <2>1. PICK loc : loc = Current.receipt.from
    OBVIOUS
  <2>2. Current'.receipt.from = loc
    BY <1>4, <2>1 DEF Current
  <2>3. undo.todo # <<>> /\ ~Exists(where, loc)
    BY <1>4, <2>1 DEF Clear, Books, UndoInv
  <2>4. loc \in Path
    BY <2>1, <2>3, UndoToPath
  <2>5. Place(loc) = loc /\ loc # Nowhere
    BY <2>4, PlacesApart
  <2>6. Place(loc) # Place(dst)
    <3>1. Place(dst) \notin Path
      BY <1>4, PlacesApart, PathAssumption
    <3> QED
      BY <2>4, <2>5, <3>1
  <2>7. ~Exists(where, loc)'
    BY <2>3, <2>5, <2>6, StaysFree
  <2> QED
    BY <2>2, <2>7 DEF Exists, At
<1>5. Engine = {} => \A m \in strays' : m.to = Nowhere
  BY DEF Clear
<1> QED
  BY <1>1, <1>2, <1>3, <1>4, <1>5 DEF Clear, StagingPlace

LEMMA RenamedTo ==
  ASSUME NEW src, NEW dst, where' = Renamed(where, src, dst)
  PROVE  DOMAIN where' = Obj /\ \A o \in Obj : where'[o] \in {where[o], Nowhere, dst}
  BY DEF Renamed

\* A step of a run that moves nothing, and is not on its way to staging.
LEMMA QuietClear ==
  ASSUME IInv, Books, Clear, NEW r \in Run,
         \/ Finish(r) \/ SkipTrash(r) \/ JournalStart(r) \/ Refuse(r) \/ StageFails(r)
         \/ Identify(r) \/ GiveUp(r) \/ JournalAfter(r) \/ AskStop(r) \/ Kill(r)
  PROVE  Clear'
<1>1. UNCHANGED <<where, undo>> /\ (pc'[r] = "stage" => pc[r] = "stage" /\ to'[r] = to[r])
  BY DEF Finish, SkipTrash, JournalStart, Journals, Refuse, StageFails, Identify, GiveUp, JournalAfter,
         AskStop, Kill, Outcome, diskVars, undoVars, IInv, TypeInv
<1>2. world' = world /\ \A x \in Run : x # r => pc'[x] = pc[x] /\ to'[x] = to[x]
  BY RunSteps
<1>3. Engine = {} => \A m \in strays' : m \in strays \/ m.to = Nowhere
  <2>1. Stray(r, Nowhere).to = Nowhere
    BY DEF Stray
  <2> QED
    BY <2>1 DEF Finish, SkipTrash, JournalStart, Refuse, StageFails, Identify, GiveUp, JournalAfter,
         AskStop, Kill, diskVars
<1>4. DOMAIN where' = Obj /\ \A o \in Obj : where'[o] \in {where[o], Nowhere}
  BY <1>1 DEF Clear
<1>5. \A x \in Run : pc'[x] = "stage" => pc[x] = "stage" /\ to'[x] = to[x]
  BY <1>1, <1>2
<1>6. undo'.pc = "rename" => undo' = undo
  BY <1>1
<1>7. PICK dst : dst = Nowhere
  OBVIOUS
<1>8. \A o \in Obj : where'[o] \in {where[o], Nowhere, dst}
  BY <1>4
<1> QED
  BY <1>2, <1>3, <1>4, <1>5, <1>6, <1>7, <1>8, ClearStep

\* stage finds a free name.
LEMMA FinderFailsClear ==
  ASSUME IInv, Books, Clear, NEW r \in Run, FinderFails(r)
  PROVE  Clear'
<1>1. /\ UNCHANGED <<where, undo, world>> /\ pc[r] = "act" /\ Act(r).kind = "trash"
      /\ strays' \subseteq strays \cup {Stray(r, Nowhere)}
      /\ to' = [to EXCEPT ![r] = StagingName(where, r, Act(r).path)]
      /\ FreeInStaging(where, r, Base[Act(r).path]) # {}
  BY DEF FinderFails, diskVars, undoVars
<1>2. Act(r).path \in Path
  BY <1>1, ActInPlan DEF Begun
<1>3. StagingPlace(r, to'[r]) /\ ~Exists(where, to'[r])
  <2>1. to'[r] = StagingName(where, r, Act(r).path)
    BY <1>1 DEF Books, Ground
  <2> QED
    BY <2>1, <1>1, <1>2, StagingNameFree DEF Books
<1>4. \A x \in Run : x # r => pc'[x] = pc[x] /\ to'[x] = to[x]
  BY RunSteps
<1>5. \A x \in Run : pc'[x] = "stage" =>
        \/ pc[x] = "stage" /\ to'[x] = to[x]
        \/ StagingPlace(x, to'[x]) /\ ~Exists(where, to'[x])
  BY <1>3, <1>4
<1>6. DOMAIN where' = Obj /\ \A o \in Obj : where'[o] \in {where[o], Nowhere, Nowhere}
  BY <1>1 DEF Clear
<1>7. PICK dst : dst = Nowhere
  OBVIOUS
<1>8. \A o \in Obj : where'[o] \in {where[o], Nowhere, dst}
  BY <1>6
<1>9. Stray(r, Nowhere).to = Nowhere
  BY DEF Stray
<1> QED
  BY <1>1, <1>5, <1>6, <1>7, <1>8, <1>9, ClearStep

\* A move lands in the Trash or in the run's own staging directory, a command
\* deletes at most.
LEMMA LandingClear ==
  ASSUME IInv, Books, Clear, NEW r \in Run, FinderMoves(r) \/ StageRenames(r) \/ RunCommand(r)
  PROVE  Clear'
<1>1. /\ UNCHANGED <<undo, strays>> /\ world' = world /\ pc[r] \in Begun
      /\ \A x \in Run : x # r => pc'[x] = pc[x] /\ to'[x] = to[x]
  BY RunSteps DEF FinderMoves, StageRenames, RunCommand, undoVars, Begun
<1>2. pc'[r] # "stage"
  BY DEF FinderMoves, StageRenames, RunCommand, Outcome, IInv, TypeInv
<1>3. \E dst : /\ DOMAIN where' = Obj /\ \A o \in Obj : where'[o] \in {where[o], Nowhere, dst}
               /\ dst = Nowhere \/ TrashPlace(dst) \/ StagingPlace(r, dst)
  <2>1. CASE RunCommand(r)
    <3>1. DOMAIN where' = Obj /\ \A o \in Obj : where'[o] \in {where[o], Nowhere, Nowhere}
      BY <2>1 DEF RunCommand
    <3> QED
      BY <3>1
  <2>2. CASE FinderMoves(r)
    <3>1. /\ where' = Renamed(where, Act(r).path, FinderName(where, Act(r).path))
          /\ FreeInTrash(where, Base[Act(r).path]) # {} /\ Act(r).kind = "trash"
      BY <2>2 DEF FinderMoves
    <3>2. Act(r).path \in Path
      BY <1>1, <3>1, ActInPlan
    <3>3. TrashPlace(FinderName(where, Act(r).path))
      BY <3>1, <3>2, TrashNameFree DEF Books
    <3> QED
      BY <3>1, <3>3, RenamedTo
  <2>3. CASE StageRenames(r)
    <3>1. where' = Renamed(where, Act(r).path, to[r]) /\ pc[r] = "stage"
      BY <2>3 DEF StageRenames
    <3>2. StagingPlace(r, to[r])
      BY <3>1 DEF Clear
    <3> QED
      BY <3>1, <3>2, RenamedTo
  <2> QED
    BY <2>1, <2>2, <2>3
<1>4. \A x \in Run : pc'[x] = "stage" => pc[x] = "stage" /\ to'[x] = to[x]
  BY <1>1, <1>2
<1>5. undo'.pc = "rename" => undo' = undo
  BY <1>1
<1>6. Engine = {} => \A m \in strays' : m \in strays \/ m.to = Nowhere
  BY <1>1
<1>7. PICK dst : /\ DOMAIN where' = Obj /\ \A o \in Obj : where'[o] \in {where[o], Nowhere, dst}
                 /\ dst = Nowhere \/ TrashPlace(dst) \/ StagingPlace(r, dst)
  BY <1>3
<1>8. \/ dst = Nowhere
      \/ TrashPlace(dst)
      \/ \E x \in Run : StagingPlace(x, dst) /\ pc'[x] # "stage"
  BY <1>2, <1>7
<1> QED
  BY <1>1, <1>4, <1>5, <1>6, <1>7, <1>8, ClearStep

\* Undo looks at the path, and puts back what it looked at.
LEMMA UndoClear ==
  ASSUME Books, Clear, UndoNext
  PROVE  Clear'
<1>1. UNCHANGED <<world, strays, pc, to>>
  BY DEF UndoNext, UndoStart, UndoCheck, UndoRename, UndoLog, UndoEnds, runVars, diskVars
<1>2. DOMAIN undo = {"pc", "run", "todo", "ok"}
  BY DEF Books, Ground
<1>3. undo'.pc = "rename" =>
         \/ undo' = undo
         \/ undo'.todo = undo.todo /\ undo.todo # <<>> /\ ~Exists(where, Current.receipt.from)
  <2>1. CASE UndoCheck
    <3>1. undo.todo # <<>> /\ undo' \in {[undo EXCEPT !.pc = "rename"], [undo EXCEPT !.pc = "log", !.ok = FALSE]}
      BY <2>1 DEF UndoCheck
    <3>2. undo'.pc = "rename" => MayRestore(where, Current.receipt)
      BY <1>2, <2>1 DEF UndoCheck
    <3>3. undo'.todo = undo.todo
      BY <1>2, <3>1
    <3> QED
      BY <3>1, <3>2, <3>3 DEF MayRestore
  <2>2. CASE (\E r \in Run : UndoStart(r)) \/ UndoEnds
    BY <2>2 DEF UndoStart, UndoEnds, Idle
  <2>3. CASE UndoRename
    BY <1>2, <2>3 DEF UndoRename
  <2>4. CASE UndoLog
    <3>1. \/ undo' = [undo EXCEPT !.pc = "check", !.todo = SubSeq(@, 2, Len(@))]
          \/ undo' = Idle
      BY <2>4, Zenon DEF UndoLog
    <3>2. Idle.pc = "idle"
      BY DEF Idle
    <3>3. undo'.pc \in {"check", "idle"}
      BY <1>2, <3>1, <3>2
    <3> QED
      BY <3>3
  <2> QED
    BY <2>1, <2>2, <2>3, <2>4 DEF UndoNext
<1>4. CASE UndoRename
  <2>1. undo.todo # <<>>
    BY <1>4 DEF UndoRename, Books, UndoInv
  <2>2. Current.receipt.from \in Path
    BY <2>1, UndoToPath
  <2>3. /\ where' = where \/ where' = Renamed(where, Current.receipt.to, Current.receipt.from)
        /\ undo'.pc = "log"
    BY <1>2, <1>4 DEF UndoRename
  <2>4. /\ DOMAIN where' = Obj
        /\ \A o \in Obj : where'[o] \in {where[o], Nowhere, Current.receipt.from}
    BY <2>3, RenamedTo DEF Clear
  <2>5. PICK dst : dst = Current.receipt.from
    OBVIOUS
  <2>6. /\ DOMAIN where' = Obj /\ dst \in Path /\ undo'.pc # "rename"
        /\ \A o \in Obj : where'[o] \in {where[o], Nowhere, dst}
    BY <2>2, <2>3, <2>4, <2>5
  <2> QED
    BY <1>1, <1>3, <2>6, ClearStep
<1>5. CASE ~UndoRename
  <2>1. where' = where
    BY <1>5 DEF UndoNext, UndoStart, UndoCheck, UndoLog, UndoEnds, diskVars
  <2>2. DOMAIN where' = Obj /\ \A o \in Obj : where'[o] \in {where[o], Nowhere}
    BY <2>1 DEF Clear
  <2>3. PICK dst : dst = Nowhere
    OBVIOUS
  <2>4. \A o \in Obj : where'[o] \in {where[o], Nowhere, dst}
    BY <2>2
  <2> QED
    BY <1>1, <1>3, <2>2, <2>3, <2>4, ClearStep
<1> QED
  BY <1>4, <1>5

\* What the owner, Finder and the apps move goes to the Trash or to a path, and
\* to a path only while no restore is about to land.
LEMMA OutsideClear ==
  ASSUME Books, Kept, Clear, OutsideNext
  PROVE  Clear'
<1>1. UNCHANGED <<world, undo, pc, to>> /\ strays' \subseteq strays
  BY DEF OutsideNext, Regrows, OwnerTrashesItem, CopyRemoved, PutBack, TrashEmptied,
         FinderEmpties, LstatTurns, StrayLands, OthersUnchanged, runVars, undoVars, diskVars, history
<1>2. \E dst : /\ DOMAIN where' = Obj /\ \A o \in Obj : where'[o] \in {where[o], Nowhere, dst}
               /\ \/ dst = Nowhere
                  \/ TrashPlace(dst)
                  \/ dst \in Path /\ undo.pc # "rename"
                  \/ Engine # {}
  <2>1. ASSUME NEW p \in Path, Regrows(p)
        PROVE  /\ DOMAIN where' = Obj /\ \A o \in Obj : where'[o] \in {where[o], Nowhere, p}
               /\ p \in Path /\ undo.pc # "rename"
    BY <2>1 DEF Regrows, OwnerActs, Clear
  <2>2. ASSUME NEW p \in Path, OwnerTrashesItem(p)
        PROVE  \E dst : /\ DOMAIN where' = Obj /\ \A o \in Obj : where'[o] \in {where[o], Nowhere, dst}
                        /\ TrashPlace(dst)
    <3>1. where' = Renamed(where, p, FinderName(where, p)) /\ FreeInTrash(where, Base[p]) # {}
      BY <2>2 DEF OwnerTrashesItem
    <3>2. TrashPlace(FinderName(where, p))
      BY <3>1, TrashNameFree DEF Books
    <3> QED
      BY <3>1, <3>2, RenamedTo
  <2>3. ASSUME NEW o \in Obj, PutBack(o)
        PROVE  \E dst : /\ DOMAIN where' = Obj /\ \A x \in Obj : where'[x] \in {where[x], Nowhere, dst}
                        /\ dst \in Path /\ undo.pc # "rename"
    BY <2>3 DEF PutBack, OwnerActs, Clear
  <2>4. ASSUME \/ \E o \in Obj : CopyRemoved(o)
               \/ TrashEmptied \/ \E r \in Run : FinderEmpties(r)
        PROVE  DOMAIN where' = Obj /\ \A x \in Obj : where'[x] \in {where[x], Nowhere}
    BY <2>4 DEF CopyRemoved, TrashEmptied, FinderEmpties, Removes
  <2>5. ASSUME NEW m \in strays, StrayLands(m)
        PROVE  \E dst : /\ DOMAIN where' = Obj /\ \A x \in Obj : where'[x] \in {where[x], Nowhere, dst}
                        /\ TrashPlace(dst) \/ Engine # {}
    <3>1. m.path \in Path
      BY DEF Kept, StraysKept
    <3>2. CASE m.to = Nowhere
      <4>1. /\ where' = Renamed(where, m.path, FinderName(where, m.path))
            /\ FreeInTrash(where, Base[m.path]) # {}
        BY <2>5, <3>2 DEF StrayLands
      <4>2. TrashPlace(FinderName(where, m.path))
        BY <3>1, <4>1, TrashNameFree DEF Books
      <4> QED
        BY <4>1, <4>2, RenamedTo
    <3>3. CASE m.to # Nowhere
      <4>1. where' = Renamed(where, m.path, m.to)
        BY <2>5, <3>3 DEF StrayLands
      <4>2. Engine # {}
        BY <3>3 DEF Clear
      <4> QED
        BY <4>1, <4>2, RenamedTo
    <3> QED
      BY <3>2, <3>3
  <2>6. ASSUME NEW loc, LstatTurns(loc)
        PROVE  DOMAIN where' = Obj /\ \A x \in Obj : where'[x] \in {where[x], Nowhere}
    BY <2>6 DEF LstatTurns, diskVars, Clear
  <2> QED
    BY <2>1, <2>2, <2>3, <2>4, <2>5, <2>6 DEF OutsideNext
<1>3. PICK dst : /\ DOMAIN where' = Obj /\ \A o \in Obj : where'[o] \in {where[o], Nowhere, dst}
                 /\ \/ dst = Nowhere
                    \/ TrashPlace(dst)
                    \/ dst \in Path /\ undo.pc # "rename"
                    \/ Engine # {}
  BY <1>2
<1> QED
  BY <1>1, <1>3, ClearStep

LEMMA NextClear == ASSUME IInv, Books, Kept, Clear, [Next]_vars PROVE Clear'
<1>1. CASE ExecuteNext
  <2>1. PICK r \in Run : \/ Finish(r) \/ SkipTrash(r) \/ JournalStart(r) \/ Refuse(r)
                \/ FinderMoves(r) \/ FinderFails(r) \/ StageRenames(r) \/ StageFails(r)
                \/ Identify(r) \/ GiveUp(r) \/ RunCommand(r) \/ JournalAfter(r)
                \/ AskStop(r) \/ Kill(r)
    BY <1>1 DEF ExecuteNext
  <2> QED
    BY <2>1, QuietClear, FinderFailsClear, LandingClear
<1>2. CASE UNCHANGED vars
  <2>1. UNCHANGED <<world, where, pc, to, undo, strays>>
    BY <1>2 DEF vars
  <2>2. \A loc : Exists(where, loc)' = Exists(where, loc)
    BY <2>1 DEF Exists, At, Place, CaseBlind, FoldLoc, IsTrash, IsStaging
  <2>3. Engine' = Engine /\ Current' = Current
    BY <2>1 DEF Engine, Current
  <2>4. \A r \in Run : (~Exists(where, to[r])) => (~Exists(where, to[r]))'
    BY <2>1, <2>2 DEF Exists, At
  <2>5. (~Exists(where, Current.receipt.from)) => (~Exists(where, Current.receipt.from))'
    BY <2>1, <2>2, <2>3 DEF Exists, At
  <2> QED
    BY <2>1, <2>3, <2>4, <2>5 DEF Clear, StagingPlace
<1> QED
  BY <1>1, <1>2, UndoClear, OutsideClear DEF Next

LEMMA InitClear == Init => Clear
  BY DEF Init, Clear, Idle

\* A rename onto a free place deletes nothing.
LEMMA NothingReplaced ==
  ASSUME NEW src, NEW dst, where' = Renamed(where, src, dst), ~Exists(where, dst), dst # Nowhere
  PROVE  \A o \in Obj : where'[o] = Nowhere => where[o] = Nowhere
  BY DEF Renamed, Exists

\* A step that moves or restores something moves it to a free place.
LEMMA MovesToFree ==
  ASSUME IInv, Books, Kept, Clear, [Next]_vars, Engine = {}, moved' # moved \/ restored' # restored
  PROVE  \A o \in Obj : where'[o] = Nowhere => where[o] = Nowhere
<1>1. \/ \E r \in Run : FinderMoves(r) \/ StageRenames(r)
      \/ \E m \in strays : StrayLands(m)
      \/ UndoRename
  <2>1. CASE ExecuteNext
    BY <2>1 DEF ExecuteNext, Finish, SkipTrash, JournalStart, Refuse, FinderFails, StageFails, Identify,
         GiveUp, RunCommand, JournalAfter, AskStop, Kill, history
  <2>2. CASE UndoNext
    BY <2>2 DEF UndoNext, UndoStart, UndoCheck, UndoLog, UndoEnds, history
  <2>3. CASE OutsideNext
    BY <2>3 DEF OutsideNext, Regrows, OwnerTrashesItem, CopyRemoved, PutBack, TrashEmptied,
         FinderEmpties, LstatTurns, OthersUnchanged, history, diskVars, runVars, undoVars
  <2>4. CASE UNCHANGED vars
    BY <2>4 DEF vars
  <2> QED
    BY <2>1, <2>2, <2>3, <2>4 DEF Next
<1>2. ASSUME NEW r \in Run, FinderMoves(r)
      PROVE  \A o \in Obj : where'[o] = Nowhere => where[o] = Nowhere
  <2>1. /\ where' = Renamed(where, Act(r).path, FinderName(where, Act(r).path))
        /\ FreeInTrash(where, Base[Act(r).path]) # {} /\ Act(r).kind = "trash" /\ pc[r] \in Begun
    BY <1>2 DEF FinderMoves, Begun
  <2>2. Act(r).path \in Path
    BY <2>1, ActInPlan
  <2>3. TrashPlace(FinderName(where, Act(r).path)) /\ ~Exists(where, FinderName(where, Act(r).path))
    BY <2>1, <2>2, TrashNameFree DEF Books
  <2> QED
    BY <2>1, <2>3, PlacesApart, NothingReplaced
<1>3. ASSUME NEW r \in Run, StageRenames(r)
      PROVE  \A o \in Obj : where'[o] = Nowhere => where[o] = Nowhere
  <2>1. where' = Renamed(where, Act(r).path, to[r]) /\ pc[r] = "stage"
    BY <1>3 DEF StageRenames
  <2>2. StagingPlace(r, to[r]) /\ ~Exists(where, to[r])
    BY <2>1 DEF Clear
  <2> QED
    BY <2>1, <2>2, PlacesApart, NothingReplaced
<1>4. ASSUME NEW m \in strays, StrayLands(m)
      PROVE  \A o \in Obj : where'[o] = Nowhere => where[o] = Nowhere
  <2>1. m.to = Nowhere /\ m.path \in Path
    BY DEF Clear, Kept, StraysKept
  <2>2. /\ where' = Renamed(where, m.path, FinderName(where, m.path))
        /\ FreeInTrash(where, Base[m.path]) # {}
    BY <1>4, <2>1 DEF StrayLands
  <2>3. TrashPlace(FinderName(where, m.path)) /\ ~Exists(where, FinderName(where, m.path))
    BY <2>1, <2>2, TrashNameFree DEF Books
  <2> QED
    BY <2>2, <2>3, PlacesApart, NothingReplaced
<1>5. CASE UndoRename
  <2>1. undo.todo # <<>> /\ ~Exists(where, Current.receipt.from)
    BY <1>5 DEF UndoRename, Books, UndoInv, Clear
  <2>2. Current.receipt.from \in Path /\ Current.receipt.from # Nowhere
    BY <2>1, UndoToPath, PlacesApart
  <2>3. where' = where \/ where' = Renamed(where, Current.receipt.to, Current.receipt.from)
    BY <1>5 DEF UndoRename
  <2> QED
    BY <2>1, <2>2, <2>3, NothingReplaced
<1> QED
  BY <1>1, <1>2, <1>3, <1>4, <1>5

\* Without the engine's abandoned moves, no move and no restore replaces what
\* is at the place it lands on.
THEOREM NoOverwriting == Spec => NothingOverwritten
<1> DEFINE Inv == IInv /\ Books /\ Kept /\ Clear
<1>1. Init => Inv
  BY InitInv, InitBooks, InitKept, InitClear
<1>2. Inv /\ [Next]_vars => Inv'
  BY NextInv, NextBooks, NextKept, NextClear
<1>3. Inv /\ [Next]_vars =>
        [(moved' # moved \/ restored' # restored) /\ Engine = {} =>
           \A o \in Obj : where'[o] = Nowhere => where[o] = Nowhere]_vars
  BY MovesToFree
<1> QED
  BY <1>1, <1>2, <1>3, PTL DEF Spec, NothingOverwritten

----------------------------------------------------------------------------
(***************************************************************************)
(* OnDisk's split.  While one run goes at a time, the journal has the      *)
(* moves of one name in the order in which they were made; so what a later *)
(* line took the place of is gone from there, unless it was moved again.   *)
(***************************************************************************)

AtWork(r) == pc[r] # "ended" /\ ~Waiting(r)

OneAtWork == Overlap \/ \A r, x \in Run : AtWork(r) /\ AtWork(x) => r = x

LEMMA NextOneAtWork == ASSUME IInv, Books, OneAtWork, [Next]_vars PROVE OneAtWork'
<1>1. CASE UNCHANGED <<world, pc, seq>>
  BY <1>1 DEF OneAtWork, AtWork, Waiting, Overlap
<1>2. ASSUME NEW r \in Run,
             \/ Finish(r) \/ SkipTrash(r) \/ JournalStart(r) \/ Refuse(r)
             \/ FinderMoves(r) \/ FinderFails(r) \/ StageRenames(r) \/ StageFails(r)
             \/ Identify(r) \/ GiveUp(r) \/ RunCommand(r) \/ JournalAfter(r)
             \/ AskStop(r) \/ Kill(r)
      PROVE  OneAtWork'
  <2>1. /\ world' = world
        /\ \A x \in Run : x # r => pc'[x] = pc[x] /\ seq'[x] = seq[x]
    BY <1>2, RunSteps
  <2>2. \A x \in Run : x # r => AtWork(x)' = AtWork(x)
    BY <2>1 DEF AtWork, Waiting
  <2>3. AtWork(r)' => AtWork(r) \/ Overlap \/ \A x \in Run : x # r => ~AtWork(x)
    <3>1. CASE SkipTrash(r) \/ JournalStart(r)
      BY <3>1 DEF SkipTrash, JournalStart, Ready, AtWork
    <3>2. CASE Finish(r) \/ Kill(r)
      <4>1. pc'[r] = "ended"
        BY <3>2 DEF Finish, Kill, IInv, TypeInv
      <4> QED
        BY <4>1 DEF AtWork
    <3>3. CASE AskStop(r)
      BY <3>3 DEF AskStop, AtWork, Waiting
    <3>4. CASE \/ Refuse(r) \/ FinderMoves(r) \/ FinderFails(r) \/ StageRenames(r) \/ StageFails(r)
               \/ Identify(r) \/ GiveUp(r) \/ RunCommand(r) \/ JournalAfter(r)
      <4>1. pc[r] \in Begun
        BY <3>4 DEF Refuse, FinderMoves, FinderFails, StageRenames, StageFails, Identify, GiveUp,
             RunCommand, JournalAfter, Begun
      <4> QED
        BY <4>1 DEF AtWork, Waiting, Begun
    <3> QED
      BY <1>2, <3>1, <3>2, <3>3, <3>4
  <2>4. Overlap' = Overlap
    BY <2>1 DEF Overlap
  <2>5. ASSUME ~Overlap, NEW x \in Run, NEW y \in Run, AtWork(x)', AtWork(y)' PROVE x = y
    <3>1. CASE x # r /\ y # r
      BY <2>2, <2>5, <3>1 DEF OneAtWork
    <3>2. CASE x = r /\ y # r
      BY <2>2, <2>3, <2>5, <3>2 DEF OneAtWork
    <3>3. CASE x # r /\ y = r
      BY <2>2, <2>3, <2>5, <3>3 DEF OneAtWork
    <3> QED
      BY <3>1, <3>2, <3>3
  <2> QED
    BY <2>4, <2>5 DEF OneAtWork
<1>3. UndoNext \/ OutsideNext \/ UNCHANGED vars => UNCHANGED <<world, pc, seq>>
  BY DEF vars, UndoNext, UndoStart, UndoCheck, UndoRename, UndoLog, UndoEnds, runVars,
         OutsideNext, Regrows, OwnerTrashesItem, CopyRemoved, PutBack, TrashEmptied,
         FinderEmpties, LstatTurns, StrayLands, OthersUnchanged, diskVars, undoVars, history
<1> QED
  BY <1>1, <1>2, <1>3 DEF Next, ExecuteNext

LEMMA InitOneAtWork == Init => OneAtWork
  BY DEF Init, OneAtWork, AtWork, Waiting

StepOf(r) == \/ Finish(r) \/ SkipTrash(r) \/ JournalStart(r) \/ Refuse(r)
             \/ FinderMoves(r) \/ FinderFails(r) \/ StageRenames(r) \/ StageFails(r)
             \/ Identify(r) \/ GiveUp(r) \/ RunCommand(r) \/ JournalAfter(r)
             \/ AskStop(r) \/ Kill(r)

\* Only a run's own step changes where it is.
LEMMA Kinds ==
  ASSUME [Next]_vars
  PROVE  \/ \E r \in Run : StepOf(r)
         \/ UNCHANGED runVars /\ (UndoNext \/ OutsideNext \/ UNCHANGED vars)
  BY DEF Next, ExecuteNext, StepOf, vars, UndoNext, UndoStart, UndoCheck, UndoRename, UndoLog, UndoEnds,
         runVars, OutsideNext, Regrows, OwnerTrashesItem, CopyRemoved, PutBack, TrashEmptied,
         FinderEmpties, LstatTurns, StrayLands, OthersUnchanged, diskVars, undoVars, history

\* Run r is past its action k, or has it down as failed.
Past(r, k) == \/ pc[r] = "ended" \/ k < seq[r]
              \/ pc[r] = "after" /\ ~out[r].ok

\* What is behind a run stays so.
LEMMA PastStays ==
  ASSUME IInv, Books, [Next]_vars, NEW r \in Run, NEW k \in Nat, k <= seq[r], Past(r, k)
  PROVE  Past(r, k)'
<1>1. seq[r] \in Nat
  BY DEF IInv, TypeInv
<1>2. CASE UNCHANGED runVars
  BY <1>2 DEF runVars, Past
<1>3. ASSUME NEW x \in Run, StepOf(x) PROVE Past(r, k)'
  <2>1. /\ pc[x] # "ended" /\ seq'[x] \in Nat /\ seq[x] <= seq'[x]
        /\ \A y \in Run : y # x => pc'[y] = pc[y] /\ seq'[y] = seq[y] /\ out'[y] = out[y]
    BY <1>3, RunSteps DEF StepOf
  <2>2. CASE x # r
    BY <2>1, <2>2 DEF Past
  <2>3. CASE x = r /\ k < seq[r]
    BY <1>1, <2>1, <2>3 DEF Past
  <2>4. CASE x = r /\ pc[r] = "after" /\ ~out[r].ok
    <3>1. CASE JournalAfter(r)
      <4>1. seq'[r] = seq[r] + 1
        BY <3>1 DEF JournalAfter, IInv, TypeInv
      <4> QED
        BY <1>1, <4>1 DEF Past
    <3>2. CASE Kill(r)
      <4>1. pc'[r] = "ended"
        BY <3>2 DEF Kill, IInv, TypeInv
      <4> QED
        BY <4>1 DEF Past
    <3>3. CASE AskStop(r)
      BY <2>4, <3>3 DEF AskStop, Past
    <3>4. JournalAfter(r) \/ Kill(r) \/ AskStop(r)
      BY <1>3, <2>4 DEF StepOf, Finish, SkipTrash, JournalStart, Ready, Refuse, FinderMoves, FinderFails,
         StageRenames, StageFails, Identify, GiveUp, RunCommand
    <3> QED
      BY <3>1, <3>2, <3>3, <3>4
  <2> QED
    BY <2>1, <2>2, <2>3, <2>4 DEF Past
<1> QED
  BY <1>2, <1>3, Kinds

\* Action k of run r is staging its item, or has and will say so.
ToStaging(r, k) == /\ seq[r] = k
                   /\ \/ pc[r] \in {"stage", "identify"} /\ StagingPlace(r, to[r])
                      \/ pc[r] = "after" /\ out[r].ok /\ StagingPlace(r, out[r].receipt.to)

\* It goes on with that, or has it behind.
LEMMA ToStagingStays ==
  ASSUME IInv, Books, [Next]_vars, NEW r \in Run, NEW k, ToStaging(r, k)
  PROVE  ToStaging(r, k)' \/ Past(r, k)'
<1>1. k = seq[r] /\ k \in Nat
  BY DEF ToStaging, IInv, TypeInv
<1>2. CASE UNCHANGED runVars
  BY <1>2 DEF runVars, ToStaging, StagingPlace
<1>3. ASSUME NEW x \in Run, StepOf(x), x # r PROVE ToStaging(r, k)'
  BY <1>3, RunSteps DEF StepOf, ToStaging, StagingPlace
<1>4. CASE StepOf(r)
  <2>1. CASE StageRenames(r)
    <3>1. pc[r] = "stage" /\ pc'[r] = "identify" /\ seq' = seq /\ to' = to
      BY <2>1 DEF StageRenames, IInv, TypeInv
    <3> QED
      BY <3>1 DEF ToStaging, StagingPlace
  <2>2. CASE StageFails(r) \/ GiveUp(r)
    <3>1. pc'[r] = "after" /\ out'[r] = Failed
      BY <2>2 DEF StageFails, GiveUp, Outcome, IInv, TypeInv, Books, Ground
    <3> QED
      BY <3>1, FailedKeepsNothing DEF Past
  <2>3. CASE Identify(r)
    <3>1. PICK ino :
            Outcome(r, [Failed EXCEPT !.ok = TRUE, !.receipt = MoveReceipt(Act(r).path, to[r], ino)])
      BY <2>3 DEF Identify
    <3>2. /\ pc[r] = "identify" /\ pc'[r] = "after" /\ seq' = seq
          /\ out'[r] = [Failed EXCEPT !.ok = TRUE, !.receipt = MoveReceipt(Act(r).path, to[r], ino)]
      BY <2>3, <3>1 DEF Identify, Outcome, IInv, TypeInv, Books, Ground
    <3>3. out'[r].ok /\ out'[r].receipt = MoveReceipt(Act(r).path, to[r], ino)
      BY <3>2 DEF Failed
    <3>4. MoveReceipt(Act(r).path, to[r], ino).to = to[r]
      BY DEF MoveReceipt
    <3> QED
      BY <3>2, <3>3, <3>4 DEF ToStaging, StagingPlace
  <2>4. CASE JournalAfter(r)
    <3>1. seq'[r] = seq[r] + 1
      BY <2>4 DEF JournalAfter, IInv, TypeInv
    <3> QED
      BY <1>1, <3>1 DEF Past
  <2>5. CASE Kill(r)
    <3>1. pc'[r] = "ended"
      BY <2>5 DEF Kill, IInv, TypeInv
    <3> QED
      BY <3>1 DEF Past
  <2>6. CASE AskStop(r)
    BY <2>6 DEF AskStop, ToStaging, StagingPlace
  <2>7. \/ StageRenames(r) \/ StageFails(r) \/ GiveUp(r) \/ Identify(r)
        \/ JournalAfter(r) \/ Kill(r) \/ AskStop(r)
    <3>1. pc[r] \in {"stage", "identify", "after"}
      BY DEF ToStaging
    <3> QED
      BY <1>4, <3>1 DEF StepOf, Finish, SkipTrash, JournalStart, Ready, Refuse, FinderMoves, FinderFails,
         RunCommand
  <2> QED
    BY <2>1, <2>2, <2>3, <2>4, <2>5, <2>6, <2>7
<1> QED
  BY <1>2, <1>3, <1>4, Kinds

\* The action of a move left behind has no done line, and gets none, but for one
\* that Finder was asked for before its item was staged.
StraysOpen == \A m \in strays :
  /\ \A i \in DOMAIN journal :
       Is(journal[i], "done") /\ journal[i].run = m.run /\ journal[i].seq = m.seq =>
         m.to = Nowhere /\ StagingPlace(m.run, journal[i].receipt.to)
  /\ Past(m.run, m.seq) \/ (m.to = Nowhere /\ ToStaging(m.run, m.seq))

\* A done line appended is JournalAfter's.
LEMMA DoneByAfter ==
  ASSUME IInv, [Next]_vars, NEW i \in DOMAIN journal', i \notin DOMAIN journal,
         Is(journal'[i], "done")
  PROVE  \E r \in Run : /\ JournalAfter(r) /\ out[r].ok
                        /\ journal'[i] = After(r, seq[r], out[r])
                        /\ i = Len(journal) + 1
<1>1. \/ \E r \in Run : JournalStart(r) \/ JournalAfter(r)
      \/ UndoLog
      \/ journal' = journal
  <2>1. ExecuteNext => (\E r \in Run : JournalStart(r) \/ JournalAfter(r)) \/ journal' = journal
    BY ZenonT(30) DEF ExecuteNext, Finish, SkipTrash, Refuse, FinderMoves, FinderFails, StageRenames, StageFails,
           Identify, GiveUp, RunCommand, AskStop, Kill
  <2>2. UndoNext => UndoLog \/ journal' = journal
    BY DEF UndoNext, UndoStart, UndoCheck, UndoRename, UndoEnds
  <2>3. OutsideNext \/ UNCHANGED vars => journal' = journal
    BY DEF vars, OutsideNext, Regrows, OwnerTrashesItem, CopyRemoved, PutBack, TrashEmptied,
         FinderEmpties, LstatTurns, StrayLands, OthersUnchanged, diskVars, runVars, undoVars, history
  <2> QED
    BY <2>1, <2>2, <2>3 DEF Next
<1>2. ASSUME NEW e, journal' = journal \/ journal' = Append(journal, e)
      PROVE  journal'[i] = e /\ i = Len(journal) + 1
  BY <1>2, GrownBy DEF IInv
<1>3. ASSUME NEW r \in Run, JournalStart(r) PROVE FALSE
  <2>1. PICK e : e = Start(r, seq[r], Act(r))
    OBVIOUS
  <2>2. journal' = journal \/ journal' = Append(journal, e)
    BY <1>3, <2>1 DEF JournalStart, Journals, Appends, AppendFails
  <2>3. journal'[i] = e
    BY <1>2, <2>2
  <2> QED
    BY <2>1, <2>3 DEF Start, Is
<1>4. CASE UndoLog
  <2>1. PICK e : e = UndoEntry(undo.run, Current.seq, undo.ok)
    OBVIOUS
  <2>2. journal' = journal \/ journal' = Append(journal, e)
    BY <1>4, <2>1 DEF UndoLog, Appends, AppendFails
  <2>3. journal'[i] = e
    BY <1>2, <2>2
  <2>4. UndoEntry(undo.run, Current.seq, undo.ok).event = "undo"
    BY DEF UndoEntry
  <2>5. e.event = "done"
    BY <2>3 DEF Is
  <2> QED
    BY <2>1, <2>4, <2>5
<1>5. ASSUME NEW r \in Run, JournalAfter(r)
      PROVE  out[r].ok /\ journal'[i] = After(r, seq[r], out[r]) /\ i = Len(journal) + 1
  <2>1. PICK e : e = After(r, seq[r], out[r])
    OBVIOUS
  <2>2. journal' = journal \/ journal' = Append(journal, e)
    BY <1>5, <2>1 DEF JournalAfter, Journals, Appends, AppendFails
  <2>3. journal'[i] = e /\ i = Len(journal) + 1
    BY <1>2, <2>2
  <2>4. out[r].ok
    <3>1. After(r, seq[r], out[r]).event = IF out[r].ok THEN "done" ELSE "fail"
      BY DEF After
    <3>2. e.event = "done"
      BY <2>3 DEF Is
    <3> QED
      BY <2>1, <3>1, <3>2
  <2> QED
    BY <2>1, <2>3, <2>4
<1> QED
  BY <1>1, <1>3, <1>4, <1>5

\* A line stays where it is, and a step appends one at most.
LEMMA LinesKeep ==
  ASSUME IInv, [Next]_vars
  PROVE  /\ \A i \in DOMAIN journal : i \in DOMAIN journal' /\ journal'[i] = journal[i]
         /\ \A i \in DOMAIN journal' : i \in 1..Len(journal) + 1 /\ i \in Nat
<1>1. Grows
  <2>1. ExecuteNext => Grows
    BY ZenonT(30) DEF ExecuteNext, Finish, SkipTrash, Refuse, FinderMoves, FinderFails, StageRenames, StageFails,
         Identify, GiveUp, RunCommand, AskStop, Kill, JournalStart, JournalAfter, Journals, Appends,
         AppendFails, Grows
  <2>2. UndoNext => Grows
    BY DEF UndoNext, UndoStart, UndoCheck, UndoRename, UndoLog, UndoEnds, Appends, AppendFails, Grows
  <2>3. OutsideNext \/ UNCHANGED vars => journal' = journal
    BY DEF vars, OutsideNext, Regrows, OwnerTrashesItem, CopyRemoved, PutBack, TrashEmptied,
       FinderEmpties, LstatTurns, StrayLands, OthersUnchanged, diskVars, runVars, undoVars, history
  <2> QED
    BY <2>1, <2>2, <2>3 DEF Next, Grows
<1>2. PICK e : journal' = journal \/ journal' = Append(journal, e)
  BY <1>1 DEF Grows
<1>3. /\ \A i \in DOMAIN journal : i \in DOMAIN journal' /\ journal'[i] = journal[i]
      /\ \A i \in DOMAIN journal' : i \in DOMAIN journal \/ i = Len(journal) + 1
  BY <1>2, GrownBy DEF IInv
<1>4. PICK S : journal \in Seq(S)
  BY DEF IInv, Log
<1>5. DOMAIN journal = 1..Len(journal) /\ Len(journal) \in Nat
  BY <1>4
<1> QED
  BY <1>3, <1>5

LEMMA NextStraysOpen == ASSUME IInv, Books, Kept, StraysOpen, [Next]_vars PROVE StraysOpen'
<1> SUFFICES ASSUME NEW m \in strays'
             PROVE  /\ \A i \in DOMAIN journal' :
                         Is(journal'[i], "done") /\ journal'[i].run = m.run /\ journal'[i].seq = m.seq =>
                           m.to = Nowhere /\ StagingPlace(m.run, journal'[i].receipt.to)
                    /\ Past(m.run, m.seq)' \/ (m.to = Nowhere /\ ToStaging(m.run, m.seq)')
  BY DEF StraysOpen, Is, StagingPlace
<1>1. (\E r \in Run : StepOf(r)) \/ strays' \subseteq strays
  BY Kinds DEF vars, UndoNext, UndoStart, UndoCheck, UndoRename, UndoLog, UndoEnds, OutsideNext, Regrows,
     OwnerTrashesItem, CopyRemoved, PutBack, TrashEmptied, FinderEmpties, LstatTurns, StrayLands, diskVars
<1>2. \A i \in DOMAIN journal : i \in DOMAIN journal' /\ journal'[i] = journal[i]
  BY LinesKeep
<1>3. CASE m \in strays
  <2>1. /\ \A i \in DOMAIN journal :
             Is(journal[i], "done") /\ journal[i].run = m.run /\ journal[i].seq = m.seq =>
               m.to = Nowhere /\ StagingPlace(m.run, journal[i].receipt.to)
        /\ Past(m.run, m.seq) \/ (m.to = Nowhere /\ ToStaging(m.run, m.seq))
    BY <1>3 DEF StraysOpen
  <2>2. m.run \in Run /\ m.seq <= seq[m.run] /\ m.seq \in Nat /\ seq[m.run] \in Nat
    <3>1. OfPlan(m)
      BY <1>3 DEF Kept, StraysKept
    <3> QED
      BY <3>1 DEF OfPlan, IInv, TypeInv
  <2>3. ASSUME NEW i \in DOMAIN journal', Is(journal'[i], "done"),
               journal'[i].run = m.run, journal'[i].seq = m.seq
        PROVE  m.to = Nowhere /\ StagingPlace(m.run, journal'[i].receipt.to)
    <3>1. CASE i \in DOMAIN journal
      BY <1>2, <2>1, <2>3, <3>1
    <3>2. CASE i \notin DOMAIN journal
      <4>1. PICK r \in Run : JournalAfter(r) /\ out[r].ok /\ journal'[i] = After(r, seq[r], out[r])
        BY <2>3, <3>2, DoneByAfter
      <4>2. LET e == After(r, seq[r], out[r]) IN e.run = r /\ e.seq = seq[r] /\ e.receipt = out[r].receipt
        BY DEF After
      <4>3. pc[r] = "after"
        BY <4>1 DEF JournalAfter
      <4>4. m.run = r /\ m.seq = seq[r] /\ journal'[i].receipt = out[r].receipt
        BY <2>3, <4>1, <4>2
      <4>5. ~Past(m.run, m.seq)
        BY <2>2, <4>1, <4>3, <4>4 DEF Past
      <4> QED
        BY <2>1, <4>3, <4>4, <4>5 DEF ToStaging
    <3> QED
      BY <3>1, <3>2
  <2>4. Past(m.run, m.seq)' \/ (m.to = Nowhere /\ ToStaging(m.run, m.seq)')
    BY <2>1, <2>2, PastStays, ToStagingStays
  <2> QED
    BY <2>3, <2>4
<1>4. CASE m \notin strays
  <2>1. PICK r \in Run : FinderFails(r) \/ GiveUp(r) \/ Kill(r)
    BY <1>1, <1>4, ZenonT(30) DEF StepOf, Finish, SkipTrash, JournalStart, Refuse, FinderMoves,
       StageRenames, StageFails, Identify, RunCommand, JournalAfter, AskStop, diskVars
  <2>2. \A dst : Stray(r, dst).run = r /\ Stray(r, dst).seq = seq[r] /\ Stray(r, dst).to = dst
    BY DEF Stray
  <2>3. m.run = r /\ m.seq = seq[r] /\ journal' = journal
    BY <1>4, <2>1, <2>2 DEF FinderFails, GiveUp, Kill
  <2>4. \A i \in DOMAIN journal : Is(journal[i], "done") /\ journal[i].run = r =>
          journal[i].seq \in Nat /\ journal[i].seq < seq[r]
    BY DEF Books, Lines
  <2>5. seq[r] \in Nat
    BY DEF IInv, TypeInv
  <2>6. CASE GiveUp(r) \/ Kill(r)
    <3>1. pc'[r] = "ended" \/ (pc'[r] = "after" /\ ~out'[r].ok)
      BY <2>6 DEF GiveUp, Kill, Outcome, Failed, IInv, TypeInv, Books, Ground
    <3>2. Past(m.run, m.seq)'
      BY <2>3, <3>1 DEF Past
    <3> QED
      BY <2>3, <2>4, <2>5, <3>2
  <2>7. CASE FinderFails(r)
    <3>1. /\ pc[r] = "act" /\ Act(r).kind = "trash" /\ FreeInStaging(where, r, Base[Act(r).path]) # {}
          /\ pc' = [pc EXCEPT ![r] = "stage"] /\ seq' = seq
          /\ to' = [to EXCEPT ![r] = StagingName(where, r, Act(r).path)]
          /\ strays' \subseteq strays \cup {Stray(r, Nowhere)}
      BY <2>7 DEF FinderFails
    <3>2. m.to = Nowhere
      BY <1>4, <2>2, <3>1
    <3>3. pc'[r] = "stage" /\ to'[r] = StagingName(where, r, Act(r).path)
      BY <3>1 DEF IInv, TypeInv, Books, Ground
    <3>4. StagingPlace(r, to'[r])
      BY <3>1, <3>3, ActInPlan, StagingNameFree DEF Books, Begun
    <3>5. ToStaging(m.run, m.seq)'
      BY <2>3, <3>1, <3>3, <3>4 DEF ToStaging, StagingPlace
    <3> QED
      BY <2>3, <2>4, <2>5, <3>2, <3>5
  <2> QED
    BY <2>1, <2>6, <2>7
<1> QED
  BY <1>3, <1>4

LEMMA InitStraysOpen == Init => StraysOpen
  BY DEF Init, StraysOpen

CopyPlace(loc) == TrashPlace(loc) \/ \E r \in Run : StagingPlace(r, loc)

IsMove(e) == Is(e, "done") /\ Restorable(e.receipt)

\* Receipts, and what will be one, name places for copies.
Copied == /\ \A i \in DOMAIN journal : IsMove(journal[i]) => CopyPlace(journal[i].receipt.to)
          /\ \A r \in Run : pc[r] = "identify" => CopyPlace(to[r])
          /\ \A r \in Run : pc[r] = "after" /\ Restorable(out[r].receipt) => CopyPlace(out[r].receipt.to)

\* A run has moved an item to loc, and its receipt will say so.
Landed(r, loc) == \/ pc[r] = "identify" /\ loc = to[r]
                  \/ pc[r] = "after" /\ loc = out[r].receipt.to

\* The copy of line e is where the line says, and no other line's.
Still(e) == e.receipt.ino \in At(where, e.receipt.to) /\ ~MovedAgain(e)

InOrder == Overlap \/ OwnerTrashes \/ \A i \in DOMAIN journal :
  IsMove(journal[i]) =>
    /\ \A j \in DOMAIN journal : i < j /\ Is(journal[j], "done")
                                 /\ journal[j].receipt.to = journal[i].receipt.to => ~Still(journal[i])
    /\ \A r \in Run : Landed(r, journal[i].receipt.to) => ~Still(journal[i])

LEMMA CopiesApart ==
  ASSUME NEW loc, CopyPlace(loc)
  PROVE  loc # Nowhere /\ Place(loc) # Nowhere /\ Place(loc) \notin Path
<1>1. CopyPlace(Place(loc))
  BY PlacesApart DEF CopyPlace
<1> QED
  BY <1>1, PlacesApart DEF CopyPlace

LEMMA WorldStays == ASSUME [Next]_vars PROVE world' = world /\ \A loc : Place(loc)' = Place(loc)
<1>1. world' = world
  <2>1. ExecuteNext => world' = world
    BY ZenonT(30) DEF ExecuteNext, Finish, SkipTrash, JournalStart, Refuse, FinderMoves, FinderFails, StageRenames,
       StageFails, Identify, GiveUp, RunCommand, JournalAfter, AskStop, Kill
  <2>2. UndoNext => world' = world
    BY DEF UndoNext, UndoStart, UndoCheck, UndoRename, UndoLog, UndoEnds
  <2>3. OutsideNext \/ UNCHANGED vars => world' = world
    BY DEF vars, OutsideNext, Regrows, OwnerTrashesItem, CopyRemoved, PutBack, TrashEmptied,
       FinderEmpties, LstatTurns, StrayLands, OthersUnchanged, diskVars, runVars, undoVars, history
  <2> QED
    BY <2>1, <2>2, <2>3 DEF Next
<1> QED
  BY <1>1 DEF Place, CaseBlind, FoldLoc, IsTrash, IsStaging

\* What a rename moves is where it moves it to.
LEMMA RenamedComing ==
  ASSUME NEW src, NEW dst, where' = Renamed(where, src, dst), NEW o \in Obj
  PROVE  \/ where'[o] = dst /\ o \in At(where, src)
         \/ where'[o] = Nowhere
         \/ where'[o] = where[o] /\ o \notin At(where, dst)
  BY DEF Renamed

\* An item gets to another place by a path's, or by a move of an action that has
\* no done line.
LEMMA Comings ==
  ASSUME IInv, Books, Kept, [Next]_vars, ~OwnerTrashes, NEW o \in Obj, where'[o] # where[o]
  PROVE  \/ where'[o] \in Path \cup {Nowhere}
         \/ \E m \in moved' :
              /\ m.obj = o /\ m.to = where'[o]
              /\ \/ m.run \in Run /\ m.seq = seq[m.run]
                 \/ \E s \in strays : /\ m.run = s.run /\ m.seq = s.seq
                                      /\ s.to = Nowhere => TrashPlace(m.to)
<1> DEFINE Goal == \/ where'[o] \in Path \cup {Nowhere}
                   \/ \E m \in moved' :
                        /\ m.obj = o /\ m.to = where'[o]
                        /\ \/ m.run \in Run /\ m.seq = seq[m.run]
                           \/ \E s \in strays : /\ m.run = s.run /\ m.seq = s.seq
                                                /\ s.to = Nowhere => TrashPlace(m.to)
<1>1. ASSUME NEW r, NEW k, NEW src, NEW dst,
             where' = Renamed(where, src, dst), RecordMove(r, k, src, dst),
             \/ r \in Run /\ k = seq[r]
             \/ \E s \in strays : r = s.run /\ k = s.seq /\ (s.to = Nowhere => TrashPlace(dst))
      PROVE  Goal
  <2>1. where'[o] = Nowhere \/ (where'[o] = dst /\ o \in At(where, src))
    BY <1>1, RenamedComing
  <2>2. CASE where'[o] = dst /\ o \in At(where, src)
    <3>1. PICK m : m = [run |-> r, seq |-> k, obj |-> o, from |-> src, to |-> dst]
      OBVIOUS
    <3>2. m \in moved'
      BY <1>1, <2>2, <3>1 DEF RecordMove
    <3>3. m.run = r /\ m.seq = k /\ m.obj = o /\ m.to = dst
      BY <3>1
    <3> QED
      BY <1>1, <2>2, <3>2, <3>3
  <2> QED
    BY <2>1, <2>2
<1>2. ASSUME NEW r \in Run, FinderMoves(r) \/ StageRenames(r) PROVE Goal
  <2>1. PICK src, dst : where' = Renamed(where, src, dst) /\ RecordMove(r, seq[r], src, dst)
    BY <1>2 DEF FinderMoves, StageRenames
  <2> HIDE DEF Goal
  <2> QED
    BY <1>1, <2>1
<1>3. ASSUME NEW s \in strays, StrayLands(s) PROVE Goal
  <2>1. PICK src, dst : src = s.path /\ dst = (IF s.to = Nowhere THEN FinderName(where, s.path) ELSE s.to)
    OBVIOUS
  <2>2. /\ where' = Renamed(where, src, dst) /\ RecordMove(s.run, s.seq, src, dst)
        /\ s.to = Nowhere => FreeInTrash(where, Base[src]) # {}
    BY <1>3, <2>1 DEF StrayLands
  <2>3. src \in Path
    BY <2>1 DEF Kept, StraysKept
  <2>4. s.to = Nowhere => TrashPlace(dst)
    BY <2>1, <2>2, <2>3, TrashNameFree DEF Books
  <2> HIDE DEF Goal
  <2> QED
    BY <1>1, <2>2, <2>4
<1>4. ASSUME NEW r \in Run, RunCommand(r) PROVE Goal
  BY <1>4 DEF RunCommand
<1>5. CASE UndoRename
  <2>1. undo.todo # <<>>
    BY <1>5 DEF UndoRename, Books, UndoInv
  <2>2. Current.receipt.from \in Path
    BY <2>1, UndoToPath
  <2>3. where' = Renamed(where, Current.receipt.to, Current.receipt.from) \/ where' = where
    BY <1>5 DEF UndoRename
  <2>4. where'[o] = Current.receipt.from \/ where'[o] = Nowhere
    BY <2>3, RenamedComing
  <2> QED
    BY <2>2, <2>4
<1>6. CASE \/ \E p \in Path : Regrows(p)
           \/ \E x \in Obj : CopyRemoved(x) \/ PutBack(x)
           \/ TrashEmptied \/ \E r \in Run : FinderEmpties(r)
  <2>1. ASSUME NEW p \in Path, Regrows(p) PROVE where'[o] \in Path
    BY <2>1 DEF Regrows
  <2>2. ASSUME NEW x \in Obj, PutBack(x) PROVE where'[o] \in Path
    <3>1. PICK p \in Path : where' = [where EXCEPT ![x] = p]
      BY <2>2 DEF PutBack
    <3> QED
      BY <3>1
  <2>3. ASSUME (\E x \in Obj : CopyRemoved(x)) \/ TrashEmptied \/ \E r \in Run : FinderEmpties(r)
        PROVE  where'[o] = Nowhere
    BY <2>3 DEF CopyRemoved, TrashEmptied, FinderEmpties, Removes
  <2> QED
    BY <1>6, <2>1, <2>2, <2>3
<1>7. \A p \in Path : ~OwnerTrashesItem(p)
  BY DEF OwnerTrashesItem
<1>8. ExecuteNext => \/ \E r \in Run : FinderMoves(r) \/ StageRenames(r)
                     \/ \E r \in Run : RunCommand(r)
  BY DEF ExecuteNext, Finish, SkipTrash, JournalStart, Refuse, FinderFails, StageFails, Identify,
     GiveUp, JournalAfter, AskStop, Kill, diskVars
<1>9. UndoNext => UndoRename
  BY DEF UndoNext, UndoStart, UndoCheck, UndoLog, UndoEnds, diskVars
<1>10. ~UNCHANGED vars
  BY DEF vars
<1> HIDE DEF Goal
<1>11. Goal
  <2>1. CASE ExecuteNext
    BY <1>2, <1>4, <1>8, <2>1
  <2>2. CASE UndoNext
    BY <1>5, <1>9, <2>2 DEF Goal
  <2>3. CASE OutsideNext
    <3>1. CASE \E m \in strays : StrayLands(m)
      BY <1>3, <3>1
    <3>2. CASE ~\E m \in strays : StrayLands(m)
      <4> \A loc : ~LstatTurns(loc)
        BY DEF LstatTurns, diskVars
      <4>1. \/ \E p \in Path : Regrows(p)
            \/ \E x \in Obj : CopyRemoved(x) \/ PutBack(x)
            \/ TrashEmptied \/ \E r \in Run : FinderEmpties(r)
        BY <1>7, <2>3, <3>2 DEF OutsideNext
      <4> QED
        BY <1>6, <4>1 DEF Goal
    <3> QED
      BY <3>1, <3>2
  <2> QED
    BY <1>10, <2>1, <2>2, <2>3 DEF Next
<1> QED
  BY <1>11 DEF Goal

LEMMA MovedStay == ASSUME [Next]_vars PROVE moved \subseteq moved'
<1>1. ExecuteNext => moved \subseteq moved'
  BY ZenonT(30) DEF ExecuteNext, Finish, SkipTrash, JournalStart, Refuse, FinderMoves, FinderFails, StageRenames,
     StageFails, Identify, GiveUp, RunCommand, JournalAfter, AskStop, Kill, RecordMove, history
<1>2. UndoNext => moved \subseteq moved'
  BY DEF UndoNext, UndoStart, UndoCheck, UndoRename, UndoLog, UndoEnds, history
<1>3. OutsideNext \/ UNCHANGED vars => moved \subseteq moved'
  BY DEF vars, OutsideNext, Regrows, OwnerTrashesItem, CopyRemoved, PutBack, TrashEmptied,
     FinderEmpties, LstatTurns, StrayLands, OthersUnchanged, RecordMove, history, diskVars, runVars, undoVars
<1> QED
  BY <1>1, <1>2, <1>3 DEF Next

\* A copy that is gone, or another line's, is so for good.
LEMMA GoneStays ==
  ASSUME IInv, Books, Kept, StraysOpen, [Next]_vars, ~OwnerTrashes,
         NEW i \in DOMAIN journal, NEW e, e = journal[i], IsMove(e), CopyPlace(e.receipt.to), ~Still(e)
  PROVE  ~Still(e)'
<1>1. moved \subseteq moved' /\ \A loc : Place(loc)' = Place(loc)
  BY MovedStay, WorldStays
<1>2. CASE MovedAgain(e)
  <2>1. MovedAgain(e)'
    BY <1>1, <1>2 DEF MovedAgain
  <2> QED
    BY <2>1 DEF Still
<1>3. CASE e.receipt.ino \notin At(where, e.receipt.to)
  <2> SUFFICES ASSUME e.receipt.ino \in At(where, e.receipt.to)' PROVE MovedAgain(e)'
    BY DEF Still
  <2> DEFINE o == e.receipt.ino
  <2>1. /\ o \in Obj /\ Place(where'[o]) = Place(e.receipt.to)
        /\ Place(where[o]) # Place(e.receipt.to)
    BY <1>1, <1>3 DEF At
  <2>2. where'[o] # where[o]
    BY <2>1
  <2>3. where'[o] \notin Path \cup {Nowhere}
    BY <2>1, CopiesApart, PlacesApart
  <2> HIDE DEF o
  <2>4. PICK m \in moved' :
          /\ m.obj = o /\ m.to = where'[o]
          /\ \/ m.run \in Run /\ m.seq = seq[m.run]
             \/ \E s \in strays : /\ m.run = s.run /\ m.seq = s.seq
                                  /\ s.to = Nowhere => TrashPlace(m.to)
    BY <2>1, <2>2, <2>3, Comings
  <2>5. /\ e.run \in Run /\ e.seq \in Nat /\ seq[e.run] \in Nat /\ e.seq < seq[e.run]
        /\ Is(e, "done")
    BY DEF Books, Lines, IInv, TypeInv, IsMove
  <2>6. m.run # e.run \/ m.seq # e.seq
    <3>1. CASE m.run \in Run /\ m.seq = seq[m.run]
      BY <2>5, <3>1
    <3>2. ASSUME NEW s \in strays, m.run = s.run, m.seq = s.seq, s.to = Nowhere => TrashPlace(m.to),
                 m.run = e.run, m.seq = e.seq
          PROVE  FALSE
      <4>1. s.to = Nowhere /\ StagingPlace(e.run, e.receipt.to)
        BY <2>5, <3>2 DEF StraysOpen
      <4>2. TrashPlace(Place(m.to)) /\ StagingPlace(e.run, Place(e.receipt.to))
        BY <2>5, <3>2, <4>1, PlacesApart
      <4> QED
        BY <2>1, <2>4, <2>5, <4>2, PlacesApart
    <3> QED
      BY <2>4, <3>1, <3>2
  <2>7. Place(m.to)' = Place(e.receipt.to)'
    BY <1>1, <2>1, <2>4
  <2> QED
    BY <2>4, <2>6, <2>7 DEF MovedAgain, o
<1> QED
  BY <1>2, <1>3 DEF Still

\* The move of another line takes the place, and the copy with it.
LEMMA MoverTakes ==
  ASSUME IInv, Books, [Next]_vars, NEW r \in Run, FinderMoves(r) \/ StageRenames(r),
         NEW i \in DOMAIN journal, NEW e, e = journal[i], IsMove(e), CopyPlace(e.receipt.to),
         to'[r] = e.receipt.to
  PROVE  ~Still(e)'
<1> SUFFICES ASSUME e.receipt.ino \in At(where, e.receipt.to)' PROVE MovedAgain(e)'
  BY DEF Still
<1> DEFINE o == e.receipt.ino
           dst == e.receipt.to
<1>1. \A loc : Place(loc)' = Place(loc)
  BY WorldStays
<1>2. o \in Obj /\ Place(where'[o]) = Place(dst)
  BY <1>1 DEF At
<1>3. PICK src : where' = Renamed(where, src, dst) /\ RecordMove(r, seq[r], src, dst)
  <2>1. CASE FinderMoves(r)
    <3>1. PICK d : d = FinderName(where, Act(r).path)
      OBVIOUS
    <3>2. /\ to' = [to EXCEPT ![r] = d] /\ where' = Renamed(where, Act(r).path, d)
          /\ RecordMove(r, seq[r], Act(r).path, d)
      BY <2>1, <3>1 DEF FinderMoves
    <3>3. d = dst
      BY <3>2 DEF Books, Ground
    <3> QED
      BY <3>2, <3>3
  <2>2. CASE StageRenames(r)
    BY <2>2 DEF StageRenames
  <2> QED
    BY <2>1, <2>2
<1> HIDE DEF o, dst
<1>4. \/ where'[o] = dst /\ o \in At(where, src)
      \/ where'[o] = Nowhere
      \/ where'[o] = where[o] /\ o \notin At(where, dst)
  BY <1>2, <1>3, RenamedComing
<1>5. where'[o] # Nowhere
  BY <1>2, CopiesApart, PlacesApart DEF dst
<1>6. where'[o] = dst /\ o \in At(where, src)
  BY <1>2, <1>4, <1>5 DEF At
<1>7. PICK m : m = [run |-> r, seq |-> seq[r], obj |-> o, from |-> src, to |-> dst]
  OBVIOUS
<1>8. m \in moved'
  BY <1>3, <1>6, <1>7 DEF RecordMove
<1>9. m.run = r /\ m.seq = seq[r] /\ m.obj = o /\ m.to = dst
  BY <1>7
<1>10. m.run # e.run \/ m.seq # e.seq
  <2>1. seq[e.run] \in Nat /\ e.seq \in Nat /\ e.seq < seq[e.run]
    BY DEF Books, Lines, IInv, TypeInv, IsMove
  <2> QED
    BY <2>1, <1>9
<1> QED
  BY <1>8, <1>9, <1>10 DEF MovedAgain, o, dst

\* How a run gets to where it has moved something.
LEMMA Landings ==
  ASSUME IInv, Books, [Next]_vars, NEW r \in Run
  PROVE  \/ pc'[r] \notin {"identify", "after"}
         \/ pc'[r] = pc[r] /\ to'[r] = to[r] /\ out'[r] = out[r]
         \/ pc'[r] = "identify" /\ (FinderMoves(r) \/ StageRenames(r))
         \/ pc'[r] = "after" /\ out'[r].receipt.to = Nowhere /\ ~Restorable(out'[r].receipt)
         \/ pc'[r] = "after" /\ pc[r] = "identify" /\ out'[r].receipt.to = to[r]
<1> DEFINE Goal ==
      \/ pc'[r] \notin {"identify", "after"}
      \/ pc'[r] = pc[r] /\ to'[r] = to[r] /\ out'[r] = out[r]
      \/ pc'[r] = "identify" /\ (FinderMoves(r) \/ StageRenames(r))
      \/ pc'[r] = "after" /\ out'[r].receipt.to = Nowhere /\ ~Restorable(out'[r].receipt)
      \/ pc'[r] = "after" /\ pc[r] = "identify" /\ out'[r].receipt.to = to[r]
<1>1. UndoNext \/ OutsideNext \/ UNCHANGED vars => Goal
  BY DEF vars, UndoNext, UndoStart, UndoCheck, UndoRename, UndoLog, UndoEnds, runVars,
         OutsideNext, Regrows, OwnerTrashesItem, CopyRemoved, PutBack, TrashEmptied,
         FinderEmpties, LstatTurns, StrayLands, OthersUnchanged, diskVars, undoVars, history
<1>2. ASSUME NEW x \in Run, x # r,
             \/ Finish(x) \/ SkipTrash(x) \/ JournalStart(x) \/ Refuse(x)
             \/ FinderMoves(x) \/ FinderFails(x) \/ StageRenames(x) \/ StageFails(x)
             \/ Identify(x) \/ GiveUp(x) \/ RunCommand(x) \/ JournalAfter(x)
             \/ AskStop(x) \/ Kill(x)
      PROVE  Goal
  BY <1>2, RunSteps
<1>3. DOMAIN pc = Run /\ DOMAIN out = Run
  BY DEF IInv, TypeInv, Books, Ground
<1>4. ASSUME Finish(r) \/ SkipTrash(r) \/ JournalStart(r) \/ FinderFails(r) \/ JournalAfter(r) \/ Kill(r)
      PROVE  pc'[r] \notin {"identify", "after"}
  BY <1>3, <1>4 DEF Finish, SkipTrash, Ready, JournalStart, FinderFails, JournalAfter, Journals, Kill
<1>5. ASSUME Refuse(r) \/ StageFails(r) \/ GiveUp(r)
      PROVE  pc'[r] = "after" /\ out'[r].receipt.to = Nowhere /\ ~Restorable(out'[r].receipt)
  <2>1. pc'[r] = "after" /\ out'[r] = Failed
    BY <1>3, <1>5 DEF Refuse, StageFails, GiveUp, Outcome
  <2>2. Failed.receipt.to = Nowhere
    BY DEF Failed, NoReceipt
  <2> QED
    BY <2>1, <2>2, FailedKeepsNothing
<1>6. ASSUME RunCommand(r)
      PROVE  pc'[r] = "after" /\ out'[r].receipt.to = Nowhere /\ ~Restorable(out'[r].receipt)
  <2>1. PICK ok, pruned, rcpt : /\ rcpt \in {NoReceipt, ExportReceipt}
                                /\ Outcome(r, [ok |-> ok, pruned |-> pruned, receipt |-> rcpt])
    BY <1>6, Zenon DEF RunCommand
  <2>2. pc'[r] = "after" /\ out'[r].receipt = rcpt
    BY <1>3, <2>1 DEF Outcome
  <2>3. rcpt.to = Nowhere /\ rcpt.method \in {"none", "export"}
    <3>1. /\ NoReceipt.to = Nowhere /\ NoReceipt.method = "none"
          /\ ExportReceipt.to = Nowhere /\ ExportReceipt.method = "export"
      BY DEF NoReceipt, ExportReceipt
    <3> QED
      BY <2>1, <3>1
  <2> QED
    BY <2>2, <2>3 DEF Restorable
<1>7. ASSUME Identify(r)
      PROVE  pc'[r] = "after" /\ pc[r] = "identify" /\ out'[r].receipt.to = to[r]
  <2>1. PICK ino : Outcome(r, [Failed EXCEPT !.ok = TRUE, !.receipt = MoveReceipt(Act(r).path, to[r], ino)])
    BY <1>7 DEF Identify
  <2>2. pc'[r] = "after" /\ pc[r] = "identify"
        /\ out'[r] = [Failed EXCEPT !.ok = TRUE, !.receipt = MoveReceipt(Act(r).path, to[r], ino)]
    BY <1>3, <1>7, <2>1 DEF Outcome, Identify
  <2>3. out'[r].receipt = MoveReceipt(Act(r).path, to[r], ino)
    BY <2>2 DEF Failed
  <2>4. MoveReceipt(Act(r).path, to[r], ino).to = to[r]
    BY DEF MoveReceipt
  <2> QED
    BY <2>2, <2>3, <2>4
<1>8. ASSUME FinderMoves(r) \/ StageRenames(r) PROVE pc'[r] = "identify"
  BY <1>3, <1>8 DEF FinderMoves, StageRenames
<1>9. ASSUME AskStop(r) PROVE pc'[r] = pc[r] /\ to'[r] = to[r] /\ out'[r] = out[r]
  BY <1>9 DEF AskStop
<1>10. Goal
  <2>1. CASE \E x \in Run : x # r /\
             (\/ Finish(x) \/ SkipTrash(x) \/ JournalStart(x) \/ Refuse(x)
             \/ FinderMoves(x) \/ FinderFails(x) \/ StageRenames(x) \/ StageFails(x)
             \/ Identify(x) \/ GiveUp(x) \/ RunCommand(x) \/ JournalAfter(x)
             \/ AskStop(x) \/ Kill(x))
    <3> HIDE DEF Goal
    <3> QED
      BY <1>2, <2>1
  <2>2. CASE \/ Finish(r) \/ SkipTrash(r) \/ JournalStart(r) \/ FinderFails(r) \/ JournalAfter(r) \/ Kill(r)
             \/ Refuse(r) \/ StageFails(r) \/ GiveUp(r) \/ RunCommand(r) \/ Identify(r)
             \/ FinderMoves(r) \/ StageRenames(r) \/ AskStop(r)
    BY <1>4, <1>5, <1>6, <1>7, <1>8, <1>9, <2>2
  <2> HIDE DEF Goal
  <2>3. ExecuteNext => Goal
    BY <2>1, <2>2 DEF ExecuteNext, Goal
  <2> QED
    BY <1>1, <2>3 DEF Next
<1> QED
  BY <1>10

LEMMA NextCopied == ASSUME IInv, Books, Kept, Clear, Copied, [Next]_vars PROVE Copied'
<1>1. ASSUME NEW r \in Run
      PROVE  /\ pc'[r] = "identify" => CopyPlace(to'[r])
             /\ pc'[r] = "after" /\ Restorable(out'[r].receipt) => CopyPlace(out'[r].receipt.to)
  <2>1. ASSUME FinderMoves(r) \/ StageRenames(r) PROVE CopyPlace(to'[r])
    <3>1. CASE FinderMoves(r)
      <4>1. /\ to' = [to EXCEPT ![r] = FinderName(where, Act(r).path)]
            /\ FreeInTrash(where, Base[Act(r).path]) # {} /\ Act(r).kind = "trash" /\ pc[r] \in Begun
        BY <3>1 DEF FinderMoves, Begun
      <4>2. Act(r).path \in Path
        BY <4>1, ActInPlan
      <4>3. TrashPlace(FinderName(where, Act(r).path))
        BY <4>1, <4>2, TrashNameFree DEF Books
      <4> QED
        BY <4>1, <4>3 DEF CopyPlace, Books, Ground
    <3>2. CASE StageRenames(r)
      <4>1. pc[r] = "stage" /\ to'[r] = to[r]
        BY <3>2 DEF StageRenames
      <4> QED
        BY <4>1 DEF CopyPlace, Clear
    <3> QED
      BY <2>1, <3>1, <3>2
  <2>2. /\ pc[r] = "identify" => CopyPlace(to[r])
        /\ pc[r] = "after" /\ Restorable(out[r].receipt) => CopyPlace(out[r].receipt.to)
    BY DEF Copied
  <2> QED
    BY <2>1, <2>2, Landings
<1>2. ASSUME NEW i \in DOMAIN journal', IsMove(journal'[i]) PROVE CopyPlace(journal'[i].receipt.to)
  <2>1. CASE i \in DOMAIN journal
    <3>1. journal'[i] = journal[i]
      BY <2>1, LinesKeep
    <3> QED
      BY <1>2, <2>1, <3>1 DEF Copied
  <2>2. CASE i \notin DOMAIN journal
    <3>1. PICK r \in Run : JournalAfter(r) /\ journal'[i] = After(r, seq[r], out[r])
      BY <1>2, <2>2, DoneByAfter DEF IsMove
    <3>2. After(r, seq[r], out[r]).receipt = out[r].receipt
      BY DEF After
    <3>3. pc[r] = "after"
      BY <3>1 DEF JournalAfter
    <3> QED
      BY <1>2, <3>1, <3>2, <3>3 DEF IsMove, Copied
  <2> QED
    BY <2>1, <2>2
<1> QED
  BY <1>1, <1>2 DEF Copied, Restorable, CopyPlace, TrashPlace, StagingPlace, IsMove, Is

LEMMA NextInOrder ==
  ASSUME IInv, Books, Kept, StraysOpen, OneAtWork, Copied, InOrder, [Next]_vars
  PROVE  InOrder'
<1>1. Overlap' = Overlap /\ OwnerTrashes' = OwnerTrashes
  BY WorldStays DEF Overlap, OwnerTrashes
<1> SUFFICES ASSUME ~Overlap, ~OwnerTrashes,
                    NEW i \in DOMAIN journal', NEW e, e = journal'[i], IsMove(e)
             PROVE  /\ \A j \in DOMAIN journal' : i < j /\ Is(journal'[j], "done")
                         /\ journal'[j].receipt.to = e.receipt.to => ~Still(e)'
                    /\ \A r \in Run : Landed(r, e.receipt.to)' => ~Still(e)'
  BY <1>1 DEF InOrder, IsMove, Is, Restorable, Still, MovedAgain
<1>2. CASE i \in DOMAIN journal
  <2>1. e = journal[i] /\ CopyPlace(e.receipt.to) /\ e.receipt.to # Nowhere
    BY <1>2, LinesKeep, CopiesApart DEF Copied
  <2>2. ~Still(e) => ~Still(e)'
    BY <1>2, <2>1, GoneStays
  <2>3. /\ \A j \in DOMAIN journal : i < j /\ Is(journal[j], "done")
             /\ journal[j].receipt.to = e.receipt.to => ~Still(e)
        /\ \A r \in Run : Landed(r, e.receipt.to) => ~Still(e)
    BY <1>2, <2>1 DEF InOrder
  <2>4. ASSUME NEW j \in DOMAIN journal', i < j, Is(journal'[j], "done"),
               journal'[j].receipt.to = e.receipt.to
        PROVE  ~Still(e)'
    <3>1. CASE j \in DOMAIN journal
      BY <2>2, <2>3, <2>4, <3>1, LinesKeep
    <3>2. CASE j \notin DOMAIN journal
      <4>1. PICK r \in Run : JournalAfter(r) /\ journal'[j] = After(r, seq[r], out[r])
        BY <2>4, <3>2, DoneByAfter
      <4>2. After(r, seq[r], out[r]).receipt = out[r].receipt
        BY DEF After
      <4>3. pc[r] = "after"
        BY <4>1 DEF JournalAfter
      <4>4. Landed(r, e.receipt.to)
        BY <2>4, <4>1, <4>2, <4>3 DEF Landed
      <4> QED
        BY <2>2, <2>3, <4>4
    <3> QED
      BY <3>1, <3>2
  <2>5. ASSUME NEW r \in Run, Landed(r, e.receipt.to)' PROVE ~Still(e)'
    <3>1. CASE Landed(r, e.receipt.to)
      BY <2>2, <2>3, <3>1
    <3>2. CASE ~Landed(r, e.receipt.to)
      <4>1. (FinderMoves(r) \/ StageRenames(r)) /\ to'[r] = e.receipt.to
        BY <2>1, <2>5, <3>2, Landings DEF Landed
      <4> QED
        BY <1>2, <2>1, <4>1, MoverTakes
    <3> QED
      BY <3>1, <3>2
  <2> QED
    BY <2>4, <2>5
<1>3. CASE i \notin DOMAIN journal
  <2>1. PICK r \in Run : JournalAfter(r) /\ i = Len(journal) + 1
    BY <1>3, DoneByAfter DEF IsMove
  <2>2. \A j \in DOMAIN journal' : ~(i < j)
    BY <2>1, LinesKeep
  <2>3. ASSUME NEW x \in Run, Landed(x, e.receipt.to)' PROVE FALSE
    <3>1. pc'[x] \in {"identify", "after"}
      BY <2>3 DEF Landed
    <3>2. x # r
      BY <2>1, <3>1 DEF JournalAfter, Journals, IInv, TypeInv
    <3>3. pc'[x] = pc[x]
      BY <2>1, <3>2, RunSteps
    <3>4. AtWork(x) /\ AtWork(r)
      BY <2>1, <3>1, <3>3 DEF AtWork, Waiting, JournalAfter
    <3> QED
      BY <3>2, <3>4 DEF OneAtWork
  <2> QED
    BY <2>2, <2>3
<1> QED
  BY <1>2, <1>3

LEMMA InitInOrder == Init => Copied /\ InOrder
<1> SUFFICES ASSUME Init PROVE Copied /\ InOrder
  OBVIOUS
<1>1. DOMAIN journal = {} /\ \A r \in Run : pc[r] \notin {"identify", "after"}
  BY DEF Init
<1> QED
  BY <1>1 DEF Copied, InOrder

\* The two halves of the split.
LEMMA SplitExact == ASSUME IInv, Copied, InOrder PROVE OnDiskExact
<1> SUFFICES ASSUME ~Overlap, ~OwnerTrashes, NEW r \in Run, NEW i \in Pending(journal, r),
                    NEW e, e = journal[i], e.receipt.ino # 0, ~MovedAgain(e)
             PROVE  /\ e.receipt.ino \in At(where, e.receipt.to) => i \in Present(journal, where, r)
                    /\ i \in Present(journal, where, r) =>
                         e.receipt.ino \in At(where, e.receipt.to) \/ Refused(e.receipt.to)
  BY DEF OnDiskExact
<1>1. i \in DOMAIN journal /\ IsMove(e)
  BY DEF Pending, OfRun, IsMove
<1>2. \A o \in Obj : holds(e.receipt, o) <=> o = e.receipt.ino
  BY DEF holds
<1>3. Gone(where, e.receipt) <=> e.receipt.ino \notin At(where, e.receipt.to) /\ ~Refused(e.receipt.to)
  BY <1>2 DEF Gone, At
<1>4. ASSUME e.receipt.ino \in At(where, e.receipt.to) PROVE i \notin Reused(journal)
  <2> SUFFICES ASSUME i \in Reused(journal) PROVE FALSE
    OBVIOUS
  <2>1. PICK j \in i + 1..Len(journal) :
          Is(journal[j], "done") /\ SameCopy(e.receipt, journal[j].receipt)
    BY DEF Reused
  <2>2. j \in DOMAIN journal /\ i < j
    BY <1>1, <2>1 DEF IInv, Log
  <2>3. journal[j].receipt.to = e.receipt.to
    BY <2>1 DEF SameCopy
  <2>4. ~Still(e)
    BY <1>1, <2>1, <2>2, <2>3 DEF InOrder
  <2> QED
    BY <1>4, <2>4 DEF Still
<1> QED
  BY <1>3, <1>4 DEF Present

\* While one run goes at a time and only regrow moves items to the Trash,
\* OnDisk's split is exact for every receipt with an identity: what it calls
\* present is all that is still where its line says, and else only what Lstat is
\* refused of, but for an item that came back and was moved there again.
THEOREM OnDiskIsExact == Spec => []OnDiskExact
<1> DEFINE Inv == /\ IInv /\ Books /\ Kept /\ Clear
                  /\ OneAtWork /\ StraysOpen /\ Copied /\ InOrder
<1>1. Init => Inv
  BY InitInv, InitBooks, InitKept, InitClear, InitOneAtWork, InitStraysOpen, InitInOrder
<1>2. Inv /\ [Next]_vars => Inv'
  BY NextInv, NextBooks, NextKept, NextClear, NextOneAtWork, NextStraysOpen, NextCopied, NextInOrder
<1>3. Inv => OnDiskExact
  BY SplitExact
<1> QED
  BY <1>1, <1>2, <1>3, PTL DEF Spec

----------------------------------------------------------------------------
(***************************************************************************)
(* What undo puts back.  A receipt without an identity says no more than   *)
(* the place; it is of the right item when the copy there is of the last   *)
(* line for that place (Holder) and undo works off no other (FreshTodo).   *)
(* One with an identity is of what its run found at the place it had moved *)
(* to (Vouches), and undo renames what it compared with that (ChecksRight):*)
(* both are a look and a later step, between which nothing comes there but *)
(* what somebody moves (Watched).                                          *)
(***************************************************************************)

\* Nobody is at work while an undo goes on alone.
Alone == Overlap \/ undo.pc = "idle" \/ \A r \in Run : ~AtWork(r)

\* Two objects at one place are one.
Apart == \A o, x \in Obj : Place(where[o]) = Place(where[x]) =>
           o = x \/ where[o] \in {Nowhere, Unborn}

\* What Finder may still empty, a plan asked it to.
Asked == emptying # {} => EmptiesTrash

\* No receipt of move m is in the journal, nor will one be.
Lost(m) == /\ ~Receipted(m)
           /\ Past(m.run, m.seq) \/ (TrashPlace(m.to) /\ ToStaging(m.run, m.seq))

\* Action k of run r aside, a move took o to the place loc.
Taken(r, k, loc, o) == \E n \in moved :
  /\ n.obj = o /\ Place(n.to) = Place(loc)
  /\ n.run # r \/ n.seq # k
  /\ Overlap \/ Lost(n)

\* An action may find something else than it moved.
Disturbed == Overlap \/ EmptiesTrash \/ Engine # {}

\* Receipt rcpt of action k of run r tells of a move that action made; an
\* identity is that of the item, or of one that took its place.
Vouched(r, k, rcpt) == \E m \in moved :
  /\ m.run = r /\ m.seq = k /\ m.from = rcpt.from /\ m.to = rcpt.to
  /\ \/ rcpt.ino \in {0, m.obj}
     \/ Disturbed /\ Taken(r, k, rcpt.to, rcpt.ino)

\* A run will find what it moved.
LooksRight == \A r \in Run : pc[r] = "identify" =>
  /\ \A ino \in At(where, to[r]) \cup {0} : Vouched(r, seq[r], MoveReceipt(Act(r).path, to[r], ino))
  /\ Disturbed \/ Exists(where, to[r])

OutVouched == \A r \in Run : pc[r] = "after" /\ Restorable(out[r].receipt) =>
  Vouched(r, seq[r], out[r].receipt)

LinesVouched == \A i \in DOMAIN journal : IsMove(journal[i]) =>
  Vouched(journal[i].run, journal[i].seq, journal[i].receipt)

Vouches == LooksRight /\ OutVouched /\ LinesVouched

\* What undo is about to rename is what it checked.
ChecksRight == undo.pc = "rename" =>
  /\ Current.receipt.ino # 0 => \A o \in At(where, Current.receipt.to) :
       \/ o = Current.receipt.ino
       \/ /\ EmptiesTrash \/ Engine # {}
          /\ Taken(Current.run, Current.seq, Current.receipt.to, o)
  /\ EmptiesTrash \/ Engine # {} \/ Exists(where, Current.receipt.to)

\* No copy undo has still to put back was taken the place of.
FreshTodo == Overlap \/ undo.pc = "idle" \/ \A k \in DOMAIN undo.todo : \E i \in DOMAIN journal :
  /\ journal[i] = undo.todo[k] /\ i \notin Reused(journal)

\* Line i is move m's.
LineOf(i, m) == /\ IsMove(journal[i]) /\ journal[i].run = m.run /\ journal[i].seq = m.seq
                /\ journal[i].receipt.from = m.from /\ journal[i].receipt.to = m.to

\* Run m.run has the move at hand, and its receipt will say so.
ToTell(m) == /\ seq[m.run] = m.seq
             /\ \/ pc[m.run] = "identify" /\ Act(m.run).path = m.from /\ to[m.run] = m.to
                \/ /\ pc[m.run] = "after" /\ out[m.run].ok /\ Restorable(out[m.run].receipt)
                   /\ out[m.run].receipt.from = m.from /\ out[m.run].receipt.to = m.to

\* Of the lines for its place m's is the last, and no other comes.
LastLine(m) ==
  /\ \E j \in DOMAIN journal : LineOf(j, m) /\ \A i \in DOMAIN journal :
       IsMove(journal[i]) /\ Place(journal[i].receipt.to) = Place(m.to) => i <= j
  /\ \A r \in Run : \A loc : Landed(r, loc) => Place(loc) # Place(m.to)

\* What is in the Trash or in staging is of a move that is yet to be told of, or
\* has the last line for that place, or will never be told of.
Holder == Overlap \/ OwnerTrashes \/ \A o \in Obj : CopyPlace(Place(where[o])) =>
  \E m \in moved : m.obj = o /\ m.to = where[o] /\ m.run \in Run /\ (Lost(m) \/ ToTell(m) \/ LastLine(m))

\* Undo is right, or a move has no receipt.
RightOrLost == Overlap \/ OwnerTrashes \/ (\E m \in moved : Lost(m)) \/ NeverUndoesWrongThing

\* Only undo itself gets on with an undo.
LEMMA UndoOnly == ASSUME [Next]_vars PROVE UndoNext \/ UNCHANGED <<undo, restored>>
<1>1. ASSUME NEW r \in Run, StepOf(r) PROVE UNCHANGED <<undo, restored>>
  BY <1>1 DEF StepOf, Finish, SkipTrash, JournalStart, Refuse, FinderMoves, FinderFails, StageRenames, StageFails,
     Identify, GiveUp, RunCommand, JournalAfter, AskStop, Kill, undoVars, history
<1>2. OutsideNext \/ UNCHANGED vars => UNCHANGED <<undo, restored>>
  BY DEF vars, OutsideNext, Regrows, OwnerTrashesItem, CopyRemoved, PutBack, TrashEmptied, FinderEmpties, LstatTurns,
     StrayLands, OthersUnchanged, undoVars, history, diskVars, runVars
<1> QED
  BY <1>1, <1>2, Kinds

\* An undo begins with a pass.
LEMMA Beginning ==
  ASSUME [Next]_vars, undo.pc = "idle", undo'.pc # "idle"
  PROVE  \E r \in Run : UndoStart(r)
<1>1. undo' # undo
  OBVIOUS
<1> QED
  BY <1>1, UndoOnly DEF UndoNext, UndoCheck, UndoRename, UndoLog, UndoEnds

\* A run that is at an action was at it before, or begins it.
LEMMA AtSameAction ==
  ASSUME IInv, Books, [Next]_vars, NEW r \in Run, pc'[r] \in Begun
  PROVE  /\ seq'[r] = seq[r] /\ Act(r)' = Act(r)
         /\ pc[r] \in Begun \/ JournalStart(r)
<1>1. world' = world
  BY WorldStays
<1>2. seq'[r] = seq[r] /\ (pc[r] \in Begun \/ JournalStart(r))
  <2>1. CASE UNCHANGED runVars
    BY <2>1 DEF runVars
  <2>2. ASSUME NEW x \in Run, StepOf(x), x # r PROVE seq'[r] = seq[r] /\ pc[r] \in Begun
    BY <2>2, RunSteps DEF StepOf
  <2>3. CASE StepOf(r)
    <3>1. \A p : pc' = [pc EXCEPT ![r] = p] => p \in Begun
      BY DEF IInv, TypeInv
    <3>2. ~Finish(r) /\ ~Kill(r)
      <4>1. Finish(r) => pc' = [pc EXCEPT ![r] = "ended"]
        BY DEF Finish
      <4>2. Kill(r) => pc' = [pc EXCEPT ![r] = "ended"]
        BY DEF Kill
      <4>3. "ended" \notin Begun
        BY DEF Begun
      <4> QED
        BY <3>1, <4>1, <4>2, <4>3
    <3>3. ~JournalAfter(r)
      BY <3>1 DEF JournalAfter, Journals, Begun
    <3>4. ~SkipTrash(r)
      BY DEF SkipTrash, Ready, Begun
    <3>5. JournalStart(r) => seq' = seq
      BY DEF JournalStart
    <3>6. AskStop(r) => seq' = seq /\ pc' = pc
      BY DEF AskStop
    <3>7. \/ Refuse(r) \/ FinderMoves(r) \/ FinderFails(r) \/ StageRenames(r) \/ StageFails(r)
          \/ Identify(r) \/ GiveUp(r) \/ RunCommand(r)
          => seq' = seq /\ pc[r] \in Begun
      BY DEF Refuse, FinderMoves, FinderFails, StageRenames, StageFails, Identify, GiveUp, RunCommand, Begun
    <3> QED
      BY <2>3, <3>2, <3>3, <3>4, <3>5, <3>6, <3>7 DEF StepOf
  <2> QED
    BY <2>1, <2>2, <2>3, Kinds
<1> QED
  BY <1>1, <1>2 DEF Act, Plan

\* While an undo goes on and nobody overlaps, nobody begins to work.
LEMMA NextAlone == ASSUME IInv, Books, Alone, [Next]_vars PROVE Alone'
<1>1. Overlap' = Overlap
  BY WorldStays DEF Overlap
<1> SUFFICES ASSUME ~Overlap, undo'.pc # "idle", NEW r \in Run PROVE ~AtWork(r)'
  BY <1>1 DEF Alone
<1>2. CASE undo.pc # "idle"
  <2>1. ~AtWork(r)
    BY <1>2 DEF Alone
  <2>2. CASE UNCHANGED runVars
    BY <2>1, <2>2 DEF AtWork, Waiting, runVars
  <2>3. ASSUME NEW x \in Run, StepOf(x), x # r PROVE ~AtWork(r)'
    BY <2>1, <2>3, RunSteps DEF StepOf, AtWork, Waiting
  <2>4. CASE StepOf(r)
    <3>1. pc[r] \in {"next", "ended"}
      BY <2>1 DEF AtWork, Waiting
    <3>2. ~SkipTrash(r) /\ ~JournalStart(r)
      BY <1>2 DEF SkipTrash, JournalStart, Ready
    <3>3. Finish(r) \/ AskStop(r) \/ Kill(r)
      BY <2>4, <3>1, <3>2 DEF StepOf, Refuse, FinderMoves, FinderFails, StageRenames, StageFails,
         Identify, GiveUp, RunCommand, JournalAfter
    <3>4. CASE Finish(r) \/ Kill(r)
      BY <3>4 DEF Finish, Kill, AtWork, IInv, TypeInv
    <3>5. CASE AskStop(r)
      BY <2>1, <3>5 DEF AskStop, AtWork, Waiting
    <3> QED
      BY <3>3, <3>4, <3>5
  <2> QED
    BY <2>2, <2>3, <2>4, Kinds
<1>3. CASE undo.pc = "idle"
  <2>1. \E x \in Run : UndoStart(x)
    BY <1>3, Beginning
  <2>2. pc' = pc /\ seq' = seq /\ ~AtWork(r)
    BY <2>1 DEF UndoStart, AtWork, runVars
  <2> QED
    BY <2>2 DEF AtWork, Waiting
<1> QED
  BY <1>2, <1>3

LEMMA InitAlone == Init => Alone
  BY DEF Init, Alone, Idle

\* Finder is asked to empty the Trash by a plan.
LEMMA NextAsked == ASSUME IInv, Books, Asked, [Next]_vars PROVE Asked'
<1>1. EmptiesTrash' = EmptiesTrash
  BY WorldStays DEF EmptiesTrash, Plan
<1>2. CASE emptying' \subseteq emptying
  BY <1>1, <1>2 DEF Asked
<1>3. ASSUME NEW r \in Run, RunCommand(r), ~(emptying' \subseteq emptying) PROVE EmptiesTrash
  <2>1. Act(r).empties /\ pc[r] \in Begun
    BY <1>3 DEF RunCommand, Begun
  <2> QED
    BY <2>1, ActInPlan DEF EmptiesTrash, Act
<1>4. (\E r \in Run : RunCommand(r)) \/ emptying' \subseteq emptying
  <2>1. ASSUME NEW r \in Run, StepOf(r) PROVE RunCommand(r) \/ emptying' = emptying
    BY <2>1, RunUnsafe DEF StepOf
  <2>2. UndoNext \/ OutsideNext \/ UNCHANGED vars => emptying' \subseteq emptying
    BY DEF UndoNext, UndoStart, UndoCheck, UndoRename, UndoLog, UndoEnds, diskVars, vars, OutsideNext,
         Regrows, OwnerTrashesItem, CopyRemoved, PutBack, TrashEmptied, FinderEmpties, LstatTurns, StrayLands, runVars, undoVars, history
  <2> QED
    BY <2>1, <2>2, Kinds
<1> QED
  BY <1>1, <1>2, <1>3, <1>4 DEF Asked

LEMMA InitAsked == Init => Asked
  BY DEF Init, Asked

\* No receipt comes for what is behind.
LEMMA LostStays ==
  ASSUME IInv, Books, Kept, [Next]_vars, NEW m \in moved, Lost(m)
  PROVE  Lost(m)'
<1>1. m.run \in Run /\ m.seq \in Nat /\ m.seq <= seq[m.run] /\ seq[m.run] \in Nat
  <2>1. OfPlan(m)
    BY DEF Kept, MovesKept
  <2> QED
    BY <2>1 DEF OfPlan, IInv, TypeInv
<1>2. Past(m.run, m.seq)' \/ (TrashPlace(m.to) /\ ToStaging(m.run, m.seq)')
  BY <1>1, PastStays, ToStagingStays DEF Lost
<1>3. ASSUME NEW i \in DOMAIN journal', Is(journal'[i], "done"), journal'[i].run = m.run,
             journal'[i].seq = m.seq, journal'[i].receipt.from = m.from, journal'[i].receipt.to = m.to
      PROVE  FALSE
  <2>1. CASE i \in DOMAIN journal
    <3>1. journal'[i] = journal[i]
      BY <2>1, LinesKeep
    <3> QED
      BY <1>3, <2>1, <3>1 DEF Lost, Receipted
  <2>2. CASE i \notin DOMAIN journal
    <3>1. PICK r \in Run : JournalAfter(r) /\ out[r].ok /\ journal'[i] = After(r, seq[r], out[r])
      BY <1>3, <2>2, DoneByAfter
    <3>2. LET e == After(r, seq[r], out[r]) IN e.run = r /\ e.seq = seq[r] /\ e.receipt = out[r].receipt
      BY DEF After
    <3>3. m.run = r /\ m.seq = seq[r] /\ pc[r] = "after" /\ out[r].receipt.to = m.to
      BY <1>3, <3>1, <3>2 DEF JournalAfter
    <3>4. ~Past(m.run, m.seq)
      BY <1>1, <3>1, <3>3 DEF Past
    <3>5. TrashPlace(m.to) /\ StagingPlace(r, m.to)
      BY <3>3, <3>4 DEF Lost, ToStaging
    <3> QED
      BY <3>5, PlacesApart
  <2> QED
    BY <2>1, <2>2
<1> QED
  BY <1>2, <1>3 DEF Lost, Receipted, TrashPlace

\* Items go, or stay where they are.
Fades == \A o \in Obj : where'[o] \in {where[o], Nowhere}
Stays == \A o \in Obj : where'[o] = where[o]

\* An item is where nothing was, at a path.
ComesBack == \E p \in Path : /\ ~Exists(where, p)
                             /\ \E x : \A o \in Obj : where'[o] = IF o = x THEN p ELSE where[o]

\* Who moves what is at a path: the owner, a run, or Finder after all.
Carrier(src, dst) ==
  \/ OwnerActs /\ OwnerTrashes /\ TrashPlace(dst)
  \/ \E r \in Run : /\ pc[r] \in {"act", "stage"} /\ pc'[r] = "identify"
                    /\ Act(r).path = src /\ to'[r] = dst /\ RecordMove(r, seq[r], src, dst)
  \/ \E s \in strays : /\ StrayLands(s) /\ RecordMove(s.run, s.seq, src, dst)
                       /\ s.to = Nowhere => TrashPlace(dst)

Carries(src, dst) == /\ where' = Renamed(where, src, dst) /\ Carrier(src, dst)
                     /\ Engine = {} => ~Exists(where, dst)

\* All that happens to where things are.
LEMMA Changes ==
  ASSUME IInv, Books, Kept, Clear, Asked, [Next]_vars
  PROVE  \/ Fades /\ (Stays \/ EmptiesTrash \/ OwnerActs)
         \/ ComesBack /\ OwnerActs
         \/ UndoRename /\ where' = Renamed(where, Current.receipt.to, Current.receipt.from)
         \/ \E src \in Path : \E dst : Carries(src, dst)
<1> DEFINE Goal == \/ Fades /\ (Stays \/ EmptiesTrash \/ OwnerActs)
                   \/ ComesBack /\ OwnerActs
                   \/ UndoRename /\ where' = Renamed(where, Current.receipt.to, Current.receipt.from)
                   \/ \E src \in Path : \E dst : Carries(src, dst)
<1>1. ASSUME where' = where PROVE Goal
  BY <1>1 DEF Fades, Stays
<1>2. ASSUME NEW r \in Run, FinderMoves(r) PROVE Goal
  <2>1. PICK src, dst : src = Act(r).path /\ dst = FinderName(where, Act(r).path)
    OBVIOUS
  <2>2. /\ where' = Renamed(where, src, dst) /\ RecordMove(r, seq[r], src, dst)
        /\ FreeInTrash(where, Base[src]) # {} /\ Act(r).kind = "trash" /\ pc[r] = "act"
        /\ to' = [to EXCEPT ![r] = dst] /\ pc' = [pc EXCEPT ![r] = "identify"]
    BY <1>2, <2>1 DEF FinderMoves
  <2>3. src \in Path
    BY <2>1, <2>2, ActInPlan DEF Begun
  <2>4. ~Exists(where, dst)
    BY <2>1, <2>2, <2>3, TrashNameFree DEF Books
  <2>5. to'[r] = dst /\ pc'[r] = "identify"
    BY <2>2 DEF Books, Ground, IInv, TypeInv
  <2>6. Carries(src, dst)
    BY <2>1, <2>2, <2>4, <2>5 DEF Carries, Carrier
  <2> QED
    BY <2>3, <2>6
<1>3. ASSUME NEW r \in Run, StageRenames(r) PROVE Goal
  <2>1. PICK src, dst : src = Act(r).path /\ dst = to[r]
    OBVIOUS
  <2>2. /\ where' = Renamed(where, src, dst) /\ RecordMove(r, seq[r], src, dst)
        /\ pc[r] = "stage" /\ to' = to /\ pc' = [pc EXCEPT ![r] = "identify"]
    BY <1>3, <2>1 DEF StageRenames
  <2>3. src \in Path
    BY <2>1, <2>2, ActInPlan DEF Begun, Books, AtAction
  <2>4. Engine = {} => ~Exists(where, dst)
    BY <2>1, <2>2 DEF Clear
  <2>5. to'[r] = dst /\ pc'[r] = "identify"
    BY <2>1, <2>2 DEF IInv, TypeInv
  <2>6. Carries(src, dst)
    BY <2>1, <2>2, <2>4, <2>5 DEF Carries, Carrier
  <2> QED
    BY <2>3, <2>6
<1>4. ASSUME NEW s \in strays, StrayLands(s) PROVE Goal
  <2>1. PICK src, dst : src = s.path /\ dst = (IF s.to = Nowhere THEN FinderName(where, s.path) ELSE s.to)
    OBVIOUS
  <2>2. /\ where' = Renamed(where, src, dst) /\ RecordMove(s.run, s.seq, src, dst)
        /\ s.to = Nowhere => FreeInTrash(where, Base[src]) # {}
    BY <1>4, <2>1 DEF StrayLands
  <2>3. src \in Path
    BY <2>1 DEF Kept, StraysKept
  <2>4. (Engine = {} => ~Exists(where, dst)) /\ (s.to = Nowhere => TrashPlace(dst))
    BY <2>1, <2>2, <2>3, TrashNameFree DEF Books, Clear
  <2>5. Carries(src, dst)
    BY <1>4, <2>2, <2>4 DEF Carries, Carrier
  <2> QED
    BY <2>3, <2>5
<1>5. ASSUME NEW p \in Path, OwnerTrashesItem(p) PROVE Goal
  <2>1. PICK dst : dst = FinderName(where, p)
    OBVIOUS
  <2>2. /\ where' = Renamed(where, p, dst) /\ FreeInTrash(where, Base[p]) # {}
        /\ OwnerActs /\ OwnerTrashes
    BY <1>5, <2>1 DEF OwnerTrashesItem
  <2>3. ~Exists(where, dst) /\ TrashPlace(dst)
    BY <2>1, <2>2, TrashNameFree DEF Books
  <2>4. Carries(p, dst)
    BY <2>2, <2>3 DEF Carries, Carrier
  <2> QED
    BY <2>4
<1>6. ASSUME NEW r \in Run, RunCommand(r) PROVE Goal
  <2>1. Fades /\ (Stays \/ Act(r).empties)
    BY <1>6 DEF RunCommand, Fades, Stays
  <2>2. Act(r).empties => EmptiesTrash
    BY <1>6, ActInPlan DEF RunCommand, Begun, EmptiesTrash, Act
  <2> QED
    BY <2>1, <2>2
<1>7. ASSUME UndoRename PROVE Goal
  BY <1>1, <1>7 DEF UndoRename
<1>8. ASSUME NEW p \in Path, Regrows(p) PROVE Goal
  <2>1. PICK x : where' = [where EXCEPT ![x] = p] /\ ~Exists(where, p) /\ OwnerActs
    BY <1>8 DEF Regrows
  <2>2. \A o \in Obj : where'[o] = IF o = x THEN p ELSE where[o]
    BY <2>1 DEF Clear
  <2>3. ComesBack
    BY <2>1, <2>2 DEF ComesBack
  <2> QED
    BY <2>1, <2>3
<1>9. ASSUME NEW x \in Obj, PutBack(x) PROVE Goal
  <2>1. PICK p \in Path : where' = [where EXCEPT ![x] = p] /\ ~Exists(where, p) /\ OwnerActs
    BY <1>9 DEF PutBack
  <2>2. \A o \in Obj : where'[o] = IF o = x THEN p ELSE where[o]
    BY <2>1 DEF Clear
  <2>3. ComesBack
    BY <2>1, <2>2 DEF ComesBack
  <2> QED
    BY <2>1, <2>3
<1>10. ASSUME TrashEmptied \/ \E o \in Obj : CopyRemoved(o) PROVE Goal
  BY <1>10 DEF TrashEmptied, CopyRemoved, Removes, Fades
<1>11. ASSUME NEW r \in Run, FinderEmpties(r) PROVE Goal
  BY <1>11 DEF FinderEmpties, Removes, Fades, Asked
<1> HIDE DEF Goal
<1>12. ASSUME NEW r \in Run, StepOf(r) PROVE Goal
  <2>1. CASE ~FinderMoves(r) /\ ~StageRenames(r) /\ ~RunCommand(r)
    <3>1. where' = where
      BY <1>12, <2>1 DEF StepOf, Finish, SkipTrash, JournalStart, Refuse, FinderFails, StageFails, Identify,
         GiveUp, JournalAfter, AskStop, Kill, diskVars
    <3> QED
      BY <1>1, <3>1
  <2> QED
    BY <1>2, <1>3, <1>6, <2>1
<1>13. ASSUME UndoNext PROVE Goal
  <2>1. CASE ~UndoRename
    <3>1. where' = where
      BY <1>13, <2>1 DEF UndoNext, UndoStart, UndoCheck, UndoLog, UndoEnds, diskVars
    <3> QED
      BY <1>1, <3>1
  <2> QED
    BY <1>7, <2>1
<1>14. ASSUME OutsideNext PROVE Goal
  <2>1. ASSUME NEW loc, LstatTurns(loc) PROVE Goal
    BY <1>1, <2>1 DEF LstatTurns, diskVars
  <2> QED
    BY <1>4, <1>5, <1>8, <1>9, <1>10, <1>11, <1>14, <2>1 DEF OutsideNext
<1>15. ASSUME UNCHANGED vars PROVE Goal
  <2>1. where' = where
    BY <1>15 DEF vars
  <2> QED
    BY <1>1, <2>1
<1>16. Goal
  BY <1>12, <1>13, <1>14, <1>15, Kinds
<1> QED
  BY <1>16 DEF Goal

LEMMA UnbornApart ==
  /\ Place(Unborn) = Unborn
  /\ \A loc : Place(loc) = Nowhere => loc = Nowhere
  /\ \A loc : CopyPlace(loc) => Place(loc) # Unborn
<1>1. ~CopyPlace(Unborn)
  BY DEF CopyPlace, TrashPlace, StagingPlace, InTrash, InStaging, Unborn
<1>2. \A loc : CopyPlace(loc) => CopyPlace(Place(loc))
  BY PlacesApart DEF CopyPlace
<1>3. Place(Unborn) = Unborn
  BY DEF Place, FoldLoc, IsTrash, IsStaging, Unborn
<1>4. \A loc : Place(loc) = Nowhere => loc = Nowhere
  BY DEF Place, FoldLoc, InTrash, InStaging, Nowhere
<1> QED
  BY <1>1, <1>2, <1>3, <1>4

\* What undo works at names a copy.
LEMMA CurrentLine ==
  ASSUME IInv, Books, Copied, undo.todo # <<>>
  PROVE  /\ \E i \in DOMAIN journal : journal[i] = Current
         /\ IsMove(Current) /\ Current.run = undo.run
         /\ CopyPlace(Current.receipt.to) /\ Current.receipt.from \in Path
<1>1. PICK S : undo.todo \in Seq(S)
  BY DEF Books, UndoInv
<1>2. 1 \in DOMAIN undo.todo
  BY <1>1
<1>3. DoneLineOf(undo.run, Current)
  BY <1>2 DEF Books, UndoInv, Current
<1> QED
  BY <1>3, UndoToPath DEF DoneLineOf, Copied, IsMove

\* A rename leaves what it moved alone at its place.
LEMMA RenamedApart ==
  ASSUME Apart, world' = world, NEW src, NEW dst, where' = Renamed(where, src, dst),
         Place(src) \notin {Nowhere, Unborn}
  PROVE  Apart'
<1>1. \A loc : Place(loc)' = Place(loc)
  BY DEF Place, CaseBlind, FoldLoc, IsTrash, IsStaging
<1> SUFFICES ASSUME NEW o \in Obj, NEW x \in Obj, Place(where'[o]) = Place(where'[x]),
                    where'[o] \notin {Nowhere, Unborn}, o # x
             PROVE  FALSE
  BY <1>1 DEF Apart
<1>2. Place(Nowhere) = Nowhere /\ Place(Unborn) = Unborn
  BY PlacesApart, UnbornApart
<1>3. \A y \in Obj : \/ where'[y] = dst /\ Place(where[y]) = Place(src)
                     \/ where'[y] = Nowhere
                     \/ where'[y] = where[y] /\ Place(where[y]) # Place(dst)
  BY RenamedComing DEF At
<1>4. \A y, z \in Obj : Place(where[y]) = Place(where[z]) =>
        y = z \/ where[y] \in {Nowhere, Unborn}
  BY DEF Apart
<1>5. CASE where'[x] = Nowhere
  BY <1>2, <1>5, UnbornApart
<1>6. CASE where'[x] # Nowhere
  BY <1>2, <1>3, <1>4, <1>6
<1> QED
  BY <1>5, <1>6

LEMMA NextApart ==
  ASSUME IInv, Books, Kept, Clear, Asked, Copied, Apart, [Next]_vars
  PROVE  Apart'
<1>1. world' = world /\ \A loc : Place(loc)' = Place(loc)
  BY WorldStays
<1>2. /\ Place(Nowhere) = Nowhere /\ Place(Unborn) = Unborn
      /\ \A p \in Path : Place(p) = p /\ p # Nowhere /\ p # Unborn
  BY PlacesApart, UnbornApart, PathAssumption
<1>3. \A o, x \in Obj : Place(where[o]) = Place(where[x]) => o = x \/ where[o] \in {Nowhere, Unborn}
  BY DEF Apart
<1>4. CASE Fades
  <2> SUFFICES ASSUME NEW o \in Obj, NEW x \in Obj, Place(where'[o]) = Place(where'[x]),
                      where'[o] \notin {Nowhere, Unborn}
               PROVE  o = x
    BY <1>1 DEF Apart
  <2>1. where'[o] = where[o]
    BY <1>4 DEF Fades
  <2>2. where'[x] = where[x]
    BY <1>2, <1>4, UnbornApart DEF Fades
  <2> QED
    BY <1>3, <2>1, <2>2
<1>5. CASE ComesBack
  <2>1. PICK p \in Path : /\ ~Exists(where, p)
                          /\ \E z : \A o \in Obj : where'[o] = IF o = z THEN p ELSE where[o]
    BY <1>5 DEF ComesBack
  <2>2. PICK z : \A o \in Obj : where'[o] = IF o = z THEN p ELSE where[o]
    BY <2>1
  <2>3. \A o \in Obj : Place(where[o]) # p
    BY <1>2, <2>1 DEF Exists, At
  <2> SUFFICES ASSUME NEW o \in Obj, NEW x \in Obj, Place(where'[o]) = Place(where'[x]),
                      where'[o] \notin {Nowhere, Unborn}
               PROVE  o = x
    BY <1>1 DEF Apart
  <2> QED
    BY <1>2, <1>3, <2>2, <2>3
<1>6. CASE UndoRename /\ where' = Renamed(where, Current.receipt.to, Current.receipt.from)
  <2>1. undo.todo # <<>>
    BY <1>6 DEF UndoRename, Books, UndoInv
  <2>2. Place(Current.receipt.to) \notin {Nowhere, Unborn}
    BY <2>1, CurrentLine, CopiesApart, UnbornApart
  <2> QED
    BY <1>1, <1>6, <2>2, RenamedApart
<1>7. ASSUME NEW src \in Path, NEW dst, Carries(src, dst) PROVE Apart'
  BY <1>1, <1>2, <1>7, RenamedApart DEF Carries
<1> QED
  BY <1>4, <1>5, <1>6, <1>7, Changes

LEMMA InitApart == Init => Apart
<1> SUFFICES ASSUME Init, NEW o \in Obj, NEW x \in Obj, Place(where[o]) = Place(where[x]),
                    where[o] \notin {Nowhere, Unborn}
             PROVE  o = x
  BY DEF Apart
<1>1. \A y \in Obj : \/ where[y] \in {Nowhere, Unborn}
                     \/ where[y] \in Path /\ First[where[y]] = y
  BY DEF Init
<1>2. \A y \in Obj : where[y] \in Path \cup {Nowhere, Unborn} => Place(where[y]) = where[y]
  BY PlacesApart, UnbornApart
<1> QED
  BY <1>1, <1>2

\* The move that was left behind and lands has no receipt.
LEMMA LandsLost ==
  ASSUME IInv, Books, Kept, StraysOpen, NEW s \in strays, StrayLands(s), NEW m, m.run = s.run, m.seq = s.seq,
         s.to = Nowhere => TrashPlace(m.to)
  PROVE  Lost(m)'
<1>1. UNCHANGED <<journal, pc, seq, to, out>>
  BY DEF StrayLands, runVars
<1>2. Past(m.run, m.seq) \/ (TrashPlace(m.to) /\ ToStaging(m.run, m.seq))
  BY DEF StraysOpen
<1>3. ASSUME Receipted(m) PROVE FALSE
  <2>1. m.run \in Run
    BY DEF Kept, StraysKept, OfPlan
  <2>2. s.to = Nowhere /\ StagingPlace(m.run, m.to)
    BY <1>3 DEF StraysOpen, Receipted
  <2> QED
    BY <2>1, <2>2, PlacesApart
<1> QED
  BY <1>1, <1>2, <1>3 DEF Lost, Receipted, Past, ToStaging, TrashPlace, StagingPlace

\* A move of another's: one at work, or one left behind.
Others(n) == \/ \E r \in Run : n.run = r /\ n.seq = seq[r] /\ pc[r] \in {"act", "stage"}
             \/ \E s \in strays : /\ n.run = s.run /\ n.seq = s.seq /\ Lost(n)'
                                  /\ s.to = Nowhere => TrashPlace(n.to)

\* While the owner keeps still, what comes to a copy's place is somebody's move;
\* and nothing comes to one that is taken, unless a staging was given up on, or
\* leaves one, unless the Trash is emptied or undo takes it.
LEMMA Watched ==
  ASSUME IInv, Books, Kept, Clear, Asked, StraysOpen, [Next]_vars, ~OwnerActs,
         NEW loc, CopyPlace(loc)
  PROVE  /\ \A o \in At(where, loc)' : \/ o \in At(where, loc)
                                       \/ \E n \in moved' : n.obj = o /\ Place(n.to) = Place(loc) /\ Others(n)
         /\ Engine = {} /\ Exists(where, loc) => At(where, loc)' \subseteq At(where, loc)
         /\ Engine = {} /\ Exists(where, loc) /\ ~EmptiesTrash /\ ~UndoRename => Exists(where, loc)'
<1>1. \A l : Place(l)' = Place(l)
  BY WorldStays
<1>2. /\ Place(loc) \notin Path /\ Place(loc) # Nowhere /\ Place(Nowhere) = Nowhere
      /\ \A p \in Path : Place(p) = p
  BY CopiesApart, PlacesApart
<1>3. /\ At(where, loc)' = {o \in Obj : Place(where'[o]) = Place(loc)}
      /\ At(where, loc) = {o \in Obj : Place(where[o]) = Place(loc)}
  BY <1>1 DEF At
<1>4. CASE Fades /\ (Stays \/ EmptiesTrash)
  <2>1. At(where, loc)' \subseteq At(where, loc)
    BY <1>2, <1>3, <1>4 DEF Fades
  <2>2. Stays => At(where, loc)' = At(where, loc)
    BY <1>3 DEF Stays
  <2> QED
    BY <1>4, <2>1, <2>2 DEF Exists
<1>5. CASE UndoRename /\ where' = Renamed(where, Current.receipt.to, Current.receipt.from)
  <2>1. Current.receipt.from \in Path
    BY <1>5, UndoToPath DEF UndoRename, Books, UndoInv
  <2>2. \A o \in Obj : where'[o] = Current.receipt.from \/ where'[o] = Nowhere \/ where'[o] = where[o]
    BY <1>5, RenamedComing
  <2>3. At(where, loc)' \subseteq At(where, loc)
    BY <1>2, <1>3, <2>1, <2>2
  <2> QED
    BY <1>5, <2>3
<1>6. ASSUME NEW src \in Path, NEW dst, Carries(src, dst)
      PROVE  /\ \A o \in At(where, loc)' : \/ o \in At(where, loc)
                                           \/ \E n \in moved' : n.obj = o /\ Place(n.to) = Place(loc) /\ Others(n)
             /\ Engine = {} /\ Exists(where, loc) =>
                  At(where, loc)' \subseteq At(where, loc) /\ Exists(where, loc)'
  <2>1. \A o \in Obj : \/ where'[o] = dst /\ o \in At(where, src)
                       \/ where'[o] = Nowhere /\ o \in At(where, dst)
                       \/ where'[o] = where[o] /\ o \notin At(where, src) /\ o \notin At(where, dst)
    BY <1>6 DEF Carries, Renamed
  <2>2. ASSUME NEW o \in At(where, loc)', o \notin At(where, loc)
        PROVE  \E n \in moved' : n.obj = o /\ Place(n.to) = Place(loc) /\ Others(n)
    <3>1. where'[o] = dst /\ Place(dst) = Place(loc) /\ o \in At(where, src)
      BY <1>2, <1>3, <2>1, <2>2
    <3>2. ASSUME NEW r, NEW k, RecordMove(r, k, src, dst)
          PROVE  \E n \in moved' : n.obj = o /\ Place(n.to) = Place(loc) /\ n.run = r /\ n.seq = k /\ n.to = dst
      <4>1. PICK n : n = [run |-> r, seq |-> k, obj |-> o, from |-> src, to |-> dst]
        OBVIOUS
      <4>2. n \in moved' /\ n.run = r /\ n.seq = k /\ n.obj = o /\ n.to = dst
        BY <3>1, <3>2, <4>1 DEF RecordMove
      <4> QED
        BY <3>1, <4>2
    <3>3. CASE \E r \in Run : pc[r] \in {"act", "stage"} /\ RecordMove(r, seq[r], src, dst)
      BY <3>2, <3>3 DEF Others
    <3>4. ASSUME NEW s \in strays, StrayLands(s), RecordMove(s.run, s.seq, src, dst),
                 s.to = Nowhere => TrashPlace(dst)
          PROVE  \E n \in moved' : n.obj = o /\ Place(n.to) = Place(loc) /\ Others(n)
      <4>1. PICK n \in moved' :
              n.obj = o /\ Place(n.to) = Place(loc) /\ n.run = s.run /\ n.seq = s.seq /\ n.to = dst
        BY <3>2, <3>4
      <4>2. Lost(n)'
        BY <3>4, <4>1, LandsLost
      <4> QED
        BY <3>4, <4>1, <4>2 DEF Others
    <3> QED
      BY <1>6, <3>3, <3>4 DEF Carries, Carrier
  <2>3. ASSUME Engine = {}, Exists(where, loc)
        PROVE  At(where, loc)' \subseteq At(where, loc) /\ Exists(where, loc)'
    <3>1. At(where, dst) = {}
      BY <1>6, <2>3 DEF Carries, Exists
    <3>2. Place(dst) # Place(loc)
      BY <2>3, <3>1 DEF Exists, At
    <3>3. At(where, loc)' \subseteq At(where, loc)
      BY <1>2, <1>3, <2>1, <3>2
    <3>4. PICK o \in Obj : Place(where[o]) = Place(loc)
      BY <1>3, <2>3 DEF Exists
    <3>5. where'[o] = where[o]
      BY <1>2, <2>1, <3>1, <3>4 DEF At
    <3>6. o \in At(where, loc)'
      BY <1>3, <3>4, <3>5
    <3> QED
      BY <3>3, <3>6 DEF Exists
  <2> QED
    BY <2>2, <2>3
<1> QED
  BY <1>4, <1>5, <1>6, Changes

\* What was taken remains so, and what was vouched for.
LEMMA TakenStays ==
  ASSUME IInv, Books, Kept, [Next]_vars, NEW r, NEW k, NEW loc, NEW o, Taken(r, k, loc, o)
  PROVE  Taken(r, k, loc, o)'
<1>1. /\ moved \subseteq moved' /\ Overlap' = Overlap /\ \A l : Place(l)' = Place(l)
  BY MovedStay, WorldStays DEF Overlap
<1>2. \A n \in moved : Lost(n) => Lost(n)'
  BY LostStays
<1> QED
  BY <1>1, <1>2 DEF Taken

LEMMA VouchedStays ==
  ASSUME IInv, Books, Kept, [Next]_vars, NEW r, NEW k, NEW rcpt, Vouched(r, k, rcpt)
  PROVE  Vouched(r, k, rcpt)'
<1>1. moved \subseteq moved' /\ Disturbed' = Disturbed
  BY MovedStay, WorldStays DEF Disturbed, Overlap, EmptiesTrash, Plan, Engine
<1>2. \A o, loc : Taken(r, k, loc, o) => Taken(r, k, loc, o)'
  BY TakenStays
<1> QED
  BY <1>1, <1>2 DEF Vouched

\* A run that has moved something finds it there, or finds what was taken there
\* after it.
LEMMA NextLooksRight ==
  ASSUME IInv, Books, Kept, Clear, Asked, StraysOpen, OneAtWork, Alone, Copied, Vouches, [Next]_vars
  PROVE  LooksRight'
<1>1. /\ \A l : Place(l)' = Place(l)
      /\ Disturbed' = Disturbed /\ Overlap' = Overlap
  BY WorldStays DEF Disturbed, Overlap, EmptiesTrash, Plan, Engine
<1> SUFFICES ASSUME NEW r \in Run, pc'[r] = "identify", NEW loc, loc = to'[r]
             PROVE  /\ \A ino \in At(where, loc)' \cup {0} :
                         Vouched(r, seq[r], MoveReceipt(Act(r).path, loc, ino))'
                    /\ Disturbed \/ Exists(where, loc)'
  BY <1>1 DEF LooksRight, Exists, At, MoveReceipt
<1>2. PICK k, path : k = seq[r] /\ path = Act(r).path /\ k = seq'[r] /\ path = Act(r)'.path
  BY AtSameAction DEF Begun
<1> SUFFICES /\ \A ino \in At(where, loc)' \cup {0} : Vouched(r, k, MoveReceipt(path, loc, ino))'
             /\ Disturbed \/ Exists(where, loc)'
  BY <1>2 DEF Vouched, MoveReceipt, Taken
<1>3. \A ino : LET rcpt == MoveReceipt(path, loc, ino) IN
        rcpt.from = path /\ rcpt.to = loc /\ rcpt.ino = ino
  BY DEF MoveReceipt
<1>4. CASE FinderMoves(r) \/ StageRenames(r)
  <2>1. /\ where' = Renamed(where, path, loc) /\ RecordMove(r, k, path, loc)
        /\ Exists(where, path)
    BY <1>2, <1>4 DEF FinderMoves, StageRenames, Books, Ground
  <2>2. ASSUME NEW o \in At(where, path)
        PROVE  \E m \in moved' : m.run = r /\ m.seq = k /\ m.from = path /\ m.to = loc /\ m.obj = o
    <3>1. PICK m : m = [run |-> r, seq |-> k, obj |-> o, from |-> path, to |-> loc]
      OBVIOUS
    <3> QED
      BY <2>1, <3>1 DEF RecordMove
  <2>3. ASSUME NEW o \in At(where, path), NEW ino \in {0, o}
        PROVE  Vouched(r, k, MoveReceipt(path, loc, ino))'
    BY <1>3, <2>2, <2>3 DEF Vouched
  <2>4. \A o \in Obj : \/ where'[o] = loc /\ o \in At(where, path)
                       \/ where'[o] = Nowhere
                       \/ where'[o] = where[o] /\ o \notin At(where, loc)
    BY <2>1, RenamedComing
  <2>5. CopyPlace(loc)
    BY NextCopied, <1>1 DEF Copied, CopyPlace, TrashPlace, StagingPlace
  <2>6. Place(loc) # Nowhere /\ Place(Nowhere) = Nowhere
    BY <2>5, CopiesApart, PlacesApart
  <2>7. \A o \in At(where, loc)' : o \in At(where, path)
    BY <1>1, <2>4, <2>6 DEF At
  <2>8. PICK o : o \in At(where, path)
    BY <2>1 DEF Exists
  <2>9. where'[o] = loc
    BY <2>1, <2>8 DEF Renamed, At
  <2>10. o \in At(where, loc)'
    BY <1>1, <2>8, <2>9 DEF At
  <2> QED
    BY <2>3, <2>7, <2>8, <2>10 DEF Exists
<1>5. CASE pc[r] = "identify" /\ loc = to[r] /\ ~FinderMoves(r) /\ ~StageRenames(r)
  <2>1. /\ \A ino \in At(where, loc) \cup {0} : Vouched(r, k, MoveReceipt(path, loc, ino))
        /\ Disturbed \/ Exists(where, loc)
    BY <1>2, <1>5 DEF Vouches, LooksRight
  <2>2. CopyPlace(loc) /\ ~OwnerActs
    BY <1>5 DEF Copied, OwnerActs
  <2>3. /\ \A o \in At(where, loc)' : \/ o \in At(where, loc)
                                      \/ \E n \in moved' : n.obj = o /\ Place(n.to) = Place(loc) /\ Others(n)
        /\ Engine = {} /\ Exists(where, loc) => At(where, loc)' \subseteq At(where, loc)
        /\ Engine = {} /\ Exists(where, loc) /\ ~EmptiesTrash /\ ~UndoRename => Exists(where, loc)'
    BY <2>2, Watched
  <2>4. \A ino \in At(where, loc) \cup {0} : Vouched(r, k, MoveReceipt(path, loc, ino))'
    BY <2>1, VouchedStays
  <2>5. AtWork(r)
    BY <1>5 DEF AtWork, Waiting
  <2>6. ASSUME ~Disturbed PROVE At(where, loc)' \subseteq At(where, loc) /\ Exists(where, loc)'
    <3>1. ~UndoRename
      BY <2>5, <2>6 DEF Alone, Disturbed, UndoRename
    <3> QED
      BY <2>1, <2>3, <2>6, <3>1 DEF Disturbed
  <2>7. ASSUME NEW o \in At(where, loc)', o \notin At(where, loc)
        PROVE  Vouched(r, k, MoveReceipt(path, loc, o))'
    <3>1. PICK n \in moved' : n.obj = o /\ Place(n.to) = Place(loc) /\ Others(n)
      BY <2>3, <2>7
    <3>2. (n.run # r \/ n.seq # k) /\ (Overlap \/ Lost(n)')
      <4>1. CASE \E x \in Run : n.run = x /\ n.seq = seq[x] /\ pc[x] \in {"act", "stage"}
        <5>1. PICK x \in Run : n.run = x /\ pc[x] \in {"act", "stage"}
          BY <4>1
        <5>2. x # r /\ AtWork(x)
          BY <1>5, <5>1 DEF AtWork, Waiting
        <5> QED
          BY <2>5, <5>1, <5>2 DEF OneAtWork
      <4>2. ASSUME NEW s \in strays, n.run = s.run, n.seq = s.seq, s.to = Nowhere => TrashPlace(n.to),
                   n.run = r, n.seq = k
            PROVE  FALSE
        <5>1. ~Past(s.run, s.seq)
          <6>1. s.run = r /\ s.seq = seq[r] /\ seq[r] \in Nat
            BY <1>2, <4>2 DEF IInv, TypeInv
          <6>2. pc[r] # "ended" /\ pc[r] # "after" /\ ~(s.seq < seq[s.run])
            BY <1>5, <6>1
          <6> QED
            BY <6>1, <6>2 DEF Past
        <5>2. s.to = Nowhere /\ StagingPlace(r, loc)
          BY <1>5, <4>2, <5>1 DEF StraysOpen, ToStaging
        <5>3. TrashPlace(Place(n.to)) /\ StagingPlace(r, Place(loc))
          BY <4>2, <5>2, PlacesApart
        <5> QED
          BY <3>1, <5>3, PlacesApart
      <4> QED
        BY <3>1, <4>1, <4>2 DEF Others
    <3>3. Taken(r, k, loc, o)'
      BY <1>1, <3>1, <3>2 DEF Taken
    <3>4. Disturbed
      BY <2>6, <2>7
    <3>5. PICK m \in moved' : m.run = r /\ m.seq = k /\ m.from = path /\ m.to = loc
      <4>1. Vouched(r, k, MoveReceipt(path, loc, 0))'
        BY <2>4
      <4> QED
        BY <1>3, <4>1 DEF Vouched
    <3> QED
      BY <1>1, <1>3, <3>3, <3>4, <3>5 DEF Vouched
  <2> QED
    BY <2>4, <2>6, <2>7
<1> QED
  BY <1>4, <1>5, Landings

\* The outcome says what was found.
LEMMA Identified ==
  ASSUME IInv, Books, NEW r \in Run, Identify(r)
  PROVE  \E ino \in At(where, to[r]) \cup {0} :
           out'[r] = [Failed EXCEPT !.ok = TRUE, !.receipt = MoveReceipt(Act(r).path, to[r], ino)]
<1>1. PICK ino \in At(where, to[r]) \cup {0} :
        Outcome(r, [Failed EXCEPT !.ok = TRUE, !.receipt = MoveReceipt(Act(r).path, to[r], ino)])
  BY DEF Identify, Seen
<1> QED
  BY <1>1 DEF Outcome, Books, Ground

LEMMA Identifying ==
  ASSUME IInv, Books, [Next]_vars, NEW r \in Run, pc[r] = "identify", pc'[r] = "after",
         Restorable(out'[r].receipt)
  PROVE  Identify(r)
<1>1. pc'[r] # pc[r]
  OBVIOUS
<1>2. ASSUME NEW x \in Run, StepOf(x) PROVE StepOf(r)
  BY <1>1, <1>2, RunSteps DEF StepOf
<1>3. StepOf(r)
  BY <1>1, <1>2, Kinds DEF runVars
<1>4. ~GiveUp(r) /\ ~AskStop(r) /\ ~Kill(r)
  <2>1. GiveUp(r) => out'[r] = Failed
    BY DEF GiveUp, Outcome, Books, Ground
  <2>2. Kill(r) => pc'[r] = "ended"
    BY DEF Kill, IInv, TypeInv
  <2> QED
    BY <1>1, <2>1, <2>2, FailedKeepsNothing DEF AskStop
<1> QED
  BY <1>3, <1>4 DEF StepOf, Finish, SkipTrash, JournalStart, Ready, Refuse, FinderMoves, FinderFails,
     StageRenames, StageFails, RunCommand, JournalAfter

LEMMA NextOutVouched ==
  ASSUME IInv, Books, Kept, LooksRight, OutVouched, [Next]_vars
  PROVE  OutVouched'
<1> SUFFICES ASSUME NEW r \in Run, pc'[r] = "after", Restorable(out'[r].receipt)
             PROVE  Vouched(r, seq[r], out[r].receipt)'
  BY DEF OutVouched
<1>1. PICK k, rcpt : k = seq[r] /\ rcpt = out'[r].receipt
  OBVIOUS
<1>2. seq'[r] = k
  BY <1>1, AtSameAction DEF Begun
<1> SUFFICES Vouched(r, k, rcpt)'
  BY <1>1, <1>2 DEF Vouched, Taken
<1>3. CASE pc[r] = "after" /\ out'[r] = out[r]
  <2>1. Vouched(r, k, rcpt)
    BY <1>1, <1>3 DEF OutVouched
  <2> QED
    BY <2>1, VouchedStays
<1>4. CASE Identify(r)
  <2>1. PICK ino \in At(where, to[r]) \cup {0} :
          out'[r] = [Failed EXCEPT !.ok = TRUE, !.receipt = MoveReceipt(Act(r).path, to[r], ino)]
    BY <1>4, Identified
  <2>2. rcpt = MoveReceipt(Act(r).path, to[r], ino)
    BY <1>1, <2>1 DEF Failed
  <2>3. Vouched(r, k, rcpt)
    BY <1>1, <1>4, <2>2 DEF LooksRight, Identify
  <2> QED
    BY <2>3, VouchedStays
<1>5. (pc[r] = "after" /\ out'[r] = out[r]) \/ pc[r] = "identify"
  BY Landings
<1> QED
  BY <1>3, <1>4, <1>5, Identifying

LEMMA NextLinesVouched ==
  ASSUME IInv, Books, Kept, OutVouched, LinesVouched, [Next]_vars
  PROVE  LinesVouched'
<1> SUFFICES ASSUME NEW i \in DOMAIN journal', IsMove(journal'[i])
             PROVE  Vouched(journal[i].run, journal[i].seq, journal[i].receipt)'
  BY DEF LinesVouched, IsMove, Is
<1>1. PICK r, k, rcpt : r = journal'[i].run /\ k = journal'[i].seq /\ rcpt = journal'[i].receipt
  OBVIOUS
<1> SUFFICES Vouched(r, k, rcpt)'
  BY <1>1 DEF Vouched, Taken
<1>2. CASE i \in DOMAIN journal
  <2>1. journal'[i] = journal[i]
    BY <1>2, LinesKeep
  <2>2. Vouched(r, k, rcpt)
    BY <1>1, <1>2, <2>1 DEF LinesVouched
  <2> QED
    BY <2>2, VouchedStays
<1>3. CASE i \notin DOMAIN journal
  <2>1. PICK x \in Run : JournalAfter(x) /\ journal'[i] = After(x, seq[x], out[x])
    BY <1>3, DoneByAfter DEF IsMove
  <2>2. r = x /\ k = seq[x] /\ rcpt = out[x].receipt
    <3>1. LET e == After(x, seq[x], out[x]) IN e.run = x /\ e.seq = seq[x] /\ e.receipt = out[x].receipt
      BY DEF After
    <3> QED
      BY <1>1, <2>1, <3>1
  <2>3. pc[x] = "after" /\ Restorable(out[x].receipt)
    BY <1>1, <2>1, <2>2 DEF JournalAfter, IsMove
  <2>4. Vouched(r, k, rcpt)
    BY <2>1, <2>2, <2>3 DEF OutVouched
  <2> QED
    BY <2>4, VouchedStays
<1> QED
  BY <1>2, <1>3

LEMMA NextVouches ==
  ASSUME IInv, Books, Kept, Clear, Asked, StraysOpen, OneAtWork, Alone, Copied, Vouches, [Next]_vars
  PROVE  Vouches'
  BY NextLooksRight, NextOutVouched, NextLinesVouched DEF Vouches

LEMMA InitVouches == Init => Vouches
<1>1. Init => \A r \in Run : pc[r] \notin {"identify", "after"}
  BY DEF Init
<1>2. Init => DOMAIN journal = {}
  BY DEF Init
<1> QED
  BY <1>1, <1>2 DEF Vouches, LooksRight, OutVouched, LinesVouched

\* One object at most is at a copy's place.
LEMMA OneThere ==
  ASSUME Apart, NEW loc, CopyPlace(loc), NEW o \in At(where, loc), NEW x \in At(where, loc)
  PROVE  o = x
<1>1. Place(where[o]) = Place(loc) /\ Place(where[x]) = Place(loc) /\ o \in Obj /\ x \in Obj
  BY DEF At
<1>2. where[o] \notin {Nowhere, Unborn}
  BY <1>1, CopiesApart, UnbornApart, PlacesApart
<1> QED
  BY <1>1, <1>2 DEF Apart

\* How undo gets to where it renames.
LEMMA Renaming ==
  ASSUME Books, [Next]_vars, undo'.pc = "rename"
  PROVE  \/ undo' = undo /\ ~UndoRename
         \/ /\ undo'.todo = undo.todo /\ undo'.run = undo.run /\ undo.todo # <<>>
            /\ UndoCheck /\ MayRestore(where, Current.receipt) /\ where' = where
<1>1. DOMAIN undo = {"pc", "run", "todo", "ok"}
  BY DEF Books, Ground
<1>2. CASE UndoCheck
  <2>1. undo' \in {[undo EXCEPT !.pc = "rename"], [undo EXCEPT !.pc = "log", !.ok = FALSE]}
    BY <1>2 DEF UndoCheck
  <2>2. MayRestore(where, Current.receipt) /\ undo.todo # <<>> /\ where' = where
    BY <1>1, <1>2 DEF UndoCheck, diskVars
  <2>3. undo'.todo = undo.todo /\ undo'.run = undo.run
    BY <1>1, <2>1
  <2> QED
    BY <1>2, <2>2, <2>3
<1>3. ~UndoRename
  BY <1>1 DEF UndoRename
<1>4. ~UndoLog
  <2>1. UndoLog => undo' = [undo EXCEPT !.pc = "check", !.todo = SubSeq(@, 2, Len(@))] \/ undo' = Idle
    BY Zenon DEF UndoLog
  <2>2. Idle.pc = "idle"
    BY DEF Idle
  <2> QED
    BY <1>1, <2>1, <2>2
<1>5. ~UndoEnds /\ \A r \in Run : ~UndoStart(r)
  BY DEF UndoEnds, UndoStart, Idle
<1> QED
  BY <1>2, <1>3, <1>4, <1>5, UndoOnly DEF UndoNext

LEMMA NextChecksRight ==
  ASSUME IInv, Books, Kept, Clear, Asked, StraysOpen, Copied, Alone, Apart, ChecksRight, [Next]_vars
  PROVE  ChecksRight'
<1> DEFINE Loose == EmptiesTrash \/ Engine # {}
<1>1. /\ \A l : Place(l)' = Place(l)
      /\ Loose' = Loose /\ Overlap' = Overlap
  BY WorldStays DEF EmptiesTrash, Plan, Engine, Overlap
<1> HIDE DEF Loose
<1> SUFFICES ASSUME undo'.pc = "rename", NEW e, e = Current'
             PROVE  /\ e.receipt.ino # 0 => \A o \in At(where, e.receipt.to)' :
                         o = e.receipt.ino \/ (Loose /\ Taken(e.run, e.seq, e.receipt.to, o)')
                    /\ Loose \/ Exists(where, e.receipt.to)'
  BY <1>1 DEF ChecksRight, Loose, At, Exists, Taken
<1>2. CASE UndoCheck /\ MayRestore(where, Current.receipt) /\ where' = where /\ undo'.todo = undo.todo
           /\ undo.todo # <<>>
  <2>1. e = Current /\ CopyPlace(e.receipt.to)
    BY <1>2, CurrentLine DEF Current
  <2>2. PICK x \in At(where, e.receipt.to) : e.receipt.ino \in {0, x}
    BY <1>2, <2>1 DEF MayRestore, Gone, holds
  <2>3. \A o \in At(where, e.receipt.to) : o = x
    BY <2>1, OneThere
  <2>4. At(where, e.receipt.to)' = At(where, e.receipt.to)
    BY <1>1, <1>2 DEF At
  <2> QED
    BY <2>2, <2>3, <2>4 DEF Exists
<1>3. CASE undo' = undo /\ ~UndoRename
  <2>1. e = Current /\ undo.pc = "rename" /\ undo.todo # <<>>
    BY <1>3 DEF Current, Books, UndoInv
  <2>2. CopyPlace(e.receipt.to) /\ ~OwnerActs
    BY <2>1, CurrentLine DEF OwnerActs
  <2>3. /\ e.receipt.ino # 0 => \A o \in At(where, e.receipt.to) :
             o = e.receipt.ino \/ (Loose /\ Taken(e.run, e.seq, e.receipt.to, o))
        /\ Loose \/ Exists(where, e.receipt.to)
    BY <2>1 DEF ChecksRight, Loose
  <2>4. PICK loc : loc = e.receipt.to
    OBVIOUS
  <2>5. /\ \A o \in At(where, loc)' : \/ o \in At(where, loc)
                                      \/ \E n \in moved' : n.obj = o /\ Place(n.to) = Place(loc) /\ Others(n)
        /\ Engine = {} /\ Exists(where, loc) => At(where, loc)' \subseteq At(where, loc)
        /\ Engine = {} /\ Exists(where, loc) /\ ~EmptiesTrash /\ ~UndoRename => Exists(where, loc)'
    BY <2>2, <2>4, Watched
  <2>6. Loose \/ (At(where, loc)' \subseteq At(where, loc) /\ Exists(where, loc)')
    BY <1>3, <2>3, <2>4, <2>5 DEF Loose
  <2>7. ASSUME NEW o \in At(where, loc)', o \notin At(where, loc)
        PROVE  Loose /\ Taken(e.run, e.seq, loc, o)'
    <3>1. PICK n \in moved' : n.obj = o /\ Place(n.to) = Place(loc) /\ Others(n)
      BY <2>5, <2>7
    <3>2. PICK i \in DOMAIN journal : journal[i] = e /\ Is(e, "done")
      BY <2>1, CurrentLine DEF IsMove
    <3>3. (n.run # e.run \/ n.seq # e.seq) /\ (Overlap \/ Lost(n)')
      <4>1. CASE \E x \in Run : n.run = x /\ n.seq = seq[x] /\ pc[x] \in {"act", "stage"}
        <5>1. PICK x \in Run : n.run = x /\ n.seq = seq[x] /\ pc[x] \in {"act", "stage"}
          BY <4>1
        <5>2. AtWork(x)
          BY <5>1 DEF AtWork, Waiting
        <5>3. e.seq \in Nat /\ seq[e.run] \in Nat /\ e.seq < seq[e.run]
          BY <3>2 DEF Books, Lines, IInv, TypeInv
        <5> QED
          BY <2>1, <5>1, <5>2, <5>3 DEF Alone
      <4>2. ASSUME NEW s \in strays, n.run = s.run, n.seq = s.seq, s.to = Nowhere => TrashPlace(n.to),
                   n.run = e.run, n.seq = e.seq
            PROVE  FALSE
        <5>1. s.to = Nowhere /\ StagingPlace(s.run, loc) /\ s.run \in Run
          BY <2>4, <3>2, <4>2 DEF StraysOpen, Kept, StraysKept, OfPlan
        <5>2. TrashPlace(Place(n.to)) /\ StagingPlace(s.run, Place(loc))
          BY <4>2, <5>1, PlacesApart
        <5> QED
          BY <3>1, <5>1, <5>2, PlacesApart
      <4> QED
        BY <3>1, <4>1, <4>2 DEF Others
    <3>4. Taken(e.run, e.seq, loc, o)'
      BY <1>1, <3>1, <3>3 DEF Taken
    <3> QED
      BY <2>6, <2>7, <3>4
  <2>8. \A o : Taken(e.run, e.seq, loc, o) => Taken(e.run, e.seq, loc, o)'
    BY TakenStays
  <2> QED
    BY <2>3, <2>4, <2>6, <2>7, <2>8
<1> QED
  BY <1>2, <1>3, Renaming

LEMMA InitChecksRight == Init => ChecksRight
  BY DEF Init, ChecksRight, Idle

\* It goes down its list.
LEMMA GoingOn ==
  ASSUME Books, [Next]_vars, undo.pc # "idle", undo'.pc # "idle"
  PROVE  \A k \in DOMAIN undo'.todo : \E l \in DOMAIN undo.todo : undo'.todo[k] = undo.todo[l]
<1>1. DOMAIN undo = {"pc", "run", "todo", "ok"}
  BY DEF Books, Ground
<1>2. CASE undo'.todo = undo.todo
  BY <1>2
<1>3. CASE UndoLog
  <2>1. UndoLog => undo' = [undo EXCEPT !.pc = "check", !.todo = SubSeq(@, 2, Len(@))] \/ undo' = Idle
    BY Zenon DEF UndoLog
  <2>2. Idle.pc = "idle"
    BY DEF Idle
  <2>3. undo'.todo = SubSeq(undo.todo, 2, Len(undo.todo))
    BY <1>1, <1>3, <2>1, <2>2
  <2>4. PICK td : td = undo.todo
    OBVIOUS
  <2>5. PICK S : td \in Seq(S)
    BY <2>4 DEF Books, UndoInv
  <2>6. \A k \in DOMAIN SubSeq(td, 2, Len(td)) : k + 1 \in DOMAIN td /\ SubSeq(td, 2, Len(td))[k] = td[k + 1]
    BY <2>5
  <2> QED
    BY <2>3, <2>4, <2>6
<1>4. CASE UndoNext /\ ~UndoLog
  <2>1. UndoCheck \/ UndoRename
    BY <1>4 DEF UndoNext, UndoStart, UndoEnds, Idle
  <2> QED
    BY <1>1, <1>2, <2>1 DEF UndoCheck, UndoRename
<1> QED
  BY <1>2, <1>3, <1>4, UndoOnly

\* Only a done line says that a copy's place was taken again.
LEMMA FreshLines ==
  ASSUME IInv, [Next]_vars, \A j \in DOMAIN journal' : j \notin DOMAIN journal => ~Is(journal'[j], "done"),
         NEW i \in DOMAIN journal, i \notin Reused(journal)
  PROVE  i \notin Reused(journal')
<1>1. \A j \in DOMAIN journal : j \in DOMAIN journal' /\ journal'[j] = journal[j]
  BY LinesKeep
<1>2. /\ DOMAIN journal = 1..Len(journal) /\ Len(journal) \in Nat
      /\ DOMAIN journal' = 1..Len(journal') /\ Len(journal') \in Nat
  <2>1. Log'
    BY NextInv DEF IInv
  <2> QED
    BY <2>1 DEF IInv, Log
<1> SUFFICES ASSUME Is(journal'[i], "done"), Restorable(journal'[i].receipt),
                    NEW j \in i + 1..Len(journal'),
                    Is(journal'[j], "done"), SameCopy(journal'[i].receipt, journal'[j].receipt)
             PROVE  FALSE
  BY DEF Reused
<1>3. j \in DOMAIN journal'
  BY <1>2
<1>4. j \in DOMAIN journal
  BY <1>3
<1>5. j \in i + 1..Len(journal) /\ journal'[j] = journal[j] /\ journal'[i] = journal[i]
  BY <1>1, <1>2, <1>4
<1> QED
  BY <1>5 DEF Reused

LEMMA NextFreshTodo == ASSUME IInv, Books, Alone, FreshTodo, [Next]_vars PROVE FreshTodo'
<1>1. Overlap' = Overlap
  BY WorldStays DEF Overlap
<1> SUFFICES ASSUME ~Overlap, undo'.pc # "idle", NEW k \in DOMAIN undo'.todo
             PROVE  \E i \in DOMAIN journal' : journal'[i] = undo'.todo[k] /\ i \notin Reused(journal')
  BY <1>1 DEF FreshTodo
<1>2. CASE undo.pc = "idle"
  <2>1. PICK r \in Run : UndoStart(r)
    BY <1>2, Beginning
  <2>2. journal' = journal /\ undo'.todo = PresentInOrder(journal, where, r)
    BY <2>1 DEF UndoStart
  <2>3. \E i \in Present(journal, where, r) : journal[i] = undo'.todo[k]
    BY <2>2, PresentOrdered DEF IInv, Books
  <2> QED
    BY <2>2, <2>3 DEF Present, Pending, OfRun
<1>3. CASE undo.pc # "idle"
  <2>1. PICK l \in DOMAIN undo.todo : undo'.todo[k] = undo.todo[l]
    BY <1>3, GoingOn
  <2>2. PICK i \in DOMAIN journal : journal[i] = undo.todo[l] /\ i \notin Reused(journal)
    BY <1>3, <2>1 DEF FreshTodo
  <2>3. ASSUME NEW j \in DOMAIN journal', j \notin DOMAIN journal PROVE ~Is(journal'[j], "done")
    <3>1. \A r \in Run : pc[r] # "after"
      BY <1>3 DEF Alone, AtWork, Waiting
    <3> QED
      BY <2>3, <3>1, DoneByAfter DEF JournalAfter
  <2>4. i \notin Reused(journal')
    BY <2>2, <2>3, FreshLines
  <2>5. i \in DOMAIN journal' /\ journal'[i] = journal[i]
    BY LinesKeep
  <2> QED
    BY <2>1, <2>2, <2>4, <2>5
<1> QED
  BY <1>2, <1>3

LEMMA InitFreshTodo == Init => FreshTodo
  BY DEF Init, FreshTodo, Idle

\* What a run is about to say of its move, it says, or never will.
LEMMA Telling ==
  ASSUME IInv, Books, OneAtWork, [Next]_vars, ~Overlap, NEW m, m.run \in Run, m.seq \in Nat, ToTell(m)
  PROVE  ToTell(m)' \/ Lost(m)' \/ LastLine(m)'
<1> DEFINE r == m.run
<1>1. /\ r \in Run /\ pc[r] \in {"identify", "after"} /\ AtWork(r) /\ seq[r] = m.seq
      /\ \A x \in Run : x # r => ~AtWork(x)
  BY DEF ToTell, AtWork, Waiting, OneAtWork
<1>2. ~Receipted(m)
  <2>1. \A i \in DOMAIN journal : Is(journal[i], "done") /\ journal[i].run = r => journal[i].seq < m.seq
    BY <1>1 DEF Books, Lines
  <2> QED
    BY <2>1 DEF Receipted
<1>3. CASE pc'[r] = pc[r] /\ to'[r] = to[r] /\ out'[r] = out[r]
  <2>1. seq'[r] = seq[r] /\ Act(r)' = Act(r)
    BY <1>1, <1>3, AtSameAction DEF Begun
  <2> QED
    BY <1>3, <2>1 DEF ToTell
<1>4. CASE Identify(r)
  <2>1. PICK ino :
          out'[r] = [Failed EXCEPT !.ok = TRUE, !.receipt = MoveReceipt(Act(r).path, to[r], ino)]
    BY <1>1, <1>4, Identified
  <2>2. pc'[r] = "after" /\ pc[r] = "identify" /\ seq' = seq
    BY <1>1, <1>4 DEF Identify, Outcome, IInv, TypeInv
  <2>3. out'[r].ok /\ out'[r].receipt = MoveReceipt(Act(r).path, to[r], ino)
    BY <2>1 DEF Failed
  <2>4. LET rcpt == MoveReceipt(Act(r).path, to[r], ino) IN
          Restorable(rcpt) /\ rcpt.from = m.from /\ rcpt.to = m.to
    BY <2>2 DEF MoveReceipt, Restorable, ToTell
  <2> QED
    BY <1>1, <2>2, <2>3, <2>4 DEF ToTell
<1>5. CASE GiveUp(r) \/ Kill(r)
  <2>1. pc'[r] = "ended" \/ (pc'[r] = "after" /\ ~out'[r].ok)
    BY <1>1, <1>5, FailedKeepsNothing DEF GiveUp, Kill, Outcome, IInv, TypeInv, Books, Ground
  <2>2. journal' = journal
    BY <1>5 DEF GiveUp, Kill
  <2> QED
    BY <1>2, <2>1, <2>2 DEF Lost, Past, Receipted
<1>6. CASE JournalAfter(r)
  <2>1. /\ seq'[r] = m.seq + 1 /\ pc[r] = "after"
        /\ \A x \in Run : x # r => pc'[x] = pc[x]
        /\ pc'[r] \in {"next", "ended"}
    BY <1>1, <1>6 DEF JournalAfter, Journals, IInv, TypeInv
  <2>2. CASE journal' = journal
    BY <1>2, <2>1, <2>2 DEF Lost, Past, Receipted
  <2>3. CASE journal' # journal
    <3>1. PICK e : e = After(r, seq[r], out[r])
      OBVIOUS
    <3>2. journal' = Append(journal, e)
      BY <1>6, <2>3, <3>1 DEF JournalAfter, Journals, Appends, AppendFails
    <3>3. PICK S : journal \in Seq(S)
      BY DEF IInv, Log
    <3>4. PICK j : j = Len(journal) + 1
      OBVIOUS
    <3>5. j \in DOMAIN journal' /\ journal'[j] = e /\ \A i \in DOMAIN journal' : i <= j
      BY <3>2, <3>3, <3>4
    <3>6. e.event = "done" /\ e.run = r /\ e.seq = seq[r] /\ e.receipt = out[r].receipt
      <4>1. out[r].ok
        BY <2>1 DEF ToTell
      <4>2. LET a == After(r, seq[r], out[r]) IN
              a.event = "done" /\ a.run = r /\ a.seq = seq[r] /\ a.receipt = out[r].receipt
        BY <4>1 DEF After
      <4> QED
        BY <3>1, <4>2
    <3>7. LineOf(j, m)'
      BY <1>1, <2>1, <3>5, <3>6 DEF LineOf, IsMove, Is, ToTell
    <3>8. ASSUME NEW x \in Run PROVE pc'[x] \notin {"identify", "after"}
      BY <1>1, <2>1 DEF AtWork, Waiting
    <3> QED
      BY <3>5, <3>7, <3>8 DEF LastLine, Landed
  <2> QED
    BY <2>2, <2>3
<1>7. \/ pc'[r] = pc[r] /\ to'[r] = to[r] /\ out'[r] = out[r]
      \/ Identify(r) \/ GiveUp(r) \/ Kill(r) \/ JournalAfter(r)
  <2>1. ASSUME NEW x \in Run, StepOf(x), x # r PROVE pc'[r] = pc[r] /\ to'[r] = to[r] /\ out'[r] = out[r]
    BY <1>1, <2>1, RunSteps DEF StepOf
  <2>2. ASSUME StepOf(r) PROVE Identify(r) \/ GiveUp(r) \/ Kill(r) \/ JournalAfter(r) \/ AskStop(r)
    BY <1>1, <2>2 DEF StepOf, Finish, SkipTrash, JournalStart, Ready, Refuse, FinderMoves, FinderFails,
       StageRenames, StageFails, RunCommand
  <2> QED
    BY <2>1, <2>2, Kinds DEF AskStop, runVars
<1> QED
  BY <1>3, <1>4, <1>5, <1>6, <1>7

\* While the item stays, no other line comes for its place.
LEMMA LastStays ==
  ASSUME IInv, Books, [Next]_vars, NEW m, NEW o \in Obj, where'[o] = where[o], m.to = where[o],
         CopyPlace(Place(m.to)), LastLine(m)
  PROVE  LastLine(m)'
<1>1. /\ \A l : Place(l)' = Place(l)
      /\ \A i \in DOMAIN journal : i \in DOMAIN journal' /\ journal'[i] = journal[i]
  BY WorldStays, LinesKeep
<1>2. /\ Place(Nowhere) = Nowhere /\ \A p \in Path : Place(p) = p
      /\ Place(m.to) # Nowhere /\ Place(m.to) \notin Path
  BY PlacesApart DEF CopyPlace
<1>3. \A r \in Run : \A loc : Landed(r, loc) => Place(loc) # Place(m.to)
  BY DEF LastLine
<1>4. PICK j \in DOMAIN journal : LineOf(j, m) /\ \A i \in DOMAIN journal :
        IsMove(journal[i]) /\ Place(journal[i].receipt.to) = Place(m.to) => i <= j
  BY DEF LastLine
<1>5. ASSUME NEW i \in DOMAIN journal', IsMove(journal'[i]), Place(journal'[i].receipt.to) = Place(m.to)
      PROVE  i <= j
  <2>1. CASE i \in DOMAIN journal
    BY <1>1, <1>4, <1>5, <2>1
  <2>2. CASE i \notin DOMAIN journal
    <3>1. PICK r \in Run : JournalAfter(r) /\ journal'[i] = After(r, seq[r], out[r])
      BY <1>5, <2>2, DoneByAfter DEF IsMove
    <3>2. After(r, seq[r], out[r]).receipt = out[r].receipt
      BY DEF After
    <3>3. journal'[i].receipt = out[r].receipt
      BY <3>1, <3>2
    <3>4. Landed(r, journal'[i].receipt.to)
      BY <3>1, <3>3 DEF Landed, JournalAfter
    <3> QED
      BY <1>3, <1>5, <3>4
  <2> QED
    BY <2>1, <2>2
<1>6. ASSUME NEW r \in Run, NEW loc, Landed(r, loc)' PROVE Place(loc) # Place(m.to)
  <2>1. CASE pc'[r] = pc[r] /\ to'[r] = to[r] /\ out'[r] = out[r]
    BY <1>3, <1>6, <2>1 DEF Landed
  <2>2. CASE FinderMoves(r) \/ StageRenames(r)
    <3>1. pc'[r] = "identify" /\ pc[r] \in Begun
      BY <2>2 DEF FinderMoves, StageRenames, IInv, TypeInv, Begun
    <3>2. loc = to'[r]
      BY <1>6, <3>1 DEF Landed
    <3>3. where' = Renamed(where, Act(r).path, to'[r]) /\ Act(r).path \in Path
      BY <2>2, <3>1, ActInPlan DEF FinderMoves, StageRenames, Books, Ground, AtAction
    <3>4. \/ where'[o] = to'[r] /\ o \in At(where, Act(r).path)
          \/ where'[o] = Nowhere
          \/ o \notin At(where, to'[r])
      BY <3>3, RenamedComing
    <3> QED
      BY <1>2, <3>2, <3>3, <3>4 DEF At
  <2>3. CASE pc'[r] = "after" /\ out'[r].receipt.to = Nowhere
    BY <1>2, <1>6, <2>3 DEF Landed
  <2>4. CASE pc'[r] = "after" /\ pc[r] = "identify" /\ out'[r].receipt.to = to[r]
    BY <1>3, <1>6, <2>4 DEF Landed
  <2>5. pc'[r] \in {"identify", "after"}
    BY <1>6 DEF Landed
  <2> QED
    BY <2>1, <2>2, <2>3, <2>4, <2>5, Landings
<1>7. j \in DOMAIN journal' /\ LineOf(j, m)'
  BY <1>1, <1>4 DEF LineOf
<1> QED
  BY <1>1, <1>5, <1>6, <1>7 DEF LastLine

\* A copy in the Trash or in staging is of a move which the journal will say
\* nothing of, or nothing yet, or whose line is the last for that place.
LEMMA NextHolder ==
  ASSUME IInv, Books, Kept, Clear, Asked, StraysOpen, OneAtWork, Holder, [Next]_vars
  PROVE  Holder'
<1>1. Overlap' = Overlap /\ OwnerTrashes' = OwnerTrashes /\ \A l : Place(l)' = Place(l)
  BY WorldStays DEF Overlap, OwnerTrashes
<1> DEFINE Held(o) == \E m \in moved :
      m.obj = o /\ m.to = where[o] /\ m.run \in Run /\ (Lost(m) \/ ToTell(m) \/ LastLine(m))
<1> SUFFICES ASSUME ~Overlap, ~OwnerTrashes, NEW o \in Obj, CopyPlace(Place(where'[o]))
             PROVE  Held(o)'
  BY <1>1 DEF Holder, CopyPlace, TrashPlace, StagingPlace
<1>2. where'[o] # Nowhere /\ where'[o] \notin Path
  BY PlacesApart DEF CopyPlace
<1>3. CASE where'[o] = where[o]
  <2>1. PICK m \in moved :
          m.obj = o /\ m.to = where[o] /\ m.run \in Run /\ (Lost(m) \/ ToTell(m) \/ LastLine(m))
    BY <1>3 DEF Holder
  <2>2. m \in moved' /\ m.seq \in Nat
    BY MovedStay DEF Kept, MovesKept, OfPlan
  <2>3. Lost(m)' \/ ToTell(m)' \/ LastLine(m)'
    BY <1>3, <2>1, <2>2, LostStays, Telling, LastStays
  <2> QED
    BY <1>3, <2>1, <2>2, <2>3
<1>4. ASSUME NEW src \in Path, NEW dst, Carries(src, dst), where'[o] # where[o] PROVE Held(o)'
  <2>1. where'[o] = dst /\ o \in At(where, src)
    BY <1>2, <1>4, RenamedComing DEF Carries
  <2>2. ASSUME NEW r, NEW k, RecordMove(r, k, src, dst)
        PROVE  \E m \in moved' : m.obj = o /\ m.from = src /\ m.to = dst /\ m.run = r /\ m.seq = k
    <3>1. PICK m : m = [run |-> r, seq |-> k, obj |-> o, from |-> src, to |-> dst]
      OBVIOUS
    <3>2. m \in moved'
      BY <2>1, <2>2, <3>1 DEF RecordMove
    <3> QED
      BY <3>1, <3>2
  <2>3. ASSUME NEW r \in Run, pc'[r] = "identify", Act(r).path = src, to'[r] = dst,
               RecordMove(r, seq[r], src, dst)
        PROVE  Held(o)'
    <3>1. PICK m \in moved' : m.obj = o /\ m.from = src /\ m.to = dst /\ m.run = r /\ m.seq = seq[r]
      BY <2>2, <2>3
    <3>2. seq'[r] = seq[r] /\ Act(r)' = Act(r)
      BY <2>3, AtSameAction DEF Begun
    <3>3. ToTell(m)'
      BY <2>3, <3>1, <3>2 DEF ToTell
    <3> QED
      BY <2>1, <3>1, <3>3
  <2>4. ASSUME NEW s \in strays, StrayLands(s), RecordMove(s.run, s.seq, src, dst),
               s.to = Nowhere => TrashPlace(dst)
        PROVE  Held(o)'
    <3>1. PICK m \in moved' : m.obj = o /\ m.to = dst /\ m.run = s.run /\ m.seq = s.seq
      BY <2>2, <2>4
    <3>2. Lost(m)' /\ m.run \in Run
      BY <2>4, <3>1, LandsLost DEF Kept, StraysKept, OfPlan
    <3> QED
      BY <2>1, <3>1, <3>2
  <2> HIDE DEF Held
  <2> QED
    BY <1>4, <2>3, <2>4 DEF Carries, Carrier
<1>5. CASE Fades \/ ComesBack
  BY <1>2, <1>3, <1>5 DEF Fades, ComesBack
<1>6. CASE UndoRename /\ where' = Renamed(where, Current.receipt.to, Current.receipt.from)
  <2>1. Current.receipt.from \in Path
    BY <1>6, UndoToPath DEF UndoRename, Books, UndoInv
  <2> QED
    BY <1>2, <1>3, <1>6, <2>1, RenamedComing
<1> QED
  BY <1>3, <1>4, <1>5, <1>6, Changes

LEMMA InitHolder == Init => Holder
<1>1. Init => \A o \in Obj : where[o] \in Path \cup {Nowhere, Unborn}
  BY DEF Init
<1>2. \A loc \in Path \cup {Nowhere, Unborn} : Place(loc) = loc /\ ~CopyPlace(loc)
  BY CopiesApart, PlacesApart, UnbornApart DEF CopyPlace
<1> QED
  BY <1>1, <1>2 DEF Holder

\* What undo may put back in this step.
LEMMA Restoring ==
  ASSUME IInv, Books, Copied, Vouches, ChecksRight, [Next]_vars, NEW x \in restored', x \notin restored
  PROVE  /\ undo.pc = "rename" /\ undo.todo # <<>> /\ moved' = moved
         /\ x.obj \in At(where, Current.receipt.to) /\ x.to = Current.receipt.from
         /\ x.ino = Current.receipt.ino /\ x.run = Current.run /\ x.seq = Current.seq
         /\ Vouched(Current.run, Current.seq, Current.receipt)
<1>1. UndoRename
  <2>1. UndoNext
    BY UndoOnly
  <2> QED
    BY <2>1 DEF UndoNext, UndoStart, UndoCheck, UndoLog, UndoEnds, history
<1>2. undo.pc = "rename" /\ undo.todo # <<>> /\ moved' = moved
  BY <1>1 DEF UndoRename, Books, UndoInv
<1>3. PICK o \in At(where, Current.receipt.to) :
        x = [run |-> undo.run, seq |-> Current.seq, obj |-> o, ino |-> Current.receipt.ino,
             to |-> Current.receipt.from]
  BY <1>1 DEF UndoRename
<1>4. PICK i \in DOMAIN journal : journal[i] = Current /\ IsMove(Current) /\ Current.run = undo.run
  BY <1>2, CurrentLine
<1>5. Vouched(Current.run, Current.seq, Current.receipt)
  BY <1>4 DEF Vouches, LinesVouched
<1> QED
  BY <1>2, <1>3, <1>4, <1>5

\* By an identity undo puts back what the action moved, or what it could not
\* tell from that.
LEMMA NextRestoresOwn ==
  ASSUME IInv, Books, Copied, Vouches, ChecksRight, RestoresOwn, [Next]_vars
  PROVE  RestoresOwn'
<1>1. /\ \A l : Place(l)' = Place(l)
      /\ Engine' = Engine /\ Overlap' = Overlap /\ EmptiesTrash' = EmptiesTrash
  BY WorldStays DEF EmptiesTrash, Plan, Engine, Overlap
<1>2. moved \subseteq moved'
  BY MovedStay
<1>3. \A x : MoveOf(x) \subseteq MoveOf(x)'
  BY <1>2 DEF MoveOf
<1>4. \A x : ChangedHands(x) => ChangedHands(x)'
  BY <1>1, <1>2, <1>3 DEF ChangedHands
<1> SUFFICES ASSUME Engine = {}, NEW x \in restored', x.ino # 0
             PROVE  \/ \E m \in MoveOf(x)' : m.obj = x.obj
                    \/ Overlap /\ x.obj = x.ino /\ ChangedHands(x)'
                    \/ EmptiesTrash /\ ChangedHands(x)'
  BY <1>1 DEF RestoresOwn
<1>5. CASE x \in restored
  BY <1>3, <1>4, <1>5 DEF RestoresOwn
<1>6. CASE x \notin restored
  <2> DEFINE rcpt == Current.receipt
  <2>1. /\ undo.pc = "rename"
        /\ x.obj \in At(where, rcpt.to) /\ x.to = rcpt.from /\ x.ino = rcpt.ino
        /\ x.run = Current.run /\ x.seq = Current.seq /\ Vouched(Current.run, Current.seq, rcpt)
    BY <1>6, Restoring
  <2>2. PICK m \in moved : /\ m.run = x.run /\ m.seq = x.seq /\ m.from = x.to /\ m.to = rcpt.to
                           /\ \/ rcpt.ino \in {0, m.obj}
                              \/ Disturbed /\ Taken(x.run, x.seq, rcpt.to, rcpt.ino)
    BY <2>1 DEF Vouched
  <2>3. m \in MoveOf(x)
    BY <2>2 DEF MoveOf
  <2>4. ASSUME Taken(x.run, x.seq, rcpt.to, x.obj) PROVE ChangedHands(x)
    BY <2>2, <2>3, <2>4 DEF Taken, ChangedHands
  <2>5. \/ x.obj = rcpt.ino
        \/ EmptiesTrash /\ Taken(x.run, x.seq, rcpt.to, x.obj)
    BY <2>1 DEF ChecksRight
  <2>6. CASE x.obj = rcpt.ino
    BY <1>3, <1>4, <2>1, <2>2, <2>3, <2>4, <2>6 DEF Disturbed
  <2> QED
    BY <1>4, <2>4, <2>5, <2>6
<1> QED
  BY <1>5, <1>6

\* One run at a time, what stays at a copy's place is of the last line for it, by
\* which undo puts it back, unless a receipt was lost.
LEMMA NextRightOrLost ==
  ASSUME IInv, Books, Kept, Copied, Alone, Vouches, ChecksRight, FreshTodo, Holder, RightOrLost, [Next]_vars
  PROVE  RightOrLost'
<1>1. Overlap' = Overlap /\ OwnerTrashes' = OwnerTrashes /\ moved \subseteq moved'
  BY WorldStays, MovedStay DEF Overlap, OwnerTrashes
<1> SUFFICES ASSUME ~Overlap, ~OwnerTrashes, \A m \in moved' : ~Lost(m)', NEW x \in restored'
             PROVE  \E m \in moved' : m.obj = x.obj /\ m.from = x.to
  BY <1>1 DEF RightOrLost, NeverUndoesWrongThing
<1>2. \A m \in moved : ~Lost(m)
  BY <1>1, LostStays
<1>3. \A r, k, loc, o : ~Taken(r, k, loc, o)
  BY <1>2 DEF Taken
<1>4. CASE x \in restored
  BY <1>1, <1>2, <1>4 DEF RightOrLost, NeverUndoesWrongThing
<1>5. CASE x \notin restored
  <2> DEFINE o == x.obj
             rcpt == Current.receipt
  <2>1. /\ undo.pc = "rename" /\ undo.todo # <<>> /\ moved' = moved
        /\ o \in At(where, rcpt.to) /\ x.to = rcpt.from
        /\ Vouched(Current.run, Current.seq, rcpt)
    BY <1>5, Restoring
  <2>2. o \in Obj /\ Place(where[o]) = Place(rcpt.to) /\ CopyPlace(Place(where[o]))
    BY <2>1, CurrentLine, PlacesApart DEF At, CopyPlace
  <2>3. PICK m \in moved : m.obj = o /\ m.to = where[o] /\ m.run \in Run /\ (ToTell(m) \/ LastLine(m))
    BY <1>2, <2>2 DEF Holder
  <2>4. ~ToTell(m)
    BY <2>1, <2>3 DEF Alone, AtWork, Waiting, ToTell
  <2>5. PICK j \in DOMAIN journal : LineOf(j, m) /\ \A i \in DOMAIN journal :
          IsMove(journal[i]) /\ Place(journal[i].receipt.to) = Place(m.to) => i <= j
    BY <2>3, <2>4 DEF LastLine
  <2>6. PICK i \in DOMAIN journal : journal[i] = Current /\ i \notin Reused(journal)
    <3>1. 1 \in DOMAIN undo.todo
      BY <2>1 DEF Books, UndoInv
    <3> QED
      BY <2>1, <3>1 DEF FreshTodo, Current
  <2>7. IsMove(journal[i]) /\ i <= j
    BY <2>1, <2>2, <2>3, <2>5, <2>6, CurrentLine
  <2>8. CASE i = j
    BY <2>1, <2>3, <2>5, <2>6, <2>8 DEF LineOf
  <2>9. CASE i # j
    <3>1. ~SameCopy(rcpt, journal[j].receipt)
      <4>1. j \in i + 1..Len(journal)
        BY <2>7, <2>9 DEF IInv, Log
      <4> QED
        BY <2>5, <2>6, <2>7, <4>1 DEF Reused, LineOf, IsMove
    <3>2. journal[j].receipt.to = where[o]
      BY <2>3, <2>5 DEF LineOf
    <3>3. FoldLoc(rcpt.to) = FoldLoc(journal[j].receipt.to)
      BY <2>2, <3>2 DEF Place
    <3>4. rcpt.ino # 0
      BY <3>1, <3>3 DEF SameCopy
    <3>5. o = rcpt.ino
      BY <1>3, <2>1, <3>4 DEF ChecksRight
    <3>6. \E n \in moved : n.from = rcpt.from /\ rcpt.ino \in {0, n.obj}
      BY <1>3, <2>1 DEF Vouched
    <3> QED
      BY <2>1, <3>4, <3>5, <3>6
  <2> QED
    BY <2>8, <2>9
<1> QED
  BY <1>4, <1>5

\* What undo puts back is what the action moved, and where it was, as far as its
\* receipt and the journal can tell.
THEOREM RestoresTheMoved == Spec => []RestoresRight
<1> DEFINE Inv == /\ IInv /\ Books /\ Kept /\ Clear /\ Asked /\ StraysOpen /\ OneAtWork /\ Copied
                  /\ Alone /\ Apart /\ Vouches /\ ChecksRight /\ FreshTodo /\ Holder
                  /\ RightOrLost /\ RestoresOwn
<1>1. Init => Inv
  <2>1. Init => RightOrLost /\ RestoresOwn
    BY DEF Init, RightOrLost, RestoresOwn, NeverUndoesWrongThing
  <2> QED
    BY <2>1, InitInv, InitBooks, InitKept, InitClear, InitAsked, InitStraysOpen, InitOneAtWork, InitInOrder,
       InitAlone, InitApart, InitVouches, InitChecksRight, InitFreshTodo, InitHolder
<1>2. Inv /\ [Next]_vars => Inv'
  BY NextInv, NextBooks, NextKept, NextClear, NextAsked, NextStraysOpen, NextOneAtWork, NextCopied,
     NextAlone, NextApart, NextVouches, NextChecksRight, NextFreshTodo, NextHolder, NextRightOrLost,
     NextRestoresOwn
<1>3. Inv => RestoresRight
  <2>1. \A m : Receipted(m) => ~Lost(m)
    BY DEF Lost
  <2> QED
    BY <2>1 DEF RightOrLost, RestoresRight, RightUnlessLost
<1> QED
  BY <1>1, <1>2, <1>3, PTL DEF Spec

----------------------------------------------------------------------------
(***************************************************************************)
(* What `regrow history` counts.  A line's start line tells what its       *)
(* action was to free, so what the journal counts for a line is a matter   *)
(* of the plan and of the line alone; and what an outcome adds to Result   *)
(* is what its line adds to the journal's sum.                             *)
(***************************************************************************)

\* What line i of journal j counts for, and as what, by the plan.
Worth(plan, j, i) ==
  IF j[i].pruned # NoPruned THEN j[i].pruned
  ELSE IF plan[j[i].run][j[i].seq].kind = "prune" THEN 0 ELSE plan[j[i].run][j[i].seq].bytes
Sort(plan, j, i) ==
  CASE plan[j[i].run][j[i].seq].kind = "trash" /\ j[i].receipt.method = "finder" -> "after_trash"
    [] plan[j[i].run][j[i].seq].kind = "trash" /\ j[i].receipt.method = "staging" -> "staged"
    [] j[i].receipt.method = "export" -> "exported"
    [] OTHER -> "frees_now"

\* The done lines of a sort, and what they come to: a unit for each byte, so
\* that a sum is the size of a set.
Sorted(plan, j, r, b) == {i \in Indices(j, r, "done") : Sort(plan, j, i) = b}
Units(plan, j, i) == {i} \X (1..Worth(plan, j, i))
Sum(plan, j, r, b) == Cardinality(UNION {Units(plan, j, i) : i \in Sorted(plan, j, r, b)})

\* A start line tells what its action is, and a done line has one.
StartsTell == \A i \in DOMAIN journal : Is(journal[i], "start") =>
  /\ journal[i].kind = Plan[journal[i].run][journal[i].seq].kind
  /\ journal[i].bytes = Plan[journal[i].run][journal[i].seq].bytes
DoneStarted == \A i \in DOMAIN journal : Is(journal[i], "done") =>
  /\ HasLine("start", journal[i].run, journal[i].seq)
  /\ journal[i].seq \in 1..Len(Plan[journal[i].run])
  /\ journal[i].pruned \in Nat \cup {NoPruned}

\* What an action that went well leaves for its line.
OutRight == \A r \in Run : pc[r] = "after" =>
  /\ out[r].ok \in BOOLEAN /\ out[r].pruned \in Nat \cup {NoPruned}
  /\ out[r].ok => \/ /\ Act(r).kind = "trash" /\ out[r].pruned = NoPruned
                     /\ out[r].receipt.method \in {"finder", "staging"}
                  \/ /\ Act(r).kind = "native" /\ out[r].receipt.method = "export"
                     /\ out[r].pruned = NoPruned
                  \/ /\ Act(r).kind \in {"native", "prune"} /\ out[r].receipt.method = "none"
                     /\ (Act(r).kind = "prune" => out[r].pruned # NoPruned)

Results == [done : Nat, failed : Nat, skipped : Nat, bytes : Nat, trash : Nat, staged : Nat,
            exported : Nat, pruned : Nat, failedPruned : Nat]

\* Result says of a run not yet ended what the journal does.
Told(plan, j, r, res) ==
  /\ res.done = Cardinality(Indices(j, r, "done"))
  /\ res.failed = Cardinality(Indices(j, r, "fail"))
  /\ res.trash = Sum(plan, j, r, "after_trash")
  /\ res.staged = Sum(plan, j, r, "staged")
  /\ res.exported = Sum(plan, j, r, "exported")
  /\ res.bytes = Sum(plan, j, r, "frees_now") + res.trash + res.staged + res.exported
Tally == /\ result \in [Run -> Results]
         /\ \A r \in Run : pc[r] # "ended" => Told(Plan, journal, r, result[r])

Accounts == StartsTell /\ DoneStarted /\ OutRight /\ Tally

----------------------------------------------------------------------------
(* Sums. *)

\* A set of naturals that is not empty has a least element.
LEMMA LeastThere ==
  ASSUME NEW T, T \subseteq Nat, T # {}
  PROVE  \E k \in T : \A m \in T : k <= m
<1>1. PICK k \in T : \A m \in T : ~(<<m, k>> \in OpToRel(<, Nat))
  BY NatLessThanWellFounded, WFMin
<1>2. \A m \in T : ~(m < k)
  BY <1>1 DEF OpToRel
<1> QED
  BY <1>2

\* The function MapThenSumSet recurs by, over the subsets of D.
Adds(f, D, T) == f = [s \in SUBSET D |->
  IF s = {} THEN 0 ELSE Cardinality(T[CHOOSE x \in s : TRUE]) + f[s \ {CHOOSE x \in s : TRUE}]]

\* Two sets with nothing in common have as many elements as both together.
LEMMA TwoParts ==
  ASSUME NEW A, IsFiniteSet(A), NEW B, IsFiniteSet(B), A \cap B = {}
  PROVE  Cardinality(A \cup B) = Cardinality(A) + Cardinality(B)
<1>1. Cardinality(A \cup B) = Cardinality(A) + Cardinality(B) - Cardinality(A \cap B)
  BY FS_Union
<1>2. Cardinality(A) \in Nat /\ Cardinality(B) \in Nat
  BY FS_CardinalityType
<1>3. Cardinality(A \cap B) = 0
  BY FS_EmptySet
<1> QED
  BY <1>1, <1>2, <1>3

\* A sum over sets that have nothing in common counts what is in any of them:
\* the count is one such function, and the least set on which another differed
\* would have an element less.
LEMMA AddsUp ==
  ASSUME NEW D, IsFiniteSet(D), NEW U, IsFiniteSet(U), NEW T \in [D -> SUBSET U],
         \A x, y \in D : x # y => T[x] \cap T[y] = {}
  PROVE  /\ \E f : Adds(f, D, T)
         /\ \A f : Adds(f, D, T) => f[D] = Cardinality(UNION {T[x] : x \in D})
<1> DEFINE Of(s) == UNION {T[x] : x \in s}
           c(s) == CHOOSE x \in s : TRUE
           g == [s \in SUBSET D |-> Cardinality(Of(s))]
<1>1. \A s \in SUBSET D : Of(s) \subseteq U /\ IsFiniteSet(Of(s)) /\ IsFiniteSet(s) /\ Cardinality(Of(s)) \in Nat
  <2>1. \A s \in SUBSET D : Of(s) \subseteq U
    OBVIOUS
  <2> HIDE DEF Of
  <2> QED
    BY <2>1, FS_Subset, FS_CardinalityType
<1>2. ASSUME NEW s \in SUBSET D, s # {}
      PROVE  Cardinality(Of(s)) = Cardinality(T[c(s)]) + Cardinality(Of(s \ {c(s)}))
  <2>1. c(s) \in s
    BY <1>2
  <2> HIDE DEF c
  <2>2. Of(s) = T[c(s)] \cup Of(s \ {c(s)})
    BY <2>1
  <2>3. T[c(s)] \cap Of(s \ {c(s)}) = {}
    BY <2>1
  <2>4. IsFiniteSet(T[c(s)])
    BY <2>1, FS_Subset
  <2>5. IsFiniteSet(Of(s \ {c(s)}))
    BY <1>1
  <2> HIDE DEF Of
  <2> QED
    BY <2>2, <2>3, <2>4, <2>5, TwoParts
<1>3. Cardinality(Of({})) = 0
  <2>1. Of({}) = {}
    OBVIOUS
  <2> HIDE DEF Of
  <2> QED BY <2>1, FS_EmptySet
<1>4. Adds(g, D, T)
  <2>1. ASSUME NEW s \in SUBSET D
        PROVE  Cardinality(Of(s)) = IF s = {} THEN 0 ELSE Cardinality(T[c(s)]) + g[s \ {c(s)}]
    <3>1. s \ {c(s)} \in SUBSET D
      OBVIOUS
    <3>2. g[s \ {c(s)}] = Cardinality(Of(s \ {c(s)}))
      <4> HIDE DEF Of, c
      <4> QED BY <3>1
    <3> HIDE DEF Of, c, g
    <3> QED BY <1>2, <1>3, <3>2
  <2>2. g = [s \in SUBSET D |-> IF s = {} THEN 0 ELSE Cardinality(T[c(s)]) + g[s \ {c(s)}]]
    <3> DEFINE h(s) == IF s = {} THEN 0 ELSE Cardinality(T[c(s)]) + g[s \ {c(s)}]
    <3>1. \A s \in SUBSET D : Cardinality(Of(s)) = h(s)
      BY <2>1
    <3>2. [s \in SUBSET D |-> Cardinality(Of(s))] = [s \in SUBSET D |-> h(s)]
      <4> HIDE DEF Of, h
      <4> QED BY <3>1
    <3> QED BY <3>2, Zenon
  <2> QED
    BY <2>2, Zenon DEF Adds
<1>5. ASSUME NEW f, Adds(f, D, T) PROVE f[D] = Cardinality(Of(D))
  <2> DEFINE Bad == {n \in Nat : \E s \in SUBSET D : Cardinality(s) = n /\ f[s] # Cardinality(Of(s))}
  <2>1. SUFFICES Bad = {}
    <3>1. D \in SUBSET D /\ Cardinality(D) \in Nat
      BY FS_CardinalityType
    <3> HIDE DEF Of
    <3> QED BY <2>1, <3>1
  <2>2. SUFFICES ASSUME Bad # {} PROVE FALSE
    OBVIOUS
  <2>3. PICK n \in Bad : \A m \in Bad : n <= m
    <3> HIDE DEF Bad
    <3>0. Bad \subseteq Nat BY DEF Bad
    <3> QED BY <2>2, <3>0, LeastThere
  <2>4. PICK s \in SUBSET D : Cardinality(s) = n /\ f[s] # Cardinality(Of(s))
    <3> HIDE DEF Of
    <3> QED
    OBVIOUS
  <2>5. f[s] = IF s = {} THEN 0 ELSE Cardinality(T[c(s)]) + f[s \ {c(s)}]
    <3> DEFINE h(t) == IF t = {} THEN 0 ELSE Cardinality(T[c(t)]) + f[t \ {c(t)}]
    <3>1. f = [t \in SUBSET D |-> h(t)]
      BY <1>5, Zenon DEF Adds
    <3> HIDE DEF h
    <3>2. f[s] = h(s)
      BY <3>1
    <3> QED
      BY <3>2 DEF h
  <2>6. s # {}
    <3> HIDE DEF Of, c
    <3> QED
    BY <2>4, <2>5, <1>3
  <2>7. s \ {c(s)} \in SUBSET D /\ IsFiniteSet(s) /\ c(s) \in s
    BY <1>1, <2>6
  <2> DEFINE t == s \ {c(s)}
  <2>8. Cardinality(t) = n - 1 /\ n \in Nat /\ n - 1 \in Nat
    <3>1. Cardinality(t) = Cardinality(s) - 1 /\ IsFiniteSet(t)
      <4> HIDE DEF c
      <4> QED
      BY <2>7, FS_RemoveElement
    <3> HIDE DEF t, c, Of
    <3>2. Cardinality(t) \in Nat /\ n \in Nat
      BY <3>1, FS_CardinalityType
    <3> QED
      BY <2>4, <3>1, <3>2
  <2>9. n - 1 \notin Bad
    <3> HIDE DEF Bad
    <3> QED BY <2>3, <2>8
  <2>10. f[t] = Cardinality(Of(t))
    <3> HIDE DEF Of, c
    <3> QED BY <2>7, <2>8, <2>9
  <2>11. f[s] = Cardinality(Of(s))
    <3> HIDE DEF Of, c
    <3> QED BY <2>5, <2>6, <2>10, <1>2
  <2> QED
    BY <2>4, <2>11
<1> QED
  BY <1>4, <1>5


CountedIn(S) == MapThenSumSet(LAMBDA i : Counted(journal, i), S)

\* What lines count for is the size of sets that have nothing in common.
LEMMA SumOfCounted ==
  ASSUME NEW S, IsFiniteSet(S), NEW U, IsFiniteSet(U), NEW T \in [S -> SUBSET U],
         \A x, y \in S : x # y => T[x] \cap T[y] = {},
         \A x \in S : Counted(journal, x) = Cardinality(T[x])
  PROVE  CountedIn(S) = Cardinality(UNION {T[x] : x \in S})
<1> DEFINE Rec(f) == f = [s \in SUBSET S |->
             IF s = {} THEN 0 ELSE Counted(journal, CHOOSE x \in s : TRUE) + f[s \ {CHOOSE x \in s : TRUE}]]
           it == CHOOSE f : Rec(f)
           n == Cardinality(UNION {T[x] : x \in S})
<1>1. CountedIn(S) = it[S]
  BY Zenon DEF CountedIn, MapThenSumSet, MapThenFoldSet
<1>2. ASSUME NEW s \in SUBSET S, s # {} PROVE (CHOOSE x \in s : TRUE) \in S
  BY <1>2
<1>3. ASSUME NEW f PROVE Rec(f) <=> Adds(f, S, T)
  <2> DEFINE A(s) == IF s = {} THEN 0 ELSE Counted(journal, CHOOSE x \in s : TRUE) + f[s \ {CHOOSE x \in s : TRUE}]
             B(s) == IF s = {} THEN 0 ELSE Cardinality(T[CHOOSE x \in s : TRUE]) + f[s \ {CHOOSE x \in s : TRUE}]
  <2>1. \A s \in SUBSET S : A(s) = B(s)
    BY <1>2
  <2> HIDE DEF A, B
  <2>2. [s \in SUBSET S |-> A(s)] = [s \in SUBSET S |-> B(s)]
    BY <2>1
  <2> QED
    BY <2>2, Zenon DEF Adds, A, B
<1>4. (\E f : Adds(f, S, T)) /\ (\A f : Adds(f, S, T) => f[S] = n)
  BY AddsUp
<1> HIDE DEF Rec, n
<1>5. Adds(it, S, T)
  BY <1>3, <1>4
<1> HIDE DEF it
<1> QED
  BY <1>1, <1>4, <1>5 DEF n

\* The units of a line, and of finitely many.
LEMMA UnitsOfLine ==
  ASSUME NEW plan, NEW j, NEW i, Worth(plan, j, i) \in Nat
  PROVE  IsFiniteSet(Units(plan, j, i)) /\ Cardinality(Units(plan, j, i)) = Worth(plan, j, i)
<1> DEFINE n == Worth(plan, j, i)  I == 1..n
<1>1. n \in Nat
  OBVIOUS
<1> HIDE DEF n
<1>2. IsFiniteSet(I) /\ Cardinality(I) = n
  <2>1. 1 \in Int /\ n \in Int
    BY <1>1
  <2>2. IsFiniteSet(1..n) /\ Cardinality(1..n) = IF 1 > n THEN 0 ELSE n - 1 + 1
    BY <2>1, FS_Interval
  <2>3. (IF 1 > n THEN 0 ELSE n - 1 + 1) = n
    BY <1>1
  <2> QED
    BY <2>2, <2>3
<1>3. IsFiniteSet({i}) /\ Cardinality({i}) = 1
  BY FS_Singleton
<1> HIDE DEF I
<1>4. IsFiniteSet({i} \X I) /\ Cardinality({i} \X I) = 1 * n
  BY <1>2, <1>3, FS_Product
<1>5. 1 * n = n
  BY <1>1
<1> QED
  BY <1>4, <1>5 DEF Units, I, n

LEMMA UnitsFinite ==
  ASSUME NEW plan, NEW j, NEW S, IsFiniteSet(S), \A i \in S : Worth(plan, j, i) \in Nat
  PROVE  IsFiniteSet(UNION {Units(plan, j, i) : i \in S})
<1> DEFINE R == {Units(plan, j, i) : i \in S}
           f == [i \in S |-> Units(plan, j, i)]
<1>1. f \in Surjection(S, R)
  BY DEF Surjection
<1>2. IsFiniteSet(R)
  <2> HIDE DEF f, R
  <2> QED
    BY <1>1, FS_Surjection
<1>3. \A T \in R : IsFiniteSet(T)
  BY UnitsOfLine
<1> HIDE DEF R
<1>4. IsFiniteSet(UNION R)
  BY <1>2, <1>3, FS_UNION
<1> QED
  BY <1>4 DEF R

\* A journal has finitely many lines.
LEMMA FiniteLines ==
  ASSUME NEW S, NEW j \in Seq(S), NEW r, NEW event
  PROVE  IsFiniteSet(DOMAIN j) /\ IsFiniteSet(Indices(j, r, event))
         /\ Indices(j, r, event) \subseteq DOMAIN j
<1>1. Len(j) \in Nat /\ DOMAIN j = 1..Len(j)
  OBVIOUS
<1>2. IsFiniteSet(DOMAIN j)
  BY <1>1, FS_Interval
<1>3. Indices(j, r, event) \subseteq DOMAIN j
  BY DEF Indices, OfRun
<1> QED
  BY <1>2, <1>3, FS_Subset

\* One line more: the lines of its run and event are one more.
LEMMA OneLineMore ==
  ASSUME NEW S, NEW j, j \in Seq(S), NEW e, NEW r, NEW event
  PROVE  /\ e.run = r /\ e.event = event =>
              Indices(Append(j, e), r, event) = Indices(j, r, event) \cup {Len(j) + 1}
         /\ ~(e.run = r /\ e.event = event) => Indices(Append(j, e), r, event) = Indices(j, r, event)
<1> DEFINE k == Append(j, e)  n == Len(j) + 1
<1>1. /\ DOMAIN j = 1..Len(j) /\ Len(j) \in Nat
      /\ DOMAIN k = 1..n /\ k[n] = e /\ \A i \in DOMAIN j : k[i] = j[i]
  OBVIOUS
<1> HIDE DEF k
<1>2. DOMAIN k = DOMAIN j \cup {n} /\ n \notin DOMAIN j
  BY <1>1
<1> HIDE DEF n
<1>3. /\ e.run = r /\ e.event = event => Indices(k, r, event) = Indices(j, r, event) \cup {n}
      /\ ~(e.run = r /\ e.event = event) => Indices(k, r, event) = Indices(j, r, event)
  BY <1>1, <1>2 DEF Indices, OfRun, Is
<1> QED
  BY <1>3 DEF k, n

\* The lines there were are where they were, and the new one is none of them.
LEMMA LinesBefore ==
  ASSUME NEW S, NEW j, j \in Seq(S), NEW e, NEW r, NEW event, NEW i \in Indices(j, r, event)
  PROVE  Append(j, e)[i] = j[i] /\ i # Len(j) + 1
<1>1. i \in DOMAIN j
  BY DEF Indices, OfRun
<1> QED
  BY <1>1

LEMMA OneMoreCounts ==
  ASSUME NEW S, NEW j, j \in Seq(S), NEW e, NEW r, NEW event
  PROVE  /\ Cardinality(Indices(j, r, event)) \in Nat
         /\ e.run = r /\ e.event = event =>
              Cardinality(Indices(Append(j, e), r, event)) = Cardinality(Indices(j, r, event)) + 1
<1> DEFINE I == Indices(j, r, event)  n == Len(j) + 1
<1>1. n \notin I
  BY LinesBefore
<1>2. IsFiniteSet(I) /\ Cardinality(I) \in Nat
  BY FiniteLines, FS_CardinalityType
<1> HIDE DEF I, n
<1>3. Cardinality(I \cup {n}) = Cardinality(I) + 1
  BY <1>1, <1>2, FS_AddElement
<1>4. e.run = r /\ e.event = event => Indices(Append(j, e), r, event) = I \cup {n}
  BY OneLineMore DEF I, n
<1> QED
  BY <1>2, <1>3, <1>4 DEF I

\* So a sum grows by what a done line of its run and sort counts for.
LEMMA SumGrows ==
  ASSUME NEW S, NEW j, j \in Seq(S), NEW e, NEW r, NEW b, NEW plan,
         \A i \in Indices(Append(j, e), r, "done") : Worth(plan, Append(j, e), i) \in Nat
  PROVE  /\ Sum(plan, j, r, b) \in Nat
         /\ e.run = r /\ e.event = "done" /\ Sort(plan, Append(j, e), Len(j) + 1) = b =>
              /\ Worth(plan, Append(j, e), Len(j) + 1) \in Nat
              /\ Sum(plan, Append(j, e), r, b) =
                   Sum(plan, j, r, b) + Worth(plan, Append(j, e), Len(j) + 1)
         /\ ~(e.run = r /\ e.event = "done" /\ Sort(plan, Append(j, e), Len(j) + 1) = b) =>
              Sum(plan, Append(j, e), r, b) = Sum(plan, j, r, b)
<1> DEFINE k == Append(j, e)  n == Len(j) + 1
<1> DEFINE I == Indices(j, r, "done")  K == Indices(k, r, "done")
           A == Sorted(plan, j, r, b)  B == Sorted(plan, k, r, b)
           Of(T) == UNION {Units(plan, k, i) : i \in T}
           mine == e.run = r /\ e.event = "done"
           hit == mine /\ Sort(plan, k, n) = b
<1> SUFFICES /\ Sum(plan, j, r, b) \in Nat
             /\ hit => /\ Worth(plan, k, n) \in Nat
                       /\ Sum(plan, k, r, b) = Sum(plan, j, r, b) + Worth(plan, k, n)
             /\ ~hit => Sum(plan, k, r, b) = Sum(plan, j, r, b)
  OBVIOUS
<1>1. /\ mine => K = I \cup {n}
      /\ ~mine => K = I
      /\ n \notin I /\ \A i \in I : k[i] = j[i]
  <2>1. n \notin I
    BY LinesBefore
  <2>2. \A i \in I : k[i] = j[i]
    BY LinesBefore
  <2>3. mine => K = I \cup {n}
    BY OneLineMore
  <2>4. ~mine => K = I
    BY OneLineMore
  <2> QED
    BY <2>1, <2>2, <2>3, <2>4
<1>2. IsFiniteSet(I)
  BY FiniteLines
<1>3. \A i \in K : Worth(plan, k, i) \in Nat
  OBVIOUS
<1> HIDE DEF k, n
<1>4. \A i \in I : Sort(plan, k, i) = Sort(plan, j, i) /\ Worth(plan, k, i) = Worth(plan, j, i)
  BY <1>1 DEF Sort, Worth
<1>5. A = {i \in I : Sort(plan, j, i) = b} /\ B = {i \in K : Sort(plan, k, i) = b}
  BY DEF Sorted
<1> HIDE DEF I, K, A, B, mine, k, n
<1>6. IsFiniteSet(A) /\ n \notin A /\ A \subseteq I /\ I \subseteq K
  BY <1>1, <1>2, <1>5, FS_Subset
<1>7. (hit => B = A \cup {n} /\ n \in K) /\ (~hit => B = A)
  BY <1>1, <1>4, <1>5
<1>8. IsFiniteSet(Of(A)) /\ Cardinality(Of(A)) \in Nat
  <2>1. \A i \in A : Worth(plan, k, i) \in Nat
    BY <1>3, <1>6
  <2> QED
    BY <1>6, <2>1, UnitsFinite, FS_CardinalityType
<1>9. Sum(plan, j, r, b) = Cardinality(Of(A))
  <2>1. \A i \in A : Units(plan, j, i) = Units(plan, k, i)
    BY <1>4, <1>6 DEF Units
  <2>2. Of(A) = UNION {Units(plan, j, i) : i \in A}
    BY <2>1
  <2> QED
    BY <2>2 DEF Sum, A
<1>10. Sum(plan, k, r, b) = Cardinality(Of(B))
  BY DEF Sum, B
<1>11. CASE hit
  <2>1. B = A \cup {n} /\ n \in K
    BY <1>7, <1>11
  <2>2. Of(B) = Of(A) \cup Units(plan, k, n)
    BY <2>1
  <2>3. IsFiniteSet(Units(plan, k, n)) /\ Cardinality(Units(plan, k, n)) = Worth(plan, k, n)
    BY <1>3, <2>1, UnitsOfLine
  <2>4. Of(A) \cap Units(plan, k, n) = {}
    BY <1>6 DEF Units
  <2> HIDE DEF Of, hit
  <2>5. Cardinality(Of(B)) = Cardinality(Of(A)) + Worth(plan, k, n)
    BY <1>8, <2>2, <2>3, <2>4, TwoParts
  <2> QED
    BY <1>3, <1>8, <1>9, <1>10, <1>11, <2>1, <2>5
<1>12. CASE ~hit
  <2>1. B = A
    BY <1>7, <1>12
  <2> HIDE DEF Of
  <2> QED
    BY <1>8, <1>9, <1>10, <1>12, <2>1
<1> QED
  BY <1>11, <1>12

\* What an entry's line owes the counts.
Tells(e) ==
  /\ Is(e, "start") => /\ e.kind = Plan[e.run][e.seq].kind
                       /\ e.bytes = Plan[e.run][e.seq].bytes
  /\ Is(e, "done") => /\ HasLine("start", e.run, e.seq)
                      /\ e.seq \in 1..Len(Plan[e.run])
                      /\ e.pruned \in Nat \cup {NoPruned}

LEMMA TellsStep ==
  ASSUME IInv, StartsTell, DoneStarted, world' = world,
         NEW e, journal' = journal \/ (journal' = Append(journal, e) /\ Tells(e))
  PROVE  StartsTell' /\ DoneStarted'
<1>1. /\ \A i \in DOMAIN journal : i \in DOMAIN journal' /\ journal'[i] = journal[i]
      /\ \A i \in DOMAIN journal' : i \in DOMAIN journal \/ (journal'[i] = e /\ Tells(e))
  BY GrownBy DEF IInv
<1>2. Plan' = Plan
  BY DEF Plan
<1>3. \A r, k : HasLine("start", r, k) => HasLine("start", r, k)'
  BY <1>1 DEF HasLine
<1>4. StartsTell'
  <2> SUFFICES ASSUME NEW i \in DOMAIN journal', Is(journal'[i], "start")
               PROVE  /\ journal'[i].kind = Plan[journal'[i].run][journal'[i].seq].kind
                      /\ journal'[i].bytes = Plan[journal'[i].run][journal'[i].seq].bytes
    BY <1>2 DEF StartsTell
  <2>1. CASE i \in DOMAIN journal
    BY <1>1, <2>1 DEF StartsTell
  <2>2. CASE journal'[i] = e /\ Tells(e)
    BY <2>2 DEF Tells
  <2> QED
    BY <1>1, <2>1, <2>2
<1>5. DoneStarted'
  <2> SUFFICES ASSUME NEW i \in DOMAIN journal', Is(journal'[i], "done")
               PROVE  /\ \E r, k : r = journal'[i].run /\ k = journal'[i].seq /\ HasLine("start", r, k)
                      /\ journal'[i].seq \in 1..Len(Plan[journal'[i].run])
                      /\ journal'[i].pruned \in Nat \cup {NoPruned}
    BY <1>2, <1>3, SMTT(60) DEF DoneStarted, HasLine
  <2>1. CASE i \in DOMAIN journal
    BY <1>1, <2>1 DEF DoneStarted
  <2>2. CASE journal'[i] = e /\ Tells(e)
    BY <2>2 DEF Tells
  <2> QED
    BY <1>1, <2>1, <2>2
<1> QED
  BY <1>4, <1>5

\* A line's worth is a number of bytes.
LEMMA WorthIs ==
  ASSUME NEW w \in Worlds, NEW j, NEW i, j[i].run \in Run, j[i].seq \in 1..Len(w.plan[j[i].run]),
         j[i].pruned \in Nat \cup {NoPruned}
  PROVE  Worth(w.plan, j, i) \in Nat
<1>1. w.plan[j[i].run][j[i].seq].bytes \in Nat
  BY WorldsAssumption
<1> QED
  BY <1>1 DEF Worth

LEMMA WorthOfDone ==
  ASSUME Books, DoneStarted, NEW r
  PROVE  \A i \in Indices(journal, r, "done") : Worth(Plan, journal, i) \in Nat
<1> SUFFICES ASSUME NEW i \in Indices(journal, r, "done") PROVE Worth(Plan, journal, i) \in Nat
  OBVIOUS
<1>1. i \in DOMAIN journal /\ Is(journal[i], "done")
  BY DEF Indices, OfRun
<1>2. journal[i].run \in Run /\ world \in Worlds
  BY <1>1 DEF Books, Lines, Ground
<1>3. journal[i].seq \in 1..Len(Plan[journal[i].run]) /\ journal[i].pruned \in Nat \cup {NoPruned}
  BY <1>1 DEF DoneStarted
<1> QED
  BY <1>2, <1>3, WorthIs DEF Plan

\* What the journal counts for a done line is what the plan does.
LEMMA CountedIs ==
  ASSUME StartsTell, DoneStarted, NEW i \in DOMAIN journal, Is(journal[i], "done")
  PROVE  Counted(journal, i) = Worth(Plan, journal, i) /\ Bucket(journal, i) = Sort(Plan, journal, i)
<1> DEFINE r == journal[i].run  k == journal[i].seq
           S == Indices(journal, r, "start")
           x == CHOOSE y \in S : journal[y].seq = k
<1>1. \E y \in S : journal[y].seq = k
  BY DEF DoneStarted, HasLine, Indices, OfRun
<1>2. x \in S /\ journal[x].seq = k
  BY <1>1
<1>3. Planned(journal, r, k) = journal[x]
  BY DEF Planned
<1> HIDE DEF x
<1>4. x \in DOMAIN journal /\ Is(journal[x], "start") /\ journal[x].run = r
  BY <1>2 DEF Indices, OfRun
<1>5. journal[x].kind = Plan[r][k].kind /\ journal[x].bytes = Plan[r][k].bytes
  BY <1>2, <1>4 DEF StartsTell
<1>6. Planned(journal, r, k).kind = Plan[r][k].kind /\ Planned(journal, r, k).bytes = Plan[r][k].bytes
  BY <1>3, <1>5
<1> QED
  BY <1>6 DEF Counted, Worth, Bucket, Sort

\* So the summary's bytes of a sort are that sum, while nothing was undone.
LEMMA BytesOfIs ==
  ASSUME IInv, Books, StartsTell, DoneStarted, NEW r, NEW b
  PROVE  CountedIn({i \in Indices(journal, r, "done") : Bucket(journal, i) = b}) = Sum(Plan, journal, r, b)
<1> DEFINE I == Indices(journal, r, "done")
           S == {i \in I : Bucket(journal, i) = b}
           A == Sorted(Plan, journal, r, b)
           U == UNION {Units(Plan, journal, i) : i \in S}
           T == [i \in S |-> Units(Plan, journal, i)]
<1>1. PICK D : journal \in Seq(D)
  BY DEF IInv, Log
<1>2. IsFiniteSet(I) /\ I \subseteq DOMAIN journal
  BY <1>1, FiniteLines
<1>3. \A i \in I : Counted(journal, i) = Worth(Plan, journal, i) /\ Bucket(journal, i) = Sort(Plan, journal, i)
  BY <1>2, CountedIs DEF Indices
<1>4. S = A
  BY <1>3 DEF Sorted
<1>5. IsFiniteSet(S) /\ S \subseteq I
  BY <1>2, FS_Subset
<1>6. \A i \in S : Worth(Plan, journal, i) \in Nat
  BY <1>5, WorthOfDone
<1> HIDE DEF S
<1>7. IsFiniteSet(U)
  BY <1>5, <1>6, UnitsFinite
<1>8. T \in [S -> SUBSET U]
  OBVIOUS
<1>9. \A x, y \in S : x # y => T[x] \cap T[y] = {}
  BY DEF Units
<1>10. \A x \in S : Counted(journal, x) = Cardinality(T[x])
  BY <1>3, <1>5, <1>6, UnitsOfLine
<1>11. UNION {T[x] : x \in S} = U
  OBVIOUS
<1>12. Sum(Plan, journal, r, b) = Cardinality(U)
  BY <1>4 DEF Sum
<1> HIDE DEF T, U
<1>13. CountedIn(S) = Cardinality(U)
  BY <1>5, <1>7, <1>8, <1>9, <1>10, <1>11, SumOfCounted
<1> QED
  BY <1>12, <1>13 DEF S

LEMMA SumIsNat ==
  ASSUME IInv, Books, DoneStarted, NEW r, NEW b
  PROVE  Sum(Plan, journal, r, b) \in Nat
<1> DEFINE A == Sorted(Plan, journal, r, b)
<1>1. PICK D : journal \in Seq(D)
  BY DEF IInv, Log
<1>2. A \subseteq Indices(journal, r, "done") /\ IsFiniteSet(Indices(journal, r, "done"))
  BY <1>1, FiniteLines DEF Sorted
<1>3. IsFiniteSet(A) /\ \A i \in A : Worth(Plan, journal, i) \in Nat
  BY <1>2, FS_Subset, WorthOfDone
<1> HIDE DEF A
<1>4. IsFiniteSet(UNION {Units(Plan, journal, i) : i \in A})
  BY <1>3, UnitsFinite
<1> QED
  BY <1>4, FS_CardinalityType DEF Sum, A

\* What Result says is what the summary says.
LEMMA TallyAgrees == ASSUME IInv, Books, Accounts PROVE SummaryAgrees
<1> SUFFICES ASSUME NEW r \in Run, pc[r] = "next", Undone(journal, r) = {}
             PROVE  LET s == Summary(journal, where, r)  res == result[r] IN
                      /\ s.done = res.done /\ s.failed = res.failed
                      /\ s.after_trash = res.trash /\ s.staged = res.staged /\ s.exported = res.exported
                      /\ s.frees_now = res.bytes - res.trash - res.staged - res.exported
  BY DEF SummaryAgrees
<1> DEFINE done == Indices(journal, r, "done")
           kept == {i \in done : journal[i].seq \notin Undone(journal, r)}
           BytesOf(b) == CountedIn({i \in done : Bucket(journal, i) = b})
           s == Summary(journal, where, r)  res == result[r]
<1>1. kept = done
  OBVIOUS
<1>2. /\ s.done = Cardinality(done) /\ s.failed = Cardinality(Indices(journal, r, "fail"))
      /\ s.after_trash = CountedIn({i \in kept : Bucket(journal, i) = "after_trash"})
      /\ s.staged = CountedIn({i \in kept : Bucket(journal, i) = "staged"})
      /\ s.exported = CountedIn({i \in kept : Bucket(journal, i) = "exported"})
      /\ s.frees_now = CountedIn({i \in kept : Bucket(journal, i) = "frees_now"})
  BY Zenon DEF Summary, CountedIn
<1> HIDE DEF s, kept
<1>3. \A b : CountedIn({i \in kept : Bucket(journal, i) = b}) = Sum(Plan, journal, r, b)
  BY <1>1, BytesOfIs DEF Accounts
<1>4. Told(Plan, journal, r, res) /\ res \in Results
  BY DEF Accounts, Tally
<1> HIDE DEF res, done
<1>5. Sum(Plan, journal, r, "frees_now") \in Nat
  BY SumIsNat DEF Accounts
<1> QED
  BY <1>2, <1>3, <1>4, <1>5 DEF Told, Results, s, res, done

\* The same after a step.
LEMMA WorthAfter ==
  ASSUME Books', DoneStarted', world' = world, NEW r
  PROVE  \A i \in Indices(journal', r, "done") : Worth(Plan, journal', i) \in Nat
<1> SUFFICES ASSUME NEW i \in Indices(journal', r, "done") PROVE Worth(Plan, journal', i) \in Nat
  OBVIOUS
<1>1. i \in DOMAIN journal' /\ Is(journal'[i], "done")
  BY DEF Indices, OfRun
<1>2. journal'[i].run \in Run /\ world \in Worlds
  BY <1>1 DEF Books, Lines, Ground
<1>3. journal'[i].seq \in 1..Len(Plan[journal'[i].run]) /\ journal'[i].pruned \in Nat \cup {NoPruned}
  BY <1>1 DEF DoneStarted, Plan
<1> QED
  BY <1>2, <1>3, WorthIs DEF Plan

\* The lines that count for a run, when another kind of line or another run's is added.
LEMMA ToldBefore ==
  ASSUME IInv, Books', DoneStarted', world' = world, NEW r \in Run, NEW res, Told(Plan, journal, r, res),
         NEW e, journal' = journal \/ (journal' = Append(journal, e) /\ ~(e.run = r /\ e.event \in {"done", "fail"}))
  PROVE  Told(Plan, journal', r, res)
<1>1. CASE journal' = journal
  BY <1>1
<1>2. CASE journal' = Append(journal, e) /\ ~(e.run = r /\ e.event \in {"done", "fail"})
  <2> DEFINE k == Append(journal, e)
  <2>1. PICK D : journal \in Seq(D)
    BY DEF IInv, Log
  <2>2. \A i \in Indices(k, r, "done") : Worth(Plan, k, i) \in Nat
    BY <1>2, WorthAfter
  <2>3. \A b : Sum(Plan, k, r, b) = Sum(Plan, journal, r, b)
    <3> SUFFICES ASSUME NEW b PROVE Sum(Plan, k, r, b) = Sum(Plan, journal, r, b)
      OBVIOUS
    <3>1. ~(e.run = r /\ e.event = "done" /\ Sort(Plan, k, Len(journal) + 1) = b)
      BY <1>2
    <3> HIDE DEF k
    <3> QED
      BY <2>1, <2>2, <3>1, SumGrows DEF k
  <2>4. /\ Indices(k, r, "done") = Indices(journal, r, "done")
        /\ Indices(k, r, "fail") = Indices(journal, r, "fail")
    <3>1. ~(e.run = r /\ e.event = "done") /\ ~(e.run = r /\ e.event = "fail")
      BY <1>2
    <3>2. Indices(k, r, "done") = Indices(journal, r, "done")
      BY <2>1, <3>1, OneLineMore
    <3>3. Indices(k, r, "fail") = Indices(journal, r, "fail")
      BY <2>1, <3>1, OneLineMore
    <3> QED
      BY <3>2, <3>3
  <2>5. journal' = k
    BY <1>2
  <2> HIDE DEF k
  <2> QED
    BY <2>3, <2>4, <2>5 DEF Told
<1> QED
  BY <1>1, <1>2

\* A step that leaves the counted parts of Result, and adds no line of an outcome.
LEMMA TallyKept ==
  ASSUME IInv, Books', Tally, DoneStarted', world' = world,
         result' \in [Run -> Results],
         \A r \in Run : /\ result'[r].done = result[r].done /\ result'[r].failed = result[r].failed
                        /\ result'[r].bytes = result[r].bytes /\ result'[r].trash = result[r].trash
                        /\ result'[r].staged = result[r].staged /\ result'[r].exported = result[r].exported
                        /\ pc'[r] # "ended" => pc[r] # "ended",
         NEW e, journal' = journal \/ (journal' = Append(journal, e) /\ e.event \notin {"done", "fail"})
  PROVE  Tally'
<1> SUFFICES ASSUME NEW r \in Run, pc'[r] # "ended" PROVE Told(Plan, journal', r, result'[r])
  <2>1. Plan' = Plan
    BY DEF Plan
  <2> QED
    BY <2>1 DEF Tally, Told
<1>1. Told(Plan, journal, r, result[r])
  BY DEF Tally
<1>2. Told(Plan, journal', r, result[r])
  BY <1>1, ToldBefore
<1> QED
  BY <1>2 DEF Told

\* What the actions do to an outcome in progress.
LEMMA OutRightStep ==
  ASSUME OutRight, world' = world, NEW r \in Run,
         \A x \in Run : x # r => pc'[x] = pc[x] /\ seq'[x] = seq[x] /\ out'[x] = out[x],
         pc'[r] = "after" => OutRight!(r)'
  PROVE  OutRight'
<1> SUFFICES ASSUME NEW x \in Run, x # r PROVE OutRight!(x)'
  BY DEF OutRight
<1>1. Plan' = Plan
  BY DEF Plan
<1>2. OutRight!(x)
  BY DEF OutRight
<1> QED
  BY <1>1, <1>2 DEF Act

\* A step of a run that journals nothing and leaves Result.
LEMMA QuietAccounts ==
  ASSUME IInv, Books, Accounts, Books', UNCHANGED <<world, journal, result, seq>>,
         NEW r \in Run, NEW p \in Pcs, pc[r] # "ended", pc' = [pc EXCEPT ![r] = p],
         \A x \in Run : x # r => out'[x] = out[x],
         p = "after" => OutRight!(r)'
  PROVE  Accounts'
<1>1. \A x \in Run : pc'[x] = IF x = r THEN p ELSE pc[x]
  BY DEF IInv, TypeInv
<1>2. StartsTell' /\ DoneStarted'
  BY TellsStep DEF Accounts
<1>3. OutRight'
  <2>1. \A x \in Run : x # r => pc'[x] = pc[x] /\ seq'[x] = seq[x] /\ out'[x] = out[x]
    BY <1>1
  <2>2. pc'[r] = "after" => OutRight!(r)'
    BY <1>1
  <2> QED
    BY <2>1, <2>2, OutRightStep DEF Accounts
<1>4. Tally'
  BY <1>1, <1>2, TallyKept DEF Accounts, Tally
<1> QED
  BY <1>2, <1>3, <1>4 DEF Accounts

\* A step no run takes: an undo line at most.
LEMMA BesideAccounts ==
  ASSUME IInv, Books, Accounts, Books', UNCHANGED <<world, pc, seq, out, result>>,
         NEW e, journal' = journal \/ (journal' = Append(journal, e) /\ e.event = "undo")
  PROVE  Accounts'
<1>1. StartsTell' /\ DoneStarted'
  BY TellsStep DEF Accounts, Tells, Is
<1>2. OutRight'
  <2>1. Plan' = Plan
    BY DEF Plan
  <2> QED
    BY <2>1 DEF Accounts, OutRight, Act
<1>3. Tally'
  BY <1>1, TallyKept DEF Accounts, Tally
<1> QED
  BY <1>1, <1>2, <1>3 DEF Accounts

LEMMA PlainAccounts ==
  ASSUME IInv, Books, Accounts, Books', NEW r \in Run,
         \/ Finish(r) \/ Refuse(r) \/ FinderFails(r) \/ StageFails(r) \/ GiveUp(r)
         \/ FinderMoves(r) \/ StageRenames(r) \/ Kill(r)
  PROVE  Accounts'
<1>1. UNCHANGED <<world, journal, seq, result>>
  BY DEF Finish, Refuse, FinderFails, StageFails, GiveUp, FinderMoves, StageRenames, Kill
<1>2. PICK p \in {"ended", "after", "stage", "identify"} :
        /\ pc' = [pc EXCEPT ![r] = p]
        /\ p = "after" => out' = [out EXCEPT ![r] = Failed]
        /\ p # "after" => out' = out
  BY DEF Finish, Refuse, FinderFails, StageFails, GiveUp, FinderMoves, StageRenames, Kill, Outcome
<1>3. pc[r] # "ended" /\ p \in Pcs
  BY <1>2 DEF Finish, Refuse, FinderFails, StageFails, GiveUp, FinderMoves, StageRenames, Kill, Pcs
<1>4. \A x \in Run : x # r => out'[x] = out[x]
  BY <1>2 DEF Books, Ground
<1>5. p = "after" => out'[r] = Failed
  BY <1>2 DEF Books, Ground
<1>6. p = "after" => OutRight!(r)'
  <2>1. Failed.ok = FALSE /\ Failed.pruned = NoPruned
    BY DEF Failed
  <2> QED
    BY <1>5, <2>1
<1> QED
  BY <1>1, <1>2, <1>3, <1>4, <1>6, QuietAccounts

LEMMA IdentifyAccounts ==
  ASSUME IInv, Books, Accounts, Books', NEW r \in Run, Identify(r)
  PROVE  Accounts'
<1>1. /\ UNCHANGED <<world, journal, seq, result>> /\ pc[r] = "identify"
      /\ pc' = [pc EXCEPT ![r] = "after"]
  BY DEF Identify, Outcome
<1>2. PICK ino : out' = [out EXCEPT ![r] = [Failed EXCEPT !.ok = TRUE,
                                              !.receipt = MoveReceipt(Act(r).path, to[r], ino)]]
  BY DEF Identify, Outcome
<1>3. Act(r).kind = "trash"
  BY <1>1 DEF Books, AtAction
<1>4. \A x \in Run : x # r => out'[x] = out[x]
  BY <1>2 DEF Books, Ground
<1>5. /\ out'[r].receipt = MoveReceipt(Act(r).path, to[r], ino)
      /\ out'[r].ok = TRUE /\ out'[r].pruned = NoPruned
  BY <1>2 DEF Books, Ground, Failed
<1>6. out'[r].receipt.method \in {"finder", "staging"}
  BY <1>5 DEF MoveReceipt
<1>7. Act(r)' = Act(r)
  BY <1>1 DEF Act, Plan
<1>8. OutRight!(r)'
  BY <1>3, <1>5, <1>6, <1>7
<1>9. "after" \in Pcs
  BY DEF Pcs
<1> QED
  BY <1>1, <1>4, <1>8, <1>9, QuietAccounts

LEMMA CommandAccounts ==
  ASSUME IInv, Books, Accounts, Books', NEW r \in Run, RunCommand(r)
  PROVE  Accounts'
<1>1. /\ UNCHANGED <<world, journal, seq, result>> /\ pc[r] = "act" /\ Act(r).kind \in {"native", "prune"}
      /\ pc' = [pc EXCEPT ![r] = "after"]
  BY DEF RunCommand, Outcome
<1>2. PICK ok \in BOOLEAN, pruned \in IF Act(r).measured THEN {NoPruned, 0, 1} ELSE {NoPruned} :
        /\ Act(r).measured /\ pruned = NoPruned => ~ok
        /\ out' = [out EXCEPT ![r] = [ok |-> ok, pruned |-> pruned,
                     receipt |-> IF Act(r).pre = "export" THEN ExportReceipt ELSE NoReceipt]]
  BY DEF RunCommand, Outcome
<1>3. \A x \in Run : x # r => out'[x] = out[x]
  BY <1>2 DEF Books, Ground
<1>4. /\ out'[r].receipt = IF Act(r).pre = "export" THEN ExportReceipt ELSE NoReceipt
      /\ out'[r].ok = ok /\ out'[r].pruned = pruned
  BY <1>2 DEF Books, Ground
<1>5. seq[r] \in 1..Len(Plan[r]) /\ world \in Worlds
  BY <1>1, ActInPlan DEF Begun, Books, Ground
<1>6. /\ Act(r).measured \in BOOLEAN
      /\ Act(r).kind = "prune" => Act(r).measured /\ Act(r).pre = "none"
      /\ Act(r).pre = "export" => ~Act(r).measured
  BY <1>5, WorldsAssumption DEF Act, Plan
<1>7. Act(r)' = Act(r)
  BY <1>1 DEF Act, Plan
<1>8. ExportReceipt.method = "export" /\ NoReceipt.method = "none"
  BY DEF ExportReceipt, NoReceipt
<1>9. pruned \in Nat \cup {NoPruned} /\ (~Act(r).measured => pruned = NoPruned)
      /\ (Act(r).measured /\ ok => pruned # NoPruned)
  BY <1>2, <1>6 DEF NoPruned
<1>10. OutRight!(r)'
  <2>1. CASE Act(r).pre = "export"
    BY <1>1, <1>4, <1>6, <1>7, <1>8, <1>9, <2>1
  <2>2. CASE Act(r).pre # "export"
    BY <1>1, <1>4, <1>6, <1>7, <1>8, <1>9, <2>2
  <2> QED
    BY <2>1, <2>2
<1>11. "after" \in Pcs
  BY DEF Pcs
<1> QED
  BY <1>1, <1>3, <1>10, <1>11, QuietAccounts

\* The start line tells.
LEMMA StartAccounts ==
  ASSUME IInv, Books, Accounts, Books', NEW r \in Run, JournalStart(r)
  PROVE  Accounts'
<1> DEFINE e == Start(r, seq[r], Act(r))
<1>1. UNCHANGED <<world, seq, out, result>> /\ pc[r] = "next"
  BY DEF JournalStart, Ready
<1>2. /\ journal' = journal \/ journal' = Append(journal, e)
      /\ \E p \in {"act", "ended"} : pc' = [pc EXCEPT ![r] = p]
  BY DEF JournalStart, Journals, Appends, AppendFails
<1>3. e.event = "start" /\ e.run = r /\ e.seq = seq[r] /\ e.kind = Act(r).kind /\ e.bytes = Act(r).bytes
  BY DEF Start
<1> HIDE DEF e
<1>4. Tells(e)
  BY <1>3 DEF Tells, Is, Act
<1>5. StartsTell' /\ DoneStarted'
  BY <1>1, <1>2, <1>4, TellsStep DEF Accounts
<1>6. \A x \in Run : IF x = r THEN pc'[x] \in {"act", "ended"} ELSE pc'[x] = pc[x]
  BY <1>2 DEF IInv, TypeInv
<1>7. OutRight'
  <2>1. pc'[r] # "after"
    BY <1>6
  <2> QED
    BY <1>1, <1>6, <2>1, OutRightStep DEF Accounts
<1>8. Tally'
  <2>1. \A x \in Run : pc'[x] # "ended" => pc[x] # "ended"
    BY <1>1, <1>6
  <2> QED
    BY <1>1, <1>2, <1>3, <1>5, <2>1, TallyKept DEF Accounts, Tally
<1> QED
  BY <1>5, <1>7, <1>8 DEF Accounts

\* A skipped action is counted, but not by the history.
LEMMA SkipAccounts ==
  ASSUME IInv, Books, Accounts, Books', NEW r \in Run, SkipTrash(r)
  PROVE  Accounts'
<1>1. /\ UNCHANGED <<world, journal, pc, out>> /\ pc[r] = "next"
      /\ seq' = [seq EXCEPT ![r] = @ + 1]
      /\ result' = [result EXCEPT ![r].skipped = @ + 1]
  BY DEF SkipTrash, Ready
<1>2. StartsTell' /\ DoneStarted'
  BY <1>1, TellsStep DEF Accounts
<1>3. \A x \in Run : x # r => seq'[x] = seq[x]
  BY <1>1 DEF IInv, TypeInv
<1>4. OutRight'
  <2>1. pc'[r] # "after"
    BY <1>1
  <2> QED
    BY <1>1, <1>3, <2>1, OutRightStep DEF Accounts
<1>5. result \in [Run -> Results]
  BY DEF Accounts, Tally
<1>6. /\ result' \in [Run -> Results]
      /\ \A x \in Run : /\ result'[x].done = result[x].done /\ result'[x].failed = result[x].failed
                        /\ result'[x].bytes = result[x].bytes /\ result'[x].trash = result[x].trash
                        /\ result'[x].staged = result[x].staged /\ result'[x].exported = result[x].exported
  BY <1>1, <1>5 DEF Results
<1>7. Tally'
  BY <1>1, <1>2, <1>6, TallyKept DEF Accounts
<1> QED
  BY <1>2, <1>4, <1>7 DEF Accounts

LEMMA OneFieldMore ==
  ASSUME NEW res \in Results, NEW n \in Nat
  PROVE  /\ [res EXCEPT !.done = @ + n] \in Results /\ [res EXCEPT !.failed = @ + n] \in Results
         /\ [res EXCEPT !.bytes = @ + n] \in Results /\ [res EXCEPT !.trash = @ + n] \in Results
         /\ [res EXCEPT !.staged = @ + n] \in Results /\ [res EXCEPT !.exported = @ + n] \in Results
         /\ [res EXCEPT !.pruned = @ + n] \in Results /\ [res EXCEPT !.failedPruned = @ + n] \in Results
<1>1. [res EXCEPT !.done = @ + n] \in Results
  BY DEF Results
<1>2. [res EXCEPT !.failed = @ + n] \in Results
  BY DEF Results
<1>3. [res EXCEPT !.bytes = @ + n] \in Results
  BY DEF Results
<1>4. [res EXCEPT !.trash = @ + n] \in Results
  BY DEF Results
<1>5. [res EXCEPT !.staged = @ + n] \in Results
  BY DEF Results
<1>6. [res EXCEPT !.exported = @ + n] \in Results
  BY DEF Results
<1>7. [res EXCEPT !.pruned = @ + n] \in Results
  BY DEF Results
<1>8. [res EXCEPT !.failedPruned = @ + n] \in Results
  BY DEF Results
<1> QED
  BY <1>1, <1>2, <1>3, <1>4, <1>5, <1>6, <1>7, <1>8

LEMMA ResultsStay ==
  ASSUME NEW res \in Results, NEW a, a.bytes \in Nat, NEW o, o.pruned \in Nat \cup {NoPruned}
  PROVE  Counts(a, o, res) \in Results
<1> DEFINE freed == IF o.pruned # NoPruned THEN o.pruned ELSE a.bytes
           In(method, kind) == IF o.receipt.method = method /\ a.kind = kind THEN a.bytes ELSE 0
           deleted == IF o.pruned # NoPruned THEN o.pruned ELSE 0
           f == In("finder", "trash")  s == In("staging", "trash")  x == In("export", "native")
<1>1. freed \in Nat /\ deleted \in Nat /\ f \in Nat /\ s \in Nat /\ x \in Nat
  OBVIOUS
<1>2. Counts(a, o, res) =
        IF ~o.ok THEN [res EXCEPT !.failed = @ + 1, !.pruned = @ + deleted, !.failedPruned = @ + deleted]
        ELSE [res EXCEPT !.done = @ + 1, !.bytes = @ + freed, !.pruned = @ + deleted,
                         !.trash = @ + f, !.staged = @ + s, !.exported = @ + x]
  BY DEF Counts
<1> HIDE DEF freed, deleted, f, s, x
<1>3. CASE ~o.ok
  <2>1. PICK a1 \in Results : a1 = [res EXCEPT !.failed = @ + 1]
    BY OneFieldMore
  <2>2. PICK a2 \in Results : a2 = [a1 EXCEPT !.pruned = @ + deleted]
    BY <1>1, OneFieldMore
  <2>3. PICK a3 \in Results : a3 = [a2 EXCEPT !.failedPruned = @ + deleted]
    BY <1>1, OneFieldMore
  <2> QED
    BY <1>2, <1>3, <2>1, <2>2, <2>3 DEF Results
<1>4. CASE o.ok
  <2>1. PICK a1 \in Results : a1 = [res EXCEPT !.done = @ + 1]
    BY OneFieldMore
  <2>2. PICK a2 \in Results : a2 = [a1 EXCEPT !.bytes = @ + freed]
    BY <1>1, OneFieldMore
  <2>3. PICK a3 \in Results : a3 = [a2 EXCEPT !.pruned = @ + deleted]
    BY <1>1, OneFieldMore
  <2>4. PICK a4 \in Results : a4 = [a3 EXCEPT !.trash = @ + f]
    BY <1>1, OneFieldMore
  <2>5. PICK a5 \in Results : a5 = [a4 EXCEPT !.staged = @ + s]
    BY <1>1, OneFieldMore
  <2>6. PICK a6 \in Results : a6 = [a5 EXCEPT !.exported = @ + x]
    BY <1>1, OneFieldMore
  <2> QED
    BY <1>2, <1>4, <2>1, <2>2, <2>3, <2>4, <2>5, <2>6 DEF Results
<1> QED
  BY <1>3, <1>4

\* The same sum, with one of its numbers higher.
LEMMA ShiftedTrash ==
  ASSUME NEW f \in Nat, NEW t \in Nat, NEW s \in Nat, NEW x \in Nat, NEW w \in Nat
  PROVE  (f + t + s + x) + w = f + (t + w) + s + x
OBVIOUS

LEMMA ShiftedStaged ==
  ASSUME NEW f \in Nat, NEW t \in Nat, NEW s \in Nat, NEW x \in Nat, NEW w \in Nat
  PROVE  (f + t + s + x) + w = f + t + (s + w) + x
OBVIOUS

LEMMA ShiftedExported ==
  ASSUME NEW f \in Nat, NEW t \in Nat, NEW s \in Nat, NEW x \in Nat, NEW w \in Nat
  PROVE  (f + t + s + x) + w = f + t + s + (x + w)
OBVIOUS

LEMMA ShiftedFreed ==
  ASSUME NEW f \in Nat, NEW t \in Nat, NEW s \in Nat, NEW x \in Nat, NEW w \in Nat
  PROVE  (f + t + s + x) + w = (f + w) + t + s + x
OBVIOUS

\* What an outcome adds to Result is what its line adds to the sums.
LEMMA OutcomeCounts ==
  ASSUME IInv, Books, Accounts, Books', DoneStarted', world' = world, NEW r \in Run, pc[r] = "after",
         journal' = Append(journal, After(r, seq[r], out[r]))
  PROVE  Told(Plan, journal', r, Counts(Act(r), out[r], result[r]))
<1> DEFINE e == After(r, seq[r], out[r])  a == Act(r)  o == out[r]  res == result[r]
           n == Len(journal) + 1  new == Counts(a, o, res)
           Of(b) == Sum(Plan, journal, r, b)  Now(b) == Sum(Plan, journal', r, b)
<1>1. /\ e.run = r /\ e.seq = seq[r] /\ e.receipt = o.receipt /\ e.pruned = o.pruned
      /\ e.event = IF o.ok THEN "done" ELSE "fail"
  BY DEF After
<1>2. PICK D : journal \in Seq(D)
  BY DEF IInv, Log
<1>3. journal'[n] = e
  BY <1>2
<1> HIDE DEF e, n
<1>4. Told(Plan, journal, r, res) /\ res \in Results
  BY DEF Accounts, Tally
<1>5. /\ o.ok \in BOOLEAN /\ o.pruned \in Nat \cup {NoPruned}
      /\ o.ok => \/ /\ a.kind = "trash" /\ o.pruned = NoPruned
                    /\ o.receipt.method \in {"finder", "staging"}
                 \/ /\ a.kind = "native" /\ o.receipt.method = "export" /\ o.pruned = NoPruned
                 \/ /\ a.kind \in {"native", "prune"} /\ o.receipt.method = "none"
                    /\ (a.kind = "prune" => o.pruned # NoPruned)
  BY DEF Accounts, OutRight
<1>6. a.bytes \in Nat
  BY ActInPlan, WorldsAssumption DEF Begun, Books, Ground, Act, Plan
<1>7. /\ Worth(Plan, journal', n) = IF o.pruned # NoPruned THEN o.pruned
                                    ELSE IF a.kind = "prune" THEN 0 ELSE a.bytes
      /\ Sort(Plan, journal', n) = CASE a.kind = "trash" /\ o.receipt.method = "finder" -> "after_trash"
                                     [] a.kind = "trash" /\ o.receipt.method = "staging" -> "staged"
                                     [] o.receipt.method = "export" -> "exported"
                                     [] OTHER -> "frees_now"
  BY <1>1, <1>3 DEF Worth, Sort, Act
<1>8. \A i \in Indices(journal', r, "done") : Worth(Plan, journal', i) \in Nat
  BY WorthAfter
<1>9. \A b : /\ Of(b) \in Nat
             /\ o.ok /\ Sort(Plan, journal', n) = b => Now(b) = Of(b) + Worth(Plan, journal', n)
             /\ ~(o.ok /\ Sort(Plan, journal', n) = b) => Now(b) = Of(b)
  <2> SUFFICES ASSUME NEW b
               PROVE  /\ Of(b) \in Nat
                      /\ o.ok /\ Sort(Plan, journal', n) = b => Now(b) = Of(b) + Worth(Plan, journal', n)
                      /\ ~(o.ok /\ Sort(Plan, journal', n) = b) => Now(b) = Of(b)
    OBVIOUS
  <2>1. o.ok <=> e.event = "done"
    BY <1>1, <1>5
  <2>2. journal' = Append(journal, e)
    BY DEF e
  <2>3. /\ Sum(Plan, journal, r, b) \in Nat
        /\ e.run = r /\ e.event = "done" /\ Sort(Plan, Append(journal, e), Len(journal) + 1) = b =>
              Sum(Plan, Append(journal, e), r, b) =
                   Sum(Plan, journal, r, b) + Worth(Plan, Append(journal, e), Len(journal) + 1)
        /\ ~(e.run = r /\ e.event = "done" /\ Sort(Plan, Append(journal, e), Len(journal) + 1) = b) =>
              Sum(Plan, Append(journal, e), r, b) = Sum(Plan, journal, r, b)
    BY <1>2, <1>8, <2>2, SumGrows
  <2> QED
    BY <1>1, <2>1, <2>2, <2>3 DEF n
<1>10. /\ Cardinality(Indices(journal', r, "done")) = res.done + (IF o.ok THEN 1 ELSE 0)
       /\ Cardinality(Indices(journal', r, "fail")) = res.failed + (IF o.ok THEN 0 ELSE 1)
  <2>1. journal' = Append(journal, e)
    BY DEF e
  <2>2. res.done = Cardinality(Indices(journal, r, "done")) /\ res.failed = Cardinality(Indices(journal, r, "fail"))
        /\ res.done \in Nat /\ res.failed \in Nat
    BY <1>4 DEF Told, Results
  <2>3. CASE o.ok
    <3>1. e.event = "done" /\ e.event # "fail" /\ e.run = r
      BY <1>1, <2>3
    <3>2. Cardinality(Indices(Append(journal, e), r, "done")) = Cardinality(Indices(journal, r, "done")) + 1
      BY <1>2, <3>1, OneMoreCounts
    <3>3. Indices(Append(journal, e), r, "fail") = Indices(journal, r, "fail")
      BY <1>2, <3>1, OneLineMore
    <3> QED
      BY <2>1, <2>2, <2>3, <3>2, <3>3
  <2>4. CASE ~o.ok
    <3>1. e.event = "fail" /\ e.event # "done" /\ e.run = r
      BY <1>1, <2>4
    <3>2. Cardinality(Indices(Append(journal, e), r, "fail")) = Cardinality(Indices(journal, r, "fail")) + 1
      BY <1>2, <3>1, OneMoreCounts
    <3>3. Indices(Append(journal, e), r, "done") = Indices(journal, r, "done")
      BY <1>2, <3>1, OneLineMore
    <3> QED
      BY <2>1, <2>2, <2>4, <3>2, <3>3
  <2> QED
    BY <2>3, <2>4
<1>11. /\ res.trash = Of("after_trash") /\ res.staged = Of("staged") /\ res.exported = Of("exported")
       /\ res.bytes = Of("frees_now") + res.trash + res.staged + res.exported
       /\ res.done \in Nat /\ res.failed \in Nat /\ res.bytes \in Nat
       /\ res.trash \in Nat /\ res.staged \in Nat /\ res.exported \in Nat
       /\ Of("frees_now") \in Nat
  BY <1>4, <1>9 DEF Told, Results
<1>12. /\ new.done = res.done + (IF o.ok THEN 1 ELSE 0)
       /\ new.failed = res.failed + (IF o.ok THEN 0 ELSE 1)
       /\ new.bytes = res.bytes + (IF o.ok THEN (IF o.pruned # NoPruned THEN o.pruned ELSE a.bytes) ELSE 0)
       /\ new.trash = res.trash + (IF o.ok /\ o.receipt.method = "finder" /\ a.kind = "trash" THEN a.bytes ELSE 0)
       /\ new.staged = res.staged + (IF o.ok /\ o.receipt.method = "staging" /\ a.kind = "trash" THEN a.bytes ELSE 0)
       /\ new.exported = res.exported + (IF o.ok /\ o.receipt.method = "export" /\ a.kind = "native" THEN a.bytes ELSE 0)
  BY <1>4, <1>5, SMTT(60) DEF Counts, Results
<1> HIDE DEF Of, Now, new, a, o, res
<1>13. /\ new.done = Cardinality(Indices(journal', r, "done"))
       /\ new.failed = Cardinality(Indices(journal', r, "fail"))
       /\ new.trash = Now("after_trash") /\ new.staged = Now("staged") /\ new.exported = Now("exported")
       /\ new.bytes = Now("frees_now") + new.trash + new.staged + new.exported
  <2>1. CASE ~o.ok
    BY <1>9, <1>10, <1>11, <1>12, <2>1
  <2>2. CASE o.ok /\ a.kind = "trash" /\ o.pruned = NoPruned /\ o.receipt.method = "finder"
    <3> DEFINE w == Worth(Plan, journal', n)
    <3>1. w = a.bytes /\ w \in Nat
      BY <1>5, <1>6, <1>7, <2>2
    <3>2. Sort(Plan, journal', n) = "after_trash"
      BY <1>7, <2>2
    <3> HIDE DEF w
    <3>3. /\ Now("after_trash") = Of("after_trash") + w /\ Now("staged") = Of("staged")
          /\ Now("exported") = Of("exported") /\ Now("frees_now") = Of("frees_now")
      <4>1. o.ok
        BY <2>2
      <4>2. Now("after_trash") = Of("after_trash") + w
        BY <1>9, <3>2, <4>1, ZenonT(60) DEF w
      <4>3. \A b : b # "after_trash" => Now(b) = Of(b)
        BY <1>9, <3>2, ZenonT(60)
      <4> QED
        BY <4>2, <4>3
    <3>4. new.trash = res.trash + w /\ new.staged = res.staged /\ new.exported = res.exported
      BY <1>11, <1>12, <2>2, <3>1, <3>3
    <3>5. new.bytes = res.bytes + w /\ new.done = res.done + 1 /\ new.failed = res.failed
      <4>1. o.ok /\ o.pruned = NoPruned
        BY <2>2
      <4>2. new.bytes = res.bytes + a.bytes
        BY <1>12, <4>1, ZenonT(60)
      <4>3. new.done = res.done + 1
        BY <1>12, <4>1, ZenonT(60)
      <4>4. new.failed = res.failed + 0
        BY <1>12, <4>1, ZenonT(60)
      <4>5. res.failed \in Nat
        BY <1>11
      <4> QED
        BY <3>1, <4>2, <4>3, <4>4, <4>5
    <3>6. new.bytes = Now("frees_now") + new.trash + new.staged + new.exported
      <4>1. (Of("frees_now") + res.trash + res.staged + res.exported) + w =
              Of("frees_now") + (res.trash + w) + res.staged + res.exported
        <5>1. Of("frees_now") \in Nat /\ res.trash \in Nat /\ res.staged \in Nat /\ res.exported \in Nat
          BY <1>11
        <5>2. w \in Nat
          BY <3>1
        <5> QED
          BY <5>1, <5>2, ShiftedTrash
      <4> QED
        BY <1>11, <3>3, <3>4, <3>5, <4>1
    <3>7. new.done = Cardinality(Indices(journal', r, "done"))
          /\ new.failed = Cardinality(Indices(journal', r, "fail"))
      BY <1>10, <1>11, <2>2, <3>5
    <3> QED
      BY <1>11, <3>3, <3>4, <3>6, <3>7
  <2>3. CASE o.ok /\ a.kind = "trash" /\ o.pruned = NoPruned /\ o.receipt.method = "staging"
    <3> DEFINE w == Worth(Plan, journal', n)
    <3>1. w = a.bytes /\ w \in Nat
      BY <1>5, <1>6, <1>7, <2>3
    <3>2. Sort(Plan, journal', n) = "staged"
      BY <1>7, <2>3
    <3> HIDE DEF w
    <3>3. /\ Now("after_trash") = Of("after_trash") /\ Now("staged") = Of("staged") + w
          /\ Now("exported") = Of("exported") /\ Now("frees_now") = Of("frees_now")
      <4>1. o.ok
        BY <2>3
      <4>2. Now("staged") = Of("staged") + w
        BY <1>9, <3>2, <4>1, ZenonT(60) DEF w
      <4>3. \A b : b # "staged" => Now(b) = Of(b)
        BY <1>9, <3>2, ZenonT(60)
      <4> QED
        BY <4>2, <4>3
    <3>4. new.trash = res.trash /\ new.staged = res.staged + w /\ new.exported = res.exported
      BY <1>11, <1>12, <2>3, <3>1, <3>3
    <3>5. new.bytes = res.bytes + w /\ new.done = res.done + 1 /\ new.failed = res.failed
      <4>1. o.ok /\ o.pruned = NoPruned
        BY <2>3
      <4>2. new.bytes = res.bytes + a.bytes
        BY <1>12, <4>1, ZenonT(60)
      <4>3. new.done = res.done + 1
        BY <1>12, <4>1, ZenonT(60)
      <4>4. new.failed = res.failed + 0
        BY <1>12, <4>1, ZenonT(60)
      <4>5. res.failed \in Nat
        BY <1>11
      <4> QED
        BY <3>1, <4>2, <4>3, <4>4, <4>5
    <3>6. new.bytes = Now("frees_now") + new.trash + new.staged + new.exported
      <4>1. (Of("frees_now") + res.trash + res.staged + res.exported) + w =
              Of("frees_now") + res.trash + (res.staged + w) + res.exported
        <5>1. Of("frees_now") \in Nat /\ res.trash \in Nat /\ res.staged \in Nat /\ res.exported \in Nat
          BY <1>11
        <5>2. w \in Nat
          BY <3>1
        <5> QED
          BY <5>1, <5>2, ShiftedStaged
      <4> QED
        BY <1>11, <3>3, <3>4, <3>5, <4>1
    <3>7. new.done = Cardinality(Indices(journal', r, "done"))
          /\ new.failed = Cardinality(Indices(journal', r, "fail"))
      BY <1>10, <1>11, <2>3, <3>5
    <3> QED
      BY <1>11, <3>3, <3>4, <3>6, <3>7
  <2>4. CASE o.ok /\ a.kind = "native" /\ o.receipt.method = "export" /\ o.pruned = NoPruned
    <3> DEFINE w == Worth(Plan, journal', n)
    <3>1. w = a.bytes /\ w \in Nat
      BY <1>5, <1>6, <1>7, <2>4
    <3>2. Sort(Plan, journal', n) = "exported"
      BY <1>7, <2>4
    <3> HIDE DEF w
    <3>3. /\ Now("after_trash") = Of("after_trash") /\ Now("staged") = Of("staged")
          /\ Now("exported") = Of("exported") + w /\ Now("frees_now") = Of("frees_now")
      <4>1. o.ok
        BY <2>4
      <4>2. Now("exported") = Of("exported") + w
        BY <1>9, <3>2, <4>1, ZenonT(60) DEF w
      <4>3. \A b : b # "exported" => Now(b) = Of(b)
        BY <1>9, <3>2, ZenonT(60)
      <4> QED
        BY <4>2, <4>3
    <3>4. new.trash = res.trash /\ new.staged = res.staged /\ new.exported = res.exported + w
      BY <1>11, <1>12, <2>4, <3>1, <3>3
    <3>5. new.bytes = res.bytes + w /\ new.done = res.done + 1 /\ new.failed = res.failed
      <4>1. o.ok /\ o.pruned = NoPruned
        BY <2>4
      <4>2. new.bytes = res.bytes + a.bytes
        BY <1>12, <4>1, ZenonT(60)
      <4>3. new.done = res.done + 1
        BY <1>12, <4>1, ZenonT(60)
      <4>4. new.failed = res.failed + 0
        BY <1>12, <4>1, ZenonT(60)
      <4>5. res.failed \in Nat
        BY <1>11
      <4> QED
        BY <3>1, <4>2, <4>3, <4>4, <4>5
    <3>6. new.bytes = Now("frees_now") + new.trash + new.staged + new.exported
      <4>1. (Of("frees_now") + res.trash + res.staged + res.exported) + w =
              Of("frees_now") + res.trash + res.staged + (res.exported + w)
        <5>1. Of("frees_now") \in Nat /\ res.trash \in Nat /\ res.staged \in Nat /\ res.exported \in Nat
          BY <1>11
        <5>2. w \in Nat
          BY <3>1
        <5> QED
          BY <5>1, <5>2, ShiftedExported
      <4> QED
        BY <1>11, <3>3, <3>4, <3>5, <4>1
    <3>7. new.done = Cardinality(Indices(journal', r, "done"))
          /\ new.failed = Cardinality(Indices(journal', r, "fail"))
      BY <1>10, <1>11, <2>4, <3>5
    <3> QED
      BY <1>11, <3>3, <3>4, <3>6, <3>7
  <2>5. CASE o.ok /\ a.kind \in {"native", "prune"} /\ o.receipt.method = "none"
             /\ (a.kind = "prune" => o.pruned # NoPruned)
    <3> DEFINE w == Worth(Plan, journal', n)
    <3>1. w = (IF o.pruned # NoPruned THEN o.pruned ELSE a.bytes) /\ w \in Nat
      BY <1>5, <1>6, <1>7, <2>5
    <3>2. Sort(Plan, journal', n) = "frees_now"
      BY <1>7, <2>5
    <3> HIDE DEF w
    <3>3. /\ Now("after_trash") = Of("after_trash") /\ Now("staged") = Of("staged")
          /\ Now("exported") = Of("exported") /\ Now("frees_now") = Of("frees_now") + w
      <4>1. o.ok
        BY <2>5
      <4>2. Now("frees_now") = Of("frees_now") + w
        BY <1>9, <3>2, <4>1, ZenonT(60) DEF w
      <4>3. \A b : b # "frees_now" => Now(b) = Of(b)
        BY <1>9, <3>2, ZenonT(60)
      <4> QED
        BY <4>2, <4>3
    <3>4. new.trash = res.trash /\ new.staged = res.staged /\ new.exported = res.exported
      BY <1>11, <1>12, <2>5, <3>1, <3>3
    <3>5. new.bytes = res.bytes + w /\ new.done = res.done + 1 /\ new.failed = res.failed
      BY <1>11, <1>12, <2>5, <3>1
    <3>6. new.bytes = Now("frees_now") + new.trash + new.staged + new.exported
      <4>1. (Of("frees_now") + res.trash + res.staged + res.exported) + w =
              (Of("frees_now") + w) + res.trash + res.staged + res.exported
        <5>1. Of("frees_now") \in Nat /\ res.trash \in Nat /\ res.staged \in Nat /\ res.exported \in Nat
          BY <1>11
        <5>2. w \in Nat
          BY <3>1
        <5> QED
          BY <5>1, <5>2, ShiftedFreed
      <4> QED
        BY <1>11, <3>3, <3>4, <3>5, <4>1
    <3>7. new.done = Cardinality(Indices(journal', r, "done"))
          /\ new.failed = Cardinality(Indices(journal', r, "fail"))
      BY <1>10, <1>11, <2>5, <3>5
    <3> QED
      BY <1>11, <3>3, <3>4, <3>6, <3>7
  <2> QED
    BY <1>5, <2>1, <2>2, <2>3, <2>4, <2>5
<1> QED
  BY <1>13 DEF Told, Now, new, a, o, res

\* The after line of the action the run is at.
LEMMA AfterAccounts ==
  ASSUME IInv, Books, Accounts, Books', NEW r \in Run, JournalAfter(r)
  PROVE  Accounts'
<1> DEFINE e == After(r, seq[r], out[r])
<1>1. /\ UNCHANGED world /\ pc[r] = "after"
      /\ seq' = [seq EXCEPT ![r] = @ + 1]
      /\ out' = [out EXCEPT ![r] = Failed]
      /\ result' = [result EXCEPT ![r] = Counts(Act(r), out[r], @)]
  BY DEF JournalAfter
<1>2. \/ journal' = Append(journal, e) /\ pc' = [pc EXCEPT ![r] = "next"]
      \/ (journal' = journal \/ journal' = Append(journal, e)) /\ pc' = [pc EXCEPT ![r] = "ended"]
  BY DEF JournalAfter, Journals, Appends, AppendFails
<1>3. seq[r] \in 1..Len(Plan[r]) /\ HasLine("start", r, seq[r])
  BY <1>1, ActInPlan DEF Begun, IInv, Announced
<1>4. out[r].pruned \in Nat \cup {NoPruned}
  BY <1>1 DEF Accounts, OutRight
<1>5. e.run = r /\ e.seq = seq[r] /\ e.pruned = out[r].pruned /\ e.event \in {"done", "fail"}
  BY DEF After
<1> HIDE DEF e
<1>6. Tells(e)
  BY <1>3, <1>4, <1>5 DEF Tells, Is
<1>7. StartsTell' /\ DoneStarted'
  BY <1>1, <1>2, <1>6, TellsStep DEF Accounts
<1>8. \A x \in Run : IF x = r THEN pc'[x] \in {"next", "ended"} ELSE pc'[x] = pc[x] /\ seq'[x] = seq[x] /\ out'[x] = out[x]
  BY <1>1, <1>2 DEF IInv, TypeInv, Books, Ground
<1>9. OutRight'
  <2>1. pc'[r] # "after"
    BY <1>8
  <2> QED
    BY <1>1, <1>8, <2>1, OutRightStep DEF Accounts
<1>10. result \in [Run -> Results]
  BY DEF Accounts, Tally
<1>11. result' \in [Run -> Results]
  <2>1. Act(r).bytes \in Nat
    BY <1>1, <1>3, WorldsAssumption DEF Books, Ground, Act, Plan
  <2>2. result[r] \in Results
    BY <1>10
  <2>3. Counts(Act(r), out[r], result[r]) \in Results
    BY <1>4, <2>1, <2>2, ResultsStay
  <2> QED
    BY <1>1, <1>10, <2>3
<1>12. \A x \in Run : result'[x] = IF x = r THEN Counts(Act(r), out[r], result[r]) ELSE result[x]
  BY <1>1, <1>10
<1>13. ASSUME NEW x \in Run, pc'[x] # "ended" PROVE Told(Plan, journal', x, result'[x])
  <2>1. CASE x = r
    <3>1. journal' = Append(journal, e)
      BY <1>2, <1>13, <2>1 DEF IInv, TypeInv
    <3>2. Told(Plan, journal', r, Counts(Act(r), out[r], result[r]))
      BY <1>1, <1>7, <3>1, OutcomeCounts DEF e
    <3> QED
      BY <1>12, <2>1, <3>2
  <2>2. CASE x # r
    <3>1. Told(Plan, journal, x, result[x])
      BY <1>8, <1>13, <2>2 DEF Accounts, Tally
    <3>2. Told(Plan, journal', x, result[x])
      BY <1>1, <1>2, <1>5, <1>7, <2>2, <3>1, ToldBefore
    <3> QED
      BY <1>12, <2>2, <3>2
  <2> QED
    BY <2>1, <2>2
<1>14. Tally'
  <2>1. Plan' = Plan
    BY <1>1 DEF Plan
  <2> QED
    BY <1>11, <1>13, <2>1 DEF Tally, Told
<1> QED
  BY <1>7, <1>9, <1>14 DEF Accounts

LEMMA NextAccounts == ASSUME IInv, Books, Accounts, [Next]_vars PROVE Accounts'
<1>1. Books'
  BY NextBooks
<1>2. CASE ExecuteNext
  <2>1. PICK r \in Run : \/ Finish(r) \/ SkipTrash(r) \/ JournalStart(r) \/ Refuse(r)
                \/ FinderMoves(r) \/ FinderFails(r) \/ StageRenames(r) \/ StageFails(r)
                \/ Identify(r) \/ GiveUp(r) \/ RunCommand(r) \/ JournalAfter(r)
                \/ AskStop(r) \/ Kill(r)
    BY <1>2 DEF ExecuteNext
  <2>2. CASE AskStop(r)
    <3>1. UNCHANGED <<world, journal, pc, seq, out, result>>
      BY <2>2 DEF AskStop
    <3> QED
      BY <1>1, <3>1, BesideAccounts
  <2> QED
    BY <1>1, <2>1, <2>2, PlainAccounts, SkipAccounts, StartAccounts, IdentifyAccounts, CommandAccounts,
       AfterAccounts
<1>3. CASE OutsideNext \/ UNCHANGED vars
  <2>1. UNCHANGED <<world, journal, pc, seq, out, result>>
    BY <1>3 DEF vars, OutsideNext, Regrows, OwnerTrashesItem, CopyRemoved, PutBack, TrashEmptied,
                FinderEmpties, LstatTurns, StrayLands, OthersUnchanged, runVars, diskVars, undoVars, history
  <2> QED
    BY <1>1, <2>1, BesideAccounts
<1>4. CASE UndoNext
  <2>1. UNCHANGED <<world, pc, seq, out, result>>
    BY <1>4 DEF UndoNext, UndoStart, UndoCheck, UndoRename, UndoLog, UndoEnds, runVars
  <2>2. CASE UndoLog
    <3> DEFINE e == UndoEntry(undo.run, Current.seq, undo.ok)
    <3>1. journal' = journal \/ journal' = Append(journal, e)
      BY <2>2 DEF UndoLog, Appends, AppendFails
    <3>2. e.event = "undo"
      BY DEF UndoEntry
    <3> HIDE DEF e
    <3> QED
      BY <1>1, <2>1, <3>1, <3>2, BesideAccounts
  <2>3. CASE ~UndoLog
    <3>1. journal' = journal
      BY <1>4, <2>3 DEF UndoNext, UndoStart, UndoCheck, UndoRename, UndoEnds
    <3> QED
      BY <1>1, <2>1, <3>1, BesideAccounts
  <2> QED
    BY <2>2, <2>3
<1> QED
  BY <1>2, <1>3, <1>4 DEF Next

LEMMA InitAccounts == Init => Accounts
<1> SUFFICES ASSUME Init PROVE Accounts
  OBVIOUS
<1>1. journal = <<>> /\ DOMAIN journal = {} /\ (\A r \in Run : pc[r] \in {"ended", "next"}) /\ DOMAIN pc = Run
  BY DEF Init
<1>2. StartsTell /\ DoneStarted /\ OutRight
  BY <1>1 DEF StartsTell, DoneStarted, OutRight
<1>3. result \in [Run -> Results] /\ \A r \in Run : result[r] = ZeroResult
  BY DEF Init, ZeroResult, Results
<1>4. ASSUME NEW r PROVE Told(Plan, journal, r, ZeroResult)
  <2>1. Indices(journal, r, "done") = {} /\ Indices(journal, r, "fail") = {}
    BY <1>1 DEF Indices, OfRun
  <2>2. \A b : Sorted(Plan, journal, r, b) = {}
    BY <2>1 DEF Sorted
  <2>3. \A b : UNION {Units(Plan, journal, i) : i \in Sorted(Plan, journal, r, b)} = {}
    BY <2>2
  <2>4. \A b : Sum(Plan, journal, r, b) = 0
    BY <2>3, FS_EmptySet DEF Sum
  <2>5. Cardinality(Indices(journal, r, "done")) = 0 /\ Cardinality(Indices(journal, r, "fail")) = 0
    BY <2>1, FS_EmptySet
  <2> QED
    BY <2>4, <2>5 DEF Told, ZeroResult
<1>5. Tally
  BY <1>3, <1>4 DEF Tally
<1> QED
  BY <1>2, <1>5 DEF Accounts

\* Whatever the plans, the journal's failures, kills and stops, what `regrow
\* history` counts of a run that has been told of every outcome, part by part,
\* is what the executor's own Result says.
THEOREM HistoryAgrees == Spec => []SummaryAgrees
<1>1. Init => IInv /\ Books /\ Accounts
  BY InitInv, InitBooks, InitAccounts
<1>2. IInv /\ Books /\ Accounts /\ [Next]_vars => (IInv /\ Books /\ Accounts)'
  BY NextInv, NextBooks, NextAccounts
<1>3. IInv /\ Books /\ Accounts => SummaryAgrees
  BY TallyAgrees
<1> QED
  BY <1>1, <1>2, <1>3, PTL DEF Spec
=============================================================================

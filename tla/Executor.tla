------------------------------ MODULE Executor -----------------------------
(***************************************************************************)
(* internal/executor over its two seams, the journal and the trash mover:  *)
(* runs that journal, act and journal again, and `regrow undo`.  Several   *)
(* runs (a terminal's and the app's) may go at once; a process may be      *)
(* killed between any two steps; the owner empties the Trash, puts items   *)
(* back and makes them again meanwhile.                                    *)
(*                                                                         *)
(* The journal here is Journal's: an Append that returned nil is kept (see *)
(* OpLog).  A plan is an input: sequences of actions as BuildPlan orders   *)
(* them, Empty Trash first.                                                *)
(***************************************************************************)
EXTENDS RunLog

CONSTANTS First,          \* the object at each path as all begins
          Worlds,         \* what a behaviour may start from, see below
          MaxUndos        \* bound: `regrow undo` passes

VARIABLES where,     \* where each object is
          journal,   \* the oplog's entries
          pc, seq,   \* each run's step and action
          to,        \* where the move in progress goes
          out,       \* the outcome of the action in progress
          unsafe,    \* trashUnsafe: emptying the Trash failed in this run
          asked,     \* Stop reports true for this run
          result,    \* the executor's Result
          emptying,  \* runs whose failed Empty Trash Finder may still do
          strays,    \* moves boundedMover gave up on
          undo,      \* the undo pass in progress
          undos,     \* undo passes so far
          moved,     \* history: what each move took from where to where
          restored   \* history: what each restore moved back

\* A path is no place of the Trash or of staging, and of no item deleted or
\* not made yet; names are folded to names.
ASSUME PathAssumption ==
  /\ Nowhere \notin Path /\ Unborn \notin Path
  /\ \A name \in DOMAIN Fold : Fold[name] \in DOMAIN Fold
  /\ \A name \in DOMAIN Fold, n \in 1..Copies :
       InTrash(name, n) \notin Path /\ \A r \in Run : InStaging(r, name, n) \notin Path

\* BuildPlan: what is moved has a path, and nothing is moved to the Trash
\* before what empties it (resolveNesting sorts that first).  A prune always
\* measures itself and runs no pre-action; what exports first (a docker
\* volume) is none of the rules that declare a measure (knownMeasures).
ASSUME WorldsAssumption == \A w \in Worlds :
  /\ \A p \in Path : w.base[p] \in DOMAIN Fold
  /\ \A loc \in w.mayRefuse : IsTrash(loc)
  /\ \A r \in Run : Len(w.plan[r]) \in Nat /\ \A k \in 1..Len(w.plan[r]) :
       /\ w.plan[r][k].bytes \in Nat /\ w.plan[r][k].measured \in BOOLEAN
       /\ w.plan[r][k].kind = "trash" => w.plan[r][k].path \in Path
       /\ w.plan[r][k].empties => \A j \in 1..k : w.plan[r][j].kind # "trash"
       /\ w.plan[r][k].kind = "prune" => w.plan[r][k].measured /\ w.plan[r][k].pre = "none"
       /\ w.plan[r][k].pre = "export" => ~w.plan[r][k].measured

Plan == world.plan                      \* the actions of each run
Engine == world.engine                  \* the runs the app's engine executes (boundedMover)
MayNotIdentify == world.mayNotIdentify  \* the item at its new place may not be readable
JournalMayFail == world.journalMayFail  \* an Append may fail
MayDie == world.mayDie                  \* a process may be killed in the middle of a run
OwnerTrashes == world.ownerTrashes      \* the owner moves items to the Trash too
FinderLags == world.finderLags          \* Finder may get to a move after osascript's error
Overlap == world.overlap                \* runs and an undo may go at once

runVars == <<pc, seq, to, out, unsafe, asked, result>>
diskVars == <<where, emptying, strays>>
undoVars == <<undo, undos>>
history == <<moved, restored>>
vars == <<world, refused, where, journal, pc, seq, to, out, unsafe, asked, result, emptying, strays,
          undo, undos, moved, restored>>

Failed == [ok |-> FALSE, receipt |-> NoReceipt, pruned |-> NoPruned]
Idle == [pc |-> "idle", run |-> Nowhere, todo |-> <<>>, ok |-> FALSE]
ZeroResult == [done |-> 0, failed |-> 0, skipped |-> 0, bytes |-> 0, trash |-> 0,
               staged |-> 0, exported |-> 0, pruned |-> 0, failedPruned |-> 0]

Init == /\ world \in Worlds
        /\ refused = {}
        /\ where = [o \in Obj |-> CASE \E p \in Path : First[p] = o -> CHOOSE p \in Path : First[p] = o
                                    [] o \in world.unborn -> Unborn
                                    [] OTHER -> Nowhere]
        /\ journal = <<>>
        /\ pc = [r \in Run |-> IF Plan[r] = <<>> THEN "ended" ELSE "next"]
        /\ seq = [r \in Run |-> 1]
        /\ to = [r \in Run |-> Nowhere]
        /\ out = [r \in Run |-> Failed]
        /\ unsafe = [r \in Run |-> FALSE]
        /\ asked = [r \in Run |-> FALSE]
        /\ result = [r \in Run |-> ZeroResult]
        /\ emptying = {}
        /\ strays = {}
        /\ undo = Idle
        /\ undos = 0
        /\ moved = {}
        /\ restored = {}

----------------------------------------------------------------------------
(* Execute. *)

Act(r) == Plan[r][seq[r]]

HasLine(event, r, k) == \E i \in DOMAIN journal :
  Is(journal[i], event) /\ journal[i].run = r /\ journal[i].seq = k

\* One Append: kept, or an error with the entry in the file or not.
Appends(e) == journal' = Append(journal, e)
AppendFails(e) == JournalMayFail /\ journal' \in {journal, Append(journal, e)}

\* An append, and the step after it; a failed one ends the run.
\* (Variant: the run goes on regardless.)
AppendsOrNot(r, e, next) == /\ Appends(e) \/ AppendFails(e)
                            /\ pc' = [pc EXCEPT ![r] = next]
Journals(r, e, next) == \/ Appends(e) /\ pc' = [pc EXCEPT ![r] = next]
                        \/ AppendFails(e) /\ pc' = [pc EXCEPT ![r] = "ended"]

\* The end of the plan, or what ends it early, polled before each action.
Finish(r) ==
  /\ pc[r] = "next"
  /\ seq[r] > Len(Plan[r]) \/ asked[r]
  /\ pc' = [pc EXCEPT ![r] = "ended"]
  /\ UNCHANGED <<world, refused, diskVars, journal, seq, to, out, unsafe, asked, result, undoVars, history>>

\* A run that is neither at work nor over.
Waiting(r) == pc[r] = "next" /\ seq[r] = 1
Ready(r) == /\ pc[r] = "next" /\ seq[r] <= Len(Plan[r]) /\ ~asked[r]
            /\ Overlap \/ (/\ undo.pc = "idle"
                           /\ \A x \in Run \ {r} : Waiting(x) \/ pc[x] = "ended")

\* An Empty Trash failed: Finder may still be emptying.
\* (Variant: the moves are not skipped.)
SkipsNothing(r) == FALSE
Skips(r) == unsafe[r] /\ Act(r).kind = "trash"

SkipTrash(r) ==
  /\ Ready(r) /\ Skips(r)
  /\ seq' = [seq EXCEPT ![r] = @ + 1]
  /\ result' = [result EXCEPT ![r].skipped = @ + 1]
  /\ UNCHANGED <<world, refused, diskVars, journal, pc, to, out, unsafe, asked, undoVars, history>>

\* The start line; an action whose start line failed does not run.
JournalStart(r) ==
  /\ Ready(r) /\ ~Skips(r)
  /\ Journals(r, Start(r, seq[r], Act(r)), "act")
  /\ UNCHANGED <<world, refused, diskVars, seq, to, out, unsafe, asked, result, undoVars, history>>

\* The action in progress ended with o; its after line is next.
Outcome(r, o) == /\ out' = [out EXCEPT ![r] = o]
                 /\ pc' = [pc EXCEPT ![r] = "after"]

\* A pre-action refused or failed, or the item is gone since the scan.
Refuse(r) ==
  /\ pc[r] = "act"
  /\ \/ Act(r).pre # "none"
     \/ Act(r).kind = "trash" /\ ~Exists(where, Act(r).path)
  /\ Outcome(r, Failed)
  /\ UNCHANGED <<world, refused, diskVars, journal, seq, to, unsafe, asked, result, undoVars, history>>

RecordMove(r, k, src, dst) ==
  moved' = moved \cup {[run |-> r, seq |-> k, obj |-> o, from |-> src, to |-> dst] : o \in At(where, src)}

\* Finder moved the item and said where to.
FinderMoves(r) ==
  /\ pc[r] = "act" /\ Act(r).kind = "trash" /\ Exists(where, Act(r).path)
  /\ FreeInTrash(where, Base[Act(r).path]) # {}
  /\ LET src == Act(r).path  dst == FinderName(where, src)
     IN /\ where' = Renamed(where, src, dst)
        /\ to' = [to EXCEPT ![r] = dst]
        /\ RecordMove(r, seq[r], src, dst)
  /\ pc' = [pc EXCEPT ![r] = "identify"]
  /\ UNCHANGED <<world, refused, emptying, strays, journal, seq, out, unsafe, asked, result, undoVars, restored>>

\* A move that may yet land, left behind by boundedMover, a kill or an
\* error of osascript's: Finder has been asked (to is Nowhere), or a
\* staging rename is on its way.
Stray(r, dst) == [run |-> r, seq |-> seq[r], path |-> Act(r).path, to |-> dst]

\* osascript ended with an error, and stage finds a free name.  Finder may
\* be at the move all the same, and get to it now or any time later: an
\* AppleEvent that timed out is still the application's to carry out.  (No
\* caller cancels Execute's context; a move whose own limit passed is
\* GiveUp's.)
FinderFails(r) ==
  /\ pc[r] = "act" /\ Act(r).kind = "trash" /\ Exists(where, Act(r).path)
  /\ FreeInStaging(where, r, Base[Act(r).path]) # {}
  /\ to' = [to EXCEPT ![r] = StagingName(where, r, Act(r).path)]
  /\ pc' = [pc EXCEPT ![r] = "stage"]
  /\ strays' \in {strays} \cup (IF FinderLags THEN {strays \cup {Stray(r, Nowhere)}} ELSE {})
  /\ UNCHANGED <<world, refused, where, emptying, journal, seq, out, unsafe, asked, result, undoVars, history>>

\* stage's rename, onto the name found free a step ago.
StageRenames(r) ==
  /\ pc[r] = "stage" /\ Exists(where, Act(r).path)
  /\ where' = Renamed(where, Act(r).path, to[r])
  /\ RecordMove(r, seq[r], Act(r).path, to[r])
  /\ pc' = [pc EXCEPT ![r] = "identify"]
  /\ UNCHANGED <<world, refused, emptying, strays, journal, seq, to, out, unsafe, asked, result, undoVars, restored>>

\* The rename fails (the item is gone, another volume, a full folder in
\* the way).
StageFails(r) ==
  /\ pc[r] = "stage"
  /\ Outcome(r, Failed)
  /\ UNCHANGED <<world, refused, diskVars, journal, seq, to, unsafe, asked, result, undoVars, history>>

\* identify: the inode at the new place, or 0 when Lstat fails.
Seen(loc) ==
  IF Refused(loc) THEN {0}
  ELSE At(where, loc) \cup (IF MayNotIdentify \/ ~Exists(where, loc) THEN {0} ELSE {})

Identify(r) ==
  /\ pc[r] = "identify"
  /\ \E ino \in Seen(to[r]) :
       Outcome(r, [Failed EXCEPT !.ok = TRUE, !.receipt = MoveReceipt(Act(r).path, to[r], ino)])
  /\ UNCHANGED <<world, refused, diskVars, journal, seq, to, unsafe, asked, result, undoVars, history>>

\* boundedMover's limit: the run goes on with a failure, and the move
\* itself goes on too, at whatever call it is stuck in.
GiveUp(r) ==
  /\ r \in Engine /\ pc[r] \in {"act", "stage", "identify"} /\ Act(r).kind = "trash"
  /\ strays' = IF pc[r] = "identify" THEN strays ELSE strays \cup {Stray(r, to[r])}
  /\ Outcome(r, Failed)
  /\ UNCHANGED <<world, refused, where, emptying, journal, seq, to, unsafe, asked, result, undoVars, history>>

\* Such a move lands after all: in the Trash where Finder had been asked,
\* under its staging name where a rename had begun.
StrayLands(m) ==
  /\ m \in strays /\ Exists(where, m.path)
  /\ m.to = Nowhere => FreeInTrash(where, Base[m.path]) # {}
  /\ LET dst == IF m.to = Nowhere THEN FinderName(where, m.path) ELSE m.to
     IN /\ where' = Renamed(where, m.path, dst)
        /\ RecordMove(m.run, m.seq, m.path, dst)
  /\ strays' = strays \ {m}
  /\ UNCHANGED <<world, refused, emptying, journal, runVars, undoVars, restored>>

\* A steward command: done, or failed.  A failed Empty Trash (a dialog, a
\* timeout) may leave Finder at it.  An export made before the command
\* rides its after line either way; a measured command and a prune say
\* what they deleted, a prune's failed check nothing.
RunCommand(r) ==
  /\ pc[r] = "act" /\ Act(r).kind \in {"native", "prune"}
  /\ \E ok \in BOOLEAN, pruned \in IF Act(r).measured THEN {NoPruned, 0, 1} ELSE {NoPruned} :
       /\ Act(r).measured /\ pruned = NoPruned => ~ok
       /\ Outcome(r, [ok |-> ok, pruned |-> pruned,
                      receipt |-> IF Act(r).pre = "export" THEN ExportReceipt ELSE NoReceipt])
       /\ where' = [o \in Obj |-> IF Act(r).empties /\ ok /\ IsTrash(where[o]) THEN Nowhere ELSE where[o]]
       /\ emptying' = IF Act(r).empties /\ ~ok THEN emptying \cup {r} ELSE emptying
  /\ UNCHANGED <<world, refused, strays, journal, seq, to, unsafe, asked, result, undoVars, history>>

\* The Result an outcome adds to.
Counts(a, o, res) ==
  LET freed == IF o.pruned # NoPruned THEN o.pruned ELSE a.bytes
      In(method, kind) == IF o.receipt.method = method /\ a.kind = kind THEN a.bytes ELSE 0
      deleted == IF o.pruned # NoPruned THEN o.pruned ELSE 0
  IN IF ~o.ok THEN [res EXCEPT !.failed = @ + 1, !.pruned = @ + deleted,
                               !.failedPruned = @ + deleted]
     ELSE [res EXCEPT !.done = @ + 1, !.bytes = @ + freed, !.pruned = @ + deleted,
                      !.trash = @ + In("finder", "trash"),
                      !.staged = @ + In("staging", "trash"),
                      !.exported = @ + In("export", "native")]

\* The after line, with whatever receipt there is, and on to the next.
JournalAfter(r) ==
  /\ pc[r] = "after"
  /\ result' = [result EXCEPT ![r] = Counts(Act(r), out[r], @)]
  /\ unsafe' = [unsafe EXCEPT ![r] = @ \/ (~out[r].ok /\ Act(r).empties)]
  /\ Journals(r, After(r, seq[r], out[r]), "next")
  /\ seq' = [seq EXCEPT ![r] = @ + 1]
  /\ to' = [to EXCEPT ![r] = Nowhere]
  /\ out' = [out EXCEPT ![r] = Failed]
  /\ UNCHANGED <<world, refused, diskVars, asked, undoVars, history>>

\* A cancel or a quit in the app: Stop reports true from now on.
AskStop(r) ==
  /\ r \in Engine /\ pc[r] # "ended" /\ ~asked[r]
  /\ asked' = [asked EXCEPT ![r] = TRUE]
  /\ UNCHANGED <<world, refused, diskVars, journal, pc, seq, to, out, unsafe, result, undoVars, history>>

\* The process is killed, and its own renames with it; Finder still does
\* what it was asked.
Kill(r) ==
  /\ MayDie /\ pc[r] # "ended"
  /\ pc' = [pc EXCEPT ![r] = "ended"]
  /\ LET finders == {m \in strays : m.run # r \/ m.to = Nowhere}
     IN strays' \in {finders} \cup (IF pc[r] = "act" /\ Act(r).kind = "trash"
                                    THEN {finders \cup {Stray(r, Nowhere)}} ELSE {})
  /\ UNCHANGED <<world, refused, where, emptying, journal, seq, to, out, unsafe, asked, result, undoVars, history>>

----------------------------------------------------------------------------
(* Undo. *)

\* `regrow undo`: the run's copies still on disk, read before the first
\* one is put back.
UndoStart(r) ==
  /\ undo.pc = "idle" /\ undos < MaxUndos
  /\ Overlap \/ \A x \in Run : Waiting(x) \/ pc[x] = "ended"
  /\ Present(journal, where, r) # {}
  /\ undo' = [pc |-> "check", run |-> r, todo |-> PresentInOrder(journal, where, r), ok |-> FALSE]
  /\ undos' = undos + 1
  /\ UNCHANGED <<world, refused, diskVars, journal, runVars, history>>

Current == undo.todo[1]

UndoCheck ==
  /\ undo.pc = "check" /\ undo.todo # <<>>
  /\ undo' = IF MayRestore(where, Current.receipt)
               THEN [undo EXCEPT !.pc = "rename"]
               ELSE [undo EXCEPT !.pc = "log", !.ok = FALSE]
  /\ UNCHANGED <<world, refused, diskVars, journal, runVars, undos, history>>

\* Restore's MkdirAll and rename, either of which may fail.
UndoRename ==
  /\ undo.pc = "rename"
  /\ LET rcpt == Current.receipt  there == At(where, rcpt.to)
     IN \/ /\ there # {}
           /\ where' = Renamed(where, rcpt.to, rcpt.from)
           /\ restored' = restored \cup {[run |-> undo.run, seq |-> Current.seq, obj |-> o,
                                          ino |-> rcpt.ino, to |-> rcpt.from] : o \in there}
           /\ undo' = [undo EXCEPT !.pc = "log", !.ok = TRUE]
        \/ /\ undo' = [undo EXCEPT !.pc = "log", !.ok = FALSE]
           /\ UNCHANGED <<where, restored>>
  /\ UNCHANGED <<world, refused, emptying, strays, journal, runVars, undos, moved>>

\* The undo line, and the next receipt; a failed line ends the pass.
UndoLog ==
  /\ undo.pc = "log"
  /\ LET e == UndoEntry(undo.run, Current.seq, undo.ok) IN
       \/ Appends(e) /\ undo' = [undo EXCEPT !.pc = "check", !.todo = SubSeq(@, 2, Len(@))]
       \/ AppendFails(e) /\ undo' = Idle
  /\ UNCHANGED <<world, refused, diskVars, runVars, undos, history>>

UndoEnds ==
  /\ undo.pc # "idle"          \* done, or killed
  /\ undo' = Idle
  /\ UNCHANGED <<world, refused, diskVars, journal, runVars, undos, history>>

----------------------------------------------------------------------------
(* The owner, Finder and the apps, outside this repository. *)

\* They do not act in the moment between the check and the rename, or
\* the move and the look at its inode, of one item: rename(2) would then
\* replace what it may.
OwnerActs == undo.pc # "rename" /\ \A r \in Run : pc[r] \notin {"stage", "identify"}

OthersUnchanged == UNCHANGED <<world, refused, journal, runVars, undoVars, history>>

\* An app makes the item again (a cache regrows), as a new object.
Regrows(p) ==
  /\ OwnerActs /\ ~Exists(where, p)
  /\ \E o \in Obj : where[o] = Unborn
  /\ where' = [where EXCEPT ![Least({o \in Obj : where[o] = Unborn})] = p]
  /\ OthersUnchanged /\ UNCHANGED <<emptying, strays>>

\* The owner empties the Trash, deletes a staged copy, or moves a copy
\* out (here: for good).
Removes(O) == where' = [o \in Obj |-> IF o \in O THEN Nowhere ELSE where[o]]

TrashEmptied ==
  /\ OwnerActs /\ \E o \in Obj : IsTrash(where[o])
  /\ Removes({o \in Obj : IsTrash(where[o])})
  /\ OthersUnchanged /\ UNCHANGED <<emptying, strays>>

CopyRemoved(o) ==
  /\ OwnerActs /\ where[o] \notin Path \cup {Nowhere, Unborn}
  /\ Removes({o})
  /\ OthersUnchanged /\ UNCHANGED <<emptying, strays>>

PutBack(o) ==
  /\ OwnerActs /\ \E p \in Path : /\ \E m \in moved : m.obj = o /\ m.from = p /\ where[o] = m.to
                                 /\ ~Exists(where, p)
                                 /\ where' = [where EXCEPT ![o] = p]
  /\ OthersUnchanged /\ UNCHANGED <<emptying, strays>>

OwnerTrashesItem(p) ==
  /\ OwnerTrashes /\ OwnerActs /\ Exists(where, p) /\ FreeInTrash(where, Base[p]) # {}
  /\ where' = Renamed(where, p, FinderName(where, p))
  /\ OthersUnchanged /\ UNCHANGED <<emptying, strays>>

\* macOS refuses the Trash to a process without the right to it, or a disk
\* fails: Lstat of a copy fails, and a while later no more.
LstatTurns(loc) ==
  /\ loc \in world.mayRefuse
  /\ refused' = IF loc \in refused THEN refused \ {loc} ELSE refused \cup {loc}
  /\ UNCHANGED <<world, diskVars, journal, runVars, undoVars, history>>

\* Finder gets to the end of an Empty Trash a run gave up on.
FinderEmpties(r) ==
  /\ r \in emptying
  /\ Removes({o \in Obj : IsTrash(where[o])})
  /\ emptying' = emptying \ {r}
  /\ OthersUnchanged /\ UNCHANGED strays

ExecuteNext ==
  \E r \in Run : \/ Finish(r) \/ SkipTrash(r) \/ JournalStart(r) \/ Refuse(r)
                \/ FinderMoves(r) \/ FinderFails(r) \/ StageRenames(r) \/ StageFails(r)
                \/ Identify(r) \/ GiveUp(r) \/ RunCommand(r) \/ JournalAfter(r)
                \/ AskStop(r) \/ Kill(r)
UndoNext == (\E r \in Run : UndoStart(r)) \/ UndoCheck \/ UndoRename \/ UndoLog \/ UndoEnds
OutsideNext == \/ \E p \in Path : Regrows(p) \/ OwnerTrashesItem(p)
               \/ \E o \in Obj : CopyRemoved(o) \/ PutBack(o)
               \/ TrashEmptied
               \/ \E r \in Run : FinderEmpties(r)
               \/ \E m \in strays : StrayLands(m)
               \/ \E loc \in world.mayRefuse : LstatTurns(loc)

Next == ExecuteNext \/ UndoNext \/ OutsideNext
Spec == Init /\ [][Next]_vars

----------------------------------------------------------------------------
(* Properties. *)

TypeOK ==
  /\ \A o \in Obj : where[o] \in Path \cup {Nowhere, Unborn} \/ IsTrash(where[o]) \/ IsStaging(where[o])
  /\ \A i \in DOMAIN journal : journal[i].event \in {"start", "done", "fail", "undo"} /\ journal[i].run \in Run
  /\ pc \in [Run -> {"next", "act", "stage", "identify", "after", "ended"}]
  /\ \A r \in Run : seq[r] \in 1..Len(Plan[r]) + 1
  /\ unsafe \in [Run -> BOOLEAN] /\ asked \in [Run -> BOOLEAN]
  /\ emptying \subseteq Run
  /\ undo.pc \in {"idle", "check", "rename", "log"} /\ undos \in 0..MaxUndos
  /\ \A r \in Run : result[r].done + result[r].failed + result[r].skipped <= Len(Plan[r])

\* Nothing regrow moves, now or in a move it gave up on, moves without
\* its start line in the journal first (invariant 6: "journaled before it
\* runs"), whatever fails or is killed.
JournaledFirst == \A m \in moved : HasLine("start", m.run, m.seq)

Receipted(m) == \E i \in DOMAIN journal :
  /\ Is(journal[i], "done") /\ journal[i].run = m.run /\ journal[i].seq = m.seq
  /\ journal[i].receipt.from = m.from /\ journal[i].receipt.to = m.to

\* Finder, which had answered with an error, has moved what was made again
\* where the action's item was, after that item was staged.
MovedAfterStaging(m) == IsTrash(m.to) /\ \E n \in moved :
  n.run = m.run /\ n.seq = m.seq /\ IsStaging(n.to) /\ Receipted(n)

\* A move the journal holds no receipt of is the last thing its run did (it
\* was killed, or the journal failed), or its action is journaled as failed
\* (the run gave up on the move, or Finder made it after an error and the
\* staging failed): no run goes on past a move as though it had not been
\* tried.  Only what Finder takes after the item itself was staged has no
\* line to its name.
ReceiptUnlessCut == \A m \in moved :
  \/ Receipted(m)
  \/ HasLine("fail", m.run, m.seq)
  \/ \A i \in OfRun(journal, m.run) : journal[i].seq <= m.seq
  \/ MovedAfterStaging(m)

\* Some run empties the Trash.
EmptiesTrash == \E r \in Run : \E k \in 1..Len(Plan[r]) : Plan[r][k].empties

\* The moves that the line restore x worked from may be of.
MoveOf(x) == {m \in moved : m.run = x.run /\ m.seq = x.seq /\ m.from = x.to}

\* Another action moved x's item to the very name that x's action had moved
\* its own to.
ChangedHands(x) == \E m \in MoveOf(x), n \in moved :
  /\ n.obj = x.obj /\ Place(n.to) = Place(m.to)
  /\ n.run # m.run \/ n.seq # m.seq

\* What undo puts back by a receipt with an identity is the very item
\* that action moved, and where it was.  There are two moments in which the
\* name may change hands unseen.  Between a move and the look at its inode an
\* undo at the same time, or Finder emptying the Trash, may take the copy away,
\* and another run put its own there: the line then tells of that one.  And
\* between Restore's check and its rename Finder may do so too.  (In the
\* engine a staging given up on may replace a copy at any time.)
RestoresOwn == Engine # {} \/ \A x \in restored : x.ino # 0 =>
  \/ \E m \in MoveOf(x) : m.obj = x.obj
  \/ Overlap /\ x.obj = x.ino /\ ChangedHands(x)
  \/ EmptiesTrash /\ ChangedHands(x)

\* What oplog.Read's comment says of a line cut short: skipping it "can
\* only miss a restore, never undo the wrong thing".
NeverUndoesWrongThing == \A x \in restored :
  \E m \in moved : m.obj = x.obj /\ m.from = x.to

\* Even by a receipt without an identity, undo puts an item back where it
\* was, while only regrow moves items to the Trash, one run at a time, and
\* no done line of a move was lost: what Runs' reuse rule, which ignores
\* case for such receipts, is for.
RightUnlessLost ==
  ~OwnerTrashes /\ ~Overlap /\ (\A m \in moved : Receipted(m)) => NeverUndoesWrongThing

\* Undo puts back what was moved, and where it was, as far as its receipt and
\* the journal can tell.
RestoresRight == RestoresOwn /\ RightUnlessLost

\* Another action has moved the item of line e to where line e says.
MovedAgain(e) == \E m \in moved :
  /\ m.obj = e.receipt.ino /\ Place(m.to) = Place(e.receipt.to)
  /\ m.run # e.run \/ m.seq # e.seq

\* For receipts with an identity, OnDisk's split is exact while one run goes
\* at a time and only regrow moves items to the Trash: present is whatever is
\* still the moved item at the path it was moved to, and else only what Lstat
\* refuses to say that of ("a stat that fails any other way counts as
\* present").  (Two at once may journal their moves in the other order than they
\* moved: then Runs takes the later mover's copy for reused.  An item that came
\* back and was moved there again is the later line's.)
OnDiskExact == Overlap \/ OwnerTrashes \/ \A r \in Run : \A i \in Pending(journal, r) :
  LET rcpt == journal[i].receipt
      still == rcpt.ino \in At(where, rcpt.to)
      listed == i \in Present(journal, where, r)
  IN rcpt.ino # 0 /\ ~MovedAgain(journal[i]) =>
       (still => listed) /\ (listed => still \/ Refused(rcpt.to))

\* A landing move or restore replaces nothing: stage's "name that never
\* collides", Restore's "refuses to overwrite anything that reappeared".  (In
\* the engine, a staging given up on between its Lstat and its rename may.)
NothingOverwritten ==
  [][(moved' # moved \/ restored' # restored) /\ Engine = {} =>
       \A o \in Obj : where'[o] = Nowhere => where[o] = Nowhere]_vars

\* While Finder may still carry out an Empty Trash this run gave up on,
\* nothing this run moved to the Trash is there to be destroyed.
OwnMovesSurviveOwnEmpty == \A r \in emptying : \A m \in moved :
  m.run = r => ~IsTrash(m.to)

\* Between two actions, what `regrow history` counts from the journal is
\* what the executor's own Result says, part by part.
SummaryAgrees == \A r \in Run :
  pc[r] = "next" /\ Undone(journal, r) = {} =>
    LET s == Summary(journal, where, r)  res == result[r] IN
      /\ s.done = res.done /\ s.failed = res.failed
      /\ s.after_trash = res.trash /\ s.staged = res.staged /\ s.exported = res.exported
      /\ s.frees_now = res.bytes - res.trash - res.staged - res.exported
============================================================================

------------------------------ MODULE Aerials ------------------------------
(***************************************************************************)
(* internal/aerials: off and on of macOS's aerial downloads.  Each Off or  *)
(* On is a call in a process of its own (the command in a terminal, the    *)
(* app's engine); what it does as root is a script that outlives the call  *)
(* when the call is stopped or killed.  Between them are the owner, who    *)
(* picks aerials, macOS, whose catalogue may lose one, and the downloader, *)
(* which keeps the picks it read when it started.                          *)
(*                                                                         *)
(* A pick stands for its identifiers; the row numbers off deletes by are   *)
(* taken not to change between its read and its step.                      *)
(***************************************************************************)
EXTENDS Naturals

CONSTANTS Op,         \* the calls of Off and On
          Casts,      \* which calls there are, off or on, from a terminal or not,
                      \* and how often the owner and macOS do something meanwhile
          Pick,       \* the categories, subcategories and videos there may be
          Carryable   \* those whose identifiers on's SQL can carry

VARIABLES db,         \* the picks in Aerial.sqlite
          catalogue,  \* what macOS still offers
          loader,     \* the downloader, and the picks it read as it started
          record,     \* aerials.json, or NoRecord
          lock,       \* the calls that hold the lock beside it (one at most)
          op,         \* each call
          step,       \* its root step
          meanwhile,  \* how often the owner and macOS still may (a bound)
          owed        \* history: picks some off deleted that are not back

callVars == <<record, lock, op>>
macVars == <<db, catalogue, loader, meanwhile, owed>>
vars == <<callVars, step, macVars>>

Asleep == [runs |-> FALSE, reads |-> {}]
WorksFor(picks) == [runs |-> TRUE, reads |-> picks]
NoRecord == [picks |-> {}, restored |-> TRUE]

\* Exit statuses of a root step, and none for one that has not ended.
Done == "done"
Nothing == "nothing"
Lived == "lived"
Unknown == "unknown"
Running == "running"

Init == /\ db = Pick
        /\ catalogue = Pick
        /\ loader \in {Asleep, WorksFor(Pick)}
        /\ record = NoRecord
        /\ lock = {}
        /\ \E cast \in Casts :
             /\ op = [o \in Op |-> [kind |-> cast.call[o][1], terminal |-> cast.call[o][2],
                                   at |-> IF o \in cast.made THEN "idle" ELSE "over",
                                   before |-> {}, prev |-> NoRecord, exit |-> Running]]
             /\ meanwhile = cast.changes
        /\ step = [o \in Op |-> [at |-> "none", shell |-> TRUE, exit |-> Running]]
        /\ owed = {}

----------------------------------------------------------------------------
(* Off and On, from the first look to the record. *)

Off(o) == op[o].kind = "off"
Waiting == IF record.restored THEN {} ELSE record.picks

\* Whether the root step is wanted, by the picks and the record as they are.
Ready(o) == IF Off(o) THEN db # {} ELSE Waiting \cap Carryable # {}

To(o, at) == op' = [op EXCEPT ![o].at = at]
Over(o) == To(o, "over") /\ lock' = lock \ {o}

Look(o) ==
  /\ op[o].at = "idle"
  /\ To(o, IF Ready(o) THEN "lock" ELSE "over")
  /\ UNCHANGED <<record, lock, step, macVars>>

\* Without waiting: another off or on that holds it refuses this one.
TakeLock(o) ==
  /\ op[o].at = "lock"
  /\ IF lock = {} THEN To(o, "authorize") /\ lock' = {o}
                  ELSE To(o, "over") /\ UNCHANGED lock
  /\ UNCHANGED <<record, step, macVars>>

\* Once the password is given, the picks and the record are read again.
ReadAgain(o) ==
  /\ op[o].at = "authorize"
  /\ IF Ready(o)
     THEN /\ op' = [op EXCEPT ![o].at = IF Off(o) THEN "record" ELSE "journal",
                              ![o].before = db, ![o].prev = record]
          /\ UNCHANGED lock
     ELSE Over(o)
  /\ UNCHANGED <<record, step, macVars>>

\* Stopped, refused at the prompt, or the picks or the record unreadable.
Refuse(o) ==
  /\ op[o].at \in {"idle", "authorize"}
  /\ Over(o)
  /\ UNCHANGED <<record, step, macVars>>

\* One rename puts the whole record in place, or a full disk none of it.
WriteRecord(o) ==
  /\ op[o].at = "record"
  /\ \/ /\ record' = [picks |-> Waiting \cup op[o].before, restored |-> FALSE]
        /\ To(o, "journal")
        /\ UNCHANGED lock
     \/ Over(o) /\ UNCHANGED record
  /\ UNCHANGED <<step, macVars>>

\* A step that did not run, or said it changed nothing.
NothingDone(o) == /\ op' = [op EXCEPT ![o].at = "judge", ![o].exit = Nothing]
                  /\ UNCHANGED step

JournalStart(o) ==
  /\ op[o].at = "journal"
  /\ \/ To(o, "run") /\ UNCHANGED step
     \/ NothingDone(o)
  /\ UNCHANGED <<record, lock, macVars>>

\* Stopped first, could not start, refused by sudo or at the app's prompt;
\* a stop at that prompt has no status.
StartStep(o) ==
  /\ op[o].at = "run"
  /\ \/ /\ To(o, "wait")
        /\ step' = [step EXCEPT ![o].at = "begun"]
     \/ NothingDone(o)
     \/ /\ ~op[o].terminal
        /\ op' = [op EXCEPT ![o].at = "judge", ![o].exit = Unknown]
        /\ UNCHANGED step
  /\ UNCHANGED <<record, lock, macVars>>

StepReported(o) ==
  /\ op[o].at = "wait" /\ step[o].at = "ended"
  /\ op' = [op EXCEPT ![o].at = "judge", ![o].exit = step[o].exit]
  /\ UNCHANGED <<record, lock, step, macVars>>

\* (Variant: takes any step that did not do all it was asked for one.)
NotDone(o) == op[o].exit # Done

ChangedNothing(o) == op[o].exit = Nothing

\* After the step: off puts the record back if nothing was changed; on marks
\* it if nothing is left to put back.  The picks may be unreadable.
Judge(o) ==
  /\ op[o].at = "judge"
  /\ \/ /\ Off(o)
        /\ IF ChangedNothing(o) THEN To(o, "put back") /\ UNCHANGED lock ELSE Over(o)
     \/ /\ ~Off(o)
        /\ \E read \in BOOLEAN :
             IF \/ op[o].exit = Done
                \/ /\ ~ChangedNothing(o) /\ read
                   /\ op[o].prev.picks \cap Carryable \subseteq db
             THEN To(o, "mark") /\ UNCHANGED lock
             ELSE Over(o)
  /\ UNCHANGED <<record, step, macVars>>

\* Either write may fail.
PutBack(o) ==
  /\ op[o].at = "put back"
  /\ record' \in {op[o].prev, record}
  /\ Over(o)
  /\ UNCHANGED <<step, macVars>>

Mark(o) ==
  /\ op[o].at = "mark"
  /\ record' \in {[op[o].prev EXCEPT !.restored = TRUE], record}
  /\ Over(o)
  /\ UNCHANGED <<step, macVars>>

----------------------------------------------------------------------------
(* The root step.  It holds its lock for as long as one of its processes   *)
(* runs, sqlite3 without its shell included.                               *)

Holding(o) == step[o].at \in {"holding", "cleared"}

Ends(o, exit) == step' = [step EXCEPT ![o].at = "ended",
                                      ![o].exit = IF step[o].shell THEN exit ELSE Unknown]

TakeRootLock(o) ==
  /\ step[o].at = "begun"
  /\ \/ /\ \A p \in Op : ~Holding(p)
        /\ step' = [step EXCEPT ![o].at = "holding"]
     \/ Ends(o, Nothing)            \* rootLockWait has passed, or no lock file
  /\ UNCHANGED <<callVars, macVars>>

\* The transaction deletes the picks that were read.
Clear(o) ==
  /\ Off(o) /\ step[o].at = "holding"
  /\ db' = db \ op[o].before
  /\ owed' = owed \cup (db \cap op[o].before)
  /\ IF step[o].shell THEN step' = [step EXCEPT ![o].at = "cleared"] ELSE Ends(o, Unknown)
  /\ UNCHANGED <<callVars, catalogue, loader, meanwhile>>

\* (Variant: does not look whether it ended.)
StopLoaderUnseen(o) ==
  /\ step[o].at = "cleared"
  /\ loader' \in {Asleep, loader} /\ Ends(o, Done)
  /\ UNCHANGED <<callVars, db, catalogue, meanwhile, owed>>

\* The downloader is asked to stop, then killed, and may outlive that.
StopLoader(o) ==
  /\ step[o].at = "cleared"
  /\ \/ loader' = Asleep /\ Ends(o, Done)
     \/ loader # Asleep /\ UNCHANGED loader /\ Ends(o, Lived)
  /\ UNCHANGED <<callVars, db, catalogue, meanwhile, owed>>

PutIn(o) ==
  /\ ~Off(o) /\ step[o].at = "holding"
  /\ db' = db \cup (op[o].prev.picks \cap Carryable \cap catalogue)
  /\ owed' = owed \ db'
  /\ Ends(o, Done)
  /\ UNCHANGED <<callVars, catalogue, loader, meanwhile>>

RollBack(o) ==
  /\ step[o].at = "holding"
  /\ Ends(o, Nothing)
  /\ UNCHANGED <<callVars, macVars>>

----------------------------------------------------------------------------
(* Stops and kills. *)

\* In the app, or by sudo's own end, the call ends and the step goes on.  In
\* a terminal the step's shell is sent SIGTERM: while it waits for the root
\* lock its trap says that nothing changed, except in the moments around;
\* later the shell is gone, and sqlite3, if it runs, ends alone.
Stop(o) ==
  /\ op[o].at = "wait" /\ step[o].at # "ended"
  /\ \/ /\ op' = [op EXCEPT ![o].at = "judge", ![o].exit = Unknown]
        /\ UNCHANGED step
     \/ /\ op[o].terminal /\ step[o].at = "begun"
        /\ \E exit \in {Nothing, Unknown} : Ends(o, exit)
        /\ UNCHANGED op
     \/ /\ op[o].terminal /\ step[o].at = "holding"
        /\ op' = [op EXCEPT ![o].at = "judge", ![o].exit = Unknown]
        /\ step' = [step EXCEPT ![o].shell = FALSE]
     \/ /\ op[o].terminal /\ step[o].at = "cleared"
        /\ Ends(o, Unknown)
        /\ UNCHANGED op
  /\ UNCHANGED <<record, lock, macVars>>

Kill(o) ==
  /\ op[o].at \notin {"idle", "over"}
  /\ Over(o)
  /\ UNCHANGED <<record, step, macVars>>

----------------------------------------------------------------------------
(* The owner and macOS. *)

Change == meanwhile > 0 /\ meanwhile' = meanwhile - 1

OwnerPicks(p) ==
  /\ Change
  /\ p \in catalogue \ db
  /\ db' = db \cup {p}
  /\ owed' = owed \ {p}
  /\ UNCHANGED <<callVars, step, catalogue, loader>>

CatalogueLoses(p) ==
  /\ Change
  /\ catalogue' = catalogue \ {p}
  /\ db' = db \ {p}
  /\ owed' = owed \ {p}
  /\ UNCHANGED <<callVars, step, loader>>

LoaderStarts == /\ loader = Asleep
                /\ loader' = WorksFor(db)
                /\ UNCHANGED <<callVars, step, db, catalogue, meanwhile, owed>>

LoaderEnds == /\ loader # Asleep
              /\ loader' = Asleep
              /\ UNCHANGED <<callVars, step, db, catalogue, meanwhile, owed>>

Next == \/ \E o \in Op : \/ Look(o) \/ TakeLock(o) \/ ReadAgain(o) \/ Refuse(o)
                         \/ WriteRecord(o) \/ JournalStart(o) \/ StartStep(o)
                         \/ StepReported(o) \/ Judge(o) \/ PutBack(o) \/ Mark(o)
                         \/ TakeRootLock(o) \/ Clear(o) \/ StopLoader(o)
                         \/ PutIn(o) \/ RollBack(o)
                         \/ Stop(o) \/ Kill(o)
        \/ \E p \in Pick : OwnerPicks(p) \/ CatalogueLoses(p)
        \/ LoaderStarts \/ LoaderEnds

Spec == Init /\ [][Next]_vars

----------------------------------------------------------------------------
(* What off and on promise of the owner's picks. *)

\* An off whose call was stopped or killed while its root step may still run.
LeftBehind(o, p) == /\ Off(o) /\ p \in op[o].before
                    /\ op[o].at = "over" /\ op[o].exit \in {Running, Unknown}
\* And an on that took the pick for put back, then or before it was taken.
Overtaken(o, p) == /\ LeftBehind(o, p)
                   /\ \E q \in Op : /\ ~Off(q) /\ p \in op[q].prev.picks
                                    /\ op[q].exit \in {Done, Unknown}

\* A pick some off deleted and nothing brought back is in the record, which on
\* will put back, whatever failed, was stopped or killed, in any order of offs
\* and ons: unless on could not carry it, or a step left behind by its call
\* ran past an on that was done with the pick.
PicksKept ==
  \A p \in owed \cap Carryable : p \in Waiting \/ \E o \in Op : Overtaken(o, p)

\* The downloader goes on with a pick that is gone only while an off is at
\* stopping it, or one said that it outlived the stop, or had no one left to
\* stop it and said it does not know.
LoaderStopped ==
  \A p \in (loader.reads \ db) \cap catalogue :
    \E o \in Op : /\ Off(o) /\ p \in op[o].before
                  /\ step[o].at = "cleared" \/ step[o].exit \in {Lived, Unknown}
============================================================================

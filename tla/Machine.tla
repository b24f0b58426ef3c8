------------------------------ MODULE Machine ------------------------------
(***************************************************************************)
(* Three parts of regrow that write outside any plan, and share no state:  *)
(* the aerials switch, self update and the headroom history.  A behaviour  *)
(* is one part's; the others' variables stay unused.                       *)
(***************************************************************************)
EXTENDS Integers, Sequences, FiniteSets

CONSTANTS Op, Casts, Pick, Carryable,
          Proc, Releases, Interval, MaxDays, MaxPublish,
          Ticker, Scenes, Bands, GiB, Window, Retention, Slack, Now

\* A call is off or on, in a terminal or not; there is a release; a history
\* begins with lines as Tail reads them, older than the first tick.
ASSUME MachineAssumption ==
  /\ \A cast \in Casts : \A o \in Op : cast.call[o] \in {"off", "on"} \X BOOLEAN
  /\ Releases \in Nat \ {0}
  /\ IsFiniteSet(Ticker) /\ Now \in Nat /\ Bands \in Seq(Nat) /\ GiB \in Nat
  /\ Window \in Nat /\ Retention \in Nat /\ Window <= Retention
  /\ \A sc \in Scenes : /\ sc.readings \subseteq Int
                        /\ sc.earlier \in Seq([at : Int, free : Int])
                        /\ \A k \in DOMAIN sc.earlier : sc.earlier[k].at < Now

VARIABLES part,
          db, catalogue, loader, record, lock, op, step, meanwhile, owed,
          latest, assets, publishes, binary, day, stamp, proc, outrun,
          scene, clock, disk, name, tmp, tick, written, risked, told

A == INSTANCE Aerials
U == INSTANCE SelfUpdate
H == INSTANCE Headroom

aerialsVars == <<db, catalogue, loader, record, lock, op, step, meanwhile, owed>>
updateVars == <<latest, assets, publishes, binary, day, stamp, proc, outrun>>
headroomVars == <<scene, clock, disk, name, tmp, tick, written, risked, told>>
vars == <<part, aerialsVars, updateVars, headroomVars>>

NoAerials == /\ db = {} /\ catalogue = {} /\ loader = 0 /\ record = 0 /\ lock = {}
             /\ op = 0 /\ step = 0 /\ meanwhile = 0 /\ owed = {}
NoUpdates == /\ latest = 0 /\ assets = 0 /\ publishes = 0 /\ binary = 0
             /\ day = 0 /\ stamp = 0 /\ proc = 0 /\ outrun = {}
NoHeadroom == /\ scene = 0 /\ clock = 0 /\ disk = 0 /\ name = 0 /\ tmp = 0
              /\ tick = 0 /\ written = {} /\ risked = {} /\ told = {}

Init == \/ part = "aerials" /\ A!Init /\ NoUpdates /\ NoHeadroom
        \/ part = "updates" /\ U!Init /\ NoAerials /\ NoHeadroom
        \/ part = "headroom" /\ H!Init /\ NoAerials /\ NoUpdates

Next ==
  /\ UNCHANGED part
  /\ \/ part = "aerials" /\ A!Next /\ UNCHANGED <<updateVars, headroomVars>>
     \/ part = "updates" /\ U!Next /\ UNCHANGED <<aerialsVars, headroomVars>>
     \/ part = "headroom" /\ H!Next /\ UNCHANGED <<aerialsVars, updateVars>>

Spec == Init /\ [][Next]_vars

----------------------------------------------------------------------------
(* Each part's properties, of the behaviours that are its. *)

\* A pick that off deleted is in the record until it is back (Aerials).
PicksKept == part = "aerials" => A!PicksKept

\* The downloader does not go on with picks that off deleted (Aerials).
LoaderStopped == part = "aerials" => A!LoaderStopped

\* An update takes the binary to a newer release that says so (SelfUpdate).
InstallsForward == [][part = "updates" => U!Forward]_vars

\* A sample that was appended stays for the retention (Headroom).
HistoryKept == part = "headroom" => H!HistoryKept

\* A line that free space crosses is told of once (Headroom).
CrossingsTold == part = "headroom" => H!CrossingsTold
============================================================================

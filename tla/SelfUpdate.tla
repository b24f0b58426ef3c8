----------------------------- MODULE SelfUpdate -----------------------------
(***************************************************************************)
(* internal/selfupdate: `regrow update` and the daily check each command   *)
(* begins, any number of processes at once with no lock between them.      *)
(* Each replaces ~/.local/bin/regrow by a rename when the release GitHub   *)
(* names as the latest is newer than the build it runs itself.  Beside     *)
(* them releases are published, pulled and given other assets, and the     *)
(* owner may run the install line.                                         *)
(*                                                                         *)
(* A release stands for its version.  A build is the version it says, or   *)
(* Broken when it does not run or says no version.                         *)
(***************************************************************************)
EXTENDS Integers

CONSTANTS Proc,        \* the processes of regrow
          Releases,    \* releases are 1..Releases, oldest first
          Interval,    \* days between two automatic checks
          MaxDays,     \* bound: days that pass
          MaxPublish   \* bound: releases published, pulled or given other assets

VARIABLES latest,      \* the release the record names
          assets,      \* the build in each release's archive
          publishes,   \* how often either changed
          binary,      \* the build at ~/.local/bin/regrow
          day, stamp,  \* the clock, and when update.json says a check began
          proc,        \* each process
          outrun       \* history: those whose binary another replaced since they started

world == <<latest, assets, publishes>>
vars == <<world, binary, day, stamp, proc, outrun>>

Release == 1..Releases
Dev == 0               \* a build that is no release
Broken == -1
Never == 0

Init == /\ latest = 1
        /\ assets = [r \in Release |-> r]
        /\ publishes = 0
        /\ binary \in {Dev, 1}
        /\ day = 1
        /\ stamp \in {Never, 1, 2}       \* 2: written before the clock was set back
        /\ proc = [p \in Proc |-> [at |-> "idle", current |-> Dev, rel |-> Dev,
                                   sum |-> Broken, build |-> Broken]]
        /\ outrun = {}

To(p, at) == proc' = [proc EXCEPT ![p].at = at]

----------------------------------------------------------------------------
(* A process: Start and Update, up to the rename. *)

\* A command begins its daily check, `update` does not; either runs the
\* build that is there.
Runs(p) == /\ proc[p].at = "idle" /\ binary # Broken
           /\ \E at \in {"due", "owned"} :
                proc' = [proc EXCEPT ![p].at = at, ![p].current = binary]
           /\ UNCHANGED <<world, binary, day, stamp, outrun>>

Due == stamp = Never \/ day < stamp \/ day - stamp >= Interval

CheckDue(p) == /\ proc[p].at = "due"
               /\ To(p, IF Due /\ proc[p].current # Dev THEN "mark" ELSE "over")
               /\ UNCHANGED <<world, binary, day, stamp, outrun>>

\* A check counts from the moment it begins.
MarkChecked(p) == /\ proc[p].at = "mark"
                  /\ stamp' = day
                  /\ To(p, "owned")
                  /\ UNCHANGED <<world, binary, day, outrun>>

Owned(p) == /\ proc[p].at = "owned"
            /\ To(p, IF proc[p].current # Dev THEN "latest" ELSE "over")
            /\ UNCHANGED <<world, binary, day, stamp, outrun>>

\* (Variant: anything but the same version.)
OtherVersion(rel, current) == rel # current

\* Whether a release is installed over the build that runs.
Newer(rel, current) == rel > current

ReadLatest(p) ==
  /\ proc[p].at = "latest"
  /\ proc' = [proc EXCEPT ![p].rel = latest,
                          ![p].at = IF Newer(latest, proc[p].current) THEN "sums" ELSE "over"]
  /\ UNCHANGED <<world, binary, day, stamp, outrun>>

FetchSums(p) ==
  /\ proc[p].at = "sums"
  /\ proc' = [proc EXCEPT ![p].at = "archive", ![p].sum = assets[proc[p].rel]]
  /\ UNCHANGED <<world, binary, day, stamp, outrun>>

\* The archive must have the sum, whose release may have other assets by now.
FetchArchive(p) ==
  /\ proc[p].at = "archive"
  /\ LET build == assets[proc[p].rel]
     IN IF build = proc[p].sum
        THEN proc' = [proc EXCEPT ![p].at = "try", ![p].build = build]
        ELSE To(p, "over")
  /\ UNCHANGED <<world, binary, day, stamp, outrun>>

\* Written beside the binary, it must run and say the release's version.
Try(p) == /\ proc[p].at = "try"
          /\ To(p, IF proc[p].build = proc[p].rel THEN "rename" ELSE "over")
          /\ UNCHANGED <<world, binary, day, stamp, outrun>>

Replaced(by) == {q \in Proc \ by : proc[q].at # "idle"}

Rename(p) == /\ proc[p].at = "rename"
             /\ binary' = proc[p].build
             /\ outrun' = outrun \cup Replaced({p})
             /\ To(p, "over")
             /\ UNCHANGED <<world, day, stamp>>

\* Off, a file that is not the user's, any read or write that fails, the grace
\* over (Finish), or a kill: the binary stays as it was.
GivesUp(p) == /\ proc[p].at \notin {"idle", "over"}
              /\ To(p, "over")
              /\ UNCHANGED <<world, binary, day, stamp, outrun>>

----------------------------------------------------------------------------
(* GitHub, the owner and the clock. *)

Publishing == publishes < MaxPublish /\ publishes' = publishes + 1

\* The latest release is another: a new one, or an earlier one again.
Publish(r) == /\ Publishing
              /\ latest' = r /\ r # latest
              /\ UNCHANGED <<assets, binary, day, stamp, proc, outrun>>

Reupload(r, build) == /\ Publishing
                      /\ build # assets[r]
                      /\ assets' = [assets EXCEPT ![r] = build]
                      /\ UNCHANGED <<latest, binary, day, stamp, proc, outrun>>

\* It checks the sum and runs nothing.
InstallLine == /\ binary' = assets[latest] /\ binary' # binary
               /\ outrun' = outrun \cup Replaced({})
               /\ UNCHANGED <<world, day, stamp, proc>>

NextDay == /\ day < MaxDays
           /\ day' = day + 1
           /\ UNCHANGED <<world, binary, stamp, proc, outrun>>

Next == \/ \E p \in Proc : \/ Runs(p) \/ CheckDue(p) \/ MarkChecked(p) \/ Owned(p)
                           \/ ReadLatest(p) \/ FetchSums(p) \/ FetchArchive(p)
                           \/ Try(p) \/ Rename(p) \/ GivesUp(p)
        \/ \E r \in Release : \/ Publish(r)
                              \/ \E build \in {r, Broken, Dev} : Reupload(r, build)
        \/ InstallLine \/ NextDay

Spec == Init /\ [][Next]_vars

----------------------------------------------------------------------------
(* What an update may do to the binary. *)

Forward ==
  \A p \in Proc : proc[p].at = "rename" /\ proc'[p].at = "over" /\ binary' # binary =>
    /\ binary' = proc[p].rel
    /\ binary' < binary => p \in outrun

\* What an update installs runs and says the version of the release it was
\* offered as, whatever became of its assets between the checksums and the
\* archive.  It takes the binary back to an older release only when something
\* else replaced it after this regrow started (two updaters at once have no
\* lock: the slower may come last), never because a release was pulled.
InstallsForward == [][Forward]_vars
=============================================================================

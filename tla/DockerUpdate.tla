---------------------------- MODULE DockerUpdate ----------------------------
(***************************************************************************)
(* The docker-update-download query: the update Docker Desktop staged and  *)
(* left, unfinished or not newer than what is installed.  seen[source] is  *)
(* the world at the moment the query read that source.                     *)
(***************************************************************************)
EXTENDS Integers, Sequences, FiniteSets, Maps

Quiet == 1                     \* dockerUpdateQuiet
NoApp == -2                    \* no Docker.app there
Unfinished == -1               \* one without an Info.plist
Unreadable == 0                \* one whose version cannot be read
Dir == "in_progress"

ScanSources == <<"staged", "/Applications", "~/Applications", "cwds", "args", "mapped", "usage">>
RecheckSources == ScanSources

\* installed: the first of the two places that has one with a version.
InstalledAt(seen, p) == seen[p].apps[p]
Installed(seen) == IF InstalledAt(seen, "/Applications") \in {NoApp, Unfinished}
                   THEN InstalledAt(seen, "~/Applications") ELSE InstalledAt(seen, "/Applications")
NotNewer(seen) == LET v == seen["staged"].staged IN
    \/ v = Unfinished
    \/ v > Unreadable /\ Installed(seen) > Unreadable /\ v <= Installed(seen)

Used(seen) == \/ seen["cwds"].cwd \/ seen["args"].arg
              \/ "staged" \in seen["mapped"].runs \/ "Docker" \in seen["mapped"].runs
Judge(seen) ==
    /\ seen["staged"].there /\ NotNewer(seen)
    /\ \A k \in {"cwds", "args", "mapped"} : k \notin seen[k].unread
    /\ ~Used(seen)
    /\ seen["usage"].there /\ ~seen["usage"].partial
    /\ seen["usage"].now - seen["usage"].last >= Quiet

Offers(seen) == {d \in {Dir} : Judge(seen)}
LetsGo(seen, d) == d = Dir /\ Judge(seen)

-----------------------------------------------------------------------------
\* The machine: Docker Desktop downloads, installs and runs.
FirstPlace(w) == IF w.apps["/Applications"] > Unfinished THEN "/Applications" ELSE "~/Applications"
Waiting(w) == w.staged > Unreadable /\ w.staged > w.apps[FirstPlace(w)]
Uses(w) ==
    {<<Dir, "waiting", w.staged, p>> : p \in {q \in {FirstPlace(w)} : Waiting(w)}}
    \cup {<<Dir, r, "runs">> : r \in w.runs}
    \cup {<<Dir, u>> : u \in
       {x \in {"what it is cannot be told"} : w.staged \in {NoApp, Unreadable}}
       \cup {x \in {"a process works in it"} : w.cwd} \cup {x \in {"a process names it"} : w.arg}
       \cup {x \in {"being written"} : w.now - w.last < Quiet} \cup {x \in {"cannot be read"} : w.partial}
       \cup w.unread}

Base == [there |-> TRUE, staged |-> 2,
         apps |-> [p \in {"/Applications", "~/Applications"} |-> IF p = "/Applications" THEN 2 ELSE NoApp],
         cwd |-> FALSE, arg |-> FALSE, runs |-> {}, last |-> 0, partial |-> FALSE, now |-> 3, unread |-> {}]
Starts == {Base, [Base EXCEPT !.staged = Unfinished, !.apps["/Applications"] = NoApp], [Base EXCEPT !.staged = 3],
           [Base EXCEPT !.apps["/Applications"] = Unfinished, !.apps["~/Applications"] = 2]}
Changes(w) ==
    {[w EXCEPT !.staged = v, !.last = w.now, !.there = TRUE] : v \in {NoApp, Unfinished, Unreadable, 2, 3}}
    \cup {[w EXCEPT !.apps[p] = v] : p \in DOMAIN w.apps, v \in {NoApp, 1, 2, 3}}
    \cup {[w EXCEPT !.runs = r] : r \in SUBSET {"staged", "Docker"}}
    \cup {[w EXCEPT !.cwd = ~@], [w EXCEPT !.arg = ~@], [w EXCEPT !.partial = ~@], [w EXCEPT !.there = FALSE, !.staged = NoApp],
          [w EXCEPT !.now = @ + 1]}
    \cup {[w EXCEPT !.unread = {k}] : k \in {"cwds", "args", "mapped"}}
Without(w, d) == [w EXCEPT !.there = FALSE, !.staged = NoApp]
=============================================================================

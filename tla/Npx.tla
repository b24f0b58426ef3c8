-------------------------------- MODULE Npx --------------------------------
(***************************************************************************)
(* The npx-cache query: npx's folders no process uses and npx did not run  *)
(* for a week; each run stamps its folder.  seen[source] is the world at   *)
(* the moment the query read that source.                                  *)
(***************************************************************************)
EXTENDS Integers, Sequences, FiniteSets, Maps

Quiet == 2   \* npxQuiet

ScanSources == <<"list", "cwds", "args", "usage">>
RecheckSources == <<"cwds", "args", "usage">>

ProcsTold(seen) == "lsof" \notin seen["cwds"].unread /\ "ps" \notin seen["args"].unread
KeepNpx(seen, d) == d = "escaped" \/ d \in seen["cwds"].cwds \cup seen["args"].args
Judge(seen, d) ==
    /\ ~KeepNpx(seen, d)
    /\ d \in DOMAIN seen["usage"].dirs /\ ~seen["usage"].dirs[d].partial
    /\ seen["usage"].now - seen["usage"].dirs[d].last >= Quiet

Offers(seen) == {d \in DOMAIN seen["list"].dirs : ProcsTold(seen) /\ Judge(seen, d)}
LetsGo(seen, d) == ProcsTold(seen) /\ Judge(seen, d)

-----------------------------------------------------------------------------
\* The machine.  A server npx started goes on after npx: it works in the
\* folder, names it, or does neither (it renamed itself) and was run lately.
Uses(w) ==
    UNION {{<<d, u>> : u \in
              {x \in {"works in it"} : d \in w.cwds} \cup {x \in {"names it"} : d \in w.args}
              \cup {x \in {"ran lately"} : w.now - w.dirs[d].last < Quiet}
              \cup {x \in {"cannot be read"} : w.dirs[d].partial} \cup w.unread} : d \in DOMAIN w.dirs}

Starts == {[dirs |-> [d \in {"a", "b", "escaped"} |-> [last |-> 0, partial |-> FALSE]],
            cwds |-> {"b"}, args |-> {}, now |-> 3, unread |-> {}]}
Changes(w) ==
    {[w EXCEPT !.cwds = c] : c \in SUBSET {"a", "b"}} \cup {[w EXCEPT !.args = c] : c \in SUBSET {"a"}}
    \* npx runs what a folder has, or installs it again
    \cup {[w EXCEPT !.dirs = Put(@, d, [last |-> w.now, partial |-> FALSE]), !.args = @ \cup {d}] : d \in {"a", "b"}}
    \cup {[w EXCEPT !.dirs[d].partial = ~@] : d \in DOMAIN w.dirs} \cup {[w EXCEPT !.now = @ + 1]}
    \cup {[w EXCEPT !.unread = {k}] : k \in {"lsof", "ps"}}
Without(w, d) == [w EXCEPT !.dirs = Drop(@, d)]
=============================================================================

------------------------------- MODULE Guard -------------------------------
(***************************************************************************)
(* unless_running and hold: the items a rule keeps while a program, an app *)
(* or anything inside runs, or while its hold check keeps them.  A scan    *)
(* reads the processes once for all its guarded rules; the pre-action of   *)
(* each item reads them again.  seen[source] is the world at the moment    *)
(* they were read.                                                         *)
(***************************************************************************)
EXTENDS Integers, Sequences, FiniteSets, Maps

\* One rule of every kind, each with one item.
Items == {"of a command", "of an app", "inside", "of a hold"}

ScanSources == <<"mapped", "cwds", "args", "plists", "status">>
RecheckSources == ScanSources

\* runningSet: what is mapped, by file, bundle and folder; a bundle's ids.
ReadRunning(seen) == \A k \in {"mapped", "cwds", "args"} : k \notin seen[k].unread
Commands(seen) == {p \in seen["mapped"].procs : p.kind = "the command"}
Bundles(seen) == {p \in seen["mapped"].procs : p.kind = "a bundle"}
\* An Info.plist that is gone makes no app; one unreadable is an error.
InfoPlist(seen, b) == seen["plists"].plists[b.bundle]
InfoUnread(seen) == \E b \in Bundles(seen) : InfoPlist(seen, b) = "unreadable"
InsideUsed(seen) == \/ "inside" \in seen["cwds"].cwds \cup seen["args"].args
                    \/ \E p \in seen["mapped"].procs : p.kind = "inside"
Keeps(seen, i) ==
    CASE i = "of a command" -> Commands(seen) # {}
      [] i = "of an app" -> InfoUnread(seen) \/ \E b \in Bundles(seen) : InfoPlist(seen, b) = "the app"
      [] i = "inside" -> "real path" \in seen["plists"].unread \/ InsideUsed(seen)

\* held: only off and absent let the videos go; no answer keeps them.
Held(seen) == seen["status"].picks \notin {"off", "absent"}

Goes(seen, i) == IF i = "of a hold" THEN ~Held(seen) ELSE ReadRunning(seen) /\ ~Keeps(seen, i)
Offers(seen) == {i \in Items : Goes(seen, i)}
LetsGo(seen, i) == Goes(seen, i)

-----------------------------------------------------------------------------
\* The machine.
Process(kind, bundle) == [kind |-> kind, bundle |-> bundle]
Uses(w) ==
    {<<"of a command", "runs">> : p \in {q \in w.procs : q.kind = "the command"}}
    \cup {<<"of an app", p.bundle, w.plists[p.bundle]>> : p \in {q \in w.procs : q.kind = "a bundle" /\ w.plists[q.bundle] # "another"}}
    \cup {<<"inside", "maps">> : p \in {q \in w.procs : q.kind = "inside"}}
    \cup {<<"inside", "works in it">> : x \in w.cwds} \cup {<<"inside", "names it">> : x \in w.args}
    \cup {<<"of a hold", "picked", w.picks>> : x \in {w.picks} \ {"off", "absent"}}
    \cup {<<"inside", k>> : k \in w.unread}
    \cup (Items \ {"of a hold", "inside"}) \X (w.unread \ {"real path"})

Base == [procs |-> {}, cwds |-> {}, args |-> {},
         plists |-> [b \in {"A.app", "A.app/B.app"} |-> IF b = "A.app" THEN "the app" ELSE "another"],
         picks |-> "off", unread |-> {}]
Starts == {Base, [Base EXCEPT !.picks = "on"], [Base EXCEPT !.picks = "absent", !.procs = {Process("a bundle", "A.app/B.app")}]}
Changes(w) ==
    {[w EXCEPT !.procs = p] : p \in {{}, {Process("the command", "")}, {Process("inside", "")}, {Process("a bundle", "A.app")},
                                     {Process("a bundle", "A.app/B.app"), Process("a bundle", "A.app")}}}
    \cup {[w EXCEPT !.cwds = {"inside"}], [w EXCEPT !.args = {"inside"}], [w EXCEPT !.cwds = {}]}
    \cup {[w EXCEPT !.plists["A.app"] = "unreadable"]}
    \cup {[w EXCEPT !.picks = s] : s \in {"on", "off", "unmeasured", "error"}}
    \cup {[w EXCEPT !.unread = {k}] : k \in {"mapped", "cwds", "args", "real path"}}
Without(w, i) == w
=============================================================================

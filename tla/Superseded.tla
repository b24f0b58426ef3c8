----------------------------- MODULE Superseded -----------------------------
(***************************************************************************)
(* The codex-releases and cursor-agent-versions queries: builds a tool     *)
(* keeps beside the one its links name.  An updater writes a new build and *)
(* then moves the links, one after the other.  seen[source] is the world   *)
(* at the moment the query read that source.                               *)
(***************************************************************************)
EXTENDS Integers, Sequences, FiniteSets, Maps

Quiet == 1                                \* buildQuiet
Pointers == {"cursor-agent", "agent"}     \* buildStore.pointers
NoNumber == 0                             \* a build whose name starts with none

ScanSources == <<"list", "cursor-agent", "agent", "cwds", "args", "mapped", "usage">>
RecheckSources == ScanSources

Build(num, last) == [num |-> num, last |-> last, partial |-> FALSE]
Builds(seen) == seen["list"].builds

\* live: where each link that is there leads; untold when one leads nowhere
\* or outside, or none is there.
Target(seen, p) == seen[p].links[p]
Live(seen) == {Target(seen, p) : p \in Pointers} \ {"absent"}
LiveTold(seen) == Live(seen) # {} /\ Live(seen) \subseteq DOMAIN Builds(seen)

Used(seen, b) == b \in seen["cwds"].cwds \cup seen["args"].args \cup seen["mapped"].mapped
Comparable(m, n) == m # NoNumber /\ n # NoNumber /\ m # n
NewerBuild(m, n) == Comparable(m, n) /\ m > n
Older(seen, b) == \A l \in Live(seen) : /\ Comparable(Builds(seen)[b].num, Builds(seen)[l].num)
                                        /\ ~NewerBuild(Builds(seen)[b].num, Builds(seen)[l].num)
Judge(seen, b) ==
    /\ ~Used(seen, b) /\ Older(seen, b)
    /\ b \in DOMAIN seen["usage"].builds /\ ~seen["usage"].builds[b].partial
    /\ seen["usage"].now - seen["usage"].builds[b].last >= Quiet

Offers(seen) == {b \in DOMAIN Builds(seen) \ Live(seen) :
                   /\ LiveTold(seen) /\ Judge(seen, b)
                   /\ \A k \in {"cwds", "args", "mapped"} : k \notin seen[k].unread}
LetsGo(seen, b) == b \in Offers(seen)

-----------------------------------------------------------------------------
\* The machine.
Uses(w) ==
    UNION {{<<b, "named by", p>> : p \in {q \in Pointers : w.links[q] = b}}
           \cup {<<b, "led astray", p, w.links[p]>> : p \in
                    {q \in Pointers : w.links[q] \notin DOMAIN w.builds \cup {"absent"}}}
           \cup {<<b, "an update waits", p, w.links[p]>> : p \in
                    {q \in Pointers : /\ w.links[q] \in DOMAIN w.builds \ {b}
                                      /\ w.builds[b].num >= w.builds[w.links[q]].num}}
           \cup {<<b, u>> : u \in
              {x \in {"no link"} : \A p \in Pointers : w.links[p] = "absent"}
              \cup {x \in {"a process works in it"} : b \in w.cwds} \cup {x \in {"a process names it"} : b \in w.args}
              \cup {x \in {"a process maps it"} : b \in w.mapped}
              \cup {x \in {"being written"} : w.now - w.builds[b].last < Quiet}
              \cup {x \in {"cannot be read"} : w.builds[b].partial} \cup w.unread} : b \in DOMAIN w.builds}

Base == [builds |-> [b \in {"1-a", "2-b", "3-c"} |-> Build(CASE b = "1-a" -> 1 [] b = "2-b" -> 2 [] b = "3-c" -> 3, 0)],
         links |-> [p \in Pointers |-> "2-b"], cwds |-> {}, args |-> {}, mapped |-> {}, now |-> 3, unread |-> {}]
Starts == {Base, [Base EXCEPT !.links["agent"] = "absent"], [Base EXCEPT !.builds["1-a"].num = NoNumber]}
Changes(w) ==
    {[w EXCEPT !.links[p] = b] : p \in Pointers, b \in DOMAIN w.builds \cup {"absent", "outside"}}
    \cup {[w EXCEPT !.cwds = {b}] : b \in DOMAIN w.builds} \cup {[w EXCEPT !.args = {b}] : b \in DOMAIN w.builds}
    \cup {[w EXCEPT !.mapped = {b}] : b \in DOMAIN w.builds} \cup {[w EXCEPT !.builds["1-a"].last = w.now] : x \in {"1-a"} \cap DOMAIN w.builds}
    \cup {[w EXCEPT !.builds[b].partial = TRUE] : b \in DOMAIN w.builds}
    \cup {[w EXCEPT !.builds = Drop(@, b)] : b \in DOMAIN w.builds}
    \cup {[w EXCEPT !.unread = {k}] : k \in {"cwds", "args", "mapped"}}
Without(w, b) == [w EXCEPT !.builds = Drop(@, b)]
=============================================================================

------------------------------ MODULE Recheck ------------------------------
(***************************************************************************)
(* internal/scanner's queries beside an owner who goes on working.  A scan *)
(* reads a query's sources one after another and offers what nothing of    *)
(* them keeps; it may be hours old when a run comes to an item, so right   *)
(* before the move the item's recheck reads the sources again, in its own  *)
(* order, and refuses what is kept now.  Each source is read at a moment   *)
(* of its own, and the world may change between any two.                   *)
(*                                                                         *)
(* A query is a module of operators: the worlds it may start in (Starts),  *)
(* what may happen there (Changes), what is in use and by whom (Uses), and *)
(* from the code: its sources in order, what it offers having seen them,   *)
(* and whether its recheck lets an item go.                                *)
(***************************************************************************)
EXTENDS Naturals, Sequences, FiniteSets, SequencesExt, Maps

CONSTANTS Query,      \* the queries there are
          MaxChanges, \* how often the world changes in a behaviour
          MaxRechecks \* how many items of a scan are rechecked

VARIABLES query,      \* the one this is about
          world,
          changes,    \* how often the world changed
          offered,    \* what the scan offered, and when it began
          job,        \* the recheck under way: the sources read so far
          went        \* what a recheck let go: with what kept it all the while

vars == <<query, world, changes, offered, job, went>>

F == INSTANCE Fnm
A == INSTANCE Agents
D == INSTANCE Downloads
B == INSTANCE BuildOutput
G == INSTANCE Worktrees
K == INSTANCE Casks
L == INSTANCE AppLeftovers
N == INSTANCE Npx
S == INSTANCE Superseded
U == INSTANCE DockerUpdate
R == INSTANCE Guard

\* Each query's own.
Starts(q) == CASE q = "fnm-node-versions" -> F!Starts
               [] q = "agent-scratch" -> A!Starts
               [] q = "downloaded-installers" -> D!Starts
               [] q = "build-output" -> B!Starts
               [] q = "git-worktrees" -> G!Starts
               [] q = "brew-cask-records" -> K!Starts
               [] q = "app-leftovers" -> L!Starts
               [] q = "npx-cache" -> N!Starts
               [] q = "superseded-builds" -> S!Starts
               [] q = "docker-update-download" -> U!Starts
               [] q = "unless_running" -> R!Starts
Changes(q, w) == CASE q = "fnm-node-versions" -> F!Changes(w)
                   [] q = "agent-scratch" -> A!Changes(w)
                   [] q = "downloaded-installers" -> D!Changes(w)
                   [] q = "build-output" -> B!Changes(w)
                   [] q = "git-worktrees" -> G!Changes(w)
                   [] q = "brew-cask-records" -> K!Changes(w)
                   [] q = "app-leftovers" -> L!Changes(w)
                   [] q = "npx-cache" -> N!Changes(w)
                   [] q = "superseded-builds" -> S!Changes(w)
                   [] q = "docker-update-download" -> U!Changes(w)
                   [] q = "unless_running" -> R!Changes(w)
Uses(q, w) == CASE q = "fnm-node-versions" -> F!Uses(w)
                [] q = "agent-scratch" -> A!Uses(w)
                [] q = "downloaded-installers" -> D!Uses(w)
                [] q = "build-output" -> B!Uses(w)
                [] q = "git-worktrees" -> G!Uses(w)
                [] q = "brew-cask-records" -> K!Uses(w)
                [] q = "app-leftovers" -> L!Uses(w)
                [] q = "npx-cache" -> N!Uses(w)
                [] q = "superseded-builds" -> S!Uses(w)
                [] q = "docker-update-download" -> U!Uses(w)
                [] q = "unless_running" -> R!Uses(w)
Without(q, w, i) == CASE q = "fnm-node-versions" -> F!Without(w, i)
                      [] q = "agent-scratch" -> A!Without(w, i)
                      [] q = "downloaded-installers" -> D!Without(w, i)
                      [] q = "build-output" -> B!Without(w, i)
                      [] q = "git-worktrees" -> G!Without(w, i)
                      [] q = "brew-cask-records" -> K!Without(w, i)
                      [] q = "app-leftovers" -> L!Without(w, i)
                      [] q = "npx-cache" -> N!Without(w, i)
                      [] q = "superseded-builds" -> S!Without(w, i)
                      [] q = "docker-update-download" -> U!Without(w, i)
                      [] q = "unless_running" -> R!Without(w, i)
ScanSources(q) == CASE q = "fnm-node-versions" -> F!Sources
                    [] q = "agent-scratch" -> A!ScanSources
                    [] q = "downloaded-installers" -> D!ScanSources
                    [] q = "build-output" -> B!ScanSources
                    [] q = "git-worktrees" -> G!ScanSources
                    [] q = "brew-cask-records" -> K!ScanSources
                    [] q = "app-leftovers" -> L!ScanSources
                    [] q = "npx-cache" -> N!ScanSources
                    [] q = "superseded-builds" -> S!ScanSources
                    [] q = "docker-update-download" -> U!ScanSources
                    [] q = "unless_running" -> R!ScanSources
RecheckSources(q) == CASE q = "fnm-node-versions" -> F!Sources
                       [] q = "agent-scratch" -> A!RecheckSources
                       [] q = "downloaded-installers" -> D!RecheckSources
                       [] q = "build-output" -> B!RecheckSources
                       [] q = "git-worktrees" -> G!RecheckSources
                       [] q = "brew-cask-records" -> K!RecheckSources
                       [] q = "app-leftovers" -> L!RecheckSources
                       [] q = "npx-cache" -> N!RecheckSources
                       [] q = "superseded-builds" -> S!RecheckSources
                       [] q = "docker-update-download" -> U!RecheckSources
                       [] q = "unless_running" -> R!RecheckSources
Offers(q, seen) == CASE q = "fnm-node-versions" -> F!Offers(seen)
                     [] q = "agent-scratch" -> A!Offers(seen)
                     [] q = "downloaded-installers" -> D!Offers(seen)
                     [] q = "build-output" -> B!Offers(seen)
                     [] q = "git-worktrees" -> G!Offers(seen)
                     [] q = "brew-cask-records" -> K!Offers(seen)
                     [] q = "app-leftovers" -> L!Offers(seen)
                     [] q = "npx-cache" -> N!Offers(seen)
                     [] q = "superseded-builds" -> S!Offers(seen)
                     [] q = "docker-update-download" -> U!Offers(seen)
                     [] q = "unless_running" -> R!Offers(seen)
LetsGo(q, seen, i) == CASE q = "fnm-node-versions" -> F!LetsGo(seen, i)
                        [] q = "agent-scratch" -> A!LetsGo(seen, i)
                        [] q = "downloaded-installers" -> D!LetsGo(seen, i)
                        [] q = "build-output" -> B!LetsGo(seen, i)
                        [] q = "git-worktrees" -> G!LetsGo(seen, i)
                        [] q = "brew-cask-records" -> K!LetsGo(seen, i)
                        [] q = "app-leftovers" -> L!LetsGo(seen, i)
                        [] q = "npx-cache" -> N!LetsGo(seen, i)
                        [] q = "superseded-builds" -> S!LetsGo(seen, i)
                        [] q = "docker-update-download" -> U!LetsGo(seen, i)
                        [] q = "unless_running" -> R!LetsGo(seen, i)

Idle == [item |-> "none", steady |-> {}, seen |-> <<>>]
Order == RecheckSources(query)
Next1 == Order[Cardinality(DOMAIN job.seen) + 1]
AllRead == Cardinality(DOMAIN job.seen) = Len(Order)

Init == /\ query \in Query
        /\ world \in Starts(query)
        /\ changes = 0 /\ offered = [done |-> FALSE, items |-> {}, at |-> 0]
        /\ job = Idle /\ went = {}

\* The owner, their programs and the clock.
Change == /\ changes < MaxChanges /\ offered.done
          /\ \E w \in Changes(query, world) :
                 /\ w # world
                 /\ world' = w
                 /\ job' = [job EXCEPT !.steady = {u \in @ : u \in Uses(query, w)}]
          /\ changes' = changes + 1
          /\ UNCHANGED <<query, offered, went>>

\* The scan, its sources read at one moment: what it offers may be old by
\* any changes when its recheck comes.
Scan == /\ ~offered.done
        /\ LET seen == [k \in ToSet(ScanSources(query)) |-> world] IN
           offered' = [done |-> TRUE, items |-> Offers(query, seen), at |-> changes]
        /\ UNCHANGED <<query, world, changes, job, went>>

StartRecheck(i) == /\ job.item = "none" /\ Cardinality(went) < MaxRechecks
                   /\ job' = [item |-> i, seen |-> <<>>,
                               steady |-> {u \in Uses(query, world) : u[1] = i}]
                   /\ offered' = [offered EXCEPT !.items = @ \ {i}]
                   /\ UNCHANGED <<query, world, changes, went>>

ReadSource == /\ job.item # "none" /\ ~AllRead
              /\ job' = [job EXCEPT !.seen = Put(@, Next1, world)]
              /\ UNCHANGED <<query, world, changes, offered, went>>

\* The recheck answers; what it lets go the executor takes.
EndRecheck ==
    /\ job.item # "none" /\ AllRead
    /\ LET goes == LetsGo(query, job.seen, job.item) IN
       /\ went' = went \cup {[item |-> job.item, goes |-> goes, calm |-> changes = offered.at,
                              keptBy |-> job.steady]}
       /\ world' = IF goes THEN Without(query, world, job.item) ELSE world
    /\ job' = Idle
    /\ UNCHANGED <<query, changes, offered>>

Next == \/ Change \/ Scan \/ ReadSource \/ EndRecheck
        \/ \E i \in offered.items : StartRecheck(i)

Spec == Init /\ [][Next]_vars

-----------------------------------------------------------------------------
\* Whatever kept an item from before its recheck began until it ended keeps
\* it: no use is missed because the sources are read one by one.
UsedStays == \A g \in went : g.goes => g.keptBy = {}

\* With nothing changed since the scan began, the recheck lets go whatever
\* the scan offered: the two read the machine by different code, and a scan
\* must not offer what its recheck always refuses.
RecheckAgrees == \A g \in went : g.calm => g.goes
=============================================================================

-------------------------------- MODULE Fnm --------------------------------
(***************************************************************************)
(* The fnm-node-versions query: which installed Node versions nothing      *)
(* names.  A world is what the query may find on the machine; a version is *)
(* known by its folder's name.  seen[source] is the world at the moment    *)
(* the query read that source.                                             *)
(***************************************************************************)
EXTENDS Integers, Sequences, FiniteSets, SequencesExt, Maps

Node == {"v18.1.0", "v18.2.0", "v20.1.0"}
Num == [v \in Node |-> CASE v = "v18.1.0" -> <<18, 1, 0>> [] v = "v18.2.0" -> <<18, 2, 0>> [] v = "v20.1.0" -> <<20, 1, 0>>]
Older(u, v) == \E i \in 1..3 : Num[u][i] < Num[v][i] /\ \A j \in 1..i-1 : Num[u][j] = Num[v][j]

\* What one version file says: a version in full or in part, the newest,
\* nothing, an alias's name, several versions; or it is a link: to nothing
\* (a disk not mounted), or to what is gone from the link's own folder.
Spec(is, want) == [is |-> is, want |-> want]

\* What keeps a survey from telling, before it asks what names a version.
Sources == <<"versions", "aliases", "versionFiles", "launchdJobs", "processes">>
FnmDirs(w) == CASE w.env = "gone" -> {}
                [] w.env = "set" -> {"FNM_DIR"}
                [] OTHER -> w.places
DirUntold(w) == \/ w.env = "relative"
                \/ /\ w.env = "unset"
                   /\ "places" \in w.unread \/ Cardinality(w.places) > 1
Owned(w) == w.mine
ListNodeVersions(w) == IF FnmDirs(w) = {} THEN {} ELSE w.versions
Untold(w) == \/ DirUntold(w)
             \/ /\ FnmDirs(w) # {}
                /\ ~Owned(w) \/ "versions" \in w.unread
             \/ ListNodeVersions(w) # {} /\ ~w.fnm

\* keepSpec: what a spec resolves to among the versions vs; whether it can be.
Fits(v, s) == \/ s.is = "newest"
              \/ s.is = "version" /\ IsPrefix(s.want, Num[v])
KeepSpec(vs, s) == {v \in vs : Fits(v, s) /\ \A u \in vs : Fits(u, s) => ~Older(v, u)}
NotUnderstood(s, aliasSet) ==
    \/ s.is \in {"several", "lostLink"}
    \/ s.is = "alias" /\ s.want \notin aliasSet

\* The sources, each as what it keeps of vs and whether it is an error.
Aliases(w, vs) == vs \cap {a[2] : a \in w.aliases}
AliasSet(w) == {a[1] : a \in w.aliases}
VersionFiles(w, vs) == UNION {KeepSpec(vs, s) : s \in w.pins}
LaunchdJob(job, vs) ==
    (vs \cap job.into)
    \cup UNION {KeepSpec(vs, s) : s \in job.leads
                    \cup {t \in job.words : job.runsFnm /\ t.is = "version"}}
LaunchdJobs(w, vs) == UNION {LaunchdJob(job, vs) : job \in w.jobs}
Processes(w, vs) == vs \cap w.mapped

Failed(seen) ==
    LET names == AliasSet(seen["aliases"]) IN
    \/ \E k \in DOMAIN seen \cap {"aliases", "versionFiles", "launchdJobs", "processes"} :
           k \in seen[k].unread
    \/ \E s \in seen["versionFiles"].pins : NotUnderstood(s, names)
    \/ \E job \in seen["launchdJobs"].jobs : \E s \in job.leads : NotUnderstood(s, names)

\* survey, and what the scan and the recheck make of it.
Unreferenced(seen) ==
    LET vs == ListNodeVersions(seen["versions"])
        keptBy == UNION {Aliases(seen["aliases"], vs), VersionFiles(seen["versionFiles"], vs),
                         LaunchdJobs(seen["launchdJobs"], vs), Processes(seen["processes"], vs)}
    IN IF Untold(seen["versions"]) \/ vs = {} \/ Failed(seen) THEN {} ELSE vs \ keptBy

Offers(seen) == Unreferenced(seen)
LetsGo(seen, v) == v \in Unreferenced(seen)

-----------------------------------------------------------------------------
\* The machine.

\* What fnm or the owner would miss, and what regrow must not guess at.
Resolved(w, s) == {v \in w.versions : Fits(v, s) /\ \A u \in w.versions : Fits(u, s) => ~Older(v, u)}
Unread(w) == w.unread \ (IF w.env = "unset" THEN {} ELSE {"places"})
Uses(w) ==
    {<<v, "alias">> : v \in {a[2] : a \in w.aliases}}
    \cup UNION {{<<v, "pin", s>> : v \in Resolved(w, s)} : s \in w.pins}
    \cup UNION {{<<v, "job", job>> : v \in job.into \cup UNION {Resolved(w, s) : s \in job.leads}} : job \in w.jobs}
    \cup {<<v, "process">> : v \in w.mapped}
    \cup w.versions \X (Unread(w)
                        \cup {k \in {"not ours"} : ~w.mine}
                        \cup {k \in {"which fnm"} : w.env = "unset" /\ Cardinality(w.places) > 1})

Base == [env |-> "unset", places |-> {"share"}, mine |-> TRUE, fnm |-> TRUE, unread |-> {},
         versions |-> Node, aliases |-> {<<"default", "v20.1.0">>}, pins |-> {}, jobs |-> {},
         mapped |-> {}]
Pins == {Spec("version", <<18>>), Spec("version", <<18, 1>>), Spec("newest", <<>>), Spec("none", <<>>),
         Spec("alias", "work"), Spec("several", <<>>), Spec("lostLink", <<>>), Spec("staleLink", <<>>)}
Jobs == {[into |-> {"v18.1.0"}, runsFnm |-> FALSE, words |-> {}, leads |-> {}],
         [into |-> {}, runsFnm |-> TRUE, words |-> {Spec("version", <<18>>)}, leads |-> {}],
         [into |-> {}, runsFnm |-> FALSE, words |-> {Spec("version", <<18>>)},
          leads |-> {Spec("version", <<18, 1>>)}]}
Starts == {Base, [Base EXCEPT !.pins = {Spec("version", <<18>>)}],
           [Base EXCEPT !.jobs = {CHOOSE j \in Jobs : j.into # {}}],
           [Base EXCEPT !.env = "set", !.places = {}], [Base EXCEPT !.env = "relative"],
           [Base EXCEPT !.env = "gone"], [Base EXCEPT !.mine = FALSE],
           [Base EXCEPT !.places = {"share", "home"}], [Base EXCEPT !.fnm = FALSE]}
Changes(w) ==
    {[w EXCEPT !.pins = p] : p \in {{}} \cup {{s} : s \in Pins}}
    \cup {[w EXCEPT !.jobs = {j}] : j \in Jobs}
    \cup {[w EXCEPT !.aliases = @ \cup {<<"work", v>>}] : v \in Node}
    \cup {[w EXCEPT !.aliases = {}]}
    \cup {[w EXCEPT !.mapped = m] : m \in {{}} \cup {{v} : v \in w.versions}}
    \cup {[w EXCEPT !.versions = @ \ {v}] : v \in w.versions}
    \cup {[w EXCEPT !.unread = {k}] : k \in {"places", "versions", "aliases", "versionFiles", "launchdJobs", "processes"}}
Without(w, v) == [w EXCEPT !.versions = @ \ {v}]
=============================================================================

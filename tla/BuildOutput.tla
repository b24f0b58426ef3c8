---------------------------- MODULE BuildOutput ----------------------------
(***************************************************************************)
(* The build-output query: dist, .next, .turbo and .venv folders of        *)
(* projects nobody works on.  git is asked about each, and a submodule     *)
(* counts as part of the project that holds it.  seen[source] is the world *)
(* at the moment the query read that source.                               *)
(***************************************************************************)
EXTENDS Integers, Sequences, FiniteSets, Maps

Idle == 2             \* buildOutputIdle
NoTime == 99          \* a HEAD or a reflog that cannot be read
MaxSuperprojects == 8

\* A build folder: the work tree it is in, which ignore pattern covers it
\* last, whether the index has entries in it and beside it, whether it holds
\* a repository, what else its name and its files say.
Folder(tree, ignored, tracked, beside, repo, kind) ==
    [tree |-> tree, ignored |-> ignored, tracked |-> tracked, beside |-> beside,
     repo |-> repo, kind |-> kind]
\* A work tree: the superproject git names, what it answers about the top
\* level, when HEAD moved, when a file below changed, where its git dir is.
Tree(super, head, newest, gitdir) ==
    [super |-> super, head |-> head, newest |-> newest, gitdir |-> gitdir, top |-> TRUE]

Sources == <<"roots", "processes", "projectOf", "ignored", "tracked", "superprojects",
             "head", "tree", "usage">>
ScanSources == Sources
RecheckSources == Sources

\* walkRoots and walked: with a root that cannot be resolved, none is walked.
Walked(seen) == IF "roots" \in seen["roots"].unread THEN {} ELSE DOMAIN seen["roots"].folders

\* projectOf: the nearest .git entry above, no higher than the root.
Top(seen, f) == LET fs == seen["projectOf"].folders IN IF f \in DOMAIN fs THEN fs[f].tree ELSE "none"

\* ignored and tracked, and the tests of judge that need no more.
Ignored(folder) == folder.ignored = "a rule that names it" /\ folder.kind # "below its name"
Untracked(folder) == ~folder.tracked /\ folder.beside
Candidate(seen, f) ==
    /\ f \in DOMAIN seen["ignored"].folders \cap DOMAIN seen["tracked"].folders
    /\ {"ignored", "tracked"} \cap (seen["ignored"].unread \cup seen["tracked"].unread) = {}
    /\ seen["ignored"].folders[f].kind \notin {"leading colon", "venv without pyvenv.cfg"}
    /\ Ignored(seen["ignored"].folders[f]) /\ Untracked(seen["tracked"].folders[f])

\* The climb: the work tree and the superprojects git names above it.
Climb(seen, f) ==
    LET ts == seen["superprojects"].trees
        Up[n \in 0..MaxSuperprojects] ==
            IF n = 0 THEN <<Top(seen, f)>>
            ELSE LET below == Up[n - 1] IN
                 IF ts[below[Len(below)]].super \in DOMAIN ts
                 THEN Append(below, ts[below[Len(below)]].super) ELSE below
    IN Up[MaxSuperprojects]
Project(seen, f) == LET c == Climb(seen, f) IN c[Len(c)]
ItsOwn(tree) == tree.gitdir = "its own"                  \* else submoduleGitDir
Climbed(seen, f) ==
    LET ts == seen["superprojects"].trees IN
    /\ Top(seen, f) \in DOMAIN ts
    /\ \A i \in 1..Len(Climb(seen, f)) : ts[Climb(seen, f)[i]].top
    /\ ts[Project(seen, f)].super = "none"               \* none outside the roots
    /\ ItsOwn(ts[Project(seen, f)])

\* What lies below a folder: git names superprojects, the disk nests them.
Below(w, t) == {u \in DOMAIN w.trees : u \in {t} \cup w.holds[t]}
WorkIn(seen, f) == seen["processes"].at \cap Below(seen["superprojects"], Project(seen, f)) # {}

Active(seen, t) == seen["head"].now - t < Idle
HeadMoved(seen, f) ==
    LET c == Climb(seen, f) IN
    \E i \in 1..Len(c) : LET h == seen["head"].trees[c[i]].head IN h = NoTime \/ Active(seen, h)
TreeNewest(seen, f) ==
    \/ "tree" \in seen["tree"].unread
    \/ \E t \in Below(seen["tree"], Project(seen, f)) : Active(seen, seen["tree"].trees[t].newest)
Holds(seen, f) == \/ "usage" \in seen["usage"].unread
                  \/ f \notin DOMAIN seen["usage"].folders
                  \/ seen["usage"].folders[f].repo

Judge(seen, f) ==
    /\ Top(seen, f) \in DOMAIN seen["projectOf"].trees
    /\ "projectOf" \notin seen["projectOf"].unread
    /\ seen["ignored"].trees[Top(seen, f)].top           \* workTree
    /\ Candidate(seen, f) /\ Climbed(seen, f)
    /\ "processes" \notin seen["processes"].unread /\ ~WorkIn(seen, f)
    /\ ~HeadMoved(seen, f) /\ ~TreeNewest(seen, f) /\ ~Holds(seen, f)

Offers(seen) == {f \in Walked(seen) : Judge(seen, f)}
LetsGo(seen, f) == f \in Walked(seen) /\ Judge(seen, f)

-----------------------------------------------------------------------------
\* The machine.  Work anywhere in the outermost project keeps what is built
\* there; so does whatever git would not make again.
Within(w, t) == {u \in DOMAIN w.trees : t \in w.holds[u]}
Outermost(w, t) == CHOOSE u \in {t} \cup Within(w, t) : Within(w, u) = {}
Uses(w) ==
    UNION {LET f == w.folders[d]  all == Below(w, Outermost(w, f.tree)) IN
           {<<d, "a process", t>> : t \in all \cap w.at}
           \cup {<<d, "an edit", t>> : t \in {u \in all : w.now - w.trees[u].newest < Idle}}
           \cup {<<d, "a commit", t>> : t \in {u \in {f.tree} \cup Within(w, f.tree) :
                                                w.now - w.trees[u].head < Idle}}
           \cup {<<d, u>> : u \in
              {x \in {"tracked"} : f.tracked} \cup {x \in {"a repository"} : f.repo}
              \cup {x \in {"not ignored"} : f.ignored # "a rule that names it"}
              \cup {x \in {"nothing tracked beside it"} : ~f.beside} \cup {x \in {"not build output"} : f.kind # "dist"}
              \cup {x \in {"a project unknown"} : w.trees[Outermost(w, f.tree)].gitdir # "its own"}
              \cup w.unread} : d \in DOMAIN w.folders}

Dist(tree) == Folder(tree, "a rule that names it", FALSE, TRUE, FALSE, "dist")
Base == [folders |-> [d \in {"app/dist", "app/sub/dist"} |-> Dist(IF d = "app/dist" THEN "app" ELSE "sub")],
         trees |-> [app |-> Tree("none", 1, 1, "its own"), sub |-> Tree("app", 1, 1, "a submodule's")],
         holds |-> [app |-> {"sub"}, sub |-> {}], at |-> {}, now |-> 4, unread |-> {}]
\* A submodule git cannot match in its superproject's index.
Unmatched == [Base EXCEPT !.trees["sub"].super = "none"]
Starts == {Base, Unmatched, [Base EXCEPT !.folders["app/dist"].kind = "leading colon"],
           [Base EXCEPT !.folders["app/dist"].kind = "below its name"]}
Changes(w) ==
    {[w EXCEPT !.at = a] : a \in {{}, {"app"}, {"sub"}}}
    \cup {[w EXCEPT !.trees[t].newest = w.now] : t \in DOMAIN w.trees}
    \cup {[w EXCEPT !.trees[t].head = w.now] : t \in DOMAIN w.trees}
    \cup {[w EXCEPT !.trees["app"].head = NoTime], [w EXCEPT !.trees["sub"].top = FALSE], [w EXCEPT !.now = @ + 1]}
    \cup UNION {{[w EXCEPT !.folders[d].tracked = ~@], [w EXCEPT !.folders[d].repo = ~@],
                 [w EXCEPT !.folders[d].beside = ~@], [w EXCEPT !.folders[d].ignored = "another rule"],
                 [w EXCEPT !.folders[d].kind = "venv without pyvenv.cfg"]} : d \in {"app/sub/dist"} \cap DOMAIN w.folders}
    \cup {[w EXCEPT !.unread = {k}] : k \in {"roots", "processes", "ignored", "tree", "usage"}}
Without(w, f) == [w EXCEPT !.folders = Drop(@, f)]
=============================================================================

----------------------------- MODULE Worktrees -----------------------------
(***************************************************************************)
(* The git-worktrees query: linked worktrees that are finished, and the    *)
(* recheck right before `git worktree remove`, which itself refuses        *)
(* modified and untracked files but deletes ignored ones, edits hidden     *)
(* from status, and a detached HEAD's commits.  seen[source] is the world  *)
(* at the moment the query read that source.                               *)
(***************************************************************************)
EXTENDS Integers, Sequences, FiniteSets, Maps

Idle == 2                                        \* worktreeIdle
Reach == [c \in {"c1", "c2", "f1", "0"} |-> IF c = "0" THEN {} ELSE {"c1", c}]

\* A linked worktree: as git lists it, what status --ignored shows, a tracked
\* file hidden from status, an operation under way, a submodule, its times.
Worktree(branch, head) ==
    [branch |-> branch, head |-> head, listed |-> "plain", status |-> {}, hidden |-> "none",
     inProgress |-> FALSE, submodule |-> FALSE, newest |-> 1, moved |-> 1]

ScanSources == <<"list", "refs", "tree", "admin", "status", "ls-files", "modules">>
RecheckSources == <<"admin", "status", "ls-files", "branch", "contains">>

Worktrees(w) == DOMAIN w.trees

\* firstUnclean: what the removal would destroy without git refusing.
BuildDir == {"an ignored dist/"}                 \* worktreeBuildDirs
Clean(seen, t) ==
    /\ t \in Worktrees(seen["admin"]) /\ ~seen["admin"].trees[t].inProgress
    /\ t \in Worktrees(seen["status"]) /\ "status" \notin seen["status"].unread
    /\ seen["status"].trees[t].status \subseteq BuildDir
    /\ t \in Worktrees(seen["ls-files"])
    /\ seen["ls-files"].trees[t].hidden \notin {"assume-unchanged", "skip-worktree, on disk"}

\* finishedWorktrees: the refs a merged HEAD is reachable from.
BaseRefs == {"refs/remotes/origin/main", "refs/heads/main"}
Bases(w) == {r \in DOMAIN w.refs : r \in BaseRefs \/ r = w.originHD}
BranchOf == [r \in BaseRefs \cup {"refs/remotes/origin/dev"} |-> IF r \in BaseRefs THEN "refs/heads/main" ELSE "refs/heads/dev"]
BaseBranches(w) == {BranchOf[r] : r \in Bases(w)}
Merged(w, head) == \E r \in Bases(w) : head \in Reach[w.refs[r]]
CandidateTree(seen, t) ==
    LET wt == seen["list"].trees[t] IN
    wt.listed = "plain" /\ wt.head # "0" /\ wt.branch \notin BaseBranches(seen["refs"])
HasSubmodule(seen, t) == t \notin Worktrees(seen["modules"]) \/ seen["modules"].trees[t].submodule
\* A HEAD that moved lately, or a file that changed.
Moved(w, t) == w.now - w.trees[t].moved < Idle
Changed(w, t) == "tree" \in w.unread \/ w.now - w.trees[t].newest < Idle
Finished(seen, t) ==
    /\ Bases(seen["refs"]) # {} /\ CandidateTree(seen, t)
    /\ LET wt == seen["list"].trees[t] IN
       Merged(seen["refs"], wt.head) \/ wt.branch \in seen["refs"].gone
    /\ t \in Worktrees(seen["tree"]) /\ ~Changed(seen["tree"], t) /\ ~Moved(seen["tree"], t)
    /\ Clean(seen, t) /\ ~HasSubmodule(seen, t)

\* CheckWorktreeClean: clean, and on a branch or at a commit one contains.
OnABranch(seen, t) == seen["branch"].trees[t].branch # "none"
Contained(w, c) == \E r \in DOMAIN w.refs : c \in Reach[w.refs[r]]
CheckWorktreeClean(seen, t) ==
    /\ Clean(seen, t)
    /\ t \in Worktrees(seen["branch"])
    /\ \/ OnABranch(seen, t)
       \/ t \in Worktrees(seen["contains"])
          /\ Contained(seen["contains"], seen["contains"].trees[t].head)

Offers(seen) == {t \in Worktrees(seen["list"]) : Finished(seen, t)}
LetsGo(seen, t) == CheckWorktreeClean(seen, t)

-----------------------------------------------------------------------------
\* The machine: what the removal would delete that nothing else holds.
Uses(w) ==
    UNION {LET wt == w.trees[t] IN
           {<<t, u>> : u \in
              {x \in {"an ignored .env"} : x \in wt.status}
              \cup {x \in {"a hidden edit"} : wt.hidden \in {"assume-unchanged", "skip-worktree, on disk"}}
              \cup {x \in {"a rebase"} : wt.inProgress}
              \cup {x \in {"commits no ref holds"} : wt.branch = "none" /\ ~Contained(w, wt.head)}
              \cup (w.unread \ {"tree"})} : t \in Worktrees(w)}

Base == [trees |-> [one |-> Worktree("refs/heads/feature", "f1"), two |-> Worktree("none", "c1")],
         refs |-> [r \in {"refs/heads/main", "refs/heads/feature"} |-> IF r = "refs/heads/main" THEN "c2" ELSE "f1"],
         originHD |-> "none", gone |-> {"refs/heads/feature"}, now |-> 4, unread |-> {}]
Starts == {Base, [Base EXCEPT !.refs = Put(@, "refs/remotes/origin/dev", "f1"),
                              !.originHD = "refs/remotes/origin/dev", !.gone = {}],
           [Base EXCEPT !.trees["one"] = Worktree("refs/heads/main", "c2")],
           [Base EXCEPT !.trees["two"].head = "0"], [Base EXCEPT !.trees["two"].listed = "locked"]}
Changes(w) ==
    UNION {{[w EXCEPT !.trees[t].status = {x}] : x \in {"an ignored dist/", "an ignored .env", "a modified file"}}
           \cup {[w EXCEPT !.trees[t].hidden = h] : h \in {"none", "assume-unchanged", "skip-worktree, on disk", "sparse"}}
           \cup {[w EXCEPT !.trees[t].inProgress = ~@, !.trees[t].moved = w.now],
                 [w EXCEPT !.trees[t].newest = w.now], [w EXCEPT !.trees[t].submodule = TRUE],
                 \* a checkout of a commit, a commit there, a branch made of it
                 [w EXCEPT !.trees[t].branch = "none", !.trees[t].moved = w.now],
                 [w EXCEPT !.trees[t].head = "f1", !.trees[t].moved = w.now],
                 [w EXCEPT !.trees[t].branch = "refs/heads/new", !.trees[t].moved = w.now,
                           !.refs = Put(@, "refs/heads/new", w.trees[t].head)]} : t \in Worktrees(w)}
    \* a branch is deleted that no worktree has checked out
    \cup {[w EXCEPT !.refs = Drop(@, "refs/heads/feature")] :
            x \in {y \in {1} : \A t \in Worktrees(w) : w.trees[t].branch # "refs/heads/feature"}}
    \cup {[w EXCEPT !.unread = {k}] : k \in {"status", "tree"}} \cup {[w EXCEPT !.now = @ + 1]}
\* git worktree remove refuses modified and untracked files.
Without(w, t) == IF "a modified file" \in w.trees[t].status THEN w
                 ELSE [w EXCEPT !.trees = Drop(@, t)]
=============================================================================

---------------------------- MODULE AppLeftovers ----------------------------
(***************************************************************************)
(* The app-leftovers query: the folders under ~/Library that are named by  *)
(* an id nothing installed has.  A run's rechecks share for a minute what  *)
(* one of them read of the installed apps (ownersMemo).  seen[source] is   *)
(* the world at the moment the query read that source.                     *)
(***************************************************************************)
EXTENDS Integers, Sequences, FiniteSets, Maps

Idle == 3                                        \* appLeftoversIdle
MadeByMacOS == {"Containers", "Group Containers"}
AppSigns == {"Containers", "Group Containers"}

\* A folder: where, the id its name spells ("" for a product's name), what
\* product it or its id names, its newest change.
Folder(loc, id, label, last) == [loc |-> loc, id |-> id, label |-> label, last |-> last, partial |-> FALSE]
VendorOf == [i \in {"com.acme.draw", "com.acme.pen", "group.com.acme.draw", "net.ink.ink", "org.draw", "com.note", ""} |->
               CASE i \in {"com.acme.draw", "com.acme.pen", "group.com.acme.draw"} -> "com.acme"
                 [] i = "net.ink.ink" -> "net.ink"
                 [] OTHER -> i]
CoreID == [i \in {"com.acme.draw", "group.com.acme.draw", "net.ink.ink", ""} |->
             IF i = "group.com.acme.draw" THEN "com.acme.draw" ELSE i]
\* An app bundle: its id, the strings of its entitlements, its product name,
\* its place (an app folder, one Spotlight knows, elsewhere), whether it runs,
\* whether it came in the last minute.
App(id, entitled, label, place) ==
    [id |-> id, entitled |-> entitled, label |-> label, place |-> place, runs |-> FALSE, new |-> FALSE]

ScanSources == <<"folders", "user", "procs", "apps", "pointers", "system", "usage", "marks">>
RecheckSources == <<"folders", "user", "procs", "apps", "pointers", "usage", "marks">>

\* folders: those of the maker when it is about one.
Maker(w, f) == VendorOf[w.folders[f].id]
Of(seen, only) == LET w == seen["folders"] IN
    {f \in DOMAIN w.folders : \/ only = "" \/ f = only
                              \/ Maker(w, only) # "" /\ Maker(w, f) = Maker(w, only)}
Listed(w) == {f \in DOMAIN w.folders : w.folders[f].loc \notin w.unread}
Signed(w) == {CoreID[w.folders[f].id] : f \in {g \in Listed(w) : w.folders[g].loc \in AppSigns}}

\* installed, and owners: what a recheck takes from the memo.
Running(w) == {a \in DOMAIN w.apps : w.apps[a].runs}
InfoPlists(w) == {a \in DOMAIN w.apps : w.apps[a].place = "/Applications"}
Spotlight(w) == {a \in DOMAIN w.apps : w.apps[a].place = "Spotlight"}
AppBundles(w, running) == (Spotlight(w) \cup running) \cap DOMAIN w.apps
Installed(w, running) == [a \in InfoPlists(w) \cup AppBundles(w, running) |-> w.apps[a]]
AppsTold(w) == w.unread \cap {"app folders", "codesign"} = {}
\* saw: the memo read every bundle that runs now.  SawEnough trusts it
\* whatever runs (Variant: of Saw).
SawEnough(memo, running) == DOMAIN memo # {}
Saw(memo, running) == running \subseteq DOMAIN memo
Owners(seen, recheck) ==
    LET running == Running(seen["procs"])
        memo == seen["apps"].memo IN
    IF recheck /\ memo # <<>> /\ Saw(memo, running) THEN memo ELSE Installed(seen["apps"], running)

\* match: owned (no leftover), exact, or only fuzzy.
Entitled(in, f) == \E a \in DOMAIN in : f.id \in in[a].entitled
Owned(in, f) == Entitled(in, f) \/ \E a \in DOMAIN in : f.id = in[a].id
MakerInstalled(in, f) == \E a \in DOMAIN in : VendorOf[in[a].id] = VendorOf[f.id]
ProductInstalled(in, f) == \E a \in DOMAIN in : in[a].label = f.label
AnApps(seen, f, recheck) == recheck \/ f.loc \in MadeByMacOS \/ CoreID[f.id] \in Signed(seen["folders"])
Exact(seen, in, f, recheck) ==
    f.id # "" /\ ~Owned(in, f) /\ ~MakerInstalled(in, f) /\ ~ProductInstalled(in, f) /\ AnApps(seen, f, recheck)
\* A folder named for an installed product is no leftover.
Leftover(in, f) == IF f.id = "" THEN ~ProductInstalled(in, f) ELSE ~Owned(in, f)

\* look: why a folder is in use; the settings file of its maker, if it was
\* listed and is there when it is looked at.
Pointers(seen) == seen["procs"].cwd \cup seen["pointers"].jobs
PointedAt(seen, f) == f \in Pointers(seen)
Marks(seen) == {m \in seen["marks"].marks : \E k \in seen["folders"].marks : k.maker = m.maker}
MarksChanged(seen, f) ==
    \E m \in Marks(seen) :
        m.maker = Maker(seen["folders"], f) /\ seen["marks"].now - m.last < Idle
Looked(seen, in, only) == {f \in Of(seen, only) \cap DOMAIN seen["usage"].folders :
                             Leftover(in, seen["folders"].folders[f])}
InUse(seen, f) == \/ PointedAt(seen, f) \/ seen["usage"].folders[f].partial
                  \/ seen["usage"].now - seen["usage"].folders[f].last < Idle
                  \/ MarksChanged(seen, f)
MakersInUse(seen, in, f, only) == \E g \in Looked(seen, in, only) :
    InUse(seen, g) /\ Maker(seen["folders"], g) = Maker(seen["folders"], f)

\* judge: every folder, or the one at only with its maker's others.
SameUser(seen) == "other user" \notin seen["user"].unread
OwnersTold(seen, recheck) ==
    AppsTold(seen["apps"]) \/ (recheck /\ Owners(seen, TRUE) = seen["apps"].memo /\ seen["apps"].memo # <<>>)
Told(seen, recheck) ==
    /\ "settings" \notin seen["folders"].unread /\ SameUser(seen)
    /\ "lsof" \notin seen["procs"].unread /\ OwnersTold(seen, recheck)
    /\ "jobs" \notin seen["pointers"].unread
    /\ recheck \/ "system" \notin seen["system"].unread
Judge(seen, only) ==
    LET recheck == only # ""
        in == Owners(seen, recheck) IN
    {f \in Looked(seen, in, only) \cap Listed(seen["folders"]) :
       /\ Told(seen, recheck)
       /\ Exact(seen, in, seen["folders"].folders[f], recheck)
       /\ ~InUse(seen, f) /\ ~MakersInUse(seen, in, f, only)
       /\ seen["folders"].unread \cap {"Containers", "Caches"} = {}}
Offers(seen) == Judge(seen, "")
LetsGo(seen, f) == f \in DOMAIN seen["folders"].folders /\ f \in Judge(seen, f)

-----------------------------------------------------------------------------
\* The machine.  An app keeps the folders of its ids, groups, maker and name
\* from the minute after it is installed, or while it runs: but not where it
\* replaced one that the memo read there, which saw takes for it.
Bundle(a) == [a EXCEPT !.runs = FALSE, !.new = FALSE]
Replaces(w, a) == a \in DOMAIN w.memo /\ Bundle(w.memo[a]) # Bundle(w.apps[a])
Owning(w, f) == {a \in DOMAIN w.apps :
                   /\ \/ f.id = w.apps[a].id \/ f.id \in w.apps[a].entitled
                      \/ f.label = w.apps[a].label \/ VendorOf[f.id] = VendorOf[w.apps[a].id]
                   /\ \/ w.apps[a].runs /\ ~Replaces(w, a)
                      \/ ~w.apps[a].new /\ w.apps[a].place # "elsewhere"}
\* A maker's leftovers go together; one an app owns, or did this minute, keeps
\* only itself.
OwnedNow(w, g) == Owned(w.apps, w.folders[g]) \/ Owned(w.memo, w.folders[g])
Together(w, f) == {g \in DOMAIN w.folders :
                     g = f \/ (Maker(w, f) # "" /\ Maker(w, g) = Maker(w, f) /\ ~OwnedNow(w, g))}
Uses(w) ==
    UNION {{<<f, "owned", a, Bundle(w.apps[a])>> : a \in Owning(w, w.folders[f])}
           \cup {<<f, "changed", g>> : g \in {h \in Together(w, f) : w.now - w.folders[h].last < Idle}}
           \cup {<<f, "unreadable", g>> : g \in {h \in Together(w, f) : w.folders[h].partial}}
           \cup {<<f, "a process", g>> : g \in Together(w, f) \cap w.cwd}
           \cup {<<f, "a job", g>> : g \in Together(w, f) \cap w.jobs}
           \cup {<<f, u>> : u \in
              {x \in {"its settings changed"} : \E m \in w.marks :
                       m.maker = Maker(w, f) /\ w.now - m.last < Idle}
              \cup (w.unread \ {"system", "app folders", "codesign"})
              \cup {k \in w.unread : w.memo = <<>> /\ k \in {"app folders", "codesign"}}} : f \in DOMAIN w.folders}

FolderNames == {"Caches/com.acme.draw", "Containers/com.acme.draw", "Group/group.com.acme.draw",
                "Caches/net.ink.ink", "Support/Ink"}
Base == [folders |-> [f \in FolderNames |->
             CASE f = "Caches/com.acme.draw" -> Folder("Caches", "com.acme.draw", "draw", 0)
               [] f = "Containers/com.acme.draw" -> Folder("Containers", "com.acme.draw", "draw", 0)
               [] f = "Group/group.com.acme.draw" -> Folder("Group Containers", "group.com.acme.draw", "draw", 0)
               [] f = "Caches/net.ink.ink" -> Folder("Caches", "net.ink.ink", "ink", 0)
               [] f = "Support/Ink" -> Folder("Application Support", "", "ink", 0)],
         apps |-> <<>>, memo |-> <<>>, cwd |-> {}, jobs |-> {}, marks |-> {}, unread |-> {}, now |-> 4]
Starts == {Base, [Base EXCEPT !.unread = {"Containers"}], [Base EXCEPT !.unread = {"system"}],
           [Base EXCEPT !.apps = Put(@, "Draw", App("com.acme.draw", {}, "draw", "elsewhere")),
                        !.memo = Put(@, "Note", App("com.note", {}, "note", "/Applications"))]}
Bundles == {App("com.acme.draw", {}, "draw", "/Applications"), App("com.acme.pen", {}, "pen", "/Applications"),
            App("org.draw", {}, "draw", "Spotlight"), App("net.ink.ink", {"group.com.acme.draw"}, "ink", "elsewhere")}
\* An app comes, goes, starts; the run's earlier recheck reads the apps; a
\* minute passes, and half the idle time.
Changes(w) ==
    {[w EXCEPT !.apps = Put(@, "Draw", [b EXCEPT !.new = TRUE, !.runs = r])] : b \in Bundles, r \in BOOLEAN}
    \cup {[w EXCEPT !.apps[a].runs = ~@] : a \in DOMAIN w.apps} \cup {[w EXCEPT !.apps = <<>>]}
    \cup {[w EXCEPT !.memo = Installed(w, Running(w))]}
    \cup {[w EXCEPT !.memo = <<>>, !.apps = [a \in DOMAIN @ |-> [@[a] EXCEPT !.new = FALSE]], !.now = @ + n] : n \in {0, 1}}
    \cup UNION {{[w EXCEPT !.folders[f].last = w.now], [w EXCEPT !.cwd = {f}], [w EXCEPT !.jobs = {f}]} :
                  f \in DOMAIN w.folders \ {"Caches/com.acme.draw", "Caches/net.ink.ink"}}
    \cup UNION {{[w EXCEPT !.folders[f].partial = ~@], [w EXCEPT !.folders = Drop(@, f)]} :
                  f \in DOMAIN w.folders \cap {"Containers/com.acme.draw", "Support/Ink"}}
    \cup {[w EXCEPT !.marks = {[maker |-> "com.acme", last |-> w.now]}]}
    \cup {[w EXCEPT !.unread = {k}] : k \in {"Caches", "settings", "other user", "lsof", "app folders", "codesign", "jobs"}}
Without(w, f) == [w EXCEPT !.folders = Drop(@, f)]
=============================================================================

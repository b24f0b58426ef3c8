------------------------------- MODULE Casks -------------------------------
(***************************************************************************)
(* The brew-cask-records query: casks whose every app is gone from where   *)
(* Homebrew put it and from the app folders.  What brew would do at their  *)
(* uninstall decides which of two rules has the record.  seen[source] is   *)
(* the world at the moment the query read that source.                     *)
(***************************************************************************)
EXTENDS Integers, Sequences, FiniteSets, Maps

Folders == {"/Applications", "~/Applications"}   \* appFolders

\* A cask: its apps as brew names their places (in the app folder, or a whole
\* path), the app folder its record names, what its artifacts say.
Cask(apps, appdir, steps, links) == [apps |-> apps, appdir |-> appdir, steps |-> steps, links |-> links]
InAppdir(name) == [name |-> name, folder |-> "appdir"]
Whole(name, folder) == [name |-> name, folder |-> folder]

Sources == <<"info", "caskroom", "links", "records", "places", "usage">>
ScanSources == Sources
RecheckSources == Sources

\* Two calls of brew; the record's folder.
Casks(seen) == IF {"info", "caskroom"} \cap (seen["info"].unread \cup seen["caskroom"].unread) # {}
                  \/ "a shape brew has not had" \in seen["info"].unread
               THEN <<>> ELSE seen["info"].casks

\* What the uninstall does besides quitting the app, or may need a password
\* for: its steps, install steps run again, a link in a folder of root's.
PlainSteps == {"quit"}
LinkNeedsPassword(seen, link) == link \in seen["links"].links /\ link \in seen["links"].roots
NeedsPassword(seen, c) ==
    \/ Casks(seen)[c].steps \ PlainSteps # {}
    \/ \E link \in Casks(seen)[c].links : LinkNeedsPassword(seen, link)

\* appdir: the record's app folder, or unknown: unreadable, or not there.
Appdir(seen, c) == LET cs == seen["records"].casks IN
                   IF c \in DOMAIN cs /\ "records" \notin seen["records"].unread
                      /\ cs[c].appdir \in seen["records"].folders
                   THEN cs[c].appdir ELSE "unknown"

\* Where an app would be; appScan looks at each root and one folder down.
Place(app, appdir) == IF app.folder = "appdir" THEN appdir ELSE app.folder
Roots(app, appdir) == Folders \cup {appdir, Place(app, appdir)}
Mounted(seen, app, appdir) == Place(app, appdir) \in seen["places"].folders
Told(seen, folder) == folder \in seen["places"].folders => folder \notin seen["places"].unread
Has(seen, folder, app) == \E f \in seen["places"].found :
                             f.name = app.name /\ f.root = folder /\ f.deep <= 1
Gone(seen, app, appdir) ==
    /\ Mounted(seen, app, appdir)
    /\ \A r \in Roots(app, appdir) : Told(seen, r) /\ ~Has(seen, r, app)

Judge(seen, c) ==
    /\ Casks(seen)[c].apps # {}
    /\ Appdir(seen, c) # "unknown"
    /\ \A app \in Casks(seen)[c].apps : Gone(seen, app, Appdir(seen, c))
    /\ c \in DOMAIN seen["usage"].casks
Plain(seen) == {c \in DOMAIN Casks(seen) : Judge(seen, c) /\ ~NeedsPassword(seen, c)}

Offers(seen) == Plain(seen)
LetsGo(seen, c) == c \in Plain(seen)

-----------------------------------------------------------------------------
\* The machine.  A record is in use while an app of its cask is anywhere a
\* user keeps apps, and while that cannot be told.
Somewhere(w, app, appdir) == {f \in w.found : /\ f.name = app.name /\ f.deep <= 1
                                              /\ f.root \in Roots(app, appdir)}
Uses(w) ==
    UNION {LET dir == w.casks[c].appdir IN
           {<<c, "is there", app, dir>> : app \in {a \in w.casks[c].apps : Somewhere(w, a, dir) # {}}}
           \cup {<<c, "not mounted", app, dir>> : app \in {a \in w.casks[c].apps : Place(a, dir) \notin w.folders}}
           \cup {<<c, "root's", l>> : l \in w.casks[c].links \cap w.links \cap w.roots}
           \cup {<<c, u>> : u \in
              {x \in {"a step beyond quit"} : w.casks[c].steps \ PlainSteps # {}}
              \cup (w.unread \ {"~/Applications"})} : c \in DOMAIN w.casks}

At(name, root, deep) == [name |-> name, root |-> root, deep |-> deep]
Base == [casks |-> [slack |-> Cask({InAppdir("Slack.app")}, "/Applications", {"quit"}, {"bin/slack"}),
                    draw |-> Cask({Whole("Draw.app", "/Volumes/Work"), InAppdir("Pen.app")}, "/Applications", {}, {}),
                    font |-> Cask({}, "/Applications", {}, {})],
         found |-> {}, folders |-> Folders \cup {"/Volumes/Work"}, links |-> {"bin/slack"}, roots |-> {}, unread |-> {}]
Starts == {Base, [Base EXCEPT !.folders = @ \ {"~/Applications"}],
           [Base EXCEPT !.casks["slack"].appdir = "/Volumes/Work"]}
Changes(w) ==
    {[w EXCEPT !.found = f] : f \in {{}} \cup {{At(n, r, d)} : n \in {"Slack.app", "Draw.app", "Pen.app"},
                                                  r \in {"/Applications", "/Volumes/Work"}, d \in {0, 1}}}
    \cup {[w EXCEPT !.folders = Folders, !.found = {f \in @ : f.root # "/Volumes/Work"}]}
    \cup {[w EXCEPT !.casks[c].steps = {"quit", "launchctl"}] : c \in DOMAIN w.casks}
    \cup {[w EXCEPT !.roots = {"bin/slack"}], [w EXCEPT !.links = {}]}
    \cup {[w EXCEPT !.unread = {k}] : k \in {"info", "caskroom", "a shape brew has not had", "records", "/Applications"}}
Without(w, c) == [w EXCEPT !.casks = Drop(@, c)]
=============================================================================

----------------------------- MODULE Downloads -----------------------------
(***************************************************************************)
(* The downloaded-installers query: which .dmg, .pkg and .zip at the top   *)
(* of ~/Downloads install an app that is installed already and no newer.   *)
(* seen[source] is the world at the moment the query read that source.     *)
(***************************************************************************)
EXTENDS Integers, Sequences, FiniteSets, Maps

Quiet == 2     \* downloadsQuiet
NoTime == 99   \* a date added that cannot be read
Odd == 99      \* a version that is no dotted number

\* A download: its kind, what it holds (of a zip) and which app by
\* identifier or by name, its version and build, its latest time.
File(kind, holds, id, key, ver, last) ==
    [kind |-> kind, holds |-> holds, id |-> id, key |-> key, ver |-> ver, last |-> last]
\* An installed app: its identifier, the key of its name, version and
\* build, when it was added, whether its Info.plist can be read.
App(id, key, ver, added, plist) == [id |-> id, key |-> key, ver |-> ver, added |-> added, plist |-> plist]

ScanSources == <<"downloads", "apps", "file", "zip", "infos">>
RecheckSources == <<"apps", "file", "zip", "infos">>

\* compareAppVersion and newerThan, of <<version, build>>.
Comparable(a, b) == a # Odd /\ b # Odd
Known(z, a) == /\ Comparable(z[1], a[1])
               /\ z[1] = a[1] /\ z[2] # a[2] => Comparable(z[2], a[2])
NewerThan(z, a) == \/ z[1] > a[1]
                   \/ z[1] = a[1] /\ z[2] > a[2]

InstalledApps(seen) == seen["apps"].apps
\* appInfo is read after the listing, of an app that may be gone by then.
Info(seen, p) == LET apps == seen["infos"].apps IN
                 IF p \in DOMAIN apps THEN apps[p] ELSE App("", "", <<Odd, Odd>>, NoTime, FALSE)
Readable(seen, p) == Info(seen, p).plist

\* zippedApp: one app at the top and nothing beside it, its identifier told.
ZippedApp(f) == f.holds = "one app"
MatchedByID(seen, f) == {p \in DOMAIN InstalledApps(seen) : Readable(seen, p) /\ Info(seen, p).id = f.id}
MaybeACopy(seen, f) == \E p \in DOMAIN InstalledApps(seen) :
                           ~Readable(seen, p) /\ InstalledApps(seen)[p].key = f.key
ZipGoes(seen, f) ==
    /\ ZippedApp(f) /\ ~MaybeACopy(seen, f) /\ MatchedByID(seen, f) # {}
    /\ \A p \in MatchedByID(seen, f) : Known(f.ver, Info(seen, p).ver) /\ ~NewerThan(f.ver, Info(seen, p).ver)

MatchedByName(seen, f) == {p \in DOMAIN InstalledApps(seen) : InstalledApps(seen)[p].key = f.key}
NamesNoNewer(seen, f, p) == \/ f.ver = <<>>
                            \/ /\ Readable(seen, p) /\ Comparable(f.ver[1], Info(seen, p).ver[1])
                               /\ f.ver[1] <= Info(seen, p).ver[1]
ImageGoes(seen, f) ==
    /\ f.key # "" /\ MatchedByName(seen, f) # {}
    /\ \A p \in MatchedByName(seen, f) :
           /\ NamesNoNewer(seen, f, p)
           /\ InstalledApps(seen)[p].added # NoTime /\ f.last < InstalledApps(seen)[p].added

JudgeOne(seen, d) ==
    /\ "apps" \notin seen["apps"].unread
    /\ d \in DOMAIN seen["file"].files
    /\ LET f == seen["file"].files[d] IN
       /\ seen["file"].now - f.last >= Quiet
       /\ IF f.kind = "zip"
          THEN d \in DOMAIN seen["zip"].files /\ ZipGoes(seen, seen["zip"].files[d])
          ELSE ImageGoes(seen, f)

Offers(seen) == {d \in DOMAIN seen["downloads"].files :
                   "downloads" \notin seen["downloads"].unread /\ JudgeOne(seen, d)}
LetsGo(seen, d) == JudgeOne(seen, d)

-----------------------------------------------------------------------------
\* The machine.  A download is needed while it is new, while no app it could
\* stand for is installed, and while it is newer than one of them; put there
\* anew, it is another download.
Copies(w, f) == {p \in DOMAIN w.apps : IF f.kind = "zip" THEN w.apps[p].id = f.id ELSE w.apps[p].key = f.key}
Uses(w) ==
    UNION {LET f == w.files[d] IN
           {<<d, "newer", f, p>> : p \in {q \in Copies(w, f) :
                  f.ver # <<>> /\ w.apps[q].plist /\ f.ver[1] > w.apps[q].ver[1]}}
           \cup {<<d, "a newer build", f, p>> : p \in {q \in Copies(w, f) :
                  /\ f.kind = "zip" /\ w.apps[q].plist
                  /\ f.ver[1] = w.apps[q].ver[1] /\ f.ver[2] > w.apps[q].ver[2]}}
           \cup {<<d, "came after", f, p>> : p \in {q \in Copies(w, f) :
                  f.kind = "dmg" /\ f.last >= w.apps[q].added}}
           \cup {<<d, u, f>> : u \in {x \in {"nothing installed"} : Copies(w, f) = {}}}
           \cup {<<d, u>> : u \in
              {x \in {"new"} : w.now - f.last < Quiet}
              \cup (w.unread \ {"downloads"})} : d \in DOMAIN w.files}

Base == [files |-> [d \in {"Notes.zip", "Notes-2.dmg", "Draw.pkg"} |->
             CASE d = "Notes.zip" -> File("zip", "one app", "notes", "notes", <<2, 1>>, 0)
               [] d = "Notes-2.dmg" -> File("dmg", "", "", "notes", <<2>>, 0)
               [] d = "Draw.pkg" -> File("dmg", "", "", "draw", <<>>, 1)],
         apps |-> [p \in {"/A/Notes.app", "/A/Draw.app"} |->
             IF p = "/A/Notes.app" THEN App("notes", "notes", <<2, 1>>, 2, TRUE) ELSE App("draw", "draw", <<3, 1>>, 2, TRUE)],
         now |-> 5, unread |-> {}]
Starts == {Base}
Changes(w) ==
    {[w EXCEPT !.files = Put(@, "Notes.zip", File("zip", h, "notes", "notes", v, t))] :
            h \in {"one app", "two apps"}, v \in {<<2, 1>>, <<2, 2>>, <<3, 1>>, <<Odd, 1>>}, t \in {0, w.now}}
    \cup {[w EXCEPT !.apps = Drop(@, a)] : a \in DOMAIN w.apps}
    \cup {[w EXCEPT !.apps = Put(@, p, App("notes", k, v, w.now, i))] :
            p \in {"/A/Notes.app", "~/Notes.app"}, k \in {"notes", "renamed"}, v \in {<<1, 1>>, <<2, 1>>}, i \in BOOLEAN}
    \cup {[w EXCEPT !.apps = Put(@, "/A/Draw.app", App("draw", "draw", <<3, 1>>, NoTime, TRUE))],
          [w EXCEPT !.now = @ + 1]}
    \cup {[w EXCEPT !.unread = {k}] : k \in {"downloads", "apps"}}
Without(w, d) == [w EXCEPT !.files = Drop(@, d)]
=============================================================================

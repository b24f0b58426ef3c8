------------------------------- MODULE Agents -------------------------------
(***************************************************************************)
(* The agent-scratch query: Claude Code sessions that have ended, told     *)
(* from the processes that run, the session registries they keep, and how  *)
(* lately a session's transcript and scratch changed.  seen[source] is the *)
(* world at the moment the query read that source.                         *)
(***************************************************************************)
EXTENDS Integers, Sequences, FiniteSets, SequencesExt, Maps

Session == {"s1", "s2"}
Pid == {"p1", "p2"}
Config == {"home", "named", "sibling"}   \* ~/.claude, one a process names, one beside ~/.claude
Shell == "shell"                         \* the parent that is no claude process
agentWindow == 2                         \* how lately a session changed that may go on
Unsaid == 99                             \* a registry file without procStart

\* A process: claude by its argv[0] or another; what ps -E shows of it
\* (nothing, its arguments, its config folder); the session its arguments
\* name; what it truly runs, or the scratch it works in.
Process(claude, parent, started, config, line, arg, runs) ==
    [claude |-> claude, parent |-> parent, started |-> started, config |-> config,
     line |-> line, arg |-> arg, runs |-> runs]

ScanSources == <<"sessions", "processes", "lines", "registries", "siblings", "scratch", "transcripts">>
RecheckSources == <<"processes", "lines", "registries", "siblings", "sessions", "scratch", "transcripts">>

-----------------------------------------------------------------------------
\* claudeLiveness: procs, their lines, the registries.

Procs(seen) == seen["processes"].procs
Claudes(seen) == {p \in DOMAIN Procs(seen) : Procs(seen)[p].claude}
\* ps leaves out a process that exited since the listing.
Lines(seen) == {p \in Claudes(seen) \cap DOMAIN seen["lines"].procs : seen["lines"].procs[p].line # "none"}
LineOf(seen, p) == seen["lines"].procs[p]
NamedConfig(seen, p) == IF p \in Lines(seen) /\ LineOf(seen, p).line = "config"
                        THEN LineOf(seen, p).config ELSE "none"
Registries(seen) == {"home"} \cup ({NamedConfig(seen, p) : p \in Claudes(seen)} \ {"none"})

\* registration.names: the file is the running process's own.
Names(r, p) == r.started \in {Unsaid, p.started}

\* readRegistry: the files of running pids that are their own.
Registry(seen) == {r \in seen["registries"].files :
                     /\ r.config \in Registries(seen) /\ r.pid \in DOMAIN Procs(seen)
                     /\ Names(r, Procs(seen)[r.pid])}
HalfWritten(seen) == \E r \in seen["registries"].files :
                        /\ r.config \in Registries(seen) /\ r.pid \in DOMAIN Procs(seen)
                        /\ r.half
Registered(seen, p) == \E r \in Registry(seen) : r.pid = p

\* belowRegistered: an ancestor is a registered session's claude process.
BelowRegistered(seen, p) ==
    LET ps == Procs(seen)
        Above[n \in 0..Cardinality(Pid)] ==
            IF n = 0 THEN {ps[p].parent}
            ELSE Above[n - 1] \cup {ps[q].parent : q \in Above[n - 1] \cap DOMAIN ps}
    IN \E a \in Above[Cardinality(Pid)] : a \in Claudes(seen) /\ Registered(seen, a)

Unregistered(seen) == {p \in Claudes(seen) : ~Registered(seen, p)}
Tolerated(seen, p) == BelowRegistered(seen, p) /\ p \in Lines(seen) /\ NamedConfig(seen, p) # "none"

LivenessUnknown(seen) ==
    \/ \E k \in {"processes", "lines", "registries"} : k \in seen[k].unread
    \/ HalfWritten(seen)
    \/ \E p \in Unregistered(seen) : ~Tolerated(seen, p)

Min0(S) == CHOOSE x \in S : \A y \in S : x <= y
LiveSessions(seen) == {r.session : r \in Registry(seen)}
                      \cup {LineOf(seen, p).arg : p \in Lines(seen)}
Since(seen) == {Procs(seen)[p].started : p \in Unregistered(seen)}
Inside(seen, s) == \E p \in DOMAIN Procs(seen) : ~Procs(seen)[p].claude /\ Procs(seen)[p].runs = s
Configs(seen) == Registries(seen) \cup {"sibling"}

\* liveness.recent
Recent(seen, t, now) == \/ now - t < agentWindow
                        \/ Since(seen) # {} /\ t >= Min0(Since(seen))

-----------------------------------------------------------------------------
\* judge, as the scan and the recheck use it.

Transcripts(seen, s) == {t.at : t \in {u \in seen["transcripts"].transcripts :
                                         u.session = s /\ u.config \in Configs(seen)}}
\* measureSession: a git worktree outside links into the scratch.
Linked(seen, s) == s \in seen["scratch"].linked
Kept(seen, s) ==
    LET now == seen["transcripts"].now IN
    \/ s \in LiveSessions(seen) \/ Inside(seen, s)
    \/ \E t \in Transcripts(seen, s) \cup {seen["scratch"].scratch[s]} : Recent(seen, t, now)
    \/ "siblings" \in seen["siblings"].unread \/ "transcripts" \in seen["transcripts"].unread
    \/ "scratch" \in seen["scratch"].unread
    \/ Linked(seen, s)

\* A project folder may refuse to be listed ("sessions"), or list and
\* refuse a look inside it ("inside"); both may hide a session's scratch.
\* PartialListing misses the second (Variant: of Partial).
PartialListing(seen) == "sessions" \in seen["sessions"].unread
Partial(seen) == seen["sessions"].unread \cap {"sessions", "inside"} # {}
ListSessions(seen) == IF "sessions" \in seen["sessions"].unread THEN {} ELSE seen["sessions"].there
HoldersUnknown(seen) == {"sessions", "inside"} \cap seen["sessions"].unread # {}

Offers(seen) == {s \in ListSessions(seen) :
                   ~LivenessUnknown(seen) /\ ~Partial(seen) /\ ~Kept(seen, s)}
LetsGo(seen, s) == /\ ~LivenessUnknown(seen) /\ ~HoldersUnknown(seen)
                   /\ s \in seen["scratch"].there /\ ~Kept(seen, s)

-----------------------------------------------------------------------------
\* The machine: Claude Code and its user.

\* A config folder away from ~/.claude is known while a process names it.
\* What of a process stays, whatever session it goes on with.
Invocation(pr) == <<pr.claude, pr.started, pr.config, pr.line>>
Knowing(w, config) == {<<config>> : x \in {config} \ {"named"}}
                      \cup {<<config, p, Invocation(w.procs[p])>> : p \in {q \in DOMAIN w.procs : w.procs[q].config = config}}
Uses(w) ==
    {<<w.procs[p].runs, "a process", p, Invocation(w.procs[p])>> : p \in DOMAIN w.procs}
    \cup UNION {{<<t.session, "its transcript changed", k>> : k \in Knowing(w, t.config)} :
                    t \in {u \in w.transcripts : w.now - u.at < agentWindow}}
    \cup {<<s, "its scratch changed", w.scratch[s]>> : s \in {u \in w.there : w.now - w.scratch[u] < agentWindow}}
    \cup {<<s, "a worktree link">> : s \in w.linked}
    \cup Session \X w.unread

Base == [procs |-> <<>>, files |-> {}, transcripts |-> {[session |-> s, config |-> "home", at |-> 1] : s \in Session},
         scratch |-> [s \in Session |-> 1], there |-> Session, linked |-> {}, unread |-> {}, now |-> 4]
File(config, pid, session, started, half) ==
    [config |-> config, pid |-> pid, session |-> session, started |-> started, half |-> half]
Own(p, pr, half) == File(pr.config, p, pr.runs, pr.started, half)

\* A session a process runs has its transcript written from the start.
Wrote(w, s, config) == {t \in w.transcripts : t.session # s \/ t.config # config}
                       \cup {[session |-> s, config |-> config, at |-> w.now]}
Claude(w, config, line) == Process(TRUE, Shell, w.now - 2, config, line, "none", "s1")
Starts ==
    LET running(config, line) == [Base EXCEPT !.procs = Put(@, "p1", Claude(Base, config, line)),
                                              !.files = {Own("p1", Claude(Base, config, line), FALSE)},
                                              !.transcripts = Wrote([Base EXCEPT !.now = 2], "s1", config)]
    IN {Base, [Base EXCEPT !.unread = {"inside"}], running("home", "none"), running("named", "config"),
        [Base EXCEPT !.files = {File("home", "p1", "s2", 0, FALSE)}]}   \* left by a crash

Begin(w, p, pr) == [w EXCEPT !.procs = Put(@, p, pr),
                             !.transcripts = IF pr.claude THEN Wrote(w, pr.runs, pr.config) ELSE @]
\* Whatever it started goes to launchd.
End(w, p) == [q \in DOMAIN w.procs \ {p} |->
                IF w.procs[q].parent = p THEN [w.procs[q] EXCEPT !.parent = Shell] ELSE w.procs[q]]
Changes(w) ==
    \* a session is started or resumed; below another, without registering
    {Begin(w, x[1], Process(TRUE, x[2], w.now, x[3], x[4], x[5], "s2")) :
        x \in {y \in (Pid \ DOMAIN w.procs) \X ({Shell} \cup DOMAIN w.procs) \X {"home", "named"}
                     \X {"none", "args", "config"} \X {"none", "s2"} : y[3] = "named" => y[4] = "config"}}
    \* another program works in a scratch
    \cup {Begin(w, p, Process(FALSE, Shell, w.now, "home", "none", "none", "s2")) : p \in Pid \ DOMAIN w.procs}
    \* a process exits, tidily or not
    \cup {[w EXCEPT !.procs = End(w, p)] : p \in DOMAIN w.procs}
    \cup {[w EXCEPT !.procs = End(w, p), !.files = {r \in @ : r.pid # p}] : p \in DOMAIN w.procs}
    \* a session registers; its file is rewritten in place
    \cup {[w EXCEPT !.files = {r \in @ : r.pid # p \/ r.config # w.procs[p].config}
                              \cup {Own(p, w.procs[p], h)}] :
            p \in {q \in DOMAIN w.procs : w.procs[q].claude /\ w.procs[q].parent = Shell}, h \in BOOLEAN}
    \* the session of a process changes, and its file with it
    \cup {[w EXCEPT !.procs = [@ EXCEPT ![p].runs = "s2", ![p].arg = "none"],
                    !.files = {IF r.pid = p /\ r.started = w.procs[p].started
                               THEN [r EXCEPT !.session = "s2"] ELSE r : r \in @},
                    !.transcripts = Wrote(w, "s2", w.procs[p].config)] :
            p \in {q \in DOMAIN w.procs : w.procs[q].claude}}
    \cup {[w EXCEPT !.now = @ + 1], [w EXCEPT !.linked = {"s1"}],
          [w EXCEPT !.transcripts = Wrote(w, "s2", "sibling")], [w EXCEPT !.scratch["s2"] = w.now]}
    \cup {[w EXCEPT !.unread = {k}] : k \in {"processes", "lines", "registries", "siblings", "sessions",
                                             "inside", "scratch", "transcripts"}}
Without(w, s) == [w EXCEPT !.there = @ \ {s}]
=============================================================================

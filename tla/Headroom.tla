------------------------------ MODULE Headroom ------------------------------
(***************************************************************************)
(* internal/headroom's history and its alerts, as Autopilot.Tick uses them *)
(* (`regrow tick` and the app's engine may both be at it).  The file has   *)
(* no lock: a tick reads it, may write it anew beside itself and rename    *)
(* that over it, and appends its sample to whichever file it opened.       *)
(*                                                                         *)
(* A file is its lines: samples, lines that do not parse (Bad) and, last,  *)
(* perhaps one without its newline (Cut).  Each tick begins at a time of   *)
(* its own.  Of the alerts these are the free-space bands; the other three *)
(* are conditions of the same kind.                                        *)
(***************************************************************************)
EXTENDS Integers, Sequences, SequencesExt, FiniteSets, FiniteSetsExt

CONSTANTS Ticker,     \* the processes that may tick
          Scenes,     \* those that do, the history so far, what free space is read as
          Bands,      \* the lines, highest first
          GiB,        \* in the unit of both
          Window, Retention, Slack,
          Now         \* the time the first tick begins

VARIABLES scene,      \* which of the scenes this is
          clock,      \* the time the next tick begins
          disk,       \* the lines of each file, by inode
          name, tmp,  \* the inodes headroom.jsonl and its .tmp lead to; 0 is none
          tick,       \* each process's tick
          written,    \* history: the samples whose Append returned nil
          risked,     \* history: those of them the missing lock may cost
          told        \* history: the ticks reported, each with the band it told of

vars == <<scene, clock, disk, name, tmp, tick, written, risked, told>>

Bad == [at |-> -1, free |-> 0]
Cut == [at |-> -2, free |-> 0]
Sample(x) == x.at >= 0
Inode == 1..(Cardinality(Ticker) + 2)
NoBand == 0

Idle == [at |-> "idle", s |-> Bad, prev |-> <<>>, readable |-> TRUE, keep |-> <<>>,
         fd |-> 0, fresh |-> FALSE]

Init == /\ scene \in Scenes
        /\ clock = Now
        /\ disk = [i \in Inode |-> IF i = 1 THEN scene.earlier ELSE <<>>]
        /\ written = {x \in ToSet(scene.earlier) : Sample(x)}
        /\ name = 1 /\ tmp = 0
        /\ tick = [p \in Ticker |-> Idle]
        /\ risked = {}
        /\ told = {}

----------------------------------------------------------------------------
(* Reading: Tail, replay and Alerts. *)

\* What parses of the times from since on, oldest first, as sort.SliceStable
\* leaves it: line k comes after those before it.
TailOf(lines, since) ==
  LET K == {k \in DOMAIN lines : Sample(lines[k]) /\ lines[k].at >= since}
      Before(k) == {j \in K : \/ lines[j].at < lines[k].at
                              \/ lines[j].at = lines[k].at /\ j < k}
  IN [n \in 1..Cardinality(K) |-> lines[CHOOSE k \in K : Cardinality(Before(k)) = n - 1]]
All(lines) == TailOf(lines, 0)

Rearm(band) == band + Max({band \div 10, GiB})

\* A condition trips at its line and clears past a wider one.
Step(held, x) == [i \in DOMAIN Bands |-> \/ x.free < Bands[i]
                                         \/ held[i] /\ x.free < Rearm(Bands[i])]
Replay(samples) ==
  LET held[n \in 0..Len(samples)] ==
        IF n = 0 THEN [i \in DOMAIN Bands |-> FALSE] ELSE Step(held[n - 1], samples[n])
  IN held[Len(samples)]

Crossed(prev, cur) == {i \in DOMAIN Bands : Replay(cur)[i] /\ ~Replay(prev)[i]}

\* (Variant: tells of the first it comes to, the highest.)
AlertHighest(prev, cur) ==
  IF Crossed(prev, cur) = {} THEN NoBand ELSE Min(Crossed(prev, cur))

\* Of the lines crossed between two histories only the lowest is news.
Alert(prev, cur) == Max({NoBand} \cup Crossed(prev, cur))

----------------------------------------------------------------------------
(* A tick, one step per system call that others may come between. *)

At(p, at) == tick' = [tick EXCEPT ![p].at = at]
Opened == {name, tmp} \cup {tick[p].fd : p \in Ticker}
NewInode == CHOOSE i \in Inode : i \notin Opened

Begin(p, free) ==
  /\ p \in scene.tickers /\ free \in scene.readings
  /\ tick[p].at = "idle" /\ clock < Now + scene.ticks
  /\ clock' = clock + 1
  /\ tick' = [tick EXCEPT ![p] = [Idle EXCEPT !.at = "prev", !.s = [at |-> clock, free |-> free]]]
  /\ UNCHANGED <<scene, disk, name, tmp, written, risked, told>>

\* The history before the sample; it may be unreadable.
ReadPrev(p) ==
  /\ tick[p].at = "prev"
  /\ \E ok \in BOOLEAN :
       tick' = [tick EXCEPT ![p].at = "compact", ![p].readable = ok,
                            ![p].prev = IF ok THEN TailOf(disk[name], tick[p].s.at - Window) ELSE <<>>]
  /\ UNCHANGED <<scene, clock, disk, name, tmp, written, risked, told>>

\* (Variant: keeps what a forecast reads.)
CompactToWindow(p) ==
  /\ tick[p].at = "compact"
  /\ LET all == All(disk[name])
         cutoff == tick[p].s.at - Retention
     IN \/ /\ all # <<>> /\ all[1].at < cutoff - Slack
           /\ tick' = [tick EXCEPT ![p].at = "create",
                         ![p].keep = TailOf(disk[name], tick[p].s.at - Window)]
        \/ At(p, "open")
  /\ UNCHANGED <<scene, clock, disk, name, tmp, written, risked, told>>

\* compact: nothing to do while the oldest is no older than the slack, or
\* when the history cannot be read.
Compact(p) ==
  /\ tick[p].at = "compact"
  /\ LET all == All(disk[name])
         cutoff == tick[p].s.at - Retention
     IN \/ /\ all # <<>> /\ all[1].at < cutoff - Slack
           /\ tick' = [tick EXCEPT ![p].at = "create",
                                   ![p].keep = TailOf(disk[name], cutoff)]
        \/ At(p, "open")
  /\ UNCHANGED <<scene, clock, disk, name, tmp, written, risked, told>>

Rewriting(q) == tick[q].at \in {"create", "fill", "rename"}

\* os.WriteFile creates the .tmp, or empties the one another tick is at: two
\* at it may put anything in the history's place.
CreateTmp(p) ==
  /\ tick[p].at = "create"
  /\ LET i == IF tmp = 0 THEN NewInode ELSE tmp IN
       /\ tmp' = i
       /\ disk' = [disk EXCEPT ![i] = <<>>]
       /\ tick' = [tick EXCEPT ![p].at = "fill", ![p].fd = i]
  /\ risked' = IF \E q \in Ticker \ {p} : Rewriting(q) THEN written ELSE risked
  /\ UNCHANGED <<scene, clock, name, written, told>>

\* A full disk leaves part of it, and the .tmp is removed.
FillTmp(p) ==
  /\ tick[p].at = "fill"
  /\ \/ /\ disk' = [disk EXCEPT ![tick[p].fd] = tick[p].keep]
        /\ tick' = [tick EXCEPT ![p].at = "rename", ![p].fd = 0]
        /\ UNCHANGED tmp
     \/ /\ disk' = [disk EXCEPT ![tick[p].fd] = <<Cut>>]
        /\ tick' = [tick EXCEPT ![p].at = "open", ![p].fd = 0]
        /\ tmp' = 0
  /\ UNCHANGED <<scene, clock, name, written, risked, told>>

Rename(p) ==
  /\ tick[p].at = "rename"
  /\ IF tmp # 0 THEN name' = tmp /\ tmp' = 0 ELSE UNCHANGED <<name, tmp>>
  /\ At(p, "open")
  /\ UNCHANGED <<scene, clock, disk, written, risked, told>>

\* The file is opened to append, and jsonl.Frame looks at how it ends.
OpenToAppend(p) ==
  /\ tick[p].at = "open"
  /\ tick' = [tick EXCEPT ![p].at = "write", ![p].fd = name,
                          ![p].fresh = disk[name] # <<>> /\ Last(disk[name]) = Cut]
  /\ UNCHANGED <<scene, clock, disk, name, tmp, written, risked, told>>

\* What joins the end of a file: behind a newline if one was seen to be
\* missing, else on the line another tick has cut short meanwhile.
Joined(lines, fresh, x) ==
  LET glued == lines # <<>> /\ Last(lines) = Cut /\ ~fresh
      whole == [k \in DOMAIN lines |-> IF lines[k] = Cut THEN Bad ELSE lines[k]]
  IN IF ~glued THEN Append(whole, x) ELSE IF x = Cut THEN lines ELSE whole

Write(p) ==
  /\ tick[p].at = "write"
  /\ LET f == tick[p].fd
         s == tick[p].s
     IN \/ /\ disk' = [disk EXCEPT ![f] = Joined(@, tick[p].fresh, s)]
           /\ written' = written \cup {s}
           /\ risked' = IF \/ f # name \/ \E q \in Ticker \ {p} : Rewriting(q)
                           \/ s \notin ToSet(disk'[f])
                        THEN risked \cup {s} ELSE risked
        \/ /\ disk' = [disk EXCEPT ![f] = Joined(@, tick[p].fresh, Cut)]
           /\ UNCHANGED <<written, risked>>
  /\ tick' = [tick EXCEPT ![p].at = "report", ![p].fd = 0]
  /\ UNCHANGED <<scene, clock, name, tmp, told>>

\* The tick says its sample and the alerts, whatever became of the append.
Report(p) ==
  /\ tick[p].at = "report"
  /\ told' = told \cup
       {[s |-> tick[p].s, prev |-> tick[p].prev, readable |-> tick[p].readable,
         band |-> IF tick[p].readable THEN Alert(tick[p].prev, Append(tick[p].prev, tick[p].s))
                  ELSE NoBand]}
  /\ tick' = [tick EXCEPT ![p] = Idle]
  /\ UNCHANGED <<scene, clock, disk, name, tmp, written, risked>>

\* Killed; what it left beside the history stays.
Kill(p) ==
  /\ tick[p].at # "idle"
  /\ tick' = [tick EXCEPT ![p] = Idle]
  /\ UNCHANGED <<scene, clock, disk, name, tmp, written, risked, told>>

Reading == UNION {sc.readings : sc \in Scenes}

Next == \E p \in Ticker :
  \/ \E free \in Reading : Begin(p, free)
  \/ ReadPrev(p) \/ Compact(p) \/ CreateTmp(p) \/ FillTmp(p) \/ Rename(p)
  \/ OpenToAppend(p) \/ Write(p) \/ Report(p) \/ Kill(p)

Spec == Init /\ [][Next]_vars

----------------------------------------------------------------------------
(* Properties. *)

\* A sample that was appended stays for the retention, unless the history was
\* being rewritten by another tick, or cut short by one, as it was appended
\* (the known limit of a file with no lock), or two ticks rewrote it at once.
HistoryKept ==
  \A x \in written \ risked : x.at >= clock - 1 - Retention => x \in ToSet(disk[name])

\* A line crossed is told of once.  A tick under a line tells of it or of a
\* lower one, or one before it did, with no reading past the rearm line that
\* this one saw since, unless one recorded its sample and never reported.  (With
\* several processes at it, it may be because one of these ticks did not see
\* what an earlier one was still to record, or saw what a later one had.)  And
\* a tick tells of a line again only if it saw the line rearmed, or nothing of
\* the last time.
Answered == {r \in told : r.readable}
Unsaid == {x \in written : \A r \in Answered : r.s # x}
Since(r, x, i) == /\ x.at <= r.s.at
                  /\ \A k \in DOMAIN r.prev : r.prev[k].at > x.at => r.prev[k].free < Rearm(Bands[i])
OutOfTurn(r) ==
  \/ \E x \in written : x.at >= r.s.at - Window /\ x.at < r.s.at /\ x \notin ToSet(r.prev)
  \/ \E k \in DOMAIN r.prev : r.prev[k].at > r.s.at
Several == \E p, q \in scene.tickers : p # q
CrossingsTold ==
  /\ \A r \in Answered, i \in DOMAIN Bands : r.s.free < Bands[i] =>
       \/ r.band >= i
       \/ \E t \in told : t.band >= i /\ Since(r, t.s, i)
       \/ \E x \in Unsaid : x.free < Bands[i] /\ Since(r, x, i)
       \/ Several /\ \E t \in Answered : /\ t.s.free < Bands[i] /\ t.band < i
                                         /\ t.s.at <= r.s.at /\ OutOfTurn(t)
  /\ \A r \in told : r.band # NoBand =>
       \A k \in DOMAIN r.prev : r.prev[k].free < Bands[r.band] =>
         \E j \in k..Len(r.prev) : r.prev[j].free >= Rearm(Bands[r.band])
=============================================================================

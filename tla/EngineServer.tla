---------------------------- MODULE EngineServer ----------------------------
(***************************************************************************)
(* internal/protocol/server.go: one session of `regrow engine`.  A read    *)
(* loop handles the peer's requests one at a time; scans, executes, ticks  *)
(* and aerials switches hold the one in-flight slot and run in goroutines  *)
(* of their own; histories, updates and aerials statuses are answered      *)
(* beside them.  At the end of stdin the session shuts down.               *)
(*                                                                         *)
(* A request is named by its place in the order they were read, which also *)
(* names the scan or the plan it made.  The executor's own steps are those *)
(* of Executor.tla; here an execute is its actions, begun and journaled.   *)
(***************************************************************************)
EXTENDS Naturals, Sequences, FiniteSets

CONSTANTS Asks,        \* the request types the peer sends
          MaxRequests, \* bound: requests of a session
          Rule,        \* the catalog
          Actions,     \* actions of every plan
          TTL,         \* a plan's age limit, in Elapse steps
          MayFail      \* the config, the journal, a command may fail

Slotted == {"scan", "execute", "tick", "aerials_switch"}
Counted == {"history", "updates"}
Aside == Counted \cup {"aerials"}

ASSUME ServerAssumption ==
  /\ Asks \subseteq Slotted \cup Aside
                    \cup {"plan", "cancel", "rules", "set_rules", "malformed"}
  /\ MaxRequests \in Nat /\ Actions \in Nat /\ TTL \in Nat /\ MayFail \in BOOLEAN

VARIABLES asked,    \* the requests read: type, and a cancel's target
          said,     \* the events the last step put in the outbox, in order
          ended,    \* history: the requests whose terminal event was said
          scan,     \* the current scan
          plans,    \* the plans held, by id
          op,       \* the operation in flight
          off,      \* the rules turned off in config.yaml
          aside,    \* the requests being answered beside it
          ran,      \* history: the scan of each executor that was built
          pc,       \* the read loop and, after it, shutdown
          late      \* the exit grace is up

vars == <<asked, said, ended, scan, plans, op, off, aside, ran, pc, late>>

Request == 1..MaxRequests
NoScan == [id |-> 0, status |-> "none", rules |-> {}, found |-> {}]
NoOp == [kind |-> "none", re |-> 0, phase |-> "none", stop |-> FALSE, cancels |-> <<>>,
         left |-> {}, found |-> {}, todo |-> 0, plan |-> 0, scan |-> 0]
NoPlans == [p \in {} |-> NoOp]

Event == [re : 0..MaxRequests, kind : {"event", "done", "error"}]
Plan == [scan : Request, found : SUBSET Rule, age : 0..(TTL + 1), expired : BOOLEAN]

Scan == [id : 0..MaxRequests, status : {"none", "running", "done", "canceled", "spent"},
         rules : SUBSET Rule, found : SUBSET Rule]
Op == [kind : Slotted \cup {"none"}, re : 0..MaxRequests,
       phase : {"none", "begin", "work", "full", "canceled", "between", "acting"},
       stop : BOOLEAN, cancels : Seq(Request), left : SUBSET Rule, found : SUBSET Rule,
       todo : 0..Actions, plan : 0..MaxRequests, scan : 0..MaxRequests]

TypeOK ==
  /\ asked \in Seq([type : Asks, target : 0..MaxRequests]) /\ Len(asked) <= MaxRequests
  /\ said \in Seq(Event) /\ ended \subseteq 0..MaxRequests
  /\ scan \in Scan /\ op \in Op
  /\ DOMAIN plans \subseteq Request /\ \A p \in DOMAIN plans : plans[p] \in Plan
  /\ off \subseteq Rule /\ aside \subseteq Request /\ ran \in Seq(Request)
  /\ pc \in {"reading", "stopping", "answering", "closing", "exited"} /\ late \in BOOLEAN

Init == /\ asked = <<>> /\ said = <<>> /\ ended = {}
        /\ scan = NoScan /\ plans = NoPlans /\ op = NoOp
        /\ off = {} /\ aside = {} /\ ran = <<>>
        /\ pc = "reading" /\ late = FALSE

----------------------------------------------------------------------------
(* What the handlers share. *)

\* emit: the outbox takes events until it is closed, and drops them then.
Says(r, k) == [re |-> r, kind |-> k]
Terminal(e) == e.kind \in {"done", "error"}
Emit(es) ==
  /\ said' = IF pc \in {"closing", "exited"} THEN <<>> ELSE es
  /\ ended' = ended \cup {said'[i].re : i \in {j \in DOMAIN said' : Terminal(said'[j])}}
Silent == Emit(<<>>)

\* The loop reads one more request, of type t.
me == Len(asked) + 1
Reads(t, target) == /\ pc = "reading" /\ t \in Asks /\ me <= MaxRequests
                    /\ asked' = Append(asked, [type |-> t, target |-> target])

Refuse == Emit(<<Says(me, "error")>>)
Answer == Emit(<<Says(me, "event"), Says(me, "done")>>)

Busy == op.kind # "none"
Begin(k) == [NoOp EXCEPT !.kind = k, !.re = me, !.phase = "begin"]

\* (Variants: the cancels are not answered, or before the operation.)
EndAlone(es, k) == /\ op' = NoOp
                   /\ Emit(es \o <<Says(op.re, k)>>)
EndCancelsFirst(es, k) ==
  /\ op' = NoOp
  /\ Emit(es \o [i \in 1..Len(op.cancels) |-> Says(op.cancels[i], "done")] \o <<Says(op.re, k)>>)

\* end: the slot is free, the terminal is out, then the waiting cancels'.
End(es, k) ==
  /\ op' = NoOp
  /\ Emit(es \o <<Says(op.re, k)>> \o [i \in 1..Len(op.cancels) |-> Says(op.cancels[i], "done")])

\* turnedOff: a rule with findings no longer runs.
TurnedOff(found) == found \cap off # {}
\* (Variant: only what was pruned has expired.)
Pruned(p) == plans[p].expired
Expired(p) == plans[p].expired \/ plans[p].age > TTL
\* What may go wrong that nothing here decides.
Trouble == {FALSE, MayFail}

----------------------------------------------------------------------------
(* The requests. *)

Malformed == \E re \in {0, me} :
  /\ Reads("malformed", 0)
  /\ Emit(<<Says(re, "error")>>)
  /\ UNCHANGED <<scan, plans, op, off, aside, ran, pc, late>>

\* beginScan: the new scan ends the last one and its plans.
BeginScan ==
  /\ op' = [Begin("scan") EXCEPT !.left = Rule \ off]
  /\ scan' = [NoScan EXCEPT !.id = me, !.status = "running", !.rules = Rule \ off]
  /\ plans' = NoPlans

StartScan == \E broken \in Trouble :
  /\ Reads("scan", 0)
  /\ IF Busy \/ broken THEN Refuse /\ UNCHANGED <<scan, plans, op>>
     ELSE BeginScan /\ Silent
  /\ UNCHANGED <<off, aside, ran, pc, late>>

\* plan: against the current scan, finished, of rules that all still run.
MakePlan == \E s \in 0..MaxRequests, unmatched \in BOOLEAN, broken \in Trouble :
  /\ Reads("plan", 0)
  /\ IF \/ s # scan.id \/ scan.status # "done"
        \/ broken \/ TurnedOff(scan.found) \/ unmatched
     THEN Refuse /\ UNCHANGED plans
     ELSE /\ plans' = [p \in DOMAIN plans \cup {me} |->
                        IF p = me
                        THEN [scan |-> s, found |-> scan.found, age |-> 0, expired |-> FALSE]
                        ELSE [plans[p] EXCEPT !.expired = Expired(p)]]
          /\ Answer
  /\ UNCHANGED <<scan, op, off, aside, ran, pc, late>>

\* startExecute: whatever comes of it, the plan is no longer held.
StartExecute == \E p \in 0..MaxRequests, broken \in Trouble :
  /\ Reads("execute", 0)
  /\ IF Busy \/ p \notin DOMAIN plans THEN Refuse /\ UNCHANGED <<plans, op>>
     ELSE /\ plans' = [q \in DOMAIN plans \ {p} |-> plans[q]]
          /\ IF Expired(p) \/ broken \/ TurnedOff(plans[p].found)
             THEN Refuse /\ UNCHANGED op
             ELSE /\ op' = [Begin("execute") EXCEPT !.plan = p, !.scan = plans[p].scan,
                                                    !.todo = Actions]
                  /\ Silent
  /\ UNCHANGED <<scan, off, aside, ran, pc, late>>

\* cancel: answered once its target has ended, at once if that is not
\* in flight.
Cancel == \E t \in 0..Len(asked) :
  /\ Reads("cancel", t)
  /\ IF t = 0 THEN Refuse /\ UNCHANGED op
     ELSE IF op.re # t THEN Emit(<<Says(me, "done")>>) /\ UNCHANGED op
     ELSE /\ op' = [op EXCEPT !.stop = TRUE, !.cancels = Append(@, me)]
          /\ Silent
  /\ UNCHANGED <<scan, plans, off, aside, ran, pc, late>>

\* startTick and startAerialsSwitch.
StartOther == \E k \in {"tick", "aerials_switch"} :
  /\ Reads(k, 0)
  /\ IF Busy THEN Refuse /\ UNCHANGED op ELSE op' = Begin(k) /\ Silent
  /\ UNCHANGED <<scan, plans, off, aside, ran, pc, late>>

\* history, updates and aerialsStatus leave the read loop.
StartAside == \E k \in Aside :
  /\ Reads(k, 0)
  /\ aside' = aside \cup {me}
  /\ Silent /\ UNCHANGED <<scan, plans, op, off, ran, pc, late>>

\* rules: answered at once, a change applies to what starts later.
Rules == \E k \in {"rules", "set_rules"}, r \in Rule, broken \in Trouble :
  /\ Reads(k, 0)
  /\ IF broken THEN Refuse /\ UNCHANGED off
     ELSE /\ off' = IF k = "rules" THEN off ELSE IF r \in off THEN off \ {r} ELSE off \cup {r}
          /\ Answer
  /\ UNCHANGED <<scan, plans, op, aside, ran, pc, late>>

----------------------------------------------------------------------------
(* The operations and the answers beside them. *)

Running(k, ph) == pc # "exited" /\ op.kind = k /\ op.phase = ph

\* runScan: start, then each rule's finding as it comes, none once the
\* scan was canceled.
ScanBegins ==
  /\ Running("scan", "begin")
  /\ op' = [op EXCEPT !.phase = "work"]
  /\ Emit(<<Says(op.re, "event")>>)
  /\ UNCHANGED <<asked, scan, plans, off, aside, ran, pc, late>>

RuleReports == \E r \in op.left :
  /\ Running("scan", "work")
  /\ IF op.stop THEN op' = [op EXCEPT !.left = @ \ {r}] /\ Silent
     ELSE /\ op' = [op EXCEPT !.left = @ \ {r}, !.found = @ \cup {r}]
          /\ Emit(<<Says(op.re, "event")>>)
  /\ UNCHANGED <<asked, scan, plans, off, aside, ran, pc, late>>

\* Whether it was canceled is read once, before the summary.
ScanWrapsUp ==
  /\ Running("scan", "work") /\ op.left = {}
  /\ IF op.stop THEN op' = [op EXCEPT !.phase = "canceled"] /\ Silent
     ELSE op' = [op EXCEPT !.phase = "full"] /\ Emit(<<Says(op.re, "event")>>)
  /\ UNCHANGED <<asked, scan, plans, off, aside, ran, pc, late>>

ScanEnds ==
  /\ Running("scan", "canceled") \/ Running("scan", "full")
  /\ scan' = IF op.phase = "canceled" THEN [scan EXCEPT !.status = "canceled"]
             ELSE [scan EXCEPT !.status = "done", !.found = op.found]
  /\ End(<<>>, "done")
  /\ UNCHANGED <<asked, plans, off, aside, ran, pc, late>>

\* (Variant: the scan stays, and so do its other plans.)
SpendsNothing ==
  /\ Running("execute", "begin")
  /\ ran' = Append(ran, op.scan)
  /\ op' = [op EXCEPT !.phase = "between"]
  /\ Silent /\ UNCHANGED <<asked, scan, plans, off, aside, pc, late>>

\* runExecute: with an executor, the scan is spent and every plan dropped.
ExecutorBuilt ==
  /\ Running("execute", "begin")
  /\ plans' = NoPlans
  /\ scan' = IF scan.id = op.scan THEN [scan EXCEPT !.status = "spent"] ELSE scan
  /\ ran' = Append(ran, op.scan)
  /\ op' = [op EXCEPT !.phase = "between"]
  /\ Silent /\ UNCHANGED <<asked, off, aside, pc, late>>

NoExecutor ==
  /\ MayFail /\ Running("execute", "begin")
  /\ End(<<>>, "error")
  /\ UNCHANGED <<asked, scan, plans, off, aside, ran, pc, late>>

\* Execute asks Stop before each action; an action begun is finished and
\* its lines journaled, each forwarded once it is persisted.
ActionBegins ==
  /\ Running("execute", "between") /\ ~op.stop /\ op.todo > 0
  /\ op' = [op EXCEPT !.phase = "acting", !.todo = @ - 1]
  /\ Emit(<<Says(op.re, "event")>>)
  /\ UNCHANGED <<asked, scan, plans, off, aside, ran, pc, late>>

ActionEnds ==
  /\ Running("execute", "acting")
  /\ op' = [op EXCEPT !.phase = "between"]
  /\ Emit(<<Says(op.re, "event")>>)
  /\ UNCHANGED <<asked, scan, plans, off, aside, ran, pc, late>>

\* (Variant: ends with its last action only.)
ExecuteEndsLast ==
  /\ Running("execute", "between") /\ op.todo = 0 /\ End(<<>>, "done")
  /\ UNCHANGED <<asked, scan, plans, off, aside, ran, pc, late>>

ExecuteEnds ==
  /\ \/ Running("execute", "between") /\ (op.stop \/ op.todo = 0) /\ End(<<>>, "done")
     \/ /\ MayFail /\ (Running("execute", "between") \/ Running("execute", "acting"))
        /\ End(<<>>, "error")
  /\ UNCHANGED <<asked, scan, plans, off, aside, ran, pc, late>>

\* A tick or a switch runs to its end and says what it saw.
OtherEnds == \E k \in {"tick", "aerials_switch"}, broken \in Trouble :
  /\ Running(k, "begin")
  /\ End(<<Says(op.re, "event")>>, IF broken THEN "error" ELSE "done")
  /\ UNCHANGED <<asked, scan, plans, off, aside, ran, pc, late>>

AsideEnds == \E r \in aside, broken \in Trouble :
  /\ pc # "exited"
  /\ aside' = aside \ {r}
  /\ Emit(IF broken THEN <<Says(r, "error")>> ELSE <<Says(r, "event"), Says(r, "done")>>)
  /\ UNCHANGED <<asked, scan, plans, op, off, ran, pc, late>>

\* Wall-clock time passes; a plan ages.
Elapse ==
  /\ pc = "reading" /\ \E p \in DOMAIN plans : plans[p].age <= TTL
  /\ plans' = [p \in DOMAIN plans |-> IF plans[p].age > TTL THEN plans[p]
                                      ELSE [plans[p] EXCEPT !.age = @ + 1]]
  /\ Silent /\ UNCHANGED <<asked, scan, op, off, aside, ran, pc, late>>

----------------------------------------------------------------------------
(* Serve's end. *)

\* Stdin ends or a signal came: what is in flight is told to stop.
StdinEnds ==
  /\ pc = "reading"
  /\ pc' = "stopping"
  /\ op' = IF Busy THEN [op EXCEPT !.stop = TRUE] ELSE op
  /\ Silent /\ UNCHANGED <<asked, scan, plans, off, aside, ran, late>>

GraceEnds ==
  /\ pc \in {"stopping", "answering"} /\ ~late
  /\ late' = TRUE
  /\ Silent /\ UNCHANGED <<asked, scan, plans, op, off, aside, ran, pc>>

\* (Variant: no operation is waited for longer than the grace.)
StoppedLate ==
  /\ pc = "stopping"
  /\ ~Busy \/ late
  /\ pc' = "answering"
  /\ Silent /\ UNCHANGED <<asked, scan, plans, op, off, aside, ran, late>>

\* shutdown waits for the operation, for a scan only as long as the grace.
Stopped ==
  /\ pc = "stopping"
  /\ ~Busy \/ (op.kind = "scan" /\ late)
  /\ pc' = "answering"
  /\ Silent /\ UNCHANGED <<asked, scan, plans, op, off, aside, ran, late>>

\* answered and waitUntil: the answers counted in `answering` are out.
Answered ==
  /\ pc = "answering"
  /\ late \/ \A r \in aside : asked[r].type \notin Counted
  /\ pc' = "closing"
  /\ Silent /\ UNCHANGED <<asked, scan, plans, op, off, aside, ran, late>>

\* The outbox has drained or was given up on (Outbox.tla).
Exit ==
  /\ pc = "closing"
  /\ pc' = "exited"
  /\ Silent /\ UNCHANGED <<asked, scan, plans, op, off, aside, ran, late>>

Handle == \/ Malformed \/ StartScan \/ MakePlan \/ StartExecute \/ Cancel
          \/ StartOther \/ StartAside \/ Rules

Work == \/ ScanBegins \/ RuleReports \/ ScanWrapsUp \/ ScanEnds
        \/ ExecutorBuilt \/ NoExecutor \/ ActionBegins \/ ActionEnds \/ ExecuteEnds
        \/ OtherEnds \/ AsideEnds

Leave == StdinEnds \/ GraceEnds \/ Stopped \/ Answered \/ Exit

Next == Handle \/ Work \/ Elapse \/ Leave

Spec == Init /\ [][Next]_vars

\* Scans, executes, ticks, switches and answers end by themselves (a
\* command that hangs is waited for, for ever), timers fire, and the main
\* goroutine goes on.  Nothing makes the peer ask or hang up.
FairSpec == /\ Spec
            /\ WF_vars(ScanBegins) /\ WF_vars(RuleReports)
            /\ WF_vars(ScanWrapsUp) /\ WF_vars(ScanEnds)
            /\ WF_vars(ExecutorBuilt \/ NoExecutor)
            /\ WF_vars(ActionBegins) /\ WF_vars(ActionEnds) /\ WF_vars(ExecuteEnds)
            /\ WF_vars(OtherEnds)
            /\ \A r \in Request : WF_vars(AsideEnds /\ r \notin aside' /\ r \in aside)
            /\ WF_vars(GraceEnds) /\ WF_vars(Stopped) /\ WF_vars(Answered) /\ WF_vars(Exit)

----------------------------------------------------------------------------
(* Properties. *)

\* ENGINE.md: a request gets one terminal event, and it is the last the
\* peer hears of it, whoever else is emitting.
OneTerminal == [][\A i \in DOMAIN said' :
  LET e == said'[i] IN e.re # 0 =>
    /\ e.re \notin ended
    /\ \A j \in 1..(i - 1) : Terminal(said'[j]) => said'[j].re # e.re]_vars

\* A cancel is answered only when its target, read before it, has had its
\* own terminal event.
CancelAfterTarget == [][\A i \in DOMAIN said' :
  LET r == said'[i].re
      t == asked'[r].target
  IN r # 0 /\ asked'[r].type = "cancel" /\ said'[i].kind = "done" /\ asked'[t].type \in Slotted
     => t \in ended \/ \E j \in 1..(i - 1) : said'[j].re = t /\ Terminal(said'[j])]_vars

\* The peer hears how every request ended, once, a cancel's own end after its
\* target's.
TerminalsInOrder == OneTerminal /\ CancelAfterTarget

\* What is held to run was planned from the current scan, complete and not
\* yet run against.
PlansCurrent == \A p \in DOMAIN plans :
  plans[p].scan = scan.id /\ plans[p].found = scan.found /\ scan.status = "done"

\* A scan is run against once: a second Empty Trash of the same findings
\* would destroy what the first run moved.
OneRunPerScan == \A i, j \in DOMAIN ran : i # j => ran[i] # ran[j]

\* The inductive invariant behind the two: an execute that has no executor
\* yet still stands on the current scan, and only a spent scan was run.
Standing ==
  /\ scan.id <= Len(asked)
  /\ scan.status # "none" => scan.id # 0
  /\ \A i \in DOMAIN ran : ran[i] <= scan.id
  /\ scan.status = "running" <=> op.kind = "scan"
  /\ scan.status = "done" => \A i \in DOMAIN ran : ran[i] # scan.id
  /\ scan.status = "running" => \A i \in DOMAIN ran : ran[i] # scan.id
  /\ op.kind = "execute" /\ op.phase = "begin" => op.scan = scan.id /\ scan.status = "done"

\* The engine closes its stream with no execute, tick or switch running,
\* and what got no terminal event was given the whole grace: a scan, a
\* cancel waiting on it, a history or updates.
CleanExit == pc \in {"closing", "exited"} =>
  /\ op.kind \in {"none", "scan"}
  /\ \A r \in DOMAIN asked \ ended : asked[r].type # "malformed" =>
       late /\ asked[r].type \in Counted \cup {"scan", "cancel"}

\* What starts to run is a plan of the current scan, in time, with its
\* rules still on, and no plan of that scan ran before.
RunsCurrentPlan == [][
  op'.kind = "execute" /\ op.kind # "execute" =>
    /\ op'.scan = scan.id /\ scan.status = "done" /\ scan.found \cap off = {}
    /\ plans[op'.plan].age <= TTL
    /\ \A i \in DOMAIN ran : ran[i] # op'.scan]_vars

\* Every request is answered, or the engine leaves.
EveryoneAnswered == \A r \in Request :
  (r \in DOMAIN asked /\ asked[r].type # "malformed") ~> (r \in ended \/ pc = "exited")

\* Once stdin has ended the engine exits.
Leaves == (pc = "stopping") ~> (pc = "exited")
============================================================================

------------------------- MODULE EngineServerProofs -------------------------
(***************************************************************************)
(* For any catalog, any number of requests and any plans: a scan is run    *)
(* against at most once, and only a plan of the current scan is held; no   *)
(* request has two terminal events, and a cancel's own comes after its     *)
(* target's; and the engine closes its stream with nothing under way that  *)
(* changes the Mac, all else answered or given the whole grace.            *)
(***************************************************************************)
EXTENDS EngineServer, SequenceTheorems, TLAPS

\* The part of TypeOK the argument needs.
Shape ==
  /\ asked \in Seq([type : Asks, target : 0..MaxRequests])
  /\ scan \in Scan /\ op \in Op
  /\ DOMAIN plans \subseteq Request /\ \A p \in DOMAIN plans : plans[p] \in Plan
  /\ ran \in Seq(Request)
  /\ off \subseteq Rule

IInv == Shape /\ PlansCurrent /\ OneRunPerScan /\ Standing

LEMMA MeIsNew == ASSUME Shape, NEW t, NEW x \in 0..MaxRequests, Reads(t, x)
                 PROVE  /\ me \in Request /\ Len(asked) \in Nat /\ me = Len(asked) + 1
                        /\ Len(asked') = me
                        /\ asked' \in Seq([type : Asks, target : 0..MaxRequests])
<1> DEFINE q == [type |-> t, target |-> x]
<1>1. q \in [type : Asks, target : 0..MaxRequests]
  BY DEF Reads
<1>2. asked' = Append(asked, q) /\ me <= MaxRequests /\ me = Len(asked) + 1
  BY DEF Reads, me
<1> HIDE DEF q
<1>3. Len(asked) \in Nat
  BY DEF Shape
<1>4. /\ Append(asked, q) \in Seq([type : Asks, target : 0..MaxRequests])
      /\ Len(Append(asked, q)) = Len(asked) + 1
  BY <1>1, AppendProperties DEF Shape
<1> QED
  BY <1>2, <1>3, <1>4, ServerAssumption DEF Request

LEMMA InitInv == Init => IInv
<1> SUFFICES ASSUME Init PROVE IInv
  OBVIOUS
<1>1. NoScan \in Scan /\ NoOp \in Op
  BY ServerAssumption DEF NoScan, NoOp, Scan, Op, Slotted
<1>2. Shape
  BY <1>1 DEF Init, Shape, NoPlans
<1>3. PlansCurrent /\ OneRunPerScan /\ Standing
  BY DEF Init, PlansCurrent, OneRunPerScan, Standing, NoPlans, NoScan, NoOp
<1> QED
  BY <1>2, <1>3 DEF IInv

\* A step that leaves the scans, the plans and the runs alone, and starts
\* no scan and no execute.
LEMMA Elsewhere ==
  ASSUME IInv, UNCHANGED <<scan, plans, ran>>,
         op' \in Op, off' \subseteq Rule,
         asked' \in Seq([type : Asks, target : 0..MaxRequests]), Len(asked') >= Len(asked),
         op'.kind = "scan" <=> op.kind = "scan",
         op'.kind = "execute" /\ op'.phase = "begin" =>
           op.kind = "execute" /\ op.phase = "begin" /\ op'.scan = op.scan
  PROVE  IInv'
<1>1. Shape'
  BY DEF IInv, Shape
<1>2. PlansCurrent' /\ OneRunPerScan'
  BY DEF IInv, PlansCurrent, OneRunPerScan
<1>3. Standing'
  <2>1. Len(asked) \in Nat /\ Len(asked') \in Nat /\ scan.id \in Nat
    BY DEF IInv, Shape, Scan
  <2> QED
    BY <2>1 DEF IInv, Standing
<1> QED
  BY <1>1, <1>2, <1>3 DEF IInv

LEMMA NoOpIsOp == NoOp \in Op
  BY ServerAssumption DEF NoOp, Op, Slotted

LEMMA BeginIsOp ==
  ASSUME NEW k \in Slotted, me \in Request
  PROVE  Begin(k) \in Op /\ Begin(k).kind = k /\ Begin(k).phase = "begin"
<1> DEFINE a == [NoOp EXCEPT !.kind = k]
           b == [a EXCEPT !.re = me]
           c == [b EXCEPT !.phase = "begin"]
<1>1. a \in Op /\ a.kind = k
  BY NoOpIsOp DEF Op
<1> HIDE DEF a
<1>2. b \in Op /\ b.kind = k
  <2>1. me \in 0..MaxRequests
    BY ServerAssumption DEF Request
  <2> QED
    BY <1>1, <2>1 DEF Op
<1> HIDE DEF b
<1>3. c \in Op /\ c.kind = k /\ c.phase = "begin"
  BY <1>2 DEF Op
<1> QED
  BY <1>3 DEF Begin, a, b

LEMMA AnsweredAtOnce == ASSUME IInv, Malformed \/ Cancel \/ StartOther \/ StartAside \/ Rules
                        PROVE  IInv'
<1>1. ASSUME NEW t, NEW x \in 0..MaxRequests, Reads(t, x)
      PROVE  /\ me \in Request /\ Len(asked') >= Len(asked)
             /\ asked' \in Seq([type : Asks, target : 0..MaxRequests])
  <2>1. Shape
    BY DEF IInv
  <2>2. /\ me \in Request /\ Len(asked) \in Nat /\ me = Len(asked) + 1 /\ Len(asked') = me
        /\ asked' \in Seq([type : Asks, target : 0..MaxRequests])
    BY <1>1, <2>1, MeIsNew, Zenon
  <2> QED
    BY <2>2
<1>2. 0 \in 0..MaxRequests /\ NoOp \in Op /\ op \in Op /\ off \subseteq Rule
  BY NoOpIsOp, ServerAssumption DEF IInv, Shape
<1>3. CASE Malformed
  BY <1>1, <1>2, <1>3, Elsewhere DEF Malformed
<1>4. CASE Cancel
  <2>1. PICK t \in 0..Len(asked) :
          /\ Reads("cancel", t)
          /\ op' = op \/ op' = [op EXCEPT !.stop = TRUE, !.cancels = Append(@, me)]
    BY <1>4 DEF Cancel
  <2>2. t \in 0..MaxRequests
    BY <2>1, ServerAssumption DEF Reads, me, IInv, Shape
  <2>3. me \in Request
    BY <1>1, <2>1, <2>2
  <2>4. Append(op.cancels, me) \in Seq(Request)
    BY <1>2, <2>3, AppendProperties DEF Op
  <2>5. op' \in Op /\ op'.kind = op.kind /\ op'.phase = op.phase /\ op'.scan = op.scan
    BY <1>2, <2>1, <2>4 DEF Op
  <2> QED
    BY <1>1, <1>2, <1>4, <2>1, <2>2, <2>5, Elsewhere DEF Cancel
<1>5. CASE StartOther
  <2>1. PICK k \in {"tick", "aerials_switch"} :
          Reads(k, 0) /\ (op' = op \/ (~Busy /\ op' = Begin(k)))
    BY <1>5 DEF StartOther
  <2>2. me \in Request
    BY <1>1, <1>2, <2>1
  <2>3. Begin(k) \in Op /\ Begin(k).kind = k
    BY <2>2, BeginIsOp DEF Slotted
  <2>4. op' \in Op /\ (op' # op => op.kind = "none" /\ op'.kind = k)
    BY <1>2, <2>1, <2>3 DEF Busy
  <2> QED
    BY <1>1, <1>2, <1>5, <2>1, <2>4, Elsewhere DEF StartOther
<1>6. CASE StartAside
  BY <1>1, <1>2, <1>6, Elsewhere DEF StartAside
<1>7. CASE Rules
  <2>1. off' \subseteq Rule
    BY <1>2, <1>7 DEF Rules
  <2> QED
    BY <1>1, <1>2, <1>7, <2>1, Elsewhere DEF Rules
<1> QED
  BY <1>3, <1>4, <1>5, <1>6, <1>7

LEMMA StartScanInv == ASSUME IInv, StartScan PROVE IInv'
<1>1. Reads("scan", 0) /\ off' = off /\ ran' = ran
  BY DEF StartScan
<1>2. /\ me \in Request /\ Len(asked) \in Nat /\ me = Len(asked) + 1 /\ Len(asked') = me
      /\ asked' \in Seq([type : Asks, target : 0..MaxRequests])
  <2>1. 0 \in 0..MaxRequests /\ Shape /\ Reads("scan", 0)
    BY <1>1, ServerAssumption DEF IInv
  <2> QED
    BY <2>1, MeIsNew, Zenon
<1>3. CASE UNCHANGED <<scan, plans, op>>
  BY <1>1, <1>2, <1>3, Elsewhere DEF IInv, Shape
<1>4. CASE /\ op' = [Begin("scan") EXCEPT !.left = Rule \ off]
           /\ scan' = [NoScan EXCEPT !.id = me, !.status = "running", !.rules = Rule \ off]
           /\ plans' = NoPlans
  <2>1. op' \in Op /\ op'.kind = "scan"
    <3>1. Begin("scan") \in Op /\ Begin("scan").kind = "scan"
      BY <1>2, BeginIsOp DEF Slotted
    <3>2. (Rule \ off) \in SUBSET Rule
      OBVIOUS
    <3> QED
      BY <1>4, <3>1, <3>2 DEF Op
  <2>2. scan' \in Scan /\ scan'.id = me /\ scan'.status = "running"
    <3>1. scan' = [id |-> me, status |-> "running", rules |-> Rule \ off, found |-> {}]
      BY <1>4 DEF NoScan
    <3>2. me \in 0..MaxRequests /\ Rule \ off \in SUBSET Rule /\ {} \in SUBSET Rule
      BY <1>2, ServerAssumption DEF Request
    <3> QED
      BY <3>1, <3>2 DEF Scan
  <2>3. DOMAIN plans' = {}
    BY <1>4 DEF NoPlans
  <2>4. Shape'
    BY <1>1, <1>2, <2>1, <2>2, <2>3 DEF IInv, Shape
  <2>5. PlansCurrent' /\ OneRunPerScan'
    BY <1>1, <2>3 DEF IInv, PlansCurrent, OneRunPerScan
  <2>6. \A i \in DOMAIN ran : ran[i] \in Nat /\ ran[i] <= scan.id /\ scan.id \in Nat /\ scan.id < me
    <3>1. \A i \in DOMAIN ran : ran[i] \in Request
      BY DEF IInv, Shape
    <3>2. scan.id \in Nat /\ scan.id <= Len(asked)
      BY DEF IInv, Shape, Scan, Standing
    <3> QED
      BY <1>2, <3>1, <3>2 DEF IInv, Standing, Request
  <2>7. Standing'
    BY <1>1, <1>2, <2>1, <2>2, <2>6 DEF Standing, Request
  <2> QED
    BY <2>4, <2>5, <2>7 DEF IInv
<1> QED
  BY <1>3, <1>4 DEF StartScan, BeginScan

LEMMA MakePlanInv == ASSUME IInv, MakePlan PROVE IInv'
<1>1. PICK s \in 0..MaxRequests :
        /\ Reads("plan", 0)
        /\ \/ plans' = plans
           \/ /\ s = scan.id /\ scan.status = "done"
              /\ plans' = [p \in DOMAIN plans \cup {me} |->
                   IF p = me
                   THEN [scan |-> s, found |-> scan.found, age |-> 0, expired |-> FALSE]
                   ELSE [plans[p] EXCEPT !.expired = Expired(p)]]
        /\ UNCHANGED <<scan, op, off, ran>>
  BY DEF MakePlan
<1>2. /\ me \in Request /\ Len(asked) \in Nat /\ Len(asked') = me /\ me = Len(asked) + 1
      /\ asked' \in Seq([type : Asks, target : 0..MaxRequests])
  <2>1. 0 \in 0..MaxRequests /\ Shape /\ Reads("plan", 0)
    BY <1>1, ServerAssumption DEF IInv
  <2> QED
    BY <2>1, MeIsNew
<1>3. CASE plans' = plans
  BY <1>1, <1>2, <1>3, Elsewhere DEF IInv, Shape
<1>4. CASE plans' # plans
  <2>1. /\ s = scan.id /\ scan.status = "done"
        /\ DOMAIN plans' = DOMAIN plans \cup {me}
        /\ plans'[me] = [scan |-> s, found |-> scan.found, age |-> 0, expired |-> FALSE]
        /\ \A p \in DOMAIN plans : p # me => plans'[p] = [plans[p] EXCEPT !.expired = Expired(p)]
    BY <1>1, <1>4
  <2>2. \A p \in DOMAIN plans : plans[p] \in Plan /\ Expired(p) \in BOOLEAN
    BY ServerAssumption DEF IInv, Shape, Expired, Plan
  <2>3. scan.id \in Request /\ scan.found \subseteq Rule
    <3>1. scan.id \in 0..MaxRequests /\ scan.found \subseteq Rule
      BY DEF IInv, Shape, Scan
    <3> QED
      BY <3>1, <2>1, ServerAssumption DEF IInv, Standing, Request
  <2>4. \A p \in DOMAIN plans' : /\ plans'[p] \in Plan
                                 /\ plans'[p].scan = scan.id /\ plans'[p].found = scan.found
    <3>1. /\ plans'[me] \in Plan
          /\ plans'[me].scan = scan.id /\ plans'[me].found = scan.found
      BY <2>1, <2>3, ServerAssumption DEF Plan
    <3>2. ASSUME NEW p \in DOMAIN plans, p # me
          PROVE  /\ plans'[p] \in Plan
                 /\ plans'[p].scan = scan.id /\ plans'[p].found = scan.found
      BY <2>1, <2>2, <3>2 DEF Plan, IInv, PlansCurrent
    <3> QED
      BY <2>1, <3>1, <3>2
  <2>5. Shape'
    BY <1>1, <1>2, <2>1, <2>4 DEF IInv, Shape
  <2>6. PlansCurrent' /\ OneRunPerScan'
    BY <1>1, <2>1, <2>4 DEF IInv, PlansCurrent, OneRunPerScan
  <2>7. Standing'
    BY <1>1, <1>2 DEF IInv, Shape, Scan, Standing
  <2> QED
    BY <2>5, <2>6, <2>7 DEF IInv
<1> QED
  BY <1>3, <1>4

LEMMA StartExecuteInv == ASSUME IInv, StartExecute PROVE IInv'
<1>1. PICK p \in 0..MaxRequests :
        /\ Reads("execute", 0)
        /\ \/ plans' = plans /\ op' = op
           \/ /\ ~Busy /\ p \in DOMAIN plans
              /\ plans' = [q \in DOMAIN plans \ {p} |-> plans[q]]
              /\ \/ op' = op
                 \/ op' = [Begin("execute") EXCEPT !.plan = p, !.scan = plans[p].scan,
                                                   !.todo = Actions]
        /\ UNCHANGED <<scan, off, ran>>
  BY DEF StartExecute
<1>2. /\ me \in Request /\ Len(asked) \in Nat /\ Len(asked') = me /\ me = Len(asked) + 1
      /\ asked' \in Seq([type : Asks, target : 0..MaxRequests])
  <2>1. 0 \in 0..MaxRequests /\ Shape /\ Reads("execute", 0)
    BY <1>1, ServerAssumption DEF IInv
  <2> QED
    BY <2>1, MeIsNew
<1>3. CASE plans' = plans /\ op' = op
  BY <1>1, <1>2, <1>3, Elsewhere DEF IInv, Shape
<1>4. ASSUME ~Busy, p \in DOMAIN plans,
             plans' = [q \in DOMAIN plans \ {p} |-> plans[q]],
             \/ op' = op
             \/ op' = [Begin("execute") EXCEPT !.plan = p, !.scan = plans[p].scan,
                                               !.todo = Actions]
      PROVE  IInv'
  <2>1. plans[p] \in Plan /\ plans[p].scan = scan.id /\ scan.status = "done"
    BY <1>4 DEF IInv, Shape, PlansCurrent
  <2>2. op' = op \/ (op' \in Op /\ op'.kind = "execute" /\ op'.scan = scan.id)
    <3>1. Begin("execute") \in Op /\ Begin("execute").kind = "execute"
      BY <1>2, BeginIsOp DEF Slotted
    <3>2. scan.id \in 0..MaxRequests /\ Actions \in 0..Actions /\ p \in 0..MaxRequests
      BY ServerAssumption DEF IInv, Shape, Scan
    <3> QED
      BY <1>4, <2>1, <3>1, <3>2 DEF Op
  <2>3. DOMAIN plans' \subseteq DOMAIN plans /\ \A q \in DOMAIN plans' : plans'[q] = plans[q]
    BY <1>4
  <2>4. Shape'
    BY <1>1, <1>2, <2>2, <2>3 DEF IInv, Shape
  <2>5. PlansCurrent' /\ OneRunPerScan'
    BY <1>1, <2>3 DEF IInv, PlansCurrent, OneRunPerScan
  <2>6. Standing'
    <3>1. scan.id \in Nat /\ op.kind = "none"
      BY <1>4 DEF IInv, Shape, Scan, Busy
    <3> QED
      BY <1>1, <1>2, <2>1, <2>2, <3>1 DEF IInv, Standing
  <2> QED
    BY <2>4, <2>5, <2>6 DEF IInv
<1> QED
  BY <1>1, <1>3, <1>4

LEMMA Shaped ==
  ASSUME IInv
  PROVE  /\ asked \in Seq([type : Asks, target : 0..MaxRequests]) /\ Len(asked) \in Nat
         /\ Len(asked) >= Len(asked)
         /\ op \in Op /\ off \subseteq Rule
<1>1. asked \in Seq([type : Asks, target : 0..MaxRequests]) /\ op \in Op /\ off \subseteq Rule
  BY DEF IInv, Shape
<1>2. Len(asked) \in Nat
  BY <1>1
<1> QED
  BY <1>1, <1>2

LEMMA ScanWorksInv == ASSUME IInv, ScanBegins \/ RuleReports \/ ScanWrapsUp PROVE IInv'
<1>0. /\ asked \in Seq([type : Asks, target : 0..MaxRequests]) /\ Len(asked) >= Len(asked)
      /\ op \in Op /\ off \subseteq Rule
  BY Shaped
<1>1. asked' = asked /\ off' = off /\ UNCHANGED <<scan, plans, ran>> /\ op.kind = "scan"
  BY DEF ScanBegins, RuleReports, ScanWrapsUp, Running
<1>2. op' \in Op /\ op'.kind = op.kind
  <2>1. CASE ScanBegins
    BY <1>0, <2>1 DEF ScanBegins, Op
  <2>2. CASE RuleReports
    <3>1. PICK r \in op.left :
            \/ op' = [op EXCEPT !.left = op.left \ {r}]
            \/ op' = [op EXCEPT !.left = op.left \ {r}, !.found = op.found \cup {r}]
      BY <2>2 DEF RuleReports
    <3>2. op.left \ {r} \in SUBSET Rule /\ op.found \cup {r} \in SUBSET Rule
      BY <1>0, <3>1 DEF Op
    <3>3. CASE op' = [op EXCEPT !.left = op.left \ {r}]
      BY <1>0, <3>2, <3>3 DEF Op
    <3>4. CASE op' = [op EXCEPT !.left = op.left \ {r}, !.found = op.found \cup {r}]
      BY <1>0, <3>2, <3>4 DEF Op
    <3> QED
      BY <3>1, <3>3, <3>4
  <2>3. CASE ScanWrapsUp
    BY <1>0, <2>3, ZenonT(30) DEF ScanWrapsUp, Op
  <2> QED
    BY <2>1, <2>2, <2>3
<1> QED
  BY <1>0, <1>1, <1>2, Elsewhere

LEMMA ScanEndsInv == ASSUME IInv, ScanEnds PROVE IInv'
<1>1. /\ asked' = asked /\ off' = off /\ plans' = plans /\ ran' = ran /\ op' = NoOp
      /\ op \in Op /\ op.kind = "scan" /\ scan \in Scan /\ scan.status = "running"
  BY DEF ScanEnds, End, Running, IInv, Shape, Standing
<1>2. scan' \in Scan /\ scan'.id = scan.id /\ scan'.status \in {"canceled", "done"}
  BY <1>1 DEF ScanEnds, Scan, Op
<1>3. DOMAIN plans = {}
  BY <1>1 DEF IInv, PlansCurrent
<1>4. Shape'
  BY <1>1, <1>2, NoOpIsOp DEF IInv, Shape
<1>5. PlansCurrent' /\ OneRunPerScan'
  BY <1>1, <1>3 DEF IInv, PlansCurrent, OneRunPerScan
<1>6. Standing'
  BY <1>1, <1>2 DEF IInv, Standing, NoOp
<1> QED
  BY <1>4, <1>5, <1>6 DEF IInv

\* The step that spends the scan: no earlier run has its number.
LEMMA ExecutorBuiltInv == ASSUME IInv, ExecutorBuilt PROVE IInv'
<1>1. /\ op.scan = scan.id /\ scan.status = "done" /\ \A i \in DOMAIN ran : ran[i] # scan.id
      /\ scan \in Scan /\ op \in Op /\ ran \in Seq(Request)
  BY DEF ExecutorBuilt, Running, IInv, Shape, Standing
<1>2. scan.id \in Request
  <2>1. scan.id \in 0..MaxRequests /\ scan.id # 0
    BY <1>1 DEF IInv, Standing, Scan
  <2> QED
    BY <2>1, ServerAssumption DEF Request
<1>3. /\ asked' = asked /\ off' = off /\ DOMAIN plans' = {} /\ ran' = Append(ran, scan.id)
      /\ scan' \in Scan /\ scan'.id = scan.id /\ scan'.status = "spent"
  BY <1>1 DEF ExecutorBuilt, NoPlans, Scan
<1>4. op' \in Op /\ op'.kind = "execute" /\ op'.phase = "between"
  BY <1>1 DEF ExecutorBuilt, Running, Op
<1>5. /\ ran' \in Seq(Request) /\ DOMAIN ran' = DOMAIN ran \cup {Len(ran) + 1}
      /\ \A i \in DOMAIN ran : ran'[i] = ran[i] /\ i # Len(ran) + 1
      /\ ran'[Len(ran) + 1] = scan.id
  <2>1. /\ ran' \in Seq(Request) /\ Len(ran') = Len(ran) + 1 /\ ran'[Len(ran) + 1] = scan.id
        /\ \A i \in 1..Len(ran) : ran'[i] = ran[i]
    BY <1>1, <1>2, <1>3, AppendProperties
  <2>2. DOMAIN ran = 1..Len(ran) /\ Len(ran) \in Nat /\ DOMAIN ran' = 1..Len(ran')
    BY <1>1, <2>1, LenProperties
  <2> QED
    BY <2>1, <2>2
<1>6. Shape'
  BY <1>3, <1>4, <1>5 DEF IInv, Shape
<1>7. PlansCurrent' /\ OneRunPerScan'
  BY <1>1, <1>3, <1>5 DEF IInv, PlansCurrent, OneRunPerScan
<1>8. Standing'
  <2>1. \A i \in DOMAIN ran' : ran'[i] <= scan'.id
    <3>1. scan.id <= scan.id
      BY <1>2, ServerAssumption DEF Request
    <3> QED
      BY <1>3, <1>5, <3>1 DEF IInv, Standing
  <2>2. scan'.id <= Len(asked') /\ scan'.id # 0
    BY <1>1, <1>3 DEF IInv, Standing
  <2> QED
    BY <1>3, <1>4, <2>1, <2>2 DEF Standing
<1> QED
  BY <1>6, <1>7, <1>8 DEF IInv

LEMMA ExecuteInv ==
  ASSUME IInv, NoExecutor \/ ActionBegins \/ ActionEnds \/ ExecuteEnds \/ OtherEnds PROVE IInv'
<1>1. /\ asked' = asked /\ off' = off /\ UNCHANGED <<scan, plans, ran>>
      /\ op \in Op /\ op.kind # "scan" /\ Len(asked) \in Nat
      /\ asked \in Seq([type : Asks, target : 0..MaxRequests]) /\ off \subseteq Rule
  BY DEF NoExecutor, ActionBegins, ActionEnds, ExecuteEnds, OtherEnds, Running, IInv, Shape
<1>2. CASE op' = NoOp
  BY <1>1, <1>2, NoOpIsOp, Elsewhere DEF NoOp
<1>3. CASE ActionBegins
  <2>1. op.todo - 1 \in 0..Actions
    BY <1>1, <1>3, ServerAssumption DEF ActionBegins, Op
  <2>2. op' \in Op /\ op'.kind = op.kind /\ op'.phase = "acting"
    BY <1>1, <1>3, <2>1 DEF ActionBegins, Op
  <2> QED
    BY <1>1, <2>2, Elsewhere
<1>4. CASE ActionEnds
  <2>1. op' \in Op /\ op'.kind = op.kind /\ op'.phase = "between"
    BY <1>1, <1>4 DEF ActionEnds, Op
  <2> QED
    BY <1>1, <2>1, Elsewhere
<1> QED
  BY <1>2, <1>3, <1>4 DEF NoExecutor, ExecuteEnds, OtherEnds, End

LEMMA ElapseInv == ASSUME IInv, Elapse PROVE IInv'
<1>1. /\ UNCHANGED <<asked, scan, op, off, ran>>
      /\ DOMAIN plans' = DOMAIN plans
      /\ \A p \in DOMAIN plans : plans'[p] = IF plans[p].age > TTL THEN plans[p]
                                            ELSE [plans[p] EXCEPT !.age = @ + 1]
  BY DEF Elapse
<1>2. ASSUME NEW p \in DOMAIN plans
      PROVE  /\ plans'[p] \in Plan
             /\ plans'[p].scan = plans[p].scan /\ plans'[p].found = plans[p].found
  <2>1. plans[p] \in Plan
    BY DEF IInv, Shape
  <2>2. CASE plans[p].age > TTL
    BY <1>1, <2>1, <2>2
  <2>3. CASE ~(plans[p].age > TTL)
    <3>1. plans[p].age + 1 \in 0..(TTL + 1)
      BY <2>1, <2>3, ServerAssumption DEF Plan
    <3>2. plans'[p] = [plans[p] EXCEPT !.age = plans[p].age + 1]
      BY <1>1, <2>3
    <3> QED
      BY <2>1, <3>1, <3>2 DEF Plan
  <2> QED
    BY <2>2, <2>3
<1>3. Shape'
  BY <1>1, <1>2 DEF IInv, Shape
<1>4. PlansCurrent' /\ OneRunPerScan' /\ Standing'
  BY <1>1, <1>2 DEF IInv, PlansCurrent, OneRunPerScan, Standing
<1> QED
  BY <1>3, <1>4 DEF IInv

LEMMA LeaveInv == ASSUME IInv, AsideEnds \/ Leave PROVE IInv'
<1>0. /\ asked \in Seq([type : Asks, target : 0..MaxRequests]) /\ Len(asked) >= Len(asked)
      /\ op \in Op /\ off \subseteq Rule
  BY Shaped
<1>1. asked' = asked /\ off' = off /\ UNCHANGED <<scan, plans, ran>>
  BY DEF AsideEnds, Leave, StdinEnds, GraceEnds, Stopped, Answered, Exit
<1>2. op' \in Op /\ op'.kind = op.kind /\ op'.phase = op.phase /\ op'.scan = op.scan
  <2>1. op' = op \/ op' = [op EXCEPT !.stop = TRUE]
    BY DEF AsideEnds, Leave, StdinEnds, GraceEnds, Stopped, Answered, Exit
  <2> QED
    BY <1>0, <2>1 DEF Op
<1> QED
  BY <1>0, <1>1, <1>2, Elsewhere

LEMMA NextInv == ASSUME IInv, [Next]_vars PROVE IInv'
<1>1. CASE UNCHANGED vars
  BY <1>1 DEF vars, IInv, Shape, PlansCurrent, OneRunPerScan, Standing
<1>2. CASE Handle
  BY <1>2, AnsweredAtOnce, StartScanInv, MakePlanInv, StartExecuteInv DEF Handle
<1>3. CASE Work
  BY <1>3, ScanWorksInv, ScanEndsInv, ExecutorBuiltInv, ExecuteInv, LeaveInv DEF Work
<1>4. CASE Elapse \/ Leave
  BY <1>4, ElapseInv, LeaveInv
<1> QED
  BY <1>1, <1>2, <1>3, <1>4 DEF Next

----------------------------------------------------------------------------
(* The theorems. *)

\* IInv is inductive, so every reachable state of a session has it.
THEOREM Invariance == Spec => []IInv
<1> QED
  BY InitInv, NextInv, PTL DEF Spec

\* Every plan the engine holds, and so every plan an execute request can
\* name, was made from the scan that is current and not yet run against.
THEOREM PlansStayCurrent == Spec => []PlansCurrent
<1>1. IInv => PlansCurrent
  BY DEF IInv
<1> QED
  BY <1>1, Invariance, PTL

\* However plans, executes and scans interleave, also with plans issued
\* while an executor is being built, no scan is run against twice.
THEOREM NoSecondRun == Spec => []OneRunPerScan
<1>1. IInv => OneRunPerScan
  BY DEF IInv
<1> QED
  BY <1>1, Invariance, PTL

\* Only startExecute makes the operation an execute.
LEMMA OnlyStartExecute ==
  ASSUME Shape, [Next]_vars, op.kind # "execute", op'.kind = "execute"
  PROVE  StartExecute
<1>1. op \in Op
  BY DEF Shape
<1>2. ASSUME NEW k, NoOp.kind = "none" PROVE Begin(k).kind = k
  BY DEF Begin, NoOp
<1>3. NoOp.kind = "none"
  BY DEF NoOp
<1>4. ~StartScan
  <2>1. StartScan => op' = op \/ op'.kind = "scan"
    BY <1>2, <1>3 DEF StartScan, BeginScan, Begin, NoOp
  <2> QED
    BY <2>1
<1>5. ~(Malformed \/ MakePlan \/ StartAside \/ Rules)
  BY DEF Malformed, MakePlan, StartAside, Rules
<1>6. ~Cancel
  <2>1. Cancel => op' = op \/ op'.kind = op.kind
    BY <1>1 DEF Cancel, Op
  <2> QED
    BY <2>1
<1>7. ~StartOther
  <2>1. StartOther => op' = op \/ \E k \in {"tick", "aerials_switch"} : op' = Begin(k)
    BY DEF StartOther
  <2> QED
    BY <1>2, <1>3, <2>1
<1>8. ~(ScanBegins \/ RuleReports \/ ScanWrapsUp)
  <2>1. ScanBegins \/ RuleReports \/ ScanWrapsUp => op'.kind = op.kind
    BY <1>1 DEF ScanBegins, RuleReports, ScanWrapsUp, Op
  <2> QED
    BY <2>1
<1>9. ~(ScanEnds \/ NoExecutor \/ ExecuteEnds \/ OtherEnds)
  <2>1. ScanEnds \/ NoExecutor \/ ExecuteEnds \/ OtherEnds => op' = NoOp
    BY DEF ScanEnds, NoExecutor, ExecuteEnds, OtherEnds, End
  <2> QED
    BY <1>3, <2>1
<1>10. ~(ExecutorBuilt \/ ActionBegins \/ ActionEnds)
  BY DEF ExecutorBuilt, ActionBegins, ActionEnds, Running
<1>11. ~(AsideEnds \/ Elapse \/ UNCHANGED vars)
  BY DEF AsideEnds, Elapse, vars
<1>12. ~Leave
  <2>1. Leave => op' = op \/ op' = [op EXCEPT !.stop = TRUE]
    BY DEF Leave, StdinEnds, GraceEnds, Stopped, Answered, Exit
  <2> QED
    BY <1>1, <2>1 DEF Op
<1> QED
  BY <1>4, <1>5, <1>6, <1>7, <1>8, <1>9, <1>10, <1>11, <1>12 DEF Next, Handle, Work

\* Whatever plan an execute names, what starts to run is a plan of the current,
\* finished scan, in time and with its rules on, and of a scan nothing ran
\* against before.
THEOREM RunsOnlyCurrentPlans == Spec => RunsCurrentPlan
<1> DEFINE Starts ==
      op'.kind = "execute" /\ op.kind # "execute" =>
        /\ op'.scan = scan.id /\ scan.status = "done" /\ scan.found \cap off = {}
        /\ plans[op'.plan].age <= TTL
        /\ \A i \in DOMAIN ran : ran[i] # op'.scan
<1>1. IInv /\ [Next]_vars => [Starts]_vars
  <2> SUFFICES ASSUME IInv, [Next]_vars, op'.kind = "execute", op.kind # "execute"
               PROVE  /\ op'.scan = scan.id /\ scan.status = "done"
                      /\ scan.found \cap off = {}
                      /\ plans[op'.plan].age <= TTL
                      /\ \A i \in DOMAIN ran : ran[i] # op'.scan
    OBVIOUS
  <2>1. StartExecute
    BY OnlyStartExecute DEF IInv
  <2>2. PICK p \in DOMAIN plans :
          /\ ~Expired(p) /\ ~TurnedOff(plans[p].found)
          /\ op' = [Begin("execute") EXCEPT !.plan = p, !.scan = plans[p].scan, !.todo = Actions]
    BY <2>1 DEF StartExecute
  <2>3. op'.plan = p /\ op'.scan = plans[p].scan
    BY <2>2 DEF Begin, NoOp
  <2>4. plans[p].scan = scan.id /\ scan.status = "done" /\ plans[p].found = scan.found
    BY <2>2 DEF IInv, PlansCurrent
  <2>5. plans[p].age <= TTL
    <3>1. plans[p].age \in Int /\ TTL \in Int
      BY <2>2, ServerAssumption DEF IInv, Shape, Plan
    <3> QED
      BY <2>2, <3>1 DEF Expired
  <2>6. \A i \in DOMAIN ran : ran[i] # scan.id
    BY <2>4 DEF IInv, Standing
  <2> QED
    BY <2>2, <2>3, <2>4, <2>5, <2>6 DEF TurnedOff
<1> QED
  BY <1>1, Invariance, PTL DEF Spec, RunsCurrentPlan

----------------------------------------------------------------------------
(***************************************************************************)
(* Who is still owed an answer, for TerminalsInOrder and CleanExit: a      *)
(* request read has had its terminal event, or the operation in flight is  *)
(* its own, or it is a cancel waiting for that one, or it is answered      *)
(* beside it; and it is one of these only.                                 *)
(***************************************************************************)

Closed == pc \in {"closing", "exited"}

Awaits(r) == \E i \in DOMAIN op.cancels : op.cancels[i] = r

Accounts ==
  /\ \A r \in ended : r \in Nat /\ r <= Len(asked)
  /\ \A r \in aside : r \in DOMAIN asked /\ asked[r].type \in Aside /\ r \notin ended
  /\ Busy => op.re \in DOMAIN asked /\ asked[op.re].type = op.kind /\ op.re \notin ended
  /\ ~Busy => op.re = 0 /\ op.cancels = <<>>
  /\ \A r : Awaits(r) => /\ r \in DOMAIN asked /\ r \notin ended
                         /\ asked[r].type = "cancel" /\ asked[r].target = op.re
  /\ \A i, j \in DOMAIN op.cancels : op.cancels[i] = op.cancels[j] => i = j

Settled == Closed \/ \A r \in DOMAIN asked :
  asked[r].type # "malformed" => r \in ended \/ r = op.re \/ Awaits(r) \/ r \in aside

\* What the two properties say of a step.
Once == \A i \in DOMAIN said' : LET e == said'[i] IN e.re # 0 =>
  /\ e.re \notin ended
  /\ \A j \in 1..(i - 1) : Terminal(said'[j]) => said'[j].re # e.re

TargetFirst == \A i \in DOMAIN said' :
  LET r == said'[i].re
      t == asked'[r].target
  IN r # 0 /\ asked'[r].type = "cancel" /\ said'[i].kind = "done" /\ asked'[t].type \in Slotted
     => t \in ended \/ \E j \in 1..(i - 1) : said'[j].re = t /\ Terminal(said'[j])

LEMMA SaysNothing ==
  ASSUME NEW es, Emit(es), Closed \/ es = <<>>
  PROVE  said' = <<>> /\ ended' = ended /\ Once /\ TargetFirst
<1>1. said' = <<>>
  BY DEF Emit, Closed
<1>2. DOMAIN said' = {}
  BY <1>1
<1>3. ended' = ended
  BY <1>2 DEF Emit
<1> QED
  BY <1>1, <1>2, <1>3 DEF Once, TargetFirst

\* One event, and one event and the end.
LEMMA SaysOne ==
  ASSUME NEW r, NEW k, Emit(<<Says(r, k)>>), ~Closed, r = 0 \/ r \notin ended,
         r = 0 \/ asked'[r].type # "cancel" \/ k # "done"
           \/ asked'[asked'[r].target].type \notin Slotted \/ asked'[r].target \in ended
  PROVE  /\ ended' = ended \cup (IF k \in {"done", "error"} THEN {r} ELSE {})
         /\ Once /\ TargetFirst
<1>1. said' = <<Says(r, k)>>
  BY DEF Emit, Closed
<1>2. DOMAIN said' = {1} /\ said'[1] = Says(r, k) /\ Says(r, k).re = r /\ Says(r, k).kind = k
  BY <1>1 DEF Says
<1>3. ended' = ended \cup (IF k \in {"done", "error"} THEN {r} ELSE {})
  BY <1>2 DEF Emit, Terminal
<1>4. Once
  BY <1>2 DEF Once
<1>5. TargetFirst
  BY <1>2 DEF TargetFirst
<1> QED
  BY <1>3, <1>4, <1>5

LEMMA SaysTwo ==
  ASSUME NEW r, Emit(<<Says(r, "event"), Says(r, "done")>>), ~Closed, r \notin ended,
         asked'[r].type # "cancel"
  PROVE  ended' = ended \cup {r} /\ Once /\ TargetFirst
<1>1. said' = <<Says(r, "event"), Says(r, "done")>>
  BY DEF Emit, Closed
<1>2. /\ DOMAIN said' = {1, 2} /\ said'[1].re = r /\ said'[2].re = r
      /\ said'[1].kind = "event" /\ said'[2].kind = "done"
  BY <1>1 DEF Says
<1>3. ended' = ended \cup {r}
  BY <1>2 DEF Emit, Terminal
<1>4. Once
  BY <1>2 DEF Once, Terminal
<1>5. TargetFirst
  BY <1>2 DEF TargetFirst
<1> QED
  BY <1>3, <1>4, <1>5

\* The end of the operation: what it still says, its terminal, the cancels'.
LEMMA SaysEnd ==
  ASSUME IInv, Accounts, Busy, ~Closed, NEW k \in {"done", "error"},
         NEW es, es = <<>> \/ es = <<Says(op.re, "event")>>, End(es, k), asked' = asked
  PROVE  /\ ended' = ended \cup {op.re} \cup {op.cancels[i] : i \in DOMAIN op.cancels}
         /\ Once /\ TargetFirst
<1> DEFINE n == Len(op.cancels)
           m == Len(es)
           answers == [i \in 1..n |-> Says(op.cancels[i], "done")]
           S == [re : Nat, kind : {"event", "done", "error"}]
<1>1. /\ op.cancels \in Seq(Request) /\ n \in Nat /\ DOMAIN op.cancels = 1..n
      /\ \A i \in 1..n : op.cancels[i] \in Nat
      /\ op.re \in Nat /\ op.kind \in Slotted
  <2>1. op.cancels \in Seq(Request) /\ op.re \in 0..MaxRequests /\ op.kind \in Slotted
    BY DEF IInv, Shape, Op, Busy
  <2>2. n \in Nat /\ op.cancels \in [1..n -> Request] /\ DOMAIN op.cancels = 1..n
    BY <2>1, LenProperties
  <2> QED
    BY <2>1, <2>2, ServerAssumption DEF Request
<1>2. \A r \in Nat, x \in {"event", "done", "error"} :
        Says(r, x) \in S /\ Says(r, x).re = r /\ Says(r, x).kind = x
  BY DEF Says
<1>3. answers \in Seq(S) /\ Len(answers) = n /\ \A i \in 1..n : answers[i] = Says(op.cancels[i], "done")
  <2>1. \A i \in 1..n : Says(op.cancels[i], "done") \in S
    BY <1>1, <1>2
  <2> HIDE DEF S
  <2>2. answers \in [1..n -> S]
    BY <2>1
  <2>3. answers \in Seq(S) /\ Len(answers) = n
    BY <1>1, <2>2
  <2> QED
    BY <2>3
<1>4. PICK e, f : e = Says(op.re, "event") /\ f = Says(op.re, k)
  OBVIOUS
<1>5. /\ e \in S /\ e.re = op.re /\ e.kind = "event"
      /\ f \in S /\ f.re = op.re /\ Terminal(f)
  BY <1>1, <1>2, <1>4 DEF Terminal
<1>6. es \in Seq(S) /\ m \in {0, 1} /\ \A i \in 1..m : es[i] = e
  <2> HIDE DEF S
  <2>1. CASE es = <<>>
    BY <2>1
  <2>2. CASE es = <<e>>
    BY <2>2, <1>5
  <2> QED
    BY <2>1, <2>2, <1>4
<1>7. <<f>> \in Seq(S) /\ Len(<<f>>) = 1 /\ <<f>>[1] = f
  <2> HIDE DEF S
  <2> QED
    BY <1>5
<1>8. PICK q : q = es \o <<f>> /\ said' = q \o answers
  BY <1>4 DEF End, Emit, Closed
<1> HIDE DEF S, answers, n, m
<1>9. q \in Seq(S) /\ Len(q) = m + 1 /\ (\A i \in 1..m : q[i] = e) /\ q[m + 1] = f
  <2>1. /\ es \o <<f>> \in Seq(S) /\ Len(es \o <<f>>) = Len(es) + Len(<<f>>)
        /\ \A i \in 1..Len(es) + Len(<<f>>) :
             (es \o <<f>>)[i] = IF i <= Len(es) THEN es[i] ELSE <<f>>[i - Len(es)]
    BY <1>6, <1>7, ConcatProperties
  <2>2. Len(es) = m
    BY DEF m
  <2>3. /\ q \in Seq(S) /\ Len(q) = m + 1
        /\ \A i \in 1..m + 1 : q[i] = IF i <= m THEN es[i] ELSE <<f>>[i - m]
    BY <1>7, <1>8, <2>1, <2>2
  <2> QED
    BY <1>6, <1>7, <2>3
<1>10. /\ DOMAIN said' = 1..m + 1 + n
       /\ \A i \in 1..m : said'[i] = e
       /\ said'[m + 1] = f
       /\ \A i \in 1..n : said'[m + 1 + i] = Says(op.cancels[i], "done")
  <2>1. /\ q \o answers \in Seq(S) /\ Len(q \o answers) = Len(q) + Len(answers)
        /\ \A i \in 1..Len(q) + Len(answers) :
             (q \o answers)[i] = IF i <= Len(q) THEN q[i] ELSE answers[i - Len(q)]
    BY <1>3, <1>9, ConcatProperties
  <2>2. /\ said' \in Seq(S) /\ Len(said') = m + 1 + n
        /\ \A i \in 1..m + 1 + n : said'[i] = IF i <= m + 1 THEN q[i] ELSE answers[i - (m + 1)]
    BY <1>3, <1>8, <1>9, <2>1
  <2>3. DOMAIN said' = 1..m + 1 + n
    BY <2>2, LenProperties
  <2>4. \A i \in 1..m + 1 : i \in 1..m + 1 + n /\ i <= m + 1
    BY <1>1, <1>6
  <2>5. \A i \in 1..m + 1 : said'[i] = q[i]
    BY <2>2, <2>4
  <2>6. ASSUME NEW i \in 1..n PROVE said'[m + 1 + i] = answers[i]
    <3>1. m + 1 + i \in 1..m + 1 + n /\ ~(m + 1 + i <= m + 1) /\ (m + 1 + i) - (m + 1) = i
      BY <1>1, <1>6
    <3> QED
      BY <2>2, <3>1
  <2>7. m + 1 \in 1..m + 1 /\ \A i \in 1..m : i \in 1..m + 1
    BY <1>6
  <2> QED
    BY <1>3, <1>9, <2>3, <2>5, <2>6, <2>7
<1>11. /\ \A i \in 1..m : said'[i].re = op.re /\ ~Terminal(said'[i]) /\ said'[i].kind = "event"
       /\ said'[m + 1].re = op.re /\ Terminal(said'[m + 1])
       /\ \A i \in 1..n : /\ said'[m + 1 + i].re = op.cancels[i]
                          /\ said'[m + 1 + i].kind = "done" /\ Terminal(said'[m + 1 + i])
  BY <1>1, <1>2, <1>5, <1>10 DEF Terminal
<1>12. \A i \in DOMAIN said' : i \in 1..m \/ i = m + 1 \/ \E x \in 1..n : i = m + 1 + x
  <2> SUFFICES ASSUME NEW i \in 1..m + 1 + n, ~(i \in 1..m), i # m + 1
               PROVE  \E x \in 1..n : i = m + 1 + x
    BY <1>10
  <2>1. i - (m + 1) \in 1..n /\ i = m + 1 + (i - (m + 1))
    BY <1>1, <1>6
  <2> QED
    BY <2>1
<1>13. /\ \A i \in 1..m : i \in DOMAIN said' /\ i < m + 1
       /\ m + 1 \in DOMAIN said' /\ \A x \in 1..n : m + 1 + x \in DOMAIN said' /\ m + 1 \in 1..(m + 1 + x - 1)
  BY <1>1, <1>6, <1>10
<1>14. ended' = ended \cup {op.re} \cup {op.cancels[i] : i \in DOMAIN op.cancels}
  <2>1. {said'[i].re : i \in {j \in DOMAIN said' : Terminal(said'[j])}}
          = {op.re} \cup {op.cancels[i] : i \in 1..n}
    BY <1>11, <1>12, <1>13
  <2> QED
    BY <1>1, <2>1 DEF End, Emit
<1>15. /\ op.re \notin ended /\ asked[op.re].type \in Slotted
       /\ \A i \in 1..n : /\ op.cancels[i] \notin ended /\ op.cancels[i] # op.re
                          /\ asked[op.cancels[i]].type = "cancel" /\ asked[op.cancels[i]].target = op.re
       /\ \A i, j \in 1..n : op.cancels[i] = op.cancels[j] => i = j
  BY <1>1 DEF Accounts, Awaits, Slotted
<1>16. Once
  <2> SUFFICES ASSUME NEW i \in DOMAIN said'
               PROVE  /\ said'[i].re \notin ended
                      /\ \A j \in 1..(i - 1) : Terminal(said'[j]) => said'[j].re # said'[i].re
    BY DEF Once
  <2>1. CASE i \in 1..m \/ i = m + 1
    <3>1. \A j \in 1..(i - 1) : j \in 1..m
      BY <1>6, <2>1
    <3> QED
      BY <1>11, <1>15, <2>1, <3>1
  <2>2. ASSUME NEW x \in 1..n, i = m + 1 + x
        PROVE  /\ said'[i].re \notin ended
               /\ \A j \in 1..(i - 1) : Terminal(said'[j]) => said'[j].re # said'[i].re
    <3>1. said'[i].re = op.cancels[x] /\ op.cancels[x] \notin ended /\ op.cancels[x] # op.re
      BY <1>11, <1>15, <2>2
    <3>2. ASSUME NEW j \in 1..(i - 1) PROVE said'[j].re # op.cancels[x]
      <4>1. j \in DOMAIN said'
        BY <1>1, <1>6, <1>10, <2>2
      <4>2. CASE j \in 1..m \/ j = m + 1
        BY <1>11, <3>1, <4>2
      <4>3. ASSUME NEW y \in 1..n, j = m + 1 + y PROVE said'[j].re # op.cancels[x]
        <5>1. y # x
          BY <1>1, <1>6, <2>2, <4>3
        <5> QED
          BY <1>11, <1>15, <4>3, <5>1
      <4> QED
        BY <1>12, <4>1, <4>2, <4>3
    <3> QED
      BY <3>1, <3>2
  <2> QED
    BY <1>12, <2>1, <2>2
<1>17. TargetFirst
  <2> SUFFICES ASSUME NEW i \in DOMAIN said', asked[said'[i].re].type = "cancel"
               PROVE  \E j \in 1..(i - 1) : said'[j].re = asked[said'[i].re].target /\ Terminal(said'[j])
    BY DEF TargetFirst
  <2>1. ~(i \in 1..m \/ i = m + 1)
    BY <1>11, <1>15 DEF Slotted
  <2>2. PICK x \in 1..n : i = m + 1 + x
    BY <1>12, <2>1
  <2>3. said'[i].re = op.cancels[x] /\ asked[op.cancels[x]].target = op.re
    BY <1>11, <1>15, <2>2
  <2>4. m + 1 \in 1..(i - 1)
    BY <1>13, <2>2
  <2> QED
    BY <1>11, <2>3, <2>4
<1> QED
  BY <1>14, <1>16, <1>17

\* A request just read is nobody's yet.
LEMMA NewRequest ==
  ASSUME IInv, Accounts, NEW t, NEW x \in 0..MaxRequests, Reads(t, x)
  PROVE  /\ ~Closed /\ me \in Nat /\ me # 0 /\ Len(asked') = me
         /\ me \notin DOMAIN asked /\ DOMAIN asked' = DOMAIN asked \cup {me}
         /\ 0 \notin DOMAIN asked
         /\ \A r \in DOMAIN asked : asked'[r] = asked[r]
         /\ asked'[me].type = t /\ asked'[me].target = x
         /\ me \notin ended /\ me \notin aside /\ me # op.re /\ ~Awaits(me)
         /\ \A r \in ended : r \in Nat /\ r <= me
<1> DEFINE q == [type |-> t, target |-> x]
<1>1. q \in [type : Asks, target : 0..MaxRequests] /\ q.type = t /\ q.target = x
  BY DEF Reads
<1>2. asked' = Append(asked, q) /\ me = Len(asked) + 1 /\ ~Closed
  BY DEF Reads, me, Closed
<1> HIDE DEF q
<1>3. /\ asked \in Seq([type : Asks, target : 0..MaxRequests])
      /\ Len(asked) \in Nat /\ DOMAIN asked = 1..Len(asked)
  <2>1. asked \in Seq([type : Asks, target : 0..MaxRequests])
    BY DEF IInv, Shape
  <2> QED
    BY <2>1, LenProperties
<1>4. /\ Len(asked') = me /\ DOMAIN asked' = 1..me
      /\ \A r \in 1..Len(asked) : asked'[r] = asked[r]
      /\ asked'[me] = q
  <2>1. /\ Append(asked, q) \in Seq([type : Asks, target : 0..MaxRequests])
        /\ Len(Append(asked, q)) = Len(asked) + 1
        /\ \A i \in 1..Len(asked) : Append(asked, q)[i] = asked[i]
        /\ Append(asked, q)[Len(asked) + 1] = q
    BY <1>1, <1>3, AppendProperties
  <2>2. DOMAIN Append(asked, q) = 1..Len(Append(asked, q))
    BY <2>1, LenProperties
  <2> QED
    BY <1>2, <1>3, <2>1, <2>2
<1>5. /\ me \in Nat /\ me # 0 /\ me \notin DOMAIN asked /\ 0 \notin DOMAIN asked
      /\ DOMAIN asked' = DOMAIN asked \cup {me}
  BY <1>2, <1>3, <1>4
<1>6. \A r \in ended : r \in Nat /\ r <= me /\ r # me
  BY <1>2, <1>3 DEF Accounts
<1>7. me \notin aside /\ me # op.re /\ ~Awaits(me)
  BY <1>5 DEF Accounts
<1> QED
  BY <1>1, <1>2, <1>3, <1>4, <1>5, <1>6, <1>7

\* What every step keeps.
Owed == Accounts /\ Settled

LEMMA AnsweredNow ==
  ASSUME IInv, Owed, NEW t, NEW x \in 0..MaxRequests, Reads(t, x), UNCHANGED <<op, aside, pc>>,
         \/ ended' = ended \cup {me}
         \/ t = "malformed" /\ ended' = ended \cup {0}
  PROVE  Owed'
<1>1. Accounts /\ Settled
  BY DEF Owed
<1>2. /\ ~Closed /\ me \in Nat /\ me # 0 /\ Len(asked') = me
      /\ me \notin DOMAIN asked /\ DOMAIN asked' = DOMAIN asked \cup {me}
      /\ 0 \notin DOMAIN asked
      /\ \A r \in DOMAIN asked : asked'[r] = asked[r]
      /\ asked'[me].type = t
      /\ me \notin ended /\ me \notin aside /\ me # op.re /\ ~Awaits(me)
      /\ \A r \in ended : r \in Nat /\ r <= me
  BY <1>1, NewRequest
<1>3. Accounts'
  BY <1>1, <1>2 DEF Accounts, Awaits, Busy
<1>4. Settled'
  BY <1>1, <1>2 DEF Settled, Awaits, Closed
<1> QED
  BY <1>3, <1>4 DEF Owed

LEMMA StartedNow ==
  ASSUME IInv, Owed, NEW t \in Slotted, NEW x \in 0..MaxRequests, Reads(t, x),
         UNCHANGED <<aside, pc, ended>>, ~Busy,
         op'.kind = t, op'.re = me, op'.cancels = <<>>
  PROVE  Owed'
<1>1. Accounts /\ Settled
  BY DEF Owed
<1>2. /\ ~Closed /\ me \in Nat /\ me # 0 /\ Len(asked') = me
      /\ me \notin DOMAIN asked /\ DOMAIN asked' = DOMAIN asked \cup {me}
      /\ \A r \in DOMAIN asked : asked'[r] = asked[r]
      /\ asked'[me].type = t
      /\ me \notin ended /\ me \notin aside
      /\ \A r \in ended : r \in Nat /\ r <= me
  BY <1>1, NewRequest
<1>3. \A r : ~Awaits(r) /\ ~Awaits(r)'
  BY <1>1 DEF Awaits, Accounts
<1>4. Accounts'
  <2>1. Busy' /\ DOMAIN op'.cancels = {}
    BY DEF Busy, Slotted
  <2> QED
    BY <1>1, <1>2, <1>3, <2>1 DEF Accounts
<1>5. Settled'
  BY <1>1, <1>2, <1>3 DEF Settled, Closed, Accounts
<1> QED
  BY <1>4, <1>5 DEF Owed

LEMMA CancelWaits ==
  ASSUME IInv, Owed, NEW x \in 0..MaxRequests, Reads("cancel", x),
         UNCHANGED <<aside, pc, ended>>, x # 0, op.re = x,
         op'.kind = op.kind, op'.re = op.re, op'.cancels = Append(op.cancels, me)
  PROVE  Owed'
<1>1. Accounts /\ Settled
  BY DEF Owed
<1>2. /\ ~Closed /\ me \in Nat /\ me # 0 /\ Len(asked') = me
      /\ me \notin DOMAIN asked /\ DOMAIN asked' = DOMAIN asked \cup {me}
      /\ \A r \in DOMAIN asked : asked'[r] = asked[r]
      /\ asked'[me].type = "cancel" /\ asked'[me].target = x
      /\ me \notin ended /\ me \notin aside /\ me # op.re /\ ~Awaits(me)
      /\ \A r \in ended : r \in Nat /\ r <= me
  BY <1>1, NewRequest
<1>3. /\ DOMAIN op'.cancels = DOMAIN op.cancels \cup {Len(op.cancels) + 1}
      /\ \A i \in DOMAIN op.cancels : op'.cancels[i] = op.cancels[i]
      /\ op'.cancels[Len(op.cancels) + 1] = me
  <2>1. op.cancels \in Seq(Request)
    BY DEF IInv, Shape, Op
  <2>2. me \in Request
    BY MeIsNew DEF IInv
  <2>3. /\ DOMAIN op.cancels = 1..Len(op.cancels) /\ Len(op.cancels) \in Nat
        /\ op'.cancels \in Seq(Request) /\ Len(op'.cancels) = Len(op.cancels) + 1
        /\ \A i \in 1..Len(op.cancels) : op'.cancels[i] = op.cancels[i]
        /\ op'.cancels[Len(op.cancels) + 1] = me
    BY <2>1, <2>2, LenProperties, AppendProperties
  <2>4. DOMAIN op'.cancels = 1..Len(op.cancels) + 1
    BY <2>3, LenProperties
  <2> QED
    BY <2>3, <2>4
<1>4. \A r : Awaits(r)' <=> Awaits(r) \/ r = me
  BY <1>3 DEF Awaits
<1>5. Busy /\ Busy'
  BY <1>1 DEF Accounts, Busy
<1>6. \A i \in DOMAIN op.cancels : op.cancels[i] # me
  BY <1>2 DEF Awaits
<1>7. Accounts'
  BY <1>1, <1>2, <1>3, <1>4, <1>5, <1>6 DEF Accounts
<1>8. Settled'
  BY <1>1, <1>2, <1>4 DEF Settled, Closed
<1> QED
  BY <1>7, <1>8 DEF Owed

LEMMA AsideNow ==
  ASSUME IInv, Owed, NEW t \in Aside, Reads(t, 0),
         UNCHANGED <<op, pc, ended>>, aside' = aside \cup {me}
  PROVE  Owed'
<1>1. Accounts /\ Settled /\ 0 \in 0..MaxRequests
  BY ServerAssumption DEF Owed
<1>2. /\ ~Closed /\ me \in Nat /\ me # 0 /\ Len(asked') = me
      /\ me \notin DOMAIN asked /\ DOMAIN asked' = DOMAIN asked \cup {me}
      /\ \A r \in DOMAIN asked : asked'[r] = asked[r]
      /\ asked'[me].type = t
      /\ me \notin ended
      /\ \A r \in ended : r \in Nat /\ r <= me
  BY <1>1, NewRequest
<1>3. Accounts'
  BY <1>1, <1>2 DEF Accounts, Awaits, Busy
<1>4. Settled'
  BY <1>1, <1>2 DEF Settled, Awaits, Closed
<1> QED
  BY <1>3, <1>4 DEF Owed

\* Nobody is answered, and nobody asks.
LEMMA GoesOn ==
  ASSUME Owed, UNCHANGED <<asked, ended, aside>>, Closed => Closed',
         op'.kind = op.kind, op'.re = op.re, op'.cancels = op.cancels
  PROVE  Owed'
<1>1. \A r : Awaits(r)' = Awaits(r)
  BY DEF Awaits
<1> QED
  BY <1>1 DEF Owed, Accounts, Settled, Busy

LEMMA OpEnds ==
  ASSUME IInv, Owed, Busy, op' = NoOp, UNCHANGED <<asked, aside, pc>>,
         \/ Closed /\ ended' = ended
         \/ ended' = ended \cup {op.re} \cup {op.cancels[i] : i \in DOMAIN op.cancels}
  PROVE  Owed'
<1>1. Accounts /\ Settled
  BY DEF Owed
<1>2. op'.kind = "none" /\ op'.re = 0 /\ op'.cancels = <<>>
  BY DEF NoOp
<1>3. ~Busy' /\ DOMAIN op'.cancels = {} /\ \A r : ~Awaits(r)'
  BY <1>2 DEF Busy, Awaits
<1>4. \A r \in ended' : r \in ended \/ r = op.re \/ Awaits(r)
  BY DEF Awaits
<1>5. \A r : (r = op.re \/ Awaits(r)) => r \in DOMAIN asked /\ asked[r].type \in Slotted \cup {"cancel"}
  BY <1>1 DEF Accounts, IInv, Shape, Op, Busy
<1>6. \A r \in DOMAIN asked : r \in Nat /\ r <= Len(asked)
  BY DEF IInv, Shape
<1>7. Accounts'
  BY <1>1, <1>2, <1>3, <1>4, <1>5, <1>6 DEF Accounts, Aside, Counted, Slotted
<1>8. Settled'
  BY <1>1, <1>3 DEF Settled, Closed, Awaits
<1> QED
  BY <1>7, <1>8 DEF Owed

LEMMA AsideAnswered ==
  ASSUME IInv, Owed, NEW r \in aside, aside' = aside \ {r}, UNCHANGED <<asked, op, pc>>,
         (Closed /\ ended' = ended) \/ ended' = ended \cup {r}
  PROVE  Owed'
<1>1. Accounts /\ Settled
  BY DEF Owed
<1>2. r \in DOMAIN asked /\ asked[r].type \in Aside
  BY <1>1 DEF Accounts
<1>3. \A x : Awaits(x)' = Awaits(x)
  BY DEF Awaits
<1>4. (r # op.re /\ ~Awaits(r)) \/ ~Busy
  BY <1>1, <1>2 DEF Accounts, IInv, Shape, Op, Busy, Aside, Counted, Slotted
<1>5. \A x \in DOMAIN asked : x \in Nat /\ x <= Len(asked) /\ x # 0
  BY DEF IInv, Shape
<1>6. Accounts'
  BY <1>1, <1>2, <1>3, <1>4, <1>5 DEF Accounts, Busy, Awaits
<1>7. Settled'
  BY <1>1, <1>3 DEF Settled, Closed
<1> QED
  BY <1>6, <1>7 DEF Owed

LEMMA RepliesNow ==
  ASSUME IInv, Owed, NEW t, NEW x \in 0..MaxRequests, Reads(t, x), UNCHANGED <<op, aside, pc>>,
         Refuse \/ (Answer /\ t # "cancel")
  PROVE  Owed' /\ Once /\ TargetFirst
<1>1. Accounts
  BY DEF Owed
<1>2. ~Closed /\ me \notin ended /\ asked'[me].type = t
  BY <1>1, NewRequest
<1>3. ended' = ended \cup {me} /\ Once /\ TargetFirst
  <2>1. CASE Refuse
    <3>1. Emit(<<Says(me, "error")>>)
      BY <2>1 DEF Refuse
    <3> QED
      BY <3>1, <1>2, SaysOne
  <2>2. CASE Answer /\ t # "cancel"
    <3>1. Emit(<<Says(me, "event"), Says(me, "done")>>)
      BY <2>2 DEF Answer
    <3> QED
      BY <3>1, <2>2, <1>2, SaysTwo
  <2> QED
    BY <2>1, <2>2
<1> QED
  BY <1>3, AnsweredNow

LEMMA Beginning ==
  ASSUME NEW k
  PROVE  Begin(k).kind = k /\ Begin(k).re = me /\ Begin(k).cancels = <<>>
  BY DEF Begin, NoOp

\* A request that takes the slot is answered later.
LEMMA TakesSlot ==
  ASSUME IInv, Owed, NEW t \in Slotted, Reads(t, 0), UNCHANGED <<aside, pc>>, ~Busy, Silent,
         op'.kind = t, op'.re = me, op'.cancels = <<>>
  PROVE  Owed' /\ Once /\ TargetFirst
<1>1. ended' = ended /\ Once /\ TargetFirst
  BY SaysNothing DEF Silent
<1>2. 0 \in 0..MaxRequests
  BY ServerAssumption
<1> QED
  BY <1>1, <1>2, StartedNow

LEMMA HandleOwed == ASSUME IInv, Owed, Handle PROVE Owed' /\ Once /\ TargetFirst
<1>0. 0 \in 0..MaxRequests
  BY ServerAssumption
<1>1. CASE Malformed
  <2>1. PICK re \in {0, me} : Reads("malformed", 0) /\ Emit(<<Says(re, "error")>>)
    BY <1>1 DEF Malformed
  <2>2. ~Closed /\ me \notin ended
    BY <1>0, <2>1, NewRequest DEF Owed
  <2>3. ended' = ended \cup {re} /\ Once /\ TargetFirst
    BY <2>1, <2>2, SaysOne
  <2> QED
    BY <1>0, <1>1, <2>1, <2>3, AnsweredNow DEF Malformed
<1>2. CASE StartScan
  <2>1. Reads("scan", 0) /\ UNCHANGED <<aside, pc>>
    BY <1>2 DEF StartScan
  <2>2. CASE Refuse /\ UNCHANGED op
    BY <1>0, <2>1, <2>2, RepliesNow
  <2>3. CASE ~Busy /\ BeginScan /\ Silent
    <3>1. op' = [Begin("scan") EXCEPT !.left = Rule \ off]
      BY <2>3 DEF BeginScan
    <3>2. op'.kind = "scan" /\ op'.re = me /\ op'.cancels = <<>>
      BY <3>1 DEF Begin, NoOp
    <3> QED
      BY <2>1, <2>3, <3>2, TakesSlot DEF Slotted
  <2> QED
    BY <1>2, <2>2, <2>3 DEF StartScan
<1>3. CASE MakePlan
  <2>1. Reads("plan", 0) /\ UNCHANGED <<op, aside, pc>> /\ (Refuse \/ Answer)
    BY <1>3 DEF MakePlan
  <2> QED
    BY <1>0, <2>1, RepliesNow
<1>4. CASE StartExecute
  <2>1. Reads("execute", 0) /\ UNCHANGED <<aside, pc>>
    BY <1>4 DEF StartExecute
  <2>2. CASE Refuse /\ UNCHANGED op
    BY <1>0, <2>1, <2>2, RepliesNow
  <2>3. ASSUME NEW p, ~Busy, Silent,
               op' = [Begin("execute") EXCEPT !.plan = p, !.scan = plans[p].scan, !.todo = Actions]
        PROVE  Owed' /\ Once /\ TargetFirst
    <3>1. op'.kind = "execute" /\ op'.re = me /\ op'.cancels = <<>>
      BY <2>3 DEF Begin, NoOp
    <3> QED
      BY <2>1, <2>3, <3>1, TakesSlot DEF Slotted
  <2> QED
    BY <1>4, <2>2, <2>3, Zenon DEF StartExecute
<1>5. CASE Cancel
  <2>1. PICK t \in 0..Len(asked) :
          /\ Reads("cancel", t)
          /\ IF t = 0 THEN Refuse /\ UNCHANGED op
             ELSE IF op.re # t THEN Emit(<<Says(me, "done")>>) /\ UNCHANGED op
             ELSE /\ op' = [op EXCEPT !.stop = TRUE, !.cancels = Append(@, me)]
                  /\ Silent
          /\ UNCHANGED <<aside, pc>>
    BY <1>5, Zenon DEF Cancel
  <2>2. t \in 0..MaxRequests
    <3>1. Len(asked) \in Nat
      BY Shaped
    <3> QED
      BY <2>1, <3>1, ServerAssumption DEF Reads, me
  <2>3. CASE t = 0
    BY <2>1, <2>2, <2>3, RepliesNow
  <2>4. CASE t # 0 /\ op.re # t
    <3>1. /\ ~Closed /\ me \notin ended /\ asked'[me].type = "cancel" /\ asked'[me].target = t
          /\ \A r \in DOMAIN asked : asked'[r] = asked[r]
      BY <2>1, <2>2, NewRequest DEF Owed
    <3>2. t \in DOMAIN asked
      <4>1. asked \in Seq([type : Asks, target : 0..MaxRequests])
        BY DEF IInv, Shape
      <4> QED
        BY <2>1, <2>4, <4>1
    <3>3. asked[t].type \notin Slotted \/ t \in ended
      BY <2>4, <3>1, <3>2 DEF Owed, Accounts, Settled, Slotted, Aside, Counted
    <3>4. ended' = ended \cup {me} /\ Once /\ TargetFirst
      BY <2>1, <2>4, <3>1, <3>2, <3>3, SaysOne
    <3> QED
      BY <2>1, <2>2, <2>4, <3>4, AnsweredNow
  <2>5. CASE t # 0 /\ op.re = t
    <3>1. op' = [op EXCEPT !.stop = TRUE, !.cancels = Append(@, me)] /\ Silent
      BY <2>1, <2>5
    <3>2. op'.kind = op.kind /\ op'.re = op.re /\ op'.cancels = Append(op.cancels, me)
      BY <3>1 DEF IInv, Shape, Op
    <3>3. ended' = ended /\ Once /\ TargetFirst
      BY <3>1, SaysNothing DEF Silent
    <3> QED
      BY <2>1, <2>2, <2>5, <3>2, <3>3, CancelWaits
  <2> QED
    BY <2>3, <2>4, <2>5
<1>6. CASE StartOther
  <2>1. PICK k \in {"tick", "aerials_switch"} :
          /\ Reads(k, 0)
          /\ IF Busy THEN Refuse /\ UNCHANGED op ELSE op' = Begin(k) /\ Silent
          /\ UNCHANGED <<aside, pc>>
    BY <1>6 DEF StartOther
  <2>2. CASE Busy
    BY <1>0, <2>1, <2>2, RepliesNow
  <2>3. CASE ~Busy
    <3>1. op'.kind = k /\ op'.re = me /\ op'.cancels = <<>>
      BY <2>1, <2>3, Beginning
    <3> QED
      BY <2>1, <2>3, <3>1, TakesSlot DEF Slotted
  <2> QED
    BY <2>2, <2>3
<1>7. CASE StartAside
  <2>1. PICK k \in Aside : Reads(k, 0) /\ aside' = aside \cup {me} /\ Silent /\ UNCHANGED <<op, pc>>
    BY <1>7 DEF StartAside
  <2>2. ended' = ended /\ Once /\ TargetFirst
    BY <2>1, SaysNothing DEF Silent
  <2> QED
    BY <2>1, <2>2, AsideNow
<1>8. CASE Rules
  <2>1. PICK k \in {"rules", "set_rules"} :
          Reads(k, 0) /\ UNCHANGED <<op, aside, pc>> /\ (Refuse \/ Answer)
    BY <1>8 DEF Rules
  <2> QED
    BY <1>0, <2>1, RepliesNow
<1> QED
  BY <1>1, <1>2, <1>3, <1>4, <1>5, <1>6, <1>7, <1>8 DEF Handle

LEMMA EndOwed ==
  ASSUME IInv, Owed, Busy, UNCHANGED <<asked, aside, pc>>, NEW k \in {"done", "error"},
         NEW es, es = <<>> \/ es = <<Says(op.re, "event")>>, End(es, k)
  PROVE  Owed' /\ Once /\ TargetFirst
<1>1. op' = NoOp
  BY DEF End
<1>2. CASE Closed
  <2>1. PICK s : Emit(s)
    BY DEF End
  <2>2. ended' = ended /\ Once /\ TargetFirst
    BY <1>2, <2>1, SaysNothing
  <2> QED
    BY <1>1, <1>2, <2>2, OpEnds
<1>3. CASE ~Closed
  <2>1. /\ ended' = ended \cup {op.re} \cup {op.cancels[i] : i \in DOMAIN op.cancels}
        /\ Once /\ TargetFirst
    BY <1>3, SaysEnd DEF Owed
  <2> QED
    BY <1>1, <2>1, OpEnds
<1> QED
  BY <1>2, <1>3

\* An operation's own step: nothing is said, or one event of it.
LEMMA OpSays ==
  ASSUME IInv, Owed, Busy, UNCHANGED <<asked, aside, pc>>,
         op'.kind = op.kind, op'.re = op.re, op'.cancels = op.cancels,
         Silent \/ Emit(<<Says(op.re, "event")>>)
  PROVE  Owed' /\ Once /\ TargetFirst
<1>1. ended' = ended /\ Once /\ TargetFirst
  <2>1. CASE Silent \/ Closed
    BY <2>1, SaysNothing DEF Silent
  <2>2. CASE Emit(<<Says(op.re, "event")>>) /\ ~Closed
    <3>1. op.re \notin ended
      BY DEF Owed, Accounts
    <3> QED
      BY <2>2, <3>1, SaysOne
  <2> QED
    BY <2>1, <2>2
<1> QED
  BY <1>1, GoesOn DEF Closed

LEMMA WorkOwed == ASSUME IInv, Owed, Work PROVE Owed' /\ Once /\ TargetFirst
<1>0. op \in Op
  BY DEF IInv, Shape
<1>1. CASE \/ ScanBegins \/ RuleReports \/ ScanWrapsUp
           \/ ExecutorBuilt \/ ActionBegins \/ ActionEnds
  <2>1. Busy /\ UNCHANGED <<asked, aside, pc>>
    BY <1>1 DEF ScanBegins, RuleReports, ScanWrapsUp, ExecutorBuilt, ActionBegins, ActionEnds,
       Running, Busy
  <2>2. Silent \/ Emit(<<Says(op.re, "event")>>)
    BY <1>1, Zenon DEF ScanBegins, RuleReports, ScanWrapsUp, ExecutorBuilt, ActionBegins, ActionEnds
  <2>3. op'.kind = op.kind /\ op'.re = op.re /\ op'.cancels = op.cancels
    BY <1>0, <1>1 DEF ScanBegins, RuleReports, ScanWrapsUp, ExecutorBuilt, ActionBegins, ActionEnds, Op
  <2> QED
    BY <2>1, <2>2, <2>3, OpSays
<1>2. CASE ScanEnds \/ NoExecutor \/ ExecuteEnds
  <2>1. Busy /\ UNCHANGED <<asked, aside, pc>> /\ (End(<<>>, "done") \/ End(<<>>, "error"))
    BY <1>2 DEF ScanEnds, NoExecutor, ExecuteEnds, Running, Busy
  <2> QED
    BY <2>1, EndOwed
<1>3. CASE OtherEnds
  <2>1. /\ Busy /\ UNCHANGED <<asked, aside, pc>>
        /\ \E k \in {"done", "error"} : End(<<Says(op.re, "event")>>, k)
    BY <1>3 DEF OtherEnds, Running, Busy
  <2> QED
    BY <2>1, EndOwed
<1>4. CASE AsideEnds
  <2>1. PICK r \in aside :
          /\ aside' = aside \ {r} /\ UNCHANGED <<asked, op, pc>>
          /\ Emit(<<Says(r, "error")>>) \/ Emit(<<Says(r, "event"), Says(r, "done")>>)
    BY <1>4 DEF AsideEnds
  <2>2. r \notin ended /\ asked[r].type # "cancel"
    BY DEF Owed, Accounts, Aside, Counted
  <2>3. CASE Closed
    <3>1. ended' = ended /\ Once /\ TargetFirst
      BY <2>1, <2>3, SaysNothing
    <3> QED
      BY <2>1, <2>3, <3>1, AsideAnswered
  <2>4. CASE ~Closed
    <3>1. ended' = ended \cup {r} /\ Once /\ TargetFirst
      BY <2>1, <2>2, <2>4, SaysOne, SaysTwo
    <3> QED
      BY <2>1, <3>1, AsideAnswered
  <2> QED
    BY <2>3, <2>4
<1> QED
  BY <1>1, <1>2, <1>3, <1>4 DEF Work

LEMMA LeaveOwed == ASSUME IInv, Owed, Elapse \/ Leave PROVE Owed' /\ Once /\ TargetFirst
<1>1. ended' = ended /\ Once /\ TargetFirst
  BY SaysNothing DEF Elapse, Leave, StdinEnds, GraceEnds, Stopped, Answered, Exit, Silent
<1>2. op' = op \/ op' = [op EXCEPT !.stop = TRUE]
  BY DEF Elapse, Leave, StdinEnds, GraceEnds, Stopped, Answered, Exit
<1>3. op'.kind = op.kind /\ op'.re = op.re /\ op'.cancels = op.cancels
  BY <1>2 DEF IInv, Shape, Op
<1>4. UNCHANGED <<asked, aside>> /\ (Closed => Closed')
  BY DEF Elapse, Leave, StdinEnds, GraceEnds, Stopped, Answered, Exit, Closed
<1> QED
  BY <1>1, <1>3, <1>4, GoesOn

LEMMA NextOwed ==
  ASSUME IInv, Owed, [Next]_vars PROVE Owed' /\ (~UNCHANGED vars => Once /\ TargetFirst)
<1>1. CASE UNCHANGED vars
  <2>1. UNCHANGED <<asked, ended, aside, op, pc>>
    BY <1>1 DEF vars
  <2> QED
    BY <1>1, <2>1, GoesOn DEF Closed
<1> QED
  BY <1>1, HandleOwed, WorkOwed, LeaveOwed DEF Next

LEMMA InitOwed == Init => Owed
  BY DEF Init, Owed, Accounts, Settled, NoOp, Busy, Awaits

\* Every request of a session has one terminal event, the last the peer hears
\* of it, and a cancel's comes after its target's: whatever the requests, and
\* however the read loop, the operation, the answers beside it and the
\* shutdown interleave.
THEOREM TerminalsComeInOrder == Spec => TerminalsInOrder
<1> DEFINE OneEnd ==
      \A i \in DOMAIN said' :
        LET e == said'[i] IN e.re # 0 =>
          /\ e.re \notin ended
          /\ \A j \in 1..(i - 1) : Terminal(said'[j]) => said'[j].re # e.re
           TargetEnded ==
      \A i \in DOMAIN said' :
        LET r == said'[i].re
            t == asked'[r].target
        IN r # 0 /\ asked'[r].type = "cancel" /\ said'[i].kind = "done" /\ asked'[t].type \in Slotted
           => t \in ended \/ \E j \in 1..(i - 1) : said'[j].re = t /\ Terminal(said'[j])
<1>1. IInv /\ Owed /\ [Next]_vars => Owed' /\ [OneEnd]_vars /\ [TargetEnded]_vars
  <2>1. (Once => OneEnd) /\ (TargetFirst => TargetEnded)
    BY DEF Once, TargetFirst
  <2> HIDE DEF OneEnd, TargetEnded
  <2> QED
    BY <2>1, NextOwed
<1>2. Spec => [][OneEnd]_vars /\ [][TargetEnded]_vars
  BY <1>1, InitOwed, Invariance, PTL DEF Spec
<1> QED
  BY <1>2 DEF TerminalsInOrder, OneTerminal, CancelAfterTarget

----------------------------------------------------------------------------
(***************************************************************************)
(* A clean exit.  After the read loop nothing begins, so what shutdown has *)
(* waited for stays over; who is then still owed an answer was given the   *)
(* whole grace.  An aerials status is not waited for, hence the condition. *)
(***************************************************************************)

\* Once shutdown has waited for the operation, only a scan is left, late.
Waited == pc \in {"answering", "closing", "exited"} =>
  op.kind \in {"none", "scan"} /\ (Busy => late)

LEMMA NextWaited == ASSUME IInv, Waited, [Next]_vars PROVE Waited'
<1>1. CASE Handle
  <2>1. pc' = "reading"
    BY <1>1 DEF Handle, Malformed, StartScan, MakePlan, StartExecute, Cancel, StartOther,
       StartAside, Rules, Reads
  <2> QED
    BY <2>1 DEF Waited
<1>2. CASE Work
  <2>1. pc' = pc /\ late' = late
    BY <1>2 DEF Work, ScanBegins, RuleReports, ScanWrapsUp, ScanEnds, ExecutorBuilt, NoExecutor,
       ActionBegins, ActionEnds, ExecuteEnds, OtherEnds, AsideEnds
  <2>2. op'.kind = op.kind \/ op'.kind = "none"
    <3>1. op \in Op /\ NoOp.kind = "none"
      BY DEF IInv, Shape, NoOp
    <3>2. CASE ScanEnds \/ NoExecutor \/ ExecuteEnds \/ OtherEnds
      BY <3>1, <3>2 DEF ScanEnds, NoExecutor, ExecuteEnds, OtherEnds, End
    <3>3. CASE \/ ScanBegins \/ RuleReports \/ ScanWrapsUp \/ ExecutorBuilt
               \/ ActionBegins \/ ActionEnds \/ AsideEnds
      BY <3>1, <3>3 DEF ScanBegins, RuleReports, ScanWrapsUp, ExecutorBuilt, ActionBegins, ActionEnds,
         AsideEnds, Op
    <3> QED
      BY <1>2, <3>2, <3>3 DEF Work
  <2> QED
    BY <2>1, <2>2 DEF Waited, Busy
<1>3. CASE StdinEnds
  BY <1>3 DEF StdinEnds, Waited
<1>4. CASE Elapse \/ GraceEnds \/ Stopped \/ Answered \/ Exit \/ UNCHANGED vars
  <2>1. /\ op' = op /\ (late => late')
        /\ \/ pc' = pc
           \/ pc = "stopping" /\ (~Busy \/ (op.kind = "scan" /\ late))
           \/ pc \in {"answering", "closing"}
    BY <1>4 DEF vars, Elapse, GraceEnds, Stopped, Answered, Exit
  <2> QED
    BY <2>1 DEF Waited, Busy
<1> QED
  BY <1>1, <1>2, <1>3, <1>4 DEF Next, Leave

LEMMA InitWaited == Init => Waited
  BY DEF Init, Waited

LEMMA NextClean ==
  ASSUME "aerials" \notin Asks, IInv, Owed, Waited, Waited', CleanExit, [Next]_vars
  PROVE  CleanExit'
<1>1. CASE Answered
  <2>1. /\ pc = "answering" /\ UNCHANGED <<asked, op, aside, late>>
        /\ late \/ \A r \in aside : asked[r].type \notin Counted
        /\ ended' = ended
    BY <1>1, SaysNothing DEF Answered, Silent
  <2>2. op.kind \in {"none", "scan"} /\ (Busy => late)
    BY <2>1 DEF Waited
  <2>3. ASSUME NEW r \in DOMAIN asked, r \notin ended, asked[r].type # "malformed"
        PROVE  late /\ asked[r].type \in Counted \cup {"scan", "cancel"}
    <3>1. r = op.re \/ Awaits(r) \/ r \in aside
      BY <2>1, <2>3 DEF Owed, Settled, Closed
    <3>2. r # 0 /\ asked[r].type \in Asks
      <4>1. asked \in Seq([type : Asks, target : 0..MaxRequests])
        BY DEF IInv, Shape
      <4>2. /\ DOMAIN asked = 1..Len(asked)
            /\ asked \in [1..Len(asked) -> [type : Asks, target : 0..MaxRequests]]
        BY <4>1, LenProperties
      <4> QED
        BY <2>3, <4>2
    <3>3. CASE r = op.re
      BY <2>2, <3>2, <3>3 DEF Owed, Accounts, Busy
    <3>4. CASE Awaits(r)
      BY <2>2, <3>4 DEF Owed, Accounts, Awaits
    <3>5. CASE r \in aside
      <4>1. asked[r].type \in Counted
        BY <3>2, <3>5 DEF Owed, Accounts, Aside
      <4> QED
        BY <2>1, <3>5, <4>1
    <3> QED
      BY <3>1, <3>3, <3>4, <3>5
  <2> QED
    BY <2>1, <2>2, <2>3 DEF CleanExit
<1>2. CASE Closed /\ ~Answered
  <2>1. ~Handle /\ ~Elapse /\ ~StdinEnds /\ ~GraceEnds /\ ~Stopped
    BY <1>2 DEF Closed, Handle, Malformed, StartScan, MakePlan, StartExecute, Cancel, StartOther,
       StartAside, Rules, Reads, Elapse, StdinEnds, GraceEnds, Stopped
  <2>2. Work \/ Exit \/ UNCHANGED vars
    BY <1>2, <2>1 DEF Next, Leave
  <2>3. asked' = asked /\ late' = late /\ Closed'
    BY <1>2, <2>2 DEF vars, Exit, Closed, Work, ScanBegins, RuleReports, ScanWrapsUp, ScanEnds,
       ExecutorBuilt, NoExecutor, ActionBegins, ActionEnds, ExecuteEnds, OtherEnds, AsideEnds
  <2>4. ended' = ended
    <3>1. (\E es : Emit(es)) \/ UNCHANGED vars
      BY <2>2 DEF Exit, Silent, Work, ScanBegins, RuleReports, ScanWrapsUp, ScanEnds, End,
       ExecutorBuilt, NoExecutor, ActionBegins, ActionEnds, ExecuteEnds, OtherEnds, AsideEnds
    <3> QED
      BY <1>2, <3>1, SaysNothing DEF vars
  <2>5. op'.kind \in {"none", "scan"}
    BY <2>3 DEF Waited, Closed
  <2> QED
    BY <1>2, <2>3, <2>4, <2>5 DEF CleanExit, Closed
<1>3. CASE ~Closed /\ ~Answered
  <2>1. ~Closed'
    BY <1>3 DEF Closed, Next, vars, Handle, Malformed, StartScan, MakePlan, StartExecute, Cancel, StartOther,
       StartAside, Rules, Reads, Elapse, Leave, StdinEnds, GraceEnds, Stopped, Exit, Work, ScanBegins,
       RuleReports, ScanWrapsUp, ScanEnds, ExecutorBuilt, NoExecutor, ActionBegins, ActionEnds,
       ExecuteEnds, OtherEnds, AsideEnds
  <2> QED
    BY <2>1 DEF CleanExit, Closed
<1> QED
  BY <1>1, <1>2, <1>3

\* Unless the peer asks for an aerials status, the engine closes its stream
\* with no execute, tick or switch running, and whoever got no terminal event
\* was given the whole grace: a scan, a cancel waiting on it, a history or
\* updates.
THEOREM ExitsClean == ASSUME "aerials" \notin Asks PROVE Spec => []CleanExit
<1>1. Init => CleanExit
  BY DEF Init, CleanExit
<1> QED
  BY <1>1, InitOwed, NextOwed, InitWaited, NextWaited, NextClean, Invariance, PTL DEF Spec
============================================================================

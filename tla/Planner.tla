------------------------------- MODULE Planner -------------------------------
(***************************************************************************)
(* How a scan becomes a plan (internal/engine: forest.go, plan.go,         *)
(* account.go). The containment forest of the scan's items is built once;  *)
(* the rules are then drafted one by one, as the loop of BuildPlanWith     *)
(* does, and the drafts resolved against the forest.                       *)
(*                                                                         *)
(* A path is the sequence of its characters, as numbers, below one root;   *)
(* Sep is the slash. What the items hold is a set of files, so that bytes  *)
(* counted twice or not at all show: an item's bytes are the files in it   *)
(* that could be read.                                                     *)
(***************************************************************************)
EXTENDS Integers, Sequences, FiniteSets, SequencesExt, FiniteSetsExt

CONSTANTS
  Sep,       \* the slash; every character of a name is another number
  Scans,     \* the findings a scan may end with
  Files,     \* the files there are: paths, and a tool's own things by key
  Locked,    \* the files a walk cannot read
  Refused,   \* the paths trash.GuardPath refuses
  MaxAtoms,  \* the most atoms an owner picks by hand
  Options    \* PlanOptions: [noSudo, missing], missing = programs not on PATH

\* A command runs once for the whole rule, or once per item with a placeholder.
Commands == {"none", "whole", "path", "arg"}
Risks == {"safe", "caution", "surface-only"}
Rule == [risk : Risks, cmd : Commands, empties : BOOLEAN, sudo : BOOLEAN,
         exports : BOOLEAN, phantom : BOOLEAN]

\* The schema: what empties the Trash is a whole-rule command and never safe.
\* The keys (DeriveKey): items of a rule that share one are the same target.
ASSUME PlannerAssumption ==
  /\ Scans \subseteq Seq([rule : Rule, items : Seq([path : Seq(Nat), key : Seq(Nat)]), failed : BOOLEAN])
  /\ \A scan \in Scans : \A i \in DOMAIN scan :
       scan[i].rule.empties => scan[i].rule.cmd = "whole" /\ scan[i].rule.risk # "safe"
  /\ \A scan \in Scans : \A i \in DOMAIN scan : \A j, k \in DOMAIN scan[i].items :
       scan[i].items[j].key = scan[i].items[k].key => scan[i].items[j].path = scan[i].items[k].path
  /\ \A o \in Options : o.noSudo \in BOOLEAN
  /\ MaxAtoms \in Nat /\ Sep \in Nat

VARIABLES
  findings,  \* a rule with its items each; the risk is the one of this scan,
             \* surface-only while the rule's hold keeps its items
  selected,  \* the atoms the owner picked
  options,
  above,     \* the forest: the items each item is inside, outermost first
  next,      \* the rule BuildPlanWith drafts next
  drafts,    \* the actions before nesting
  skipped,
  actions,   \* the plan's actions
  phase      \* scanned, drafting, planned

vars == <<findings, selected, options, above, next, drafts, skipped, actions, phase>>

-----------------------------------------------------------------------------
(* Items and what they hold. An item is a path and a key; a tool's item    *)
(* that only its command can address has no path.                          *)

NoPath == <<>>
RuleOf(i) == findings[i].rule
RefsOf(i) == {<<i, j>> : j \in DOMAIN findings[i].items}
Refs == UNION {RefsOf(i) : i \in DOMAIN findings}
ItemAt(r) == findings[r[1]].items[r[2]]
Actionable(i) == findings[i].rule.risk # "surface-only"

\* The cleaned path and a slash, which every path below it starts with.
PathKey(p) == Append(p, Sep)
Inside(p, q) == IsPrefix(PathKey(q), PathKey(p))

\* The files of an item on disk, those a scan could read, and Item.Unreadable.
Holds(it) == IF it.path = NoPath THEN {it.key} \cap Files
             ELSE {f \in Files : Inside(f, it.path)}

\* A tool lists each of its own things once, and what has no path is inside
\* nothing that has one.  (Account adds up the items that share an id, and the
\* forest has no place for an item without a path: one listed twice would count
\* twice.)
ASSUME ToolsOwnThings ==
  /\ Files \subseteq Seq(Nat) /\ IsFiniteSet(Files)
  /\ \A scan \in Scans : \A i, k \in DOMAIN scan :
       \A j \in DOMAIN scan[i].items : \A m \in DOMAIN scan[k].items :
         (i # k \/ j # m) /\ scan[i].items[j].path = NoPath =>
           Holds(scan[i].items[j]) \cap Holds(scan[k].items[m]) = {}

Readable(it) == Holds(it) \ Locked
Bytes(r) == Cardinality(Readable(ItemAt(r)))
Unreadable(it) == Holds(it) \cap Locked # {} /\ Readable(it) = {}

-----------------------------------------------------------------------------
(* The containment forest.                                                 *)

\* Strings compare by their first different character.
Less(s, t) ==
  \/ IsStrictPrefix(s, t)
  \/ \E k \in DOMAIN s \cap DOMAIN t :
       /\ s[k] < t[k]
       /\ \A m \in 1..(k - 1) : s[m] = t[m]

\* (Variant: sorted by the bare paths, without the slash.)
NodeBeforeBare(a, b) == Less(ItemAt(a).path, ItemAt(b).path)
  \/ (ItemAt(a).path = ItemAt(b).path /\ (a[1] < b[1] \/ (a[1] = b[1] /\ a[2] < b[2])))

\* By path; the same path in the order of rules, then of items.
NodeBefore(a, b) ==
  LET p == PathKey(ItemAt(a).path)
      q == PathKey(ItemAt(b).path)
  IN \/ Less(p, q)
     \/ p = q /\ a[1] < b[1]
     \/ p = q /\ a[1] = b[1] /\ a[2] < b[2]

\* sort.Slice: a node is where as many come before it.
Sorted(nodes) == [k \in 1..Cardinality(nodes) |->
  CHOOSE r \in nodes : Cardinality({q \in nodes : NodeBefore(q, r)}) = k - 1]

\* What is left of the stack once it is popped down to what holds r.
Popped(stack, r) ==
  LET top == {k \in DOMAIN stack : Inside(ItemAt(r).path, ItemAt(stack[k]).path)}
  IN SubSeq(stack, 1, Max(top \cup {0}))

\* buildForest: each item keeps the stack it was pushed on, its ancestors.
BuildForest ==
  LET nodes == Sorted({r \in Refs : ItemAt(r).path # NoPath})
      stack[k \in 0..Len(nodes)] ==
        IF k = 0 THEN <<>> ELSE Append(Popped(stack[k - 1], nodes[k]), nodes[k])
  IN [r \in Refs |->
        IF ItemAt(r).path = NoPath THEN <<>>
        ELSE LET k == CHOOSE k \in DOMAIN nodes : nodes[k] = r IN Front(stack[k])]

Ancestors(r) == ToSet(above[r])
Children(r) == {d \in Refs : above[d] # <<>> /\ Last(above[d]) = r}
Descendants(r) == {d \in Refs : r \in Ancestors(d)}
SharesPath(r) == {a \in Ancestors(r) : ItemAt(a).path = ItemAt(r).path}

-----------------------------------------------------------------------------
(* The selection.                                                          *)

Id(r) == <<r[1], ItemAt(r).key>>
PerItem(i) == RuleOf(i).cmd # "whole"

\* itemsFor: the items to plan, whether the rule is picked at all, and
\* whether only some of its items are.
Picked(i) == {r \in RefsOf(i) : i \in selected.rules \/ Id(r) \in selected.items}
Engaged(i) == i \in selected.rules \/ \E a \in selected.items : a[1] = i
PartialPick(i) == i \notin selected.rules /\ Picked(i) # RefsOf(i)

\* itemsFor marks the atoms it matched, and returns before that where the
\* whole rule is picked.
Matched == {Id(r) : r \in {q \in Refs : q[1] \notin selected.rules}}

Unmatched ==
  {<<i>> : i \in selected.rules \ DOMAIN findings} \cup (selected.items \ Matched)

Nothing == [rules |-> {}, items |-> {}]
ReadRefs(i) == {r \in RefsOf(i) : ~Unreadable(ItemAt(r))}
AllRead(i) == ReadRefs(i) = RefsOf(i)

\* DefaultSelection: where every face starts.
DefaultSelection ==
  LET offered == {i \in DOMAIN findings : /\ findings[i].rule.risk = "safe" /\ ~findings[i].failed
                                          /\ findings[i].items # <<>>}
  IN [rules |-> {i \in offered : AllRead(i)},
      items |-> UNION {{Id(r) : r \in ReadRefs(i)} :
                         i \in {q \in offered : ~AllRead(q) /\ PerItem(q)}}]

\* (Variant: items nothing of which was measured, offered too.)
SelectableUnread(i) ==
  IF Actionable(i) /\ PerItem(i) THEN [rules |-> {}, items |-> {Id(r) : r \in RefsOf(i)}] ELSE Nothing

\* Selectable: the atoms that tick a rule's row.
Selectable(i) ==
  LET f == findings[i] IN
  IF ~Actionable(i) \/ f.items = <<>> \/ f.failed THEN Nothing
  ELSE IF PerItem(i) /\ ReadRefs(i) # {}
       THEN [rules |-> {}, items |-> {Id(r) : r \in ReadRefs(i)}]
       ELSE [rules |-> IF AllRead(i) THEN {i} ELSE {}, items |-> {}]

-----------------------------------------------------------------------------
(* Drafting one rule.                                                      *)

WholeRule == 0
Skip(i, j, why) == [rule |-> i, item |-> j, why |-> why, cover |-> <<>>]
Draft(i, refs) == [rule |-> i, items |-> refs, empties |-> RuleOf(i).empties]
Result(ds, sk) == [drafts |-> ds, skips |-> sk]

\* (Variant: only what is below.)
SurfaceOnlyBelow(r) == {d \in Descendants(r) : ~Actionable(d[1])}

\* surfaceOnlyConflict: what deleting r would take that is never deleted.
SurfaceOnlyConflicts(r) ==
  {d \in Descendants(r) \cup SharesPath(r) : ~Actionable(d[1])}

\* One action per item: trashDrafts, and nativeDrafts with a placeholder.
\* The first reason that applies, in the code's order.
Refusal(i, r) ==
  LET p == ItemAt(r).path IN
  CASE p = NoPath /\ RuleOf(i).cmd \in {"none", "path"} -> "no path"
    [] p # NoPath /\ p \in Refused                     -> "guard"
    [] SurfaceOnlyConflicts(r) # {}                    -> "contains"
    [] OTHER                                           -> "none"

PerItemDrafts(i, refs) ==
  Result({Draft(i, {r}) : r \in {q \in refs : Refusal(i, q) = "none"}},
         {Skip(i, r[2], Refusal(i, r)) : r \in {q \in refs : Refusal(i, q) # "none"}})

WholeRuleDraft(i, refs) ==
  IF PartialPick(i) THEN Result({}, {Skip(i, WholeRule, "partial")})
  ELSE IF \E r \in refs : SurfaceOnlyConflicts(r) # {}
       THEN Result({}, {Skip(i, WholeRule, "contains")})
       ELSE Result({Draft(i, refs)}, {})

\* PlanOptions.refusal, then refusedSkips: a command this face cannot run.
CannotRun(i) == /\ RuleOf(i).cmd # "none"
                /\ i \in options.missing \/ (options.noSudo /\ RuleOf(i).sudo)

RefusedSkips(i, ds) ==
  IF PartialPick(i) THEN {Skip(i, r[2], "cannot run") : r \in UNION {d.items : d \in ds}}
  ELSE {Skip(i, WholeRule, "cannot run")}

RuleDrafts(i) ==
  IF ~Engaged(i) THEN Result({}, {})
  ELSE IF ~Actionable(i) THEN Result({}, {Skip(i, WholeRule, "surface-only")})
  ELSE IF Picked(i) = {} THEN Result({}, {})
  ELSE LET all == IF PerItem(i) THEN PerItemDrafts(i, Picked(i)) ELSE WholeRuleDraft(i, Picked(i))
       IN IF CannotRun(i) /\ all.drafts # {}
          THEN Result({}, all.skips \cup RefusedSkips(i, all.drafts))
          ELSE all

-----------------------------------------------------------------------------
(* Nesting.                                                                *)

Planned == UNION {d.items : d \in drafts}
\* (Variant: only the parent is looked at.)
HasPlannedParent(r) == above[r] # <<>> /\ Last(above[r]) \in Planned

HasPlannedAncestor(r) == Ancestors(r) \cap Planned # {}
Uncovered(d) == {r \in d.items : ~HasPlannedAncestor(r)}
\* (Variant: an action is dropped once any of its items is covered.)
KeptWhole == {d \in drafts : Uncovered(d) = d.items}

Kept == {d \in drafts : Uncovered(d) # {}}

\* unplannedInside: the unplanned items of earlier rules at r's own path, and
\* the topmost unplanned items below it, past the planned ones.
UnplannedInside(r) ==
  (SharesPath(r) \ Planned)
  \cup {d \in Descendants(r) \ Planned :
          \A a \in Ancestors(d) : r \in Ancestors(a) => a \in Planned}

\* (Variant: the nearest planned one, dropped or not.)
NearestPlanned(r) == above[r][Max({k \in DOMAIN above[r] : above[r][k] \in Planned})]

\* runningAncestor: the nearest one whose action stays; past the loop, were
\* there none, the topmost planned one or the zero itemRef.
RunningAncestor(r) ==
  LET planned == {k \in DOMAIN above[r] : above[r][k] \in Planned}
      running == {k \in planned : \E d \in Kept : above[r][k] \in d.items}
  IN CASE running # {}                  -> above[r][Max(running)]
       [] running = {} /\ planned # {}  -> above[r][Min(planned)]
       [] planned = {}                  -> <<1, 1>>

\* An action with the items it counts and lists.
Action(d) ==
  [rule |-> d.rule, items |-> d.items, empties |-> d.empties,
   bytes |-> MapThenSumSet(Bytes, Uncovered(d)),
   includes |-> UNION {UnplannedInside(r) : r \in Uncovered(d)}]

FirstItem(d) == CHOOSE r \in d.items : \A q \in d.items : r[2] <= q[2]
NestedSkip(d) ==
  [rule |-> d.rule, item |-> IF PerItem(d.rule) THEN FirstItem(d)[2] ELSE WholeRule,
   why |-> "inside", cover |-> RunningAncestor(FirstItem(d))]

\* resolveNesting: what empties the Trash comes before the rest, and each of
\* the two keeps the order of the rules and their items.
Actions == [first |-> {Action(d) : d \in {e \in Kept : e.empties}},
            rest  |-> {Action(d) : d \in {e \in Kept : ~e.empties}}]

-----------------------------------------------------------------------------
(* The ledger: Account, over the same forest.                              *)

Buckets == {"macos managed", "shown only", "exported", "frees now", "after trash"}

\* Bucket: when, if ever, a rule's bytes become free space.
Bucket(rule) ==
  CASE rule.phantom                        -> "macos managed"
    [] rule.risk = "surface-only"          -> "shown only"
    [] rule.cmd # "none" /\ rule.exports   -> "exported"
    [] rule.cmd # "none" /\ ~rule.exports  -> "frees now"
    [] OTHER                               -> "after trash"

\* What an item holds that no other item reports, and never less than nothing.
Exclusive(r) == Max({0, Bytes(r) - MapThenSumSet(Bytes, Children(r))})
Total(b) == MapThenSumSet(Exclusive, {r \in Refs : Bucket(RuleOf(r[1])) = b})

\* Items that share an id share one entry, which a rule's Share counts once.
ExclusiveOf(id) == MapThenSumSet(Exclusive, {r \in Refs : Id(r) = id})
Share(i) == MapThenSumSet(ExclusiveOf, {Id(r) : r \in RefsOf(i)})

-----------------------------------------------------------------------------
(* The steps.                                                              *)

\* What an owner may pick by hand: rules, items, an id of no rule and one of
\* no item.
Picks ==
  LET ids == {Id(r) : r \in Refs} \cup {<<Len(findings), NoPath>>}
      rules == UNION {kSubset(n, DOMAIN findings \cup {0}) : n \in 0..MaxAtoms}
  IN UNION {{[rules |-> R, items |-> I] : I \in UNION {kSubset(n, ids) : n \in 0..(MaxAtoms - Cardinality(R))}} :
              R \in {Q \in rules : Cardinality(Q) <= MaxAtoms}}

\* A scan has ended. Account and BuildPlanWith both build the forest from it.
Init ==
  /\ findings \in Scans
  /\ above = BuildForest
  /\ selected = Nothing /\ options \in Options
  /\ next = 1
  /\ drafts = {} /\ skipped = {} /\ actions = [first |-> {}, rest |-> {}]
  /\ phase = "scanned"

\* BuildPlanWith begins: by hand, or with no ids.
BuildPlan ==
  /\ phase = "scanned"
  /\ selected' \in Picks \cup {DefaultSelection}
  /\ phase' = "drafting"
  /\ UNCHANGED <<findings, options, above, next, drafts, skipped, actions>>

DraftRule ==
  /\ phase = "drafting" /\ next \in DOMAIN findings
  /\ LET res == RuleDrafts(next)
     IN /\ drafts' = drafts \cup res.drafts
        /\ skipped' = skipped \cup res.skips
  /\ next' = next + 1
  /\ UNCHANGED <<findings, selected, options, above, actions, phase>>

ResolveNesting ==
  /\ phase = "drafting" /\ next > Len(findings)
  /\ actions' = Actions
  /\ skipped' = skipped \cup {NestedSkip(d) : d \in drafts \ Kept}
  /\ phase' = "planned"
  /\ UNCHANGED <<findings, selected, options, above, next, drafts>>

Next == BuildPlan \/ DraftRule \/ ResolveNesting

Spec == Init /\ [][Next]_vars
-----------------------------------------------------------------------------
(* Properties.                                                             *)

PathOf(r) == ItemAt(r).path
Located == {r \in Refs : PathOf(r) # NoPath}
PlanActions == actions.first \cup actions.rest
Acted == UNION {a.items : a \in PlanActions}

\* Every variable keeps its type.
TypeOK ==
  /\ findings \in Scans /\ options \in Options
  /\ above \in [Refs -> Seq(Refs)]
  /\ next \in 1..(Len(findings) + 1)
  /\ \A d \in drafts : d.items \subseteq RefsOf(d.rule) /\ d.items # {}
  /\ \A s \in skipped : s.rule \in DOMAIN findings /\ s.item \in Nat
  /\ \A a \in PlanActions : a.items \subseteq RefsOf(a.rule) /\ a.bytes \in Nat /\ a.includes \subseteq Refs
  /\ phase \in {"scanned", "drafting", "planned"}

\* The forest is the containment of the paths: each item is inside exactly the
\* items whose path its own starts with, the nearest last; at one path the
\* earlier rule's item, then the earlier item, is the outer one.
IsForest ==
  \A r \in Refs :
    /\ above[r] \in Seq(Located)
    /\ r \notin Located => above[r] = <<>>
    /\ r \in Located =>
         Ancestors(r) = {a \in Located \ {r} : Inside(PathOf(r), PathOf(a)) /\ NodeBefore(a, r)}
    /\ \A k \in DOMAIN above[r] : Ancestors(above[r][k]) = {above[r][m] : m \in 1..(k - 1)}

\* buildForest's one walk over the sorted paths finds it.
ForestExact == phase = "scanned" => IsForest

\* A surface-only item is never deleted: not when selected, not inside what an
\* action deletes, not at a path another rule shares (BuildPlan).
NeverSurfaceOnly ==
  \A r \in Acted :
    /\ Actionable(r[1])
    /\ \A s \in Located : ~Actionable(s[1]) /\ r \in Located => ~Inside(PathOf(s), PathOf(r))

\* Action bytes are disjoint, and their sum is the union of what the plan
\* deletes (TotalBytes): no file is promised twice and none left out.
CountedOnce ==
  phase = "planned" =>
    MapThenSumSet(LAMBDA a : a.bytes, PlanActions)
      = Cardinality(UNION {Readable(ItemAt(r)) : r \in Acted})

\* Whatever was picked is deleted, by its own action or by one that holds it,
\* or a skip says of it, or of its whole rule, why not (resolveNesting:
\* dropping a draft never uncovers anything).
EveryPickAnswered ==
  phase = "planned" =>
    \A i \in DOMAIN findings : \A r \in Picked(i) :
      \/ r \in Acted
      \/ \E s \in skipped : /\ s.rule = i /\ s.item \in {WholeRule, r[2]}
                           /\ s.why = "inside" => \E a \in Acted \cap Located : Inside(PathOf(r), PathOf(a))

\* A skip "inside X, also selected" names an item the plan really deletes, and
\* which holds the item skipped (runningAncestor).
SkipNamesWhatRuns ==
  \A s \in {q \in skipped : q.why = "inside"} :
    /\ s.cover \in Acted
    /\ \E r \in Refs : /\ r[1] = s.rule /\ s.item \in {WholeRule, r[2]}
                      /\ Inside(PathOf(r), PathOf(s.cover))

\* Includes says what else goes: each unplanned item inside something an action
\* deletes is inside an item that exactly one action lists, nothing listed was
\* planned, and nothing is listed that stays (unplannedInside).
IncludesExact ==
  phase = "planned" =>
    /\ \A a \in PlanActions : \A v \in a.includes :
         /\ v \notin Planned
         /\ \E r \in a.items \cap Located : Inside(PathOf(v), PathOf(r))
         /\ \A b \in PlanActions \ {a} : v \notin b.includes
    /\ \A u \in Located \ Planned :
         (\E r \in Acted \cap Located : Inside(PathOf(u), PathOf(r)))
           => \E a \in PlanActions : \E v \in a.includes : Inside(PathOf(u), PathOf(v))

\* What a plan says beside its actions, of what goes with them and of what stays
\* behind for them, is what its run will do.
PlanSaysTrue == SkipNamesWhatRuns /\ IncludesExact

\* What a face offers, and what it starts from, plans without a complaint: no
\* atom that addresses nothing, no whole-rule command refused for a part of
\* its items, and no item nothing of which could be measured. The start is what
\* ticking the row of every safe rule gives.
Offered == [rules |-> UNION {Selectable(i).rules : i \in DOMAIN findings},
            items |-> UNION {Selectable(i).items : i \in DOMAIN findings}]
FromOffered ==
  \/ selected = DefaultSelection
  \/ (selected.rules \subseteq Offered.rules /\ selected.items \subseteq Offered.items)
RowsOfSafeRules ==
  {r \in Refs : RuleOf(r[1]).risk = "safe" /\ (r[1] \in Selectable(r[1]).rules \/ Id(r) \in Selectable(r[1]).items)}
OfferedPlans ==
  /\ phase = "scanned" =>
       {r \in Refs : r[1] \in DefaultSelection.rules \/ Id(r) \in DefaultSelection.items} = RowsOfSafeRules
  /\ phase = "planned" /\ FromOffered =>
       /\ Unmatched = {}
       /\ \A s \in skipped : s.why # "partial"
       /\ \A r \in Planned : ~Unreadable(ItemAt(r))

\* Every file that was read is in exactly one bucket, that of the innermost
\* item holding it, and the rules' shares add up to the buckets (Ledger).
InnermostOf(r) ==
  Readable(ItemAt(r)) \ UNION {Readable(ItemAt(d)) : d \in {e \in Located \ {r} :
                                  Inside(PathOf(e), PathOf(r)) /\ NodeBefore(r, e)}}
LedgerExact ==
  phase = "scanned" =>
  /\ \A b \in Buckets :
       Total(b) = Cardinality(UNION {InnermostOf(r) : r \in {q \in Refs : Bucket(RuleOf(q[1])) = b}})
  /\ MapThenSumSet(Share, DOMAIN findings) = MapThenSumSet(Total, Buckets)

\* No byte is promised twice or left out, neither by the scan's ledger nor by
\* the plan's actions.
BytesExact == LedgerExact /\ CountedOnce

==============================================================================

------------------------------- MODULE RunLog ------------------------------
(***************************************************************************)
(* What is read out of the journal's entries: the runs, which moves are    *)
(* pending, which copies are on disk, and `regrow history`'s counts        *)
(* (internal/oplog/oplog.go, summary.go).                                  *)
(***************************************************************************)
EXTENDS Trash, Integers, Sequences, FiniteSetsExt

CONSTANT Run

NoPruned == -1

Start(run, seq, a) ==
  [event |-> "start", run |-> run, seq |-> seq, kind |-> a.kind, bytes |-> a.bytes,
   receipt |-> NoReceipt, pruned |-> NoPruned, error |-> FALSE]
After(run, seq, out) ==
  [event |-> IF out.ok THEN "done" ELSE "fail", run |-> run, seq |-> seq, kind |-> "", bytes |-> 0,
   receipt |-> out.receipt, pruned |-> out.pruned, error |-> ~out.ok]
UndoEntry(run, seq, ok) ==
  [event |-> "undo", run |-> run, seq |-> seq, kind |-> "", bytes |-> 0,
   receipt |-> NoReceipt, pruned |-> NoPruned, error |-> ~ok]

Is(e, event) == e.event = event
OfRun(journal, run) == {i \in DOMAIN journal : journal[i].run = run}

\* (Variant: the case of a name counts, with an identity or without.)
SameSpelling(receipt, later) == receipt.to = later.to

SameCopy(receipt, later) ==
  IF receipt.ino = 0 THEN FoldLoc(receipt.to) = FoldLoc(later.to) ELSE receipt.to = later.to

\* The done moves whose copy path a later done action took again.
Reused(journal) ==
  {i \in DOMAIN journal :
     /\ Is(journal[i], "done") /\ Restorable(journal[i].receipt)
     /\ \E j \in i + 1..Len(journal) :
          Is(journal[j], "done") /\ SameCopy(journal[i].receipt, journal[j].receipt)}

Undone(journal, run) ==
  {journal[i].seq : i \in {j \in OfRun(journal, run) : Is(journal[j], "undo") /\ ~journal[j].error}}

\* The run's restorable done receipts not yet undone.
Pending(journal, run) ==
  {i \in OfRun(journal, run) : /\ Is(journal[i], "done") /\ Restorable(journal[i].receipt)
                               /\ journal[i].seq \notin Undone(journal, run)}

\* OnDisk's present half: the copies there is something to restore from.
Present(journal, where, run) ==
  {i \in Pending(journal, run) : i \notin Reused(journal) /\ ~Gone(where, journal[i].receipt)}

\* Present, last moved first.
PresentInOrder(journal, where, run) ==
  LET idx == Present(journal, where, run)
      Rank(i) == Cardinality({j \in idx : journal[j].seq > journal[i].seq}) + 1
  IN [k \in 1..Cardinality(idx) |-> journal[CHOOSE i \in idx : Rank(i) = k]]

----------------------------------------------------------------------------
(* Summary. *)

Indices(journal, run, event) == {i \in OfRun(journal, run) : Is(journal[i], event)}

Planned(journal, run, seq) ==
  journal[CHOOSE i \in Indices(journal, run, "start") : journal[i].seq = seq]

\* (Variant: a command that measured itself counts for its scanned size.)
CountedAsPlanned(journal, i) == Planned(journal, journal[i].run, journal[i].seq).bytes

\* What one done line counts for: what a prune or a measured command
\* deleted, otherwise the size on its start line.
Counted(journal, i) ==
  LET e == journal[i]  start == Planned(journal, e.run, e.seq)
  IN IF e.pruned # NoPruned THEN e.pruned
     ELSE IF start.kind = "prune" THEN 0 ELSE start.bytes

Bucket(journal, i) ==
  LET e == journal[i]  start == Planned(journal, e.run, e.seq)
  IN CASE start.kind = "trash" /\ e.receipt.method = "finder" -> "after_trash"
       [] start.kind = "trash" /\ e.receipt.method = "staging" -> "staged"
       [] e.receipt.method = "export" -> "exported"
       [] OTHER -> "frees_now"

Summary(journal, where, run) ==
  LET done == Indices(journal, run, "done")
      kept == {i \in done : journal[i].seq \notin Undone(journal, run)}
      BytesOf(bucket) == MapThenSumSet(LAMBDA i : Counted(journal, i),
                                       {i \in kept : Bucket(journal, i) = bucket})
  IN [done |-> Cardinality(done),
      failed |-> Cardinality(Indices(journal, run, "fail")),
      undone |-> Cardinality(Indices(journal, run, "undo") \ {i \in DOMAIN journal : journal[i].error}),
      restorable |-> Cardinality(Present(journal, where, run)),
      frees_now |-> BytesOf("frees_now"), after_trash |-> BytesOf("after_trash"),
      staged |-> BytesOf("staged"), exported |-> BytesOf("exported")]
============================================================================

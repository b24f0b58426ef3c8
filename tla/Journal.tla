------------------------------ MODULE Journal ------------------------------
(***************************************************************************)
(* What internal/oplog promises the executor and `regrow undo`: a journal  *)
(* that only grows, an entry whole or absent, and an entry kept for good   *)
(* once Append has returned without an error.  OpLog.tla is the file, the  *)
(* lock and the crashes behind it, and implements this.                    *)
(***************************************************************************)
EXTENDS Naturals, Sequences

CONSTANT Entry        \* every entry any process may append

VARIABLES log,        \* the entries a reader gets, oldest first
          kept        \* the entries whose Append returned nil

vars == <<log, kept>>

Elements(s) == {s[i] : i \in DOMAIN s}

TypeOK == /\ log \in Seq(Entry)
          /\ kept \subseteq Entry

Init == /\ log = <<>>
        /\ kept = {}

\* An entry joins the end of the journal, once.
Add(e) == /\ e \notin Elements(log)
          /\ log' = Append(log, e)
          /\ UNCHANGED kept

\* The caller is told an entry of the journal is there to stay.
Keep(e) == /\ e \in Elements(log)
           /\ kept' = kept \cup {e}
           /\ UNCHANGED log

\* A power loss takes entries off the end, never one a caller was told of.
Lose == \E n \in 0..Len(log) :
          /\ kept \subseteq Elements(SubSeq(log, 1, n))
          /\ log' = SubSeq(log, 1, n)
          /\ UNCHANGED kept

Next == \/ \E e \in Entry : Add(e) \/ Keep(e)
        \/ Lose

Spec == Init /\ [][Next]_vars
============================================================================

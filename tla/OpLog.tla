------------------------------- MODULE OpLog -------------------------------
(***************************************************************************)
(* The journal file (internal/oplog/oplog.go, internal/jsonl/jsonl.go):    *)
(* several regrow processes (`clean`, `tick --autotrim`, the app's engine) *)
(* append entries under an flock, a disk may fill in the middle of a       *)
(* write, a process may be killed at any step, and a power loss drops what *)
(* was not synced.                                                         *)
(*                                                                         *)
(* The file is a sequence of tokens: an encoded entry is its Opening, its  *)
(* Middle and its Closing, and NL ends a line; a write can stop between    *)
(* any two tokens.  A line that stops after the Opening is one a parser    *)
(* only ran out of; one that stops after the Middle stops within an escape *)
(* or after its backslash, or within a number or a literal, which is       *)
(* another error to the parser.  Readers take no lock, so what one may see *)
(* is any prefix of the file.                                              *)
(***************************************************************************)
EXTENDS Naturals, Sequences, FiniteSets

CONSTANTS Proc,          \* the regrow processes that journal
          MaxAppends     \* bound: entries each process ever tries to append

ASSUME MaxAppendsAssumption == MaxAppends \in Nat

VARIABLES file,      \* the journal file, as tokens
          synced,    \* how many of its tokens a power loss cannot take
          lock,      \* the processes holding the flock (one at most)
          pc,        \* where each process is in Append
          cur,       \* the number of the entry each process is appending
          buf,       \* what is left of the write each process makes
          acked      \* history: the entries whose Append returned nil

vars == <<file, synced, lock, pc, cur, buf, acked>>

Entry == Proc \X (1..MaxAppends)
NL == [part |-> "nl"]
Opening(e) == [part |-> "head", entry |-> e]
Middle(e) == [part |-> "middle", entry |-> e]
Closing(e) == [part |-> "tail", entry |-> e]
Token == {NL} \cup {Opening(e) : e \in Entry} \cup {Middle(e) : e \in Entry}
              \cup {Closing(e) : e \in Entry}

Mine(p) == <<p, cur[p]>>

TypeOK == /\ file \in Seq(Token)
          /\ synced \in 0..Len(file)
          /\ lock \subseteq Proc
          /\ pc \in [Proc -> {"idle", "wait", "frame", "write", "sync"}]
          /\ cur \in [Proc -> 0..MaxAppends]
          /\ buf \in [Proc -> Seq(Token)]
          /\ acked \subseteq Entry

Init == /\ file = <<>>
        /\ synced = 0
        /\ lock = {}
        /\ pc = [p \in Proc |-> "idle"]
        /\ cur = [p \in Proc |-> 0]
        /\ buf = [p \in Proc |-> <<>>]
        /\ acked = {}

----------------------------------------------------------------------------
(* Append, one step per system call. *)

Begin(p) == /\ pc[p] = "idle" /\ cur[p] < MaxAppends
            /\ pc' = [pc EXCEPT ![p] = "wait"]
            /\ cur' = [cur EXCEPT ![p] = @ + 1]
            /\ UNCHANGED <<file, synced, lock, buf, acked>>

Lock(p) == /\ pc[p] = "wait" /\ lock = {}
           /\ lock' = {p}
           /\ pc' = [pc EXCEPT ![p] = "frame"]
           /\ UNCHANGED <<file, synced, cur, buf, acked>>

EndsWithNewline == file = <<>> \/ file[Len(file)] = NL

\* (Variant: an entry is written where the file ends, whatever is there.)
Unframed(e, readable) == <<Opening(e), Middle(e), Closing(e), NL>>

\* Frame; when the file cannot be read it assumes a fragment is there.
Framed(e, readable) ==
  IF EndsWithNewline /\ readable THEN <<Opening(e), Middle(e), Closing(e), NL>>
                                 ELSE <<NL, Opening(e), Middle(e), Closing(e), NL>>

Frame(p) == /\ pc[p] = "frame"
            /\ \E readable \in BOOLEAN : buf' = [buf EXCEPT ![p] = Framed(Mine(p), readable)]
            /\ pc' = [pc EXCEPT ![p] = "write"]
            /\ UNCHANGED <<file, synced, lock, cur, acked>>

\* The kernel has appended one more token of the write; after the last
\* one the write returns.
Write(p) == /\ pc[p] = "write" /\ buf[p] # <<>>
            /\ file' = Append(file, buf[p][1])
            /\ buf' = [buf EXCEPT ![p] = SubSeq(@, 2, Len(@))]
            /\ pc' = [pc EXCEPT ![p] = IF Len(buf[p]) = 1 THEN "sync" ELSE @]
            /\ UNCHANGED <<synced, lock, cur, acked>>

\* (Variants: nil before the file is on disk; a sync believed to cover
\* what the next write brings.)
SyncSkipped(p) == /\ pc[p] = "sync"
                  /\ acked' = acked \cup {Mine(p)}
                  /\ lock' = lock \ {p}
                  /\ pc' = [pc EXCEPT ![p] = "idle"]
                  /\ UNCHANGED <<file, synced, cur, buf>>

\* Append returns nil: the file is on disk, then the lock is let go.
Sync(p) == /\ pc[p] = "sync"
           /\ synced' = Len(file)
           /\ acked' = acked \cup {Mine(p)}
           /\ lock' = lock \ {p}
           /\ pc' = [pc EXCEPT ![p] = "idle"]
           /\ UNCHANGED <<file, cur, buf>>

\* (Variant: an error return leaves the file locked.)
FailLocked(p) == /\ pc[p] # "idle"
                 /\ pc' = [pc EXCEPT ![p] = "idle"]
                 /\ buf' = [buf EXCEPT ![p] = <<>>]
                 /\ UNCHANGED <<file, synced, lock, cur, acked>>

\* Append returns an error (the lock was refused, the disk is full, the
\* sync failed) or the process is killed: the kernel drops its flock, and
\* what it wrote stays.
Fail(p) == /\ pc[p] # "idle"
           /\ lock' = lock \ {p}
           /\ pc' = [pc EXCEPT ![p] = "idle"]
           /\ buf' = [buf EXCEPT ![p] = <<>>]
           /\ UNCHANGED <<file, synced, cur, acked>>

\* The machine loses power: unsynced tokens go, from some point on, and
\* every process starts over.
PowerLoss == /\ \E n \in synced..Len(file) : file' = SubSeq(file, 1, n)
             /\ synced' = Len(file')
             /\ lock' = {}
             /\ pc' = [p \in Proc |-> "idle"]
             /\ buf' = [p \in Proc |-> <<>>]
             /\ UNCHANGED <<cur, acked>>

Next == \/ \E p \in Proc : \/ Begin(p) \/ Lock(p) \/ Frame(p) \/ Write(p)
                           \/ Sync(p) \/ Fail(p)
        \/ PowerLoss

Spec == Init /\ [][Next]_vars

Fairness == \A p \in Proc : WF_vars(Lock(p) \/ Frame(p) \/ Write(p) \/ Sync(p))
FairSpec == Spec /\ Fairness

----------------------------------------------------------------------------
(* Read, over any file f. *)

LineStarts(f) == {i \in 1..Len(f) : i = 1 \/ f[i - 1] = NL}
LineAt(f, i) == LET ends == {j \in i..Len(f) : f[j] = NL}
                    last == IF ends = {} THEN Len(f)
                            ELSE (CHOOSE j \in ends : \A k \in ends : j <= k) - 1
                IN SubSeq(f, i, last)

IsEntry(line) == \E e \in Entry : line = <<Opening(e), Middle(e), Closing(e)>>

\* One unfinished entry and nothing else, at whose end the parser had only
\* run out of input; a line with a second entry's start in it is not, and
\* neither is one that stops within an escape, a number or a literal.
cutShort(line) == \E e \in Entry : line = <<Opening(e)>>

\* The lines Read refuses the whole journal over.
CorruptLines(f) == {i \in LineStarts(f) : LET line == LineAt(f, i) IN
                      ~(line = <<>> \/ IsEntry(line) \/ cutShort(line))}

\* The entries Read has gathered after each token, and the ones it returns
\* for a journal with no corrupt line (which for one it refuses is the
\* journal less the refused lines, as when they are removed by hand).
ReadBy(f) == LET entries[n \in 0..Len(f)] ==
                   IF n = 0 THEN <<>>
                   ELSE IF f[n].part = "tail" THEN Append(entries[n - 1], f[n].entry)
                   ELSE entries[n - 1]
             IN entries
Read(f) == ReadBy(f)[Len(f)]

----------------------------------------------------------------------------
(* Properties. *)

\* Whatever was cut short or killed, the only lines a reader at any moment
\* must refuse a journal over are lone fragments of one entry whose write
\* stopped within an escape, a number or a literal: never two entries on
\* one line, never a fragment with more after it.  So removing the refused
\* lines by hand loses no entry.  (Append's flock, jsonl.Frame, cutShort.)
LoneCut(line) == \E e \in Entry : line = <<Opening(e), Middle(e)>>
RefusesOnlyCuts == \A n \in 0..Len(file) :
                     LET seen == SubSeq(file, 1, n)
                     IN \A i \in CorruptLines(seen) : LoneCut(LineAt(seen, i))

\* The same, locally: an entry starts a line, and its parts follow one
\* another.  This is the form that is inductive.
Unglued(f) == \A i \in 1..Len(f) :
                /\ f[i].part = "head" => i = 1 \/ f[i - 1] = NL
                /\ f[i].part = "middle" => i > 1 /\ f[i - 1] = Opening(f[i].entry)
                /\ f[i].part = "tail" => i > 1 /\ f[i - 1] = Middle(f[i].entry)
NoGlue == Unglued(file)

\* Entry e is whole within the first n tokens of f.
WholeBy(f, e, n) == \E i \in 3..n : /\ f[i - 2] = Opening(e) /\ f[i - 1] = Middle(e)
                                    /\ f[i] = Closing(e)

\* An entry whose Append returned nil is whole and within what a power
\* loss cannot take ("an entry lost in a page cache on crash breaks undo").
AckedDurable == \A e \in acked : WholeBy(file, e, synced)

\* Only the holder of the flock is between the check for a cut-short last
\* line and the sync, so the check still holds when the write lands.
Journaling == {p \in Proc : pc[p] \in {"frame", "write", "sync"}}
OneWriter == \A p, q \in Journaling : p = q

\* The journal as its readers see it is the abstract journal.  (Of a
\* journal Read refuses: once the refused lines are gone.)
J == INSTANCE Journal WITH log <- Read(file), kept <- acked
ImplementsJournal == J!Spec

\* No process waits for the journal for ever: a holder finishes, fails or
\* is killed, and then the kernel frees its flock for whoever waits.
WaiterServed == \A p \in Proc : (pc[p] = "wait") ~> (pc[p] = "idle")
----------------------------------------------------------------------------
(* The inductive invariant behind NoGlue, AckedDurable and OneWriter. *)

LockInv == lock = Journaling /\ OneWriter

\* What a write has left to do, given how the file ends.
BufInv == \A p \in Proc :
  /\ pc[p] # "idle" => cur[p] \in 1..MaxAppends
  /\ pc[p] # "write" => buf[p] = <<>>
  /\ pc[p] = "write" =>
       \/ buf[p] = <<NL, Opening(Mine(p)), Middle(Mine(p)), Closing(Mine(p)), NL>>
       \/ buf[p] = <<Opening(Mine(p)), Middle(Mine(p)), Closing(Mine(p)), NL>> /\ EndsWithNewline
       \/ /\ buf[p] = <<Middle(Mine(p)), Closing(Mine(p)), NL>>
          /\ Len(file) > 0 /\ file[Len(file)] = Opening(Mine(p))
       \/ /\ buf[p] = <<Closing(Mine(p)), NL>>
          /\ Len(file) > 1 /\ file[Len(file) - 1] = Opening(Mine(p)) /\ file[Len(file)] = Middle(Mine(p))
       \/ buf[p] = <<NL>> /\ WholeBy(file, Mine(p), Len(file))
  /\ pc[p] = "sync" => WholeBy(file, Mine(p), Len(file))

IInv == TypeOK /\ LockInv /\ BufInv /\ NoGlue /\ AckedDurable

\* Inductive with IInv, for the journal to implement the abstract one: an
\* entry ends in the file only once its process has written its end, so
\* what a write adds was not there before.
Ended(e) == \E i \in 1..Len(file) : file[i] = Closing(e)
ToEnd(p) == pc[p] \in {"wait", "frame"} \/ (pc[p] = "write" /\ buf[p] # <<NL>>)
EndsInTurn == \A e \in Entry : Ended(e) => \/ e[2] < cur[e[1]]
                                           \/ e[2] = cur[e[1]] /\ ~ToEnd(e[1])
============================================================================

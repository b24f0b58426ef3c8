------------------------------- MODULE Outbox ------------------------------
(***************************************************************************)
(* internal/protocol/outbox.go: the single writer of the event stream.     *)
(* Goroutines queue events and signal; the writer takes the whole queue,   *)
(* writes it line by line and sleeps on a one-slot channel; close stops    *)
(* accepting and waits for the writer, up to a grace.                      *)
(***************************************************************************)
EXTENDS Naturals, Sequences

CONSTANTS Sender,      \* the goroutines that send
          MaxSends     \* bound: events each of them sends

ASSUME OutboxAssumption == MaxSends \in Nat

Event == Sender \X (1..MaxSends)

VARIABLES queue, closed, err,  \* under mu
          wake,        \* a token is in the wake channel
          batch,       \* what the writer took and has not written yet
          wpc,         \* the writer: taking, writing, waiting or done
          spc, nsent,  \* each sender: idle or about to signal; events sent
          cpc,         \* close: open, signalling, waiting for a grace or for
                       \* good, drained, gave up
          accepted,    \* history: the events put on the queue, in order
          written      \* what the peer's pipe took, in order

vars == <<queue, closed, err, wake, batch, wpc, spc, nsent, cpc, accepted, written>>

TypeOK == /\ queue \in Seq(Event) /\ batch \in Seq(Event)
          /\ accepted \in Seq(Event) /\ written \in Seq(Event)
          /\ closed \in BOOLEAN /\ err \in BOOLEAN /\ wake \in BOOLEAN
          /\ wpc \in {"take", "write", "wait", "done"}
          /\ spc \in [Sender -> {"idle", "signal"}]
          /\ nsent \in [Sender -> 0..MaxSends]
          /\ cpc \in {"open", "signal", "grace", "forever", "drained", "gaveup"}

Init == /\ queue = <<>> /\ closed = FALSE /\ err = FALSE
        /\ wake = FALSE
        /\ batch = <<>> /\ wpc = "take"
        /\ spc = [s \in Sender |-> "idle"] /\ nsent = [s \in Sender |-> 0]
        /\ cpc = "open"
        /\ accepted = <<>> /\ written = <<>>

NextEvent(s) == <<s, nsent[s] + 1>>

\* send: the event is queued unless the box is closed...
Send(s) ==
  /\ spc[s] = "idle" /\ nsent[s] < MaxSends
  /\ nsent' = [nsent EXCEPT ![s] = @ + 1]
  /\ IF closed THEN UNCHANGED <<queue, accepted>>
     ELSE /\ queue' = Append(queue, NextEvent(s))
          /\ accepted' = Append(accepted, NextEvent(s))
  /\ spc' = [spc EXCEPT ![s] = "signal"]
  /\ UNCHANGED <<closed, err, wake, batch, wpc, cpc, written>>

\* ... and the writer is woken, outside the lock.
Signal(s) ==
  /\ spc[s] = "signal"
  /\ wake' = TRUE
  /\ spc' = [spc EXCEPT ![s] = "idle"]
  /\ UNCHANGED <<queue, closed, err, batch, wpc, nsent, cpc, accepted, written>>

\* (Variants: the queue is copied, not taken; a closed box ends the
\* writer at once.)
TakeCopy ==
  /\ wpc = "take"
  /\ batch' = queue
  /\ wpc' = IF queue # <<>> THEN "write" ELSE IF closed THEN "done" ELSE "wait"
  /\ UNCHANGED <<queue, closed, err, wake, spc, nsent, cpc, accepted, written>>
TakeQuits ==
  /\ wpc = "take"
  /\ batch' = queue /\ queue' = <<>>
  /\ wpc' = IF closed THEN "done" ELSE IF queue # <<>> THEN "write" ELSE "wait"
  /\ UNCHANGED <<closed, err, wake, spc, nsent, cpc, accepted, written>>

\* run takes all there is, or ends, or goes to sleep.
Take ==
  /\ wpc = "take"
  /\ batch' = queue /\ queue' = <<>>
  /\ wpc' = IF queue # <<>> THEN "write" ELSE IF closed THEN "done" ELSE "wait"
  /\ UNCHANGED <<closed, err, wake, spc, nsent, cpc, accepted, written>>

Wake ==
  /\ wpc = "wait" /\ wake
  /\ wake' = FALSE
  /\ wpc' = "take"
  /\ UNCHANGED <<queue, closed, err, batch, spc, nsent, cpc, accepted, written>>

\* The pipe takes one line (a reader that stopped reading blocks here).
Write ==
  /\ wpc = "write"
  /\ written' = Append(written, batch[1])
  /\ batch' = SubSeq(batch, 2, Len(batch))
  /\ wpc' = IF Len(batch) = 1 THEN "take" ELSE "write"
  /\ UNCHANGED <<queue, closed, err, wake, spc, nsent, cpc, accepted>>

\* The reader is gone: the writer stops queueing for it.
WriteFails ==
  /\ wpc = "write"
  /\ closed' = TRUE /\ queue' = <<>> /\ err' = TRUE
  /\ wpc' = "done"
  /\ UNCHANGED <<wake, batch, spc, nsent, cpc, accepted, written>>

Close ==
  /\ cpc = "open"
  /\ closed' = TRUE
  /\ cpc' = "signal"
  /\ UNCHANGED <<queue, err, wake, batch, wpc, spc, nsent, accepted, written>>

\* (Variant: close wakes nobody.)
CloseQuietly ==
  /\ cpc = "signal"
  /\ cpc' \in {"grace", "forever"}
  /\ UNCHANGED <<queue, closed, err, wake, batch, wpc, spc, nsent, accepted, written>>

\* Serve closes with a grace, ScanOnce with none.
CloseSignals ==
  /\ cpc = "signal"
  /\ wake' = TRUE
  /\ cpc' \in {"grace", "forever"}
  /\ UNCHANGED <<queue, closed, err, batch, wpc, spc, nsent, accepted, written>>

\* close returns true once the writer is done, false when the grace is up.
CloseReturns ==
  /\ \/ cpc \in {"grace", "forever"} /\ wpc = "done" /\ cpc' = "drained"
     \/ cpc = "grace" /\ cpc' = "gaveup"
  /\ UNCHANGED <<queue, closed, err, wake, batch, wpc, spc, nsent, accepted, written>>

Next == \/ \E s \in Sender : Send(s) \/ Signal(s)
        \/ Take \/ Wake \/ Write \/ WriteFails
        \/ Close \/ CloseSignals \/ CloseReturns

Spec == Init /\ [][Next]_vars

\* Goroutines are scheduled, and the reader reads: a sender that queued
\* signals, the writer steps, close goes on.  Nothing makes anyone send,
\* close, or a write fail.
FairSpec == /\ Spec
            /\ \A s \in Sender : WF_vars(Signal(s))
            /\ WF_vars(Take) /\ WF_vars(Wake) /\ WF_vars(Write)
            /\ WF_vars(CloseSignals) /\ WF_vars(CloseReturns)

----------------------------------------------------------------------------
(* Properties. *)

\* Until a write fails nothing accepted is lost, doubled or reordered, by
\* any interleaving of senders, batches and close.
InOrder == IF err THEN \E n \in 0..Len(accepted) : written = SubSeq(accepted, 1, n)
           ELSE accepted = written \o batch \o queue

\* Whoever may wake the writer has still to do it.
Waker == wake \/ cpc = "signal" \/ \E s \in Sender : spc[s] = "signal"

\* The writer never sleeps on work: it waits only with an empty queue and
\* an open box, or with a wake-up already there or on its way.
NoLostWakeup == wpc = "wait" /\ (queue # <<>> \/ closed) => Waker

\* close never says drained over an event it accepted but did not write,
\* unless the write failed (ScanOnce: a stream cut short is heard of).
DrainedMeansWritten == cpc = "drained" => written = accepted \/ err

\* The peer sees a stream: its read prefix of what was accepted.
S == INSTANCE Stream WITH delivered <- written
ImplementsStream == S!Spec

\* The inductive invariant: where each party is, what it holds.
Places == /\ wpc = "write" <=> batch # <<>> /\ ~err
          /\ wpc = "done" => closed /\ (err \/ queue = <<>>)
          /\ err => wpc = "done" /\ queue = <<>>
          /\ cpc # "open" => closed
          /\ cpc = "drained" => wpc = "done"

IInv == TypeOK /\ Places /\ InOrder /\ NoLostWakeup

\* close comes back, also with a grace of 0.
CloseEnds == (cpc # "open") ~> (cpc \in {"drained", "gaveup"})
============================================================================

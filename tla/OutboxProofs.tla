---------------------------- MODULE OutboxProofs ---------------------------
(* For any number of senders and events: the stream is in order and whole, *)
(* the writer never sleeps on work, and a drained close has written all:   *)
(* the box is a Stream, step by step.                                      *)
EXTENDS Outbox, SequenceTheorems, TLAPS

----------------------------------------------------------------------------
(* Moving an event between the queue, the batch and the pipe. *)

\* All the box accepted, from what it holds where.
Whole(w, b, q) == w \o b \o q

LEMMA ConcatTyped ==
  ASSUME NEW X, NEW w \in Seq(X), NEW b \in Seq(X), NEW q \in Seq(X)
  PROVE  /\ w \o b \in Seq(X) /\ b \o q \in Seq(X) /\ w \o b \o q \in Seq(X)
         /\ w \o b \o q = w \o (b \o q)
<1>1. w \o b \in Seq(X) /\ b \o q \in Seq(X)
  BY ConcatProperties
<1>2. w \o b \o q \in Seq(X)
  BY <1>1, ConcatProperties
<1>3. w \o b \o q = w \o (b \o q)
  BY ConcatAssociative
<1> QED
  BY <1>1, <1>2, <1>3

LEMMA Queued ==
  ASSUME NEW X, NEW w \in Seq(X), NEW b \in Seq(X), NEW q \in Seq(X), NEW e \in X
  PROVE  Append(Whole(w, b, q), e) = Whole(w, b, Append(q, e))
<1>1. w \o b \in Seq(X) /\ w \o b \o q \in Seq(X) /\ <<e>> \in Seq(X)
  BY ConcatTyped
<1>2. Append(w \o b \o q, e) = (w \o b \o q) \o <<e>>
  BY <1>1, AppendIsConcat
<1>3. (w \o b \o q) \o <<e>> = w \o b \o (q \o <<e>>)
  BY <1>1, ConcatAssociative
<1>4. q \o <<e>> = Append(q, e)
  BY AppendIsConcat
<1> QED
  BY <1>2, <1>3, <1>4 DEF Whole

LEMMA Taken ==
  ASSUME NEW X, NEW w \in Seq(X), NEW q \in Seq(X)
  PROVE  w \o <<>> \o q = w \o q \o <<>>
<1>1. w \o <<>> = w
  BY ConcatEmptySeq
<1>2. w \o q \in Seq(X)
  BY ConcatProperties
<1>3. w \o q \o <<>> = w \o q
  BY <1>2, ConcatEmptySeq
<1> QED
  BY <1>1, <1>3

LEMMA FirstOf ==
  ASSUME NEW X, NEW b \in Seq(X), b # <<>>
  PROVE  /\ b[1] \in X /\ SubSeq(b, 2, Len(b)) \in Seq(X)
         /\ Len(SubSeq(b, 2, Len(b))) = Len(b) - 1
         /\ Len(b) \in Nat \ {0}
         /\ b = <<b[1]>> \o SubSeq(b, 2, Len(b))
<1>1. Len(b) \in Nat \ {0}
  BY EmptySeq
<1>2. b[1] \in X
  BY <1>1, ElementOfSeq
<1>3. /\ SubSeq(b, 2, Len(b)) \in Seq(X)
      /\ Len(SubSeq(b, 2, Len(b))) = Len(b) - 1
  BY HeadTailProperties, TailIsSubSeq
<1>4. SubSeq(b, 1, Len(b)) = b
  BY SubSeqFull
<1>5. 1 \in 1 .. Len(b) /\ Len(b) \in 1 .. Len(b) /\ 1 + 1 = 2
  BY <1>1
<1>6. SubSeq(b, 1, Len(b)) = <<b[1]>> \o SubSeq(b, 1 + 1, Len(b))
  BY <1>5, SubSeqRecursiveFirst
<1> QED
  BY <1>1, <1>2, <1>3, <1>4, <1>5, <1>6

LEMMA Regrouped ==
  ASSUME NEW X, NEW w \in Seq(X), NEW r \in Seq(X), NEW f \in X
  PROVE  w \o (<<f>> \o r) = Append(w, f) \o r
<1>1. <<f>> \in Seq(X)
  OBVIOUS
<1>2. w \o (<<f>> \o r) = (w \o <<f>>) \o r
  BY <1>1, ConcatAssociative
<1>3. w \o <<f>> = Append(w, f)
  BY AppendIsConcat
<1> QED
  BY <1>2, <1>3

LEMMA Piped ==
  ASSUME NEW X, NEW w \in Seq(X), NEW b \in Seq(X), NEW q \in Seq(X), b # <<>>
  PROVE  Whole(w, b, q) = Whole(Append(w, b[1]), SubSeq(b, 2, Len(b)), q)
<1>1. /\ b[1] \in X /\ SubSeq(b, 2, Len(b)) \in Seq(X)
      /\ b = <<b[1]>> \o SubSeq(b, 2, Len(b))
  BY FirstOf
<1>2. w \o (<<b[1]>> \o SubSeq(b, 2, Len(b))) = Append(w, b[1]) \o SubSeq(b, 2, Len(b))
  BY <1>1, Regrouped, ZenonT(30)
<1> QED
  BY <1>1, <1>2, Zenon DEF Whole

LEMMA Written ==
  ASSUME NEW X, NEW w \in Seq(X), NEW r \in Seq(X)
  PROVE  SubSeq(w \o r, 1, Len(w)) = w /\ Len(w) \in 0 .. Len(w \o r)
<1>1. Len(w \o r) = Len(w) + Len(r) /\ Len(w) \in Nat /\ Len(r) \in Nat
  BY ConcatProperties, LenProperties
<1>2. CASE Len(w) = 0
  <2>1. w = <<>>
    BY <1>2, EmptySeq
  <2>2. SubSeq(w \o r, 1, Len(w)) = <<>>
    BY <1>2, SubSeqEmpty
  <2> QED
    BY <1>1, <2>1, <2>2
<1>3. CASE Len(w) > 0
  <2>1. 1 \in 1 .. Len(w) /\ Len(w) \in 1 .. Len(w)
    BY <1>1, <1>3
  <2>2. SubSeq(w \o r, 1, Len(w)) = SubSeq(w, 1, Len(w))
    BY <2>1, SubSeqOfConcat1
  <2>3. SubSeq(w, 1, Len(w)) = w
    BY SubSeqFull
  <2> QED
    BY <1>1, <2>2, <2>3
<1> QED
  BY <1>1, <1>2, <1>3

----------------------------------------------------------------------------
(* The inductive invariant, action by action. *)

LEMMA InitInv == Init => IInv
<1> SUFFICES ASSUME Init PROVE IInv
  OBVIOUS
<1>1. <<>> \in Seq(Event)
  BY EmptySeq
<1>2. TypeOK
  <2>1. spc \in [Sender -> {"idle", "signal"}] /\ nsent \in [Sender -> 0..MaxSends]
    BY OutboxAssumption DEF Init
  <2> QED
    BY <1>1, <2>1 DEF Init, TypeOK
<1>3. Places
  BY DEF Init, Places
<1>4. InOrder
  BY <1>1, ConcatEmptySeq DEF Init, InOrder
<1>5. NoLostWakeup
  BY DEF Init, NoLostWakeup
<1> QED
  BY <1>2, <1>3, <1>4, <1>5 DEF IInv

LEMMA SendInv == ASSUME IInv, NEW s \in Sender, Send(s) PROVE IInv'
<1> DEFINE e == NextEvent(s)
<1>1. e \in Event /\ nsent' \in [Sender -> 0..MaxSends]
  BY OutboxAssumption DEF IInv, TypeOK, Send, Event, NextEvent
<1>2. ~closed => queue' = Append(queue, e) /\ accepted' = Append(accepted, e)
  BY DEF Send
<1> HIDE DEF e
<1>3. TypeOK'
  <2>1. Append(queue, e) \in Seq(Event) /\ Append(accepted, e) \in Seq(Event)
    BY <1>1, AppendProperties DEF IInv, TypeOK
  <2>2. queue' \in Seq(Event) /\ accepted' \in Seq(Event)
    BY <1>2, <2>1 DEF IInv, TypeOK, Send
  <2> QED
    BY <1>1, <2>2 DEF IInv, TypeOK, Send
<1>4. Places'
  BY DEF IInv, TypeOK, Places, Send
<1>5. InOrder'
  <2>1. CASE closed
    BY <2>1 DEF IInv, InOrder, Send
  <2>2. CASE ~closed
    <3>1. ~err /\ accepted = Whole(written, batch, queue)
      BY <2>2 DEF IInv, Places, InOrder, Whole
    <3>2. Append(Whole(written, batch, queue), e) = Whole(written, batch, Append(queue, e))
      <4>1. written \in Seq(Event) /\ batch \in Seq(Event) /\ queue \in Seq(Event)
        BY DEF IInv, TypeOK
      <4>2. e \in Event
        BY <1>1
      <4> QED
        BY <4>1, <4>2, Queued
    <3> QED
      BY <1>2, <2>2, <3>1, <3>2 DEF InOrder, Send, Whole
  <2> QED
    BY <2>1, <2>2
<1>6. NoLostWakeup'
  BY DEF IInv, TypeOK, NoLostWakeup, Waker, Send
<1> QED
  BY <1>3, <1>4, <1>5, <1>6 DEF IInv

LEMMA SignalInv == ASSUME IInv, NEW s \in Sender, Signal(s) PROVE IInv'
<1>1. TypeOK'
  BY DEF IInv, TypeOK, Signal
<1>2. Places' /\ InOrder'
  BY DEF IInv, Places, InOrder, Signal
<1>3. NoLostWakeup'
  BY DEF NoLostWakeup, Waker, Signal
<1> QED
  BY <1>1, <1>2, <1>3 DEF IInv

LEMMA TakeInv == ASSUME IInv, Take PROVE IInv'
<1>1. batch = <<>> /\ ~err
  BY DEF IInv, Places, Take
<1>2. <<>> \in Seq(Event)
  BY EmptySeq
<1>3. TypeOK'
  BY <1>2 DEF IInv, TypeOK, Take
<1>4. Places'
  BY <1>1 DEF IInv, Places, Take
<1>5. InOrder'
  BY <1>1, Taken DEF IInv, TypeOK, InOrder, Take
<1>6. NoLostWakeup'
  BY DEF NoLostWakeup, Take
<1> QED
  BY <1>3, <1>4, <1>5, <1>6 DEF IInv

LEMMA WakeInv == ASSUME IInv, Wake PROVE IInv'
<1>1. TypeOK'
  BY DEF IInv, TypeOK, Wake
<1>2. Places' /\ InOrder'
  BY DEF IInv, Places, InOrder, Wake
<1>3. NoLostWakeup'
  BY DEF NoLostWakeup, Wake
<1> QED
  BY <1>1, <1>2, <1>3 DEF IInv

LEMMA WriteInv == ASSUME IInv, Write PROVE IInv'
<1>1. batch \in Seq(Event) /\ batch # <<>> /\ ~err
  BY DEF IInv, TypeOK, Places, Write
<1>2. /\ batch[1] \in Event /\ batch' \in Seq(Event)
      /\ Len(batch') = Len(batch) - 1 /\ Len(batch) \in Nat \ {0}
  BY <1>1, FirstOf DEF Write
<1>3. TypeOK'
  BY <1>2 DEF IInv, TypeOK, Write
<1>4. Places'
  <2>1. batch' = <<>> <=> Len(batch) = 1
    BY <1>2, EmptySeq
  <2> QED
    BY <1>1, <2>1 DEF IInv, Places, Write
<1>5. InOrder'
  <2>1. accepted = Whole(written, batch, queue)
    BY <1>1 DEF IInv, InOrder, Whole
  <2>2. Whole(written, batch, queue)
          = Whole(Append(written, batch[1]), SubSeq(batch, 2, Len(batch)), queue)
    <3>1. /\ written \in Seq(Event) /\ queue \in Seq(Event)
          /\ batch \in Seq(Event) /\ batch # <<>>
      BY <1>1 DEF IInv, TypeOK
    <3> QED
      BY <3>1, Piped
  <2> QED
    BY <1>1, <2>1, <2>2 DEF InOrder, Write, Whole
<1>6. NoLostWakeup'
  BY DEF NoLostWakeup, Write
<1> QED
  BY <1>3, <1>4, <1>5, <1>6 DEF IInv

LEMMA WriteFailsInv == ASSUME IInv, WriteFails PROVE IInv'
<1>1. <<>> \in Seq(Event)
  BY EmptySeq
<1>2. TypeOK'
  BY <1>1 DEF IInv, TypeOK, WriteFails
<1>3. Places'
  BY DEF IInv, Places, WriteFails
<1>4. InOrder'
  <2>0. written \in Seq(Event) /\ batch \in Seq(Event) /\ queue \in Seq(Event)
    BY DEF IInv, TypeOK
  <2>1. /\ batch \o queue \in Seq(Event)
        /\ written \o batch \o queue = written \o (batch \o queue)
    BY <2>0, ConcatTyped, SMT
  <2>2. accepted = written \o (batch \o queue)
    BY <2>1 DEF IInv, Places, InOrder, WriteFails
  <2>3. SubSeq(accepted, 1, Len(written)) = written /\ Len(written) \in 0 .. Len(accepted)
    BY <2>0, <2>1, <2>2, Written
  <2> QED
    BY <2>3 DEF InOrder, WriteFails
<1>5. NoLostWakeup'
  BY DEF NoLostWakeup, WriteFails
<1> QED
  BY <1>2, <1>3, <1>4, <1>5 DEF IInv

LEMMA CloseInv == ASSUME IInv, Close \/ CloseSignals \/ CloseReturns PROVE IInv'
<1>1. TypeOK'
  BY DEF IInv, TypeOK, Close, CloseSignals, CloseReturns
<1>2. Places'
  BY DEF IInv, Places, Close, CloseSignals, CloseReturns
<1>3. InOrder'
  BY DEF IInv, InOrder, Close, CloseSignals, CloseReturns
<1>4. NoLostWakeup'
  BY DEF IInv, NoLostWakeup, Waker, Close, CloseSignals, CloseReturns
<1> QED
  BY <1>1, <1>2, <1>3, <1>4 DEF IInv

LEMMA NextInv == ASSUME IInv, [Next]_vars PROVE IInv'
<1>1. CASE UNCHANGED vars
  BY <1>1 DEF vars, IInv, TypeOK, Places, InOrder, NoLostWakeup, Waker
<1>2. ASSUME NEW s \in Sender, Send(s) PROVE IInv'
  BY <1>2, SendInv
<1>3. ASSUME NEW s \in Sender, Signal(s) PROVE IInv'
  BY <1>3, SignalInv
<1>4. CASE Take \/ Wake \/ Write \/ WriteFails
  BY <1>4, TakeInv, WakeInv, WriteInv, WriteFailsInv
<1>5. CASE Close \/ CloseSignals \/ CloseReturns
  BY <1>5, CloseInv
<1> QED
  BY <1>1, <1>2, <1>3, <1>4, <1>5 DEF Next

----------------------------------------------------------------------------
(* The theorems. *)

\* IInv is inductive, so every reachable state of the outbox has it.
THEOREM Invariance == Spec => []IInv
<1> QED
  BY InitInv, NextInv, PTL DEF Spec

\* The queue, the batch and the pipe hold events of the senders, and every
\* goroutine of outbox.go is at one of its places.
THEOREM TypeCorrect == Spec => []TypeOK
<1>1. IInv => TypeOK
  BY DEF IInv
<1> QED
  BY <1>1, Invariance, PTL

\* Any number of goroutines may call send while the writer takes batches:
\* what was accepted is written whole and in order, until a write fails.
THEOREM StreamInOrder == Spec => []InOrder
<1>1. IInv => InOrder
  BY DEF IInv
<1> QED
  BY <1>1, Invariance, PTL

\* The one-slot wake channel with its non-blocking send is enough: the
\* writer never sleeps on an event or on close.
THEOREM WakeupsArrive == Spec => []NoLostWakeup
<1>1. IInv => NoLostWakeup
  BY DEF IInv
<1> QED
  BY <1>1, Invariance, PTL

\* When close returns true every accepted event was written, or writeErr
\* says the stream was cut short.
THEOREM DrainIsComplete == Spec => []DrainedMeansWritten
<1>1. ASSUME IInv PROVE DrainedMeansWritten
  <2> SUFFICES ASSUME cpc = "drained", ~err PROVE written = accepted
    BY DEF DrainedMeansWritten
  <2>1. batch = <<>> /\ queue = <<>> /\ accepted = written \o batch \o queue
    BY <1>1 DEF IInv, TypeOK, Places, InOrder
  <2>2. written \o <<>> \o <<>> = written
    BY <1>1, ConcatEmptySeq DEF IInv, TypeOK
  <2> QED
    BY <2>1, <2>2
<1> QED
  BY <1>1, Invariance, PTL

----------------------------------------------------------------------------
(* The outbox implements the abstract stream: each of its steps accepts an *)
(* event, delivers the next one, or changes nothing the peer sees.         *)

LEMMA SendAccepts == ASSUME IInv, NEW s \in Sender, Send(s) PROVE [S!Next]_(S!vars)
<1> DEFINE e == NextEvent(s)
<1>1. e \in Event
  BY OutboxAssumption DEF IInv, TypeOK, Send, Event, NextEvent
<1>2. CASE closed
  BY <1>2 DEF Send, S!vars
<1>3. CASE ~closed
  <2>1. accepted' = Append(accepted, e) /\ written' = written
    BY <1>3 DEF Send
  <2> HIDE DEF e
  <2>2. S!Accept(e)
    BY <2>1 DEF S!Accept
  <2> QED
    BY <1>1, <2>2 DEF S!Next
<1> QED
  BY <1>2, <1>3

LEMMA WriteDelivers == ASSUME IInv, Write PROVE S!Next
<1>1. /\ written \in Seq(Event) /\ queue \in Seq(Event)
      /\ batch \in Seq(Event) /\ batch # <<>>
  BY DEF IInv, TypeOK, Places, Write
<1>2. accepted = Whole(written, batch, queue)
  BY DEF IInv, Places, InOrder, Write, Whole
<1> DEFINE w == Append(written, batch[1])
           rest == SubSeq(batch, 2, Len(batch))
<1>3. batch[1] \in Event /\ rest \in Seq(Event)
  BY <1>1, FirstOf
<1>4. w \in Seq(Event) /\ Len(w) = Len(written) + 1
  BY <1>1, <1>3, AppendProperties
<1>5. accepted = Whole(w, rest, queue)
  BY <1>1, <1>2, Piped
<1>6. written' = w /\ accepted' = accepted
  BY DEF Write
<1> HIDE DEF w, rest
<1>7. rest \o queue \in Seq(Event) /\ accepted = w \o (rest \o queue)
  <2>1. w \in Seq(Event) /\ rest \in Seq(Event) /\ queue \in Seq(Event)
    BY <1>1, <1>3, <1>4
  <2>2. rest \o queue \in Seq(Event) /\ w \o rest \o queue = w \o (rest \o queue)
    BY <2>1, ConcatTyped, SMTT(20)
  <2> QED
    BY <1>5, <2>2 DEF Whole
<1>8. SubSeq(accepted, 1, Len(w)) = w /\ Len(w) \in 0 .. Len(accepted)
  BY <1>4, <1>7, Written
<1>9. Len(written) < Len(accepted)
  <2>1. Len(written) \in Nat
    BY <1>1, LenProperties
  <2>2. Len(w) =< Len(accepted) /\ Len(accepted) \in Nat
    <3>1. Len(accepted) \in Nat
      BY LenProperties DEF IInv, TypeOK
    <3> QED
      BY <3>1, <1>8
  <2> QED
    BY <2>1, <2>2, <1>4
<1>10. S!Deliver
  BY <1>4, <1>6, <1>8, <1>9 DEF S!Deliver
<1> QED
  BY <1>10 DEF S!Next

LEMMA StepImplements == ASSUME IInv, [Next]_vars PROVE [S!Next]_(S!vars)
<1>1. ASSUME NEW s \in Sender, Send(s) PROVE [S!Next]_(S!vars)
  BY <1>1, SendAccepts
<1>2. CASE Write
  BY <1>2, WriteDelivers
<1>3. ASSUME NEW s \in Sender, Signal(s) PROVE UNCHANGED S!vars
  BY <1>3 DEF Signal, S!vars
<1>4. CASE Take \/ Wake \/ WriteFails
  BY <1>4 DEF Take, Wake, WriteFails, S!vars
<1>5. CASE Close \/ CloseSignals \/ CloseReturns
  BY <1>5 DEF Close, CloseSignals, CloseReturns, S!vars
<1>6. CASE UNCHANGED vars
  BY <1>6 DEF vars, S!vars
<1> QED
  BY <1>1, <1>2, <1>3, <1>4, <1>5, <1>6 DEF Next

\* What the peer of the engine reads is the abstract stream: every event
\* send took, once, in the order it was taken, up to some point; for any
\* number of goroutines and of events.
THEOREM Refinement == Spec => ImplementsStream
<1>1. Init => S!Init
  BY DEF Init, S!Init
<1>2. IInv /\ [Next]_vars => [S!Next]_(S!vars)
  BY StepImplements
<1> QED
  BY <1>1, <1>2, Invariance, PTL DEF Spec, ImplementsStream, S!Spec
============================================================================

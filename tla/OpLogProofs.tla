---------------------------- MODULE OpLogProofs ----------------------------
(* For any number of processes and of appends: the journal file is never   *)
(* glued, so that a reader refuses nothing but lone fragments; an          *)
(* acknowledged entry is durable; one process at a time writes; and what   *)
(* Read makes of the file is a Journal, step by step.                      *)
EXTENDS OpLog, FiniteSetTheorems, SequenceTheorems, TLAPS

LEMMA InitInv == Init => IInv
<1> SUFFICES ASSUME Init PROVE IInv
  OBVIOUS
<1>1. TypeOK
  BY MaxAppendsAssumption DEF Init, TypeOK
<1>2. LockInv
  BY DEF Init, LockInv, OneWriter, Journaling
<1>3. BufInv
  BY DEF Init, BufInv
<1>4. NoGlue /\ AckedDurable
  BY DEF Init, NoGlue, Unglued, AckedDurable
<1> QED
  BY <1>1, <1>2, <1>3, <1>4 DEF IInv

----------------------------------------------------------------------------
(* What a file keeps when a token is added and when its end is lost. *)

LEMMA Tokens ==
  /\ NL \in Token
  /\ \A e \in Entry : Opening(e) \in Token /\ Middle(e) \in Token /\ Closing(e) \in Token
  /\ NL.part = "nl"
  /\ \A e : /\ Opening(e).part = "head"
            /\ Middle(e).part = "middle" /\ Middle(e).entry = e
            /\ Closing(e).part = "tail" /\ Closing(e).entry = e
  BY DEF Token, NL, Opening, Middle, Closing

LEMMA UngluedAppend ==
  ASSUME NEW f \in Seq(Token), NEW t \in Token, Unglued(f),
         t.part = "head" => f = <<>> \/ f[Len(f)] = NL,
         t.part = "middle" => f # <<>> /\ f[Len(f)] = Opening(t.entry),
         t.part = "tail" => f # <<>> /\ f[Len(f)] = Middle(t.entry)
  PROVE  Unglued(Append(f, t))
<1> DEFINE g == Append(f, t)
<1>1. Len(g) = Len(f) + 1 /\ g[Len(f) + 1] = t /\ \A i \in 1..Len(f) : g[i] = f[i]
  OBVIOUS
<1>2. Len(f) \in Nat /\ (f # <<>> => Len(f) > 0)
  OBVIOUS
<1> SUFFICES ASSUME NEW i \in 1..Len(g)
             PROVE  /\ g[i].part = "head" => i = 1 \/ g[i - 1] = NL
                    /\ g[i].part = "middle" => i > 1 /\ g[i - 1] = Opening(g[i].entry)
                    /\ g[i].part = "tail" => i > 1 /\ g[i - 1] = Middle(g[i].entry)
  BY DEF Unglued
<1>3. CASE i \in 1..Len(f)
  <2>1. i = 1 \/ g[i - 1] = f[i - 1]
    BY <1>1, <1>2, <1>3
  <2> HIDE DEF g
  <2> QED
    BY <1>1, <1>2, <1>3, <2>1 DEF Unglued
<1>4. CASE i = Len(f) + 1
  <2>1. Len(f) = 0 \/ g[i - 1] = f[Len(f)]
    BY <1>1, <1>2, <1>4
  <2>2. f = <<>> \/ i > 1
    BY <1>2, <1>4
  <2>3. f = <<>> => i = 1
    BY <1>4
  <2> HIDE DEF g
  <2> QED
    BY <1>1, <1>2, <1>4, <2>1, <2>2, <2>3
<1> HIDE DEF g
<1> QED
  BY <1>1, <1>2, <1>3, <1>4

LEMMA UngluedPrefix ==
  ASSUME NEW f \in Seq(Token), Unglued(f), NEW n \in 0..Len(f)
  PROVE  Unglued(SubSeq(f, 1, n))
<1> DEFINE g == SubSeq(f, 1, n)
<1>1. Len(g) = n /\ \A i \in 1..n : g[i] = f[i]
  OBVIOUS
<1> HIDE DEF g
<1>2. Unglued(g)
  BY <1>1 DEF Unglued
<1> QED
  BY <1>2 DEF g

LEMMA WholeAppend ==
  ASSUME NEW f \in Seq(Token), NEW t \in Token, NEW e, NEW n \in 0..Len(f), WholeBy(f, e, n)
  PROVE  WholeBy(Append(f, t), e, n)
<1>1. PICK i \in 3..n : f[i - 2] = Opening(e) /\ f[i - 1] = Middle(e) /\ f[i] = Closing(e)
  BY DEF WholeBy
<1>2. \A k \in {i - 2, i - 1, i} : Append(f, t)[k] = f[k]
  BY <1>1
<1> QED
  BY <1>1, <1>2 DEF WholeBy

LEMMA WholePrefix ==
  ASSUME NEW f \in Seq(Token), NEW e, NEW n \in 0..Len(f), NEW m \in 0..n, WholeBy(f, e, m)
  PROVE  WholeBy(SubSeq(f, 1, n), e, m)
<1>1. PICK i \in 3..m : f[i - 2] = Opening(e) /\ f[i - 1] = Middle(e) /\ f[i] = Closing(e)
  BY DEF WholeBy
<1>2. \A k \in {i - 2, i - 1, i} : SubSeq(f, 1, n)[k] = f[k]
  BY <1>1
<1> QED
  BY <1>1, <1>2 DEF WholeBy

LEMMA WholeLonger ==
  ASSUME NEW f, NEW e, NEW n \in Nat, NEW m \in 0..n, WholeBy(f, e, m)
  PROVE  WholeBy(f, e, n)
  BY DEF WholeBy

----------------------------------------------------------------------------
(* Every step keeps the invariant. *)

LEMMA MineIsEntry ==
  ASSUME TypeOK, BufInv, NEW p \in Proc, pc[p] # "idle"
  PROVE  Mine(p) \in Entry
  BY DEF BufInv, Mine, Entry

\* A step that leaves the file, what is synced and what is acked alone.
LEMMA FileUntouched ==
  ASSUME NoGlue, AckedDurable, UNCHANGED <<file, synced, acked>>
  PROVE  NoGlue' /\ AckedDurable'
  BY DEF NoGlue, AckedDurable

LEMMA BeginInv == ASSUME IInv, NEW p \in Proc, Begin(p) PROVE IInv'
<1>1. TypeOK'
  BY MaxAppendsAssumption DEF IInv, Begin, TypeOK
<1>2. LockInv'
  BY DEF IInv, Begin, TypeOK, LockInv, OneWriter, Journaling
<1>3. BufInv'
  <2>1. \A q \in Proc : q # p => pc'[q] = pc[q] /\ cur'[q] = cur[q] /\ Mine(q)' = Mine(q)
    BY DEF IInv, Begin, TypeOK, Mine
  <2>2. pc'[p] = "wait" /\ cur'[p] \in 1..MaxAppends /\ buf[p] = <<>>
    BY MaxAppendsAssumption DEF IInv, Begin, TypeOK, BufInv
  <2> QED
    BY <2>1, <2>2 DEF IInv, Begin, BufInv, EndsWithNewline
<1>4. NoGlue' /\ AckedDurable'
  BY FileUntouched DEF IInv, Begin
<1> QED
  BY <1>1, <1>2, <1>3, <1>4 DEF IInv

LEMMA LockStepInv == ASSUME IInv, NEW p \in Proc, Lock(p) PROVE IInv'
<1>1. TypeOK'
  BY DEF IInv, Lock, TypeOK
<1>2. LockInv'
  BY DEF IInv, Lock, TypeOK, LockInv, OneWriter, Journaling
<1>3. BufInv'
  <2>1. \A q \in Proc : q # p => pc'[q] = pc[q]
    BY DEF IInv, Lock, TypeOK
  <2>2. pc[p] = "wait" /\ pc'[p] = "frame"
    BY DEF IInv, Lock, TypeOK
  <2>3. \A q \in Proc : Mine(q)' = Mine(q)
    BY DEF Lock, Mine
  <2> QED
    BY <2>1, <2>2, <2>3 DEF IInv, Lock, BufInv, EndsWithNewline
<1>4. NoGlue' /\ AckedDurable'
  BY FileUntouched DEF IInv, Lock
<1> QED
  BY <1>1, <1>2, <1>3, <1>4 DEF IInv

LEMMA FrameInv == ASSUME IInv, NEW p \in Proc, Frame(p) PROVE IInv'
<1> DEFINE e == Mine(p)
<1>a. e \in Entry
  BY MineIsEntry DEF IInv, Frame
<1>b. PICK readable \in BOOLEAN : buf' = [buf EXCEPT ![p] = Framed(e, readable)]
  BY DEF Frame
<1>c. Framed(e, readable) \in Seq(Token)
  BY <1>a, Tokens DEF Framed
<1>1. TypeOK'
  BY <1>b, <1>c DEF IInv, Frame, TypeOK
<1>2. LockInv'
  BY DEF IInv, Frame, TypeOK, LockInv, OneWriter, Journaling
<1>3. BufInv'
  <2>1. \A q \in Proc : q # p => pc'[q] = pc[q] /\ buf'[q] = buf[q]
    BY <1>b DEF IInv, Frame, TypeOK
  <2>2. pc[p] = "frame" /\ pc'[p] = "write" /\ buf'[p] = Framed(e, readable)
    BY <1>b DEF IInv, Frame, TypeOK
  <2>3. \A q \in Proc : Mine(q)' = Mine(q)
    BY DEF Frame, Mine
  <2>4. EndsWithNewline' = EndsWithNewline
    BY DEF Frame, EndsWithNewline
  <2> HIDE DEF e
  <2> SUFFICES ASSUME NEW q \in Proc PROVE BufInv!(q)'
    BY DEF BufInv
  <2>5. CASE q # p
    BY <2>1, <2>3, <2>4, <2>5 DEF IInv, Frame, BufInv
  <2>6. CASE q = p
    BY <2>2, <2>3, <2>4, <2>6 DEF IInv, Frame, BufInv, Framed, e
  <2> QED
    BY <2>5, <2>6
<1>4. NoGlue' /\ AckedDurable'
  BY FileUntouched DEF IInv, Frame
<1> QED
  BY <1>1, <1>2, <1>3, <1>4 DEF IInv

LEMMA SyncInv == ASSUME IInv, NEW p \in Proc, Sync(p) PROVE IInv'
<1>a. Mine(p) \in Entry
  BY MineIsEntry DEF IInv, Sync
<1>1. TypeOK'
  BY <1>a DEF IInv, Sync, TypeOK
<1>2. LockInv'
  BY DEF IInv, Sync, TypeOK, LockInv, OneWriter, Journaling
<1>3. BufInv'
  <2>1. \A q \in Proc : q # p => pc'[q] = pc[q]
    BY DEF IInv, Sync, TypeOK
  <2>2. pc[p] = "sync" /\ pc'[p] = "idle"
    BY DEF IInv, Sync, TypeOK
  <2>3. \A q \in Proc : Mine(q)' = Mine(q)
    BY DEF Sync, Mine
  <2> QED
    BY <2>1, <2>2, <2>3 DEF IInv, Sync, BufInv, EndsWithNewline
<1>4. NoGlue'
  BY DEF IInv, Sync, NoGlue
<1>5. AckedDurable'
  <2>1. WholeBy(file, Mine(p), Len(file))
    BY DEF IInv, Sync, BufInv
  <2>2. \A e \in acked : WholeBy(file, e, Len(file))
    BY WholeLonger DEF IInv, AckedDurable, TypeOK
  <2> QED
    BY <2>1, <2>2 DEF Sync, AckedDurable
<1> QED
  BY <1>1, <1>2, <1>3, <1>4, <1>5 DEF IInv

LEMMA FailInv == ASSUME IInv, NEW p \in Proc, Fail(p) PROVE IInv'
<1>1. TypeOK'
  BY DEF IInv, Fail, TypeOK
<1>2. LockInv'
  BY DEF IInv, Fail, TypeOK, LockInv, OneWriter, Journaling
<1>3. BufInv'
  <2>1. \A q \in Proc : q # p => pc'[q] = pc[q] /\ buf'[q] = buf[q]
    BY DEF IInv, Fail, TypeOK
  <2>2. pc'[p] = "idle" /\ buf'[p] = <<>>
    BY DEF IInv, Fail, TypeOK
  <2>3. \A q \in Proc : Mine(q)' = Mine(q)
    BY DEF Fail, Mine
  <2> QED
    BY <2>1, <2>2, <2>3 DEF IInv, Fail, BufInv, EndsWithNewline
<1>4. NoGlue' /\ AckedDurable'
  BY FileUntouched DEF IInv, Fail
<1> QED
  BY <1>1, <1>2, <1>3, <1>4 DEF IInv

\* What is left of a write once its first token is in the file.
LEMMA RestOfEntry ==
  ASSUME NEW e \in Entry
  PROVE  /\ SubSeq(<<NL, Opening(e), Middle(e), Closing(e), NL>>, 2, 5)
              = <<Opening(e), Middle(e), Closing(e), NL>>
         /\ SubSeq(<<Opening(e), Middle(e), Closing(e), NL>>, 2, 4) = <<Middle(e), Closing(e), NL>>
         /\ SubSeq(<<Middle(e), Closing(e), NL>>, 2, 3) = <<Closing(e), NL>>
         /\ SubSeq(<<Closing(e), NL>>, 2, 2) = <<NL>>
         /\ SubSeq(<<NL>>, 2, 1) = <<>>
<1> DEFINE o == Opening(e)
           m == Middle(e)
           c == Closing(e)
           n == NL
<1>1. o \in Token /\ m \in Token /\ c \in Token /\ n \in Token
  BY Tokens
<1> HIDE DEF o, m, c, n
<1> DEFINE q == SubSeq(<<n, o, m, c, n>>, 2, 5)
           r == SubSeq(<<o, m, c, n>>, 2, 4)
           s == SubSeq(<<m, c, n>>, 2, 3)
           t == SubSeq(<<c, n>>, 2, 2)
<1>2. q \in Seq(Token) /\ Len(q) = 4 /\ q[1] = o /\ q[2] = m /\ q[3] = c /\ q[4] = n
  BY <1>1
<1>3. r \in Seq(Token) /\ Len(r) = 3 /\ r[1] = m /\ r[2] = c /\ r[3] = n
  BY <1>1
<1>4. s \in Seq(Token) /\ Len(s) = 2 /\ s[1] = c /\ s[2] = n
  BY <1>1
<1>5. t \in Seq(Token) /\ Len(t) = 1 /\ t[1] = n
  BY <1>1
<1>6. SubSeq(<<n>>, 2, 1) = <<>>
  BY <1>1
<1> HIDE DEF q, r, s, t
<1>7. q = <<o, m, c, n>>
  BY <1>2
<1>8. r = <<m, c, n>>
  BY <1>3
<1>9. s = <<c, n>> /\ t = <<n>>
  BY <1>4, <1>5
<1> QED
  BY <1>6, <1>7, <1>8, <1>9 DEF o, m, c, n, q, r, s, t

\* The five shapes of what is left to write, and what the next token is.
LEMMA WriteInv == ASSUME IInv, NEW p \in Proc, Write(p) PROVE IInv'
<1> DEFINE e == Mine(p)
           t == buf[p][1]
           rest == SubSeq(buf[p], 2, Len(buf[p]))
<1>a. e \in Entry /\ pc[p] = "write" /\ file \in Seq(Token) /\ Len(file) \in Nat
  BY MineIsEntry DEF IInv, Write, TypeOK
<1>b. /\ file' = Append(file, t)
      /\ buf' = [buf EXCEPT ![p] = rest]
      /\ pc' = [pc EXCEPT ![p] = IF Len(buf[p]) = 1 THEN "sync" ELSE @]
      /\ UNCHANGED <<synced, lock, cur, acked>>
  BY DEF Write
<1>c. \A q \in Proc : Mine(q)' = Mine(q)
  BY <1>b DEF Mine
<1>d. \/ buf[p] = <<NL, Opening(e), Middle(e), Closing(e), NL>>
      \/ buf[p] = <<Opening(e), Middle(e), Closing(e), NL>> /\ EndsWithNewline
      \/ /\ buf[p] = <<Middle(e), Closing(e), NL>>
         /\ Len(file) > 0 /\ file[Len(file)] = Opening(e)
      \/ /\ buf[p] = <<Closing(e), NL>>
         /\ Len(file) > 1 /\ file[Len(file) - 1] = Opening(e) /\ file[Len(file)] = Middle(e)
      \/ buf[p] = <<NL>> /\ WholeBy(file, e, Len(file))
  BY <1>a DEF IInv, BufInv
<1> HIDE DEF e
<1>e. /\ t \in Token
      /\ t = NL \/ (t = Opening(e) /\ EndsWithNewline)
               \/ (t = Middle(e) /\ file # <<>> /\ file[Len(file)] = Opening(e))
               \/ (t = Closing(e) /\ file # <<>> /\ file[Len(file)] = Middle(e))
  BY <1>a, <1>d, Tokens
<1>f. rest \in Seq(Token)
  BY <1>a, <1>b DEF IInv, TypeOK, Write
<1>g. file' \in Seq(Token) /\ Len(file') = Len(file) + 1 /\ file'[Len(file')] = t
  BY <1>a, <1>b, <1>e
<1>1. TypeOK'
  <2>1. synced' \in 0..Len(file')
    BY <1>a, <1>b, <1>g DEF IInv, TypeOK
  <2>2. buf' \in [Proc -> Seq(Token)] /\ pc' \in [Proc -> {"idle", "wait", "frame", "write", "sync"}]
    BY <1>b, <1>f DEF IInv, TypeOK
  <2> QED
    BY <2>1, <2>2, <1>b, <1>g DEF IInv, TypeOK
<1>2. LockInv'
  <2>1. Journaling' = Journaling
    BY <1>a, <1>b DEF IInv, TypeOK, Journaling
  <2> QED
    BY <2>1, <1>b DEF IInv, LockInv, OneWriter
<1>3. BufInv'
  <2> SUFFICES ASSUME NEW q \in Proc PROVE BufInv!(q)'
    BY DEF BufInv
  <2>1. CASE q # p
    <3>1. pc[q] \notin {"frame", "write", "sync"}
      BY <1>a, <2>1 DEF IInv, LockInv, OneWriter, Journaling
    <3>2. pc'[q] = pc[q] /\ buf'[q] = buf[q]
      BY <1>b, <2>1 DEF IInv, TypeOK
    <3> QED
      BY <3>1, <3>2, <1>b DEF IInv, BufInv
  <2>2. CASE q = p
    <3>a. buf'[p] = rest /\ pc'[p] = IF Len(buf[p]) = 1 THEN "sync" ELSE "write"
      BY <1>a, <1>b DEF IInv, TypeOK
    <3>b. cur'[p] \in 1..MaxAppends
      BY <1>a, <1>b DEF IInv, BufInv
    <3> HIDE DEF rest
    <3>1. CASE buf[p] = <<NL, Opening(e), Middle(e), Closing(e), NL>>
      <4>1. rest = <<Opening(e), Middle(e), Closing(e), NL>> /\ t = NL /\ Len(buf[p]) = 5
        <5>1. Len(buf[p]) = 5
          BY <3>1
        <5>2. rest = SubSeq(buf[p], 2, 5)
          BY <5>1 DEF rest
        <5>3. SubSeq(<<NL, Opening(e), Middle(e), Closing(e), NL>>, 2, 5) = <<Opening(e), Middle(e), Closing(e), NL>>
          BY <1>a, RestOfEntry
        <5>4. rest = <<Opening(e), Middle(e), Closing(e), NL>>
          BY <3>1, <5>2, <5>3, Zenon
        <5>5. t = NL
          BY <3>1
        <5> QED
          BY <5>1, <5>4, <5>5
      <4>2. EndsWithNewline'
        BY <4>1, <1>g DEF EndsWithNewline
      <4> QED
        BY <2>2, <3>a, <3>b, <4>1, <4>2, <1>c DEF e
    <3>2. CASE buf[p] = <<Opening(e), Middle(e), Closing(e), NL>> /\ EndsWithNewline
      <4>1. rest = <<Middle(e), Closing(e), NL>> /\ t = Opening(e) /\ Len(buf[p]) = 4
        <5>1. Len(buf[p]) = 4
          BY <3>2
        <5>2. rest = SubSeq(buf[p], 2, 4)
          BY <5>1 DEF rest
        <5>3. SubSeq(<<Opening(e), Middle(e), Closing(e), NL>>, 2, 4) = <<Middle(e), Closing(e), NL>>
          BY <1>a, RestOfEntry
        <5>4. rest = <<Middle(e), Closing(e), NL>>
          BY <3>2, <5>2, <5>3, Zenon
        <5>5. t = Opening(e)
          BY <3>2
        <5> QED
          BY <5>1, <5>4, <5>5
      <4>2. Len(file') > 0 /\ file'[Len(file')] = Opening(e)
        BY <4>1, <1>a, <1>g
      <4> QED
        BY <2>2, <3>a, <3>b, <4>1, <4>2, <1>c DEF e
    <3>5. CASE /\ buf[p] = <<Middle(e), Closing(e), NL>>
               /\ Len(file) > 0 /\ file[Len(file)] = Opening(e)
      <4>1. rest = <<Closing(e), NL>> /\ t = Middle(e) /\ Len(buf[p]) = 3
        <5>1. Len(buf[p]) = 3
          BY <3>5
        <5>2. rest = SubSeq(buf[p], 2, 3)
          BY <5>1 DEF rest
        <5>3. SubSeq(<<Middle(e), Closing(e), NL>>, 2, 3) = <<Closing(e), NL>>
          BY <1>a, RestOfEntry
        <5>4. rest = <<Closing(e), NL>>
          BY <3>5, <5>2, <5>3, Zenon
        <5>5. t = Middle(e)
          BY <3>5
        <5> QED
          BY <5>1, <5>4, <5>5
      <4>2. Len(file') > 1 /\ file'[Len(file') - 1] = Opening(e) /\ file'[Len(file')] = Middle(e)
        BY <3>5, <4>1, <1>a, <1>b, <1>g
      <4> QED
        BY <2>2, <3>a, <3>b, <4>1, <4>2, <1>c DEF e
    <3>3. CASE /\ buf[p] = <<Closing(e), NL>>
               /\ Len(file) > 1 /\ file[Len(file) - 1] = Opening(e) /\ file[Len(file)] = Middle(e)
      <4>1. rest = <<NL>> /\ t = Closing(e) /\ Len(buf[p]) = 2
        <5>1. Len(buf[p]) = 2
          BY <3>3
        <5>2. rest = SubSeq(buf[p], 2, 2)
          BY <5>1 DEF rest
        <5>3. SubSeq(<<Closing(e), NL>>, 2, 2) = <<NL>>
          BY <1>a, RestOfEntry
        <5>4. rest = <<NL>>
          BY <3>3, <5>2, <5>3, Zenon
        <5>5. t = Closing(e)
          BY <3>3
        <5> QED
          BY <5>1, <5>4, <5>5
      <4>2. /\ file'[Len(file') - 2] = Opening(e) /\ file'[Len(file') - 1] = Middle(e)
            /\ Len(file') \in 3..Len(file')
        BY <3>3, <1>a, <1>b, <1>g
      <4>3. WholeBy(file', e, Len(file'))
        BY <4>1, <4>2, <1>g DEF WholeBy
      <4> QED
        BY <2>2, <3>a, <3>b, <4>1, <4>3, <1>c DEF e
    <3>4. CASE buf[p] = <<NL>> /\ WholeBy(file, e, Len(file))
      <4>1. rest = <<>> /\ t = NL /\ Len(buf[p]) = 1
        <5>1. Len(buf[p]) = 1
          BY <3>4
        <5>2. rest = SubSeq(buf[p], 2, 1)
          BY <5>1 DEF rest
        <5>3. SubSeq(<<NL>>, 2, 1) = <<>>
          BY <1>a, RestOfEntry
        <5>4. rest = <<>>
          BY <3>4, <5>2, <5>3, Zenon
        <5>5. t = NL
          BY <3>4
        <5> QED
          BY <5>1, <5>4, <5>5
      <4>2. WholeBy(file', e, Len(file))
        BY <3>4, <1>a, <1>b, <1>e, WholeAppend
      <4>3. WholeBy(file', e, Len(file'))
        BY <4>2, <1>a, <1>g, WholeLonger
      <4> QED
        BY <2>2, <3>a, <3>b, <4>1, <4>3, <1>c DEF e
    <3> QED
      BY <1>d, <3>1, <3>2, <3>3, <3>4, <3>5
  <2> QED
    BY <2>1, <2>2
<1>4. NoGlue'
  <2>1. t.part = "head" => file = <<>> \/ file[Len(file)] = NL
    BY <1>a, <1>e, Tokens DEF EndsWithNewline
  <2>2. /\ t.part = "middle" => file # <<>> /\ file[Len(file)] = Opening(t.entry)
        /\ t.part = "tail" => file # <<>> /\ file[Len(file)] = Middle(t.entry)
    BY <1>a, <1>e, Tokens
  <2> QED
    BY <2>1, <2>2, <1>a, <1>b, <1>e, UngluedAppend DEF IInv, NoGlue
<1>5. AckedDurable'
  <2>1. \A x \in acked : WholeBy(file', x, synced)
    BY <1>a, <1>b, <1>e, WholeAppend DEF IInv, AckedDurable, TypeOK
  <2> QED
    BY <2>1, <1>b DEF AckedDurable
<1> QED
  BY <1>1, <1>2, <1>3, <1>4, <1>5 DEF IInv

LEMMA PowerLossInv == ASSUME IInv, PowerLoss PROVE IInv'
<1>1. PICK n \in synced..Len(file) : file' = SubSeq(file, 1, n)
  BY DEF PowerLoss
<1>2. n \in 0..Len(file) /\ synced \in 0..n /\ file \in Seq(Token)
  BY <1>1 DEF IInv, TypeOK
<1>3. Len(file') = n /\ synced' = n /\ file' \in Seq(Token)
  BY <1>1, <1>2 DEF PowerLoss
<1>4. TypeOK'
  BY <1>2, <1>3 DEF IInv, PowerLoss, TypeOK
<1>5. LockInv' /\ BufInv'
  BY DEF PowerLoss, LockInv, OneWriter, Journaling, BufInv
<1>6. NoGlue'
  BY <1>1, <1>2, UngluedPrefix DEF IInv, NoGlue
<1>7. AckedDurable'
  <2>1. \A e \in acked : WholeBy(file', e, synced)
    BY <1>1, <1>2, WholePrefix DEF IInv, AckedDurable
  <2> QED
    BY <2>1, <1>2, <1>3, WholeLonger DEF PowerLoss, AckedDurable
<1> QED
  BY <1>4, <1>5, <1>6, <1>7 DEF IInv

LEMMA NextInv == IInv /\ [Next]_vars => IInv'
<1> SUFFICES ASSUME IInv, [Next]_vars PROVE IInv'
  OBVIOUS
<1>1. ASSUME NEW p \in Proc, Begin(p) PROVE IInv'
  BY <1>1, BeginInv
<1>2. ASSUME NEW p \in Proc, Lock(p) PROVE IInv'
  BY <1>2, LockStepInv
<1>3. ASSUME NEW p \in Proc, Frame(p) PROVE IInv'
  BY <1>3, FrameInv
<1>4. ASSUME NEW p \in Proc, Write(p) PROVE IInv'
  BY <1>4, WriteInv
<1>5. ASSUME NEW p \in Proc, Sync(p) PROVE IInv'
  BY <1>5, SyncInv
<1>6. ASSUME NEW p \in Proc, Fail(p) PROVE IInv'
  BY <1>6, FailInv
<1>7. CASE PowerLoss
  BY <1>7, PowerLossInv
<1>8. CASE UNCHANGED vars
  <2>1. Journaling' = Journaling /\ EndsWithNewline' = EndsWithNewline /\ \A p \in Proc : Mine(p)' = Mine(p)
    BY <1>8 DEF vars, Journaling, EndsWithNewline, Mine
  <2> QED
    BY <1>8, <2>1 DEF vars, IInv, TypeOK, LockInv, OneWriter, BufInv, NoGlue, AckedDurable
<1> QED
  BY <1>1, <1>2, <1>3, <1>4, <1>5, <1>6, <1>7, <1>8 DEF Next

\* IInv is inductive, so every journal file regrow leaves behind, and every
\* process in the middle of an Append, has it.
THEOREM Invariance == Spec => []IInv
<1>1. Init => IInv
  BY InitInv
<1>2. IInv /\ [Next]_vars => IInv'
  BY NextInv
<1> QED
  BY <1>1, <1>2, PTL DEF Spec

\* Every variable keeps its type (the state of Append in every process).
THEOREM TypeCorrect == Spec => []TypeOK
<1>1. IInv => TypeOK
  BY DEF IInv
<1> QED
  BY <1>1, Invariance, PTL

\* No journal file regrow can leave behind holds two entries on one line,
\* or anything after a fragment on its line (jsonl.Frame under the flock).
THEOREM NeverGlued == Spec => []NoGlue
<1>1. IInv => NoGlue
  BY DEF IInv
<1> QED
  BY <1>1, Invariance, PTL

\* An entry whose Append returned nil survives every kill and power loss.
THEOREM AckedIsDurable == Spec => []AckedDurable
<1>1. IInv => AckedDurable
  BY DEF IInv
<1> QED
  BY <1>1, Invariance, PTL

\* From the check of the last line to the sync there is one process.
THEOREM MutualExclusion == Spec => []OneWriter
<1>1. IInv => OneWriter
  BY DEF IInv, LockInv
<1> QED
  BY <1>1, Invariance, PTL

----------------------------------------------------------------------------
(* What a reader finds: in an unglued file each line is empty, an entry,   *)
(* or a lone fragment of one.                                              *)

\* A line ends before its first newline.
LEMMA LineBeforeNewline ==
  ASSUME NEW f \in Seq(Token), NEW i \in 1..Len(f), NEW j \in i..Len(f),
         f[j] = NL, \A k \in i..(j - 1) : f[k] # NL
  PROVE  LineAt(f, i) = SubSeq(f, i, j - 1)
<1> DEFINE ends == {m \in i..Len(f) : f[m] = NL}
           least == CHOOSE m \in ends : \A k \in ends : m <= k
<1>1. j \in ends /\ \A k \in ends : j <= k
  OBVIOUS
<1>2. \A m \in ends : (\A k \in ends : m <= k) => m = j
  BY <1>1
<1>3. least \in ends /\ \A k \in ends : least <= k
  BY <1>1
<1>4. least = j
  BY <1>2, <1>3
<1>5. ends # {}
  BY <1>1
<1>6. LineAt(f, i) = SubSeq(f, i, (IF ends = {} THEN Len(f) ELSE least - 1))
  BY DEF LineAt
<1> HIDE DEF ends, least
<1> QED
  BY <1>4, <1>5, <1>6

\* A last line without a newline ends with the file.
LEMMA LineAtEnd ==
  ASSUME NEW f \in Seq(Token), NEW i \in 1..Len(f), \A k \in i..Len(f) : f[k] # NL
  PROVE  LineAt(f, i) = SubSeq(f, i, Len(f))
<1> DEFINE ends == {m \in i..Len(f) : f[m] = NL}
           least == CHOOSE m \in ends : \A k \in ends : m <= k
<1>1. ends = {}
  OBVIOUS
<1>2. LineAt(f, i) = SubSeq(f, i, (IF ends = {} THEN Len(f) ELSE least - 1))
  BY DEF LineAt
<1> HIDE DEF ends, least
<1> QED
  BY <1>1, <1>2

\* Either way it ends where the file or a newline does.
LEMMA LineUpTo ==
  ASSUME NEW f \in Seq(Token), NEW i \in 1..Len(f), NEW j \in i..Len(f),
         \A k \in i..j : f[k] # NL, j = Len(f) \/ f[j + 1] = NL
  PROVE  LineAt(f, i) = SubSeq(f, i, j)
<1>1. CASE j = Len(f)
  BY <1>1, LineAtEnd
<1>2. CASE j # Len(f) /\ f[j + 1] = NL
  <2>1. Len(f) \in Nat /\ j + 1 \in i..Len(f) /\ (j + 1) - 1 = j
    BY <1>2, LenProperties
  <2> QED
    BY <1>2, <2>1, LineBeforeNewline
<1> QED
  BY <1>1, <1>2

LEMMA ShortLines ==
  ASSUME NEW f \in Seq(Token), NEW i \in 1..Len(f)
  PROVE  /\ SubSeq(f, i, i - 1) = <<>>
         /\ SubSeq(f, i, i) = <<f[i]>>
         /\ i + 1 \in 1..Len(f) => SubSeq(f, i, i + 1) = <<f[i], f[i + 1]>>
         /\ i + 2 \in 1..Len(f) => SubSeq(f, i, i + 2) = <<f[i], f[i + 1], f[i + 2]>>
<1> DEFINE a == SubSeq(f, i, i - 1)
           b == SubSeq(f, i, i)
           c == SubSeq(f, i, i + 1)
           d == SubSeq(f, i, i + 2)
<1>1. a \in Seq(Token) /\ Len(a) = 0
  OBVIOUS
<1>2. b \in Seq(Token) /\ Len(b) = 1 /\ b[1] = f[i]
  OBVIOUS
<1>3. i + 1 \in 1..Len(f) => c \in Seq(Token) /\ Len(c) = 2 /\ c[1] = f[i] /\ c[2] = f[i + 1]
  OBVIOUS
<1>7. i + 2 \in 1..Len(f) =>
        d \in Seq(Token) /\ Len(d) = 3 /\ d[1] = f[i] /\ d[2] = f[i + 1] /\ d[3] = f[i + 2]
  OBVIOUS
<1> HIDE DEF a, b, c, d
<1>4. a = <<>>
  BY <1>1
<1>5. b = <<f[i]>>
  BY <1>2
<1>6. i + 1 \in 1..Len(f) => c = <<f[i], f[i + 1]>>
  BY <1>3
<1>8. i + 2 \in 1..Len(f) => d = <<f[i], f[i + 1], f[i + 2]>>
  BY <1>7
<1> QED
  BY <1>4, <1>5, <1>6, <1>8 DEF a, b, c, d

LEMMA KindsOfToken ==
  ASSUME NEW t \in Token
  PROVE  \/ t = NL
         \/ \E e \in Entry : t = Opening(e)
         \/ \E e \in Entry : t = Middle(e)
         \/ \E e \in Entry : t = Closing(e)
  BY DEF Token

\* What stands before and after a token of an unglued file.
LEMMA Neighbours ==
  ASSUME NEW f \in Seq(Token), Unglued(f), NEW k \in 1..Len(f), NEW e \in Entry
  PROVE  /\ f[k] = Opening(e) => /\ k = 1 \/ f[k - 1] = NL
                                 /\ \/ k = Len(f) \/ f[k + 1] = NL
                                    \/ f[k + 1] = Middle(e)
         /\ f[k] = Middle(e) => /\ k > 1 /\ f[k - 1] = Opening(e)
                                /\ \/ k = Len(f) \/ f[k + 1] = NL
                                   \/ f[k + 1] = Closing(e)
         /\ f[k] = Closing(e) => /\ k > 1 /\ f[k - 1] = Middle(e)
                                 /\ k = Len(f) \/ f[k + 1] = NL
<1>1. \A n \in 1..Len(f) : f[n] \in Token
  OBVIOUS
<1>2. \A n \in 1..Len(f) : \A d \in Entry :
        /\ f[n] = Opening(d) => n = 1 \/ f[n - 1] = NL
        /\ f[n] = Middle(d) => n > 1 /\ f[n - 1] = Opening(d)
        /\ f[n] = Closing(d) => n > 1 /\ f[n - 1] = Middle(d)
  BY Tokens DEF Unglued
<1>3. \A c, d \in Entry : /\ NL \notin {Opening(d), Middle(d), Closing(d)}
                          /\ Opening(c) \notin {Middle(d), Closing(d)} /\ Middle(c) # Closing(d)
                          /\ Opening(c) = Opening(d) => c = d
                          /\ Middle(c) = Middle(d) => c = d
  BY DEF Opening, Middle, Closing, NL
<1>4. \/ k = Len(f)
      \/ k + 1 \in 1..Len(f) /\ (k + 1) - 1 = k /\ k + 1 # 1
  BY LenProperties
<1>5. CASE k = Len(f)
  BY <1>2, <1>5
<1>6. CASE k + 1 \in 1..Len(f) /\ (k + 1) - 1 = k /\ k + 1 # 1
  <2>1. \/ f[k + 1] = NL
        \/ \E d \in Entry : f[k + 1] = Opening(d) /\ f[k] = NL
        \/ \E d \in Entry : f[k + 1] = Middle(d) /\ f[k] = Opening(d)
        \/ \E d \in Entry : f[k + 1] = Closing(d) /\ f[k] = Middle(d)
    <3>1. f[k + 1] \in Token
      BY <1>1, <1>6
    <3>2. CASE \E d \in Entry : f[k + 1] = Opening(d)
      BY <1>2, <1>6, <3>2
    <3>3. CASE \E d \in Entry : f[k + 1] = Middle(d)
      BY <1>2, <1>6, <3>3
    <3>4. CASE \E d \in Entry : f[k + 1] = Closing(d)
      BY <1>2, <1>6, <3>4
    <3> QED
      BY <3>1, <3>2, <3>3, <3>4, KindsOfToken
  <2> QED
    BY <1>2, <1>3, <2>1
<1> QED
  BY <1>4, <1>5, <1>6

LEMMA UngluedLines ==
  ASSUME NEW f \in Seq(Token), Unglued(f), NEW i \in LineStarts(f)
  PROVE  LET line == LineAt(f, i)
         IN  line = <<>> \/ IsEntry(line) \/ cutShort(line) \/ LoneCut(line)
<1>1. i \in 1..Len(f) /\ (i = 1 \/ f[i - 1] = NL) /\ Len(f) \in Nat
  BY DEF LineStarts
<1>2. f[i] \in Token
  BY <1>1
<1>4. \A c, d \in Entry : /\ Opening(c) # NL /\ Middle(c) # NL /\ Closing(c) # NL
                          /\ Opening(c) # Middle(d)
  BY DEF Opening, Middle, Closing, NL
<1>5. CASE f[i] = NL
  <2>1. LineAt(f, i) = SubSeq(f, i, i - 1)
    BY <1>1, <1>5, LineBeforeNewline
  <2> QED
    BY <1>1, <2>1, ShortLines
<1>6. ASSUME NEW e \in Entry, f[i] = Closing(e) \/ f[i] = Middle(e) PROVE FALSE
  BY <1>1, <1>4, <1>6, Neighbours
<1>7. ASSUME NEW e \in Entry, f[i] = Opening(e)
      PROVE  IsEntry(LineAt(f, i)) \/ cutShort(LineAt(f, i)) \/ LoneCut(LineAt(f, i))
  <2>1. i = Len(f) \/ f[i + 1] = NL \/ (i < Len(f) /\ f[i + 1] = Middle(e))
    BY <1>1, <1>7, Neighbours
  <2>2. CASE i = Len(f) \/ f[i + 1] = NL
    <3>0. i \in i..Len(f) /\ \A k \in i..i : f[k] # NL
      BY <1>1, <1>4, <1>7
    <3>1. LineAt(f, i) = SubSeq(f, i, i)
      BY <3>0, <2>2, <1>1, LineUpTo
    <3>2. LineAt(f, i) = <<Opening(e)>>
      BY <3>1, <1>1, <1>7, ShortLines
    <3> QED
      BY <3>2 DEF cutShort
  <2>3. CASE i < Len(f) /\ f[i + 1] = Middle(e)
    <3>1. i + 1 \in 1..Len(f) /\ (i + 1) + 1 = i + 2
      BY <2>3, <1>1
    <3>2. i + 1 = Len(f) \/ f[i + 2] = NL \/ (i + 1 < Len(f) /\ f[i + 2] = Closing(e))
      BY <2>3, <3>1, Neighbours
    <3>3. CASE i + 1 = Len(f) \/ f[i + 2] = NL
      <4>1. i + 1 \in i..Len(f) /\ \A k \in i..(i + 1) : f[k] # NL
        BY <2>3, <3>1, <1>1, <1>4, <1>7
      <4>2. LineAt(f, i) = SubSeq(f, i, i + 1)
        BY <4>1, <3>1, <3>3, <1>1, LineUpTo
      <4>3. LineAt(f, i) = <<Opening(e), Middle(e)>>
        BY <4>2, <3>1, <2>3, <1>1, <1>7, ShortLines
      <4> QED
        BY <4>3 DEF LoneCut
    <3>4. CASE i + 1 < Len(f) /\ f[i + 2] = Closing(e)
      <4>1. i + 2 \in 1..Len(f) /\ (i + 2) + 1 = i + 3
        BY <3>4, <3>1, <1>1
      <4>2. i + 2 = Len(f) \/ f[i + 3] = NL
        BY <3>4, <4>1, Neighbours
      <4>3. i + 2 \in i..Len(f) /\ \A k \in i..(i + 2) : f[k] # NL
        BY <2>3, <3>4, <4>1, <1>1, <1>4, <1>7
      <4>4. LineAt(f, i) = SubSeq(f, i, i + 2)
        BY <4>1, <4>2, <4>3, <1>1, LineUpTo
      <4>5. LineAt(f, i) = <<Opening(e), Middle(e), Closing(e)>>
        BY <4>4, <4>1, <3>4, <2>3, <1>1, <1>7, ShortLines
      <4> QED
        BY <4>5 DEF IsEntry
    <3> QED
      BY <3>2, <3>3, <3>4
  <2> QED
    BY <2>1, <2>2, <2>3
<1> QED
  BY <1>1, <1>2, <1>5, <1>6, <1>7, KindsOfToken

\* Read refuses no journal file regrow can leave behind, and none that a
\* reader finds in the middle of a write, over anything but lone fragments
\* cut within an escape, a number or a literal: for any number of
\* processes, of appends, of kills and of power losses.
THEOREM RefusedForLoneCuts == Spec => []RefusesOnlyCuts
<1>1. ASSUME IInv, NEW n \in 0..Len(file), NEW i \in CorruptLines(SubSeq(file, 1, n))
      PROVE  LoneCut(LineAt(SubSeq(file, 1, n), i))
  <2> DEFINE seen == SubSeq(file, 1, n)
  <2>1. file \in Seq(Token) /\ Unglued(file)
    BY <1>1 DEF IInv, TypeOK, NoGlue
  <2>2. seen \in Seq(Token) /\ Unglued(seen)
    BY <2>1, <1>1, UngluedPrefix
  <2>3. i \in CorruptLines(seen)
    BY <1>1
  <2> HIDE DEF seen
  <2>4. /\ i \in LineStarts(seen)
        /\ ~(LineAt(seen, i) = <<>> \/ IsEntry(LineAt(seen, i)) \/ cutShort(LineAt(seen, i)))
    BY <2>3 DEF CorruptLines
  <2>5. LoneCut(LineAt(seen, i))
    BY <2>2, <2>4, UngluedLines
  <2> QED
    BY <2>5 DEF seen
<1>2. IInv => RefusesOnlyCuts
  BY <1>1 DEF RefusesOnlyCuts
<1> QED
  BY <1>2, Invariance, PTL

----------------------------------------------------------------------------
(* Read, token by token.  It is defined by recursion over the file; what   *)
(* is shown of it needs no more induction than over a set of naturals that *)
(* is given explicitly.                                                    *)

LEMMA SetInduction ==
  ASSUME NEW S, 0 \in S, \A n \in Nat : n \in S => n + 1 \in S
  PROVE  Nat \subseteq S
<1> SUFFICES ASSUME NEW n \in Nat, n \notin S PROVE FALSE
  OBVIOUS
<1> DEFINE T == {k \in 0..n : k \notin S}
           back == [k \in T |-> k - 1]
<1>1. IsFiniteSet(0..n)
  BY FS_Interval
<1>2. IsFiniteSet(T)
  BY <1>1, FS_Subset
<1>3. n \in T
  OBVIOUS
<1>4. ASSUME NEW k \in T PROVE k - 1 \in T /\ k - 1 # n
  <2>1. k \in 0..n /\ k # 0
    OBVIOUS
  <2>2. k - 1 \in Nat /\ (k - 1) + 1 = k
    BY <2>1
  <2>3. k - 1 \notin S
    BY <2>2, <1>4
  <2> QED
    BY <2>1, <2>3
<1>5. back \in [T -> T \ {n}]
  BY <1>4
<1>6. /\ IsFiniteSet(T \ {n})
      /\ Cardinality(T \ {n}) = Cardinality(T) - 1
  BY <1>2, <1>3, FS_RemoveElement
<1>7. Cardinality(T \ {n}) < Cardinality(T)
  <2>1. Cardinality(T) \in Nat
    BY <1>2, FS_CardinalityType
  <2> HIDE DEF T
  <2> QED
    BY <2>1, <1>6
<1>8. \A x, y \in T : back[x] = back[y] => x = y
  OBVIOUS
<1> HIDE DEF T, back
<1> QED
  BY <1>2, <1>5, <1>6, <1>7, <1>8, FS_PigeonHole

\* What Read has once it has read token n, when it had "before".
Gather(f, n, before) == IF f[n].part = "tail" THEN Append(before, f[n].entry) ELSE before
IsReadBy(f, g, n) == /\ g \in [0..n -> Seq(Entry)]
                     /\ g[0] = <<>>
                     /\ \A k \in 1..n : g[k] = Gather(f, k, g[k - 1])

LEMMA GatherTyped ==
  ASSUME NEW f \in Seq(Token), NEW n \in 1..Len(f), NEW before \in Seq(Entry)
  PROVE  Gather(f, n, before) \in Seq(Entry)
<1>1. f[n] \in Token
  OBVIOUS
<1>2. f[n].part = "tail" => f[n].entry \in Entry
  BY <1>1, Tokens, KindsOfToken
<1> QED
  BY <1>2, AppendProperties DEF Gather

LEMMA ReadByExists ==
  ASSUME NEW f \in Seq(Token)
  PROVE  \E g : IsReadBy(f, g, Len(f))
<1> DEFINE S == {n \in Nat : n =< Len(f) => \E g : IsReadBy(f, g, n)}
<1>1. 0 \in S
  <2>1. IsReadBy(f, [k \in 0..0 |-> <<>>], 0)
    BY EmptySeq DEF IsReadBy
  <2> QED
    BY <2>1
<1>2. ASSUME NEW n \in Nat, n \in S PROVE n + 1 \in S
  <2> SUFFICES ASSUME n + 1 =< Len(f) PROVE \E g : IsReadBy(f, g, n + 1)
    OBVIOUS
  <2>1. PICK g : IsReadBy(f, g, n)
    BY <1>2
  <2> DEFINE h == [k \in 0..(n + 1) |-> IF k = n + 1 THEN Gather(f, n + 1, g[n]) ELSE g[k]]
  <2>2. Gather(f, n + 1, g[n]) \in Seq(Entry)
    BY <2>1, GatherTyped DEF IsReadBy
  <2>3. h \in [0..(n + 1) -> Seq(Entry)]
    BY <2>1, <2>2 DEF IsReadBy
  <2>4. h[0] = <<>>
    BY <2>1 DEF IsReadBy
  <2>5. ASSUME NEW k \in 1..(n + 1) PROVE h[k] = Gather(f, k, h[k - 1])
    <3>1. CASE k = n + 1
      BY <3>1
    <3>2. CASE k \in 1..n
      <4>1. h[k] = g[k] /\ h[k - 1] = g[k - 1]
        BY <3>2
      <4> QED
        BY <4>1, <3>2, <2>1 DEF IsReadBy
    <3> QED
      BY <3>1, <3>2
  <2> HIDE DEF h
  <2>6. IsReadBy(f, h, n + 1)
    BY <2>3, <2>4, <2>5 DEF IsReadBy
  <2> QED
    BY <2>6
<1>3. Len(f) \in S
  <2> HIDE DEF S
  <2>1. Nat \subseteq S
    BY <1>1, <1>2, SetInduction
  <2> QED
    BY <2>1, LenProperties
<1> QED
  BY <1>3

LEMMA ReadByUnrolled ==
  ASSUME NEW f \in Seq(Token)
  PROVE  IsReadBy(f, ReadBy(f), Len(f))
<1> DEFINE D(g) == g = [n \in 0..Len(f) |->
                         IF n = 0 THEN <<>>
                         ELSE IF f[n].part = "tail" THEN Append(g[n - 1], f[n].entry)
                         ELSE g[n - 1]]
<1>1. PICK h : IsReadBy(f, h, Len(f))
  BY ReadByExists
<1>2. D(h)
  <2>1. Len(f) \in Nat
    OBVIOUS
  <2>2. h = [n \in 0..Len(f) |-> h[n]]
    BY <1>1 DEF IsReadBy
  <2>3. h[0] = <<>> /\ \A n \in 1..Len(f) : h[n] = Gather(f, n, h[n - 1])
    BY <1>1 DEF IsReadBy
  <2>4. ASSUME NEW n \in 0..Len(f)
        PROVE  h[n] = IF n = 0 THEN <<>>
                      ELSE IF f[n].part = "tail" THEN Append(h[n - 1], f[n].entry)
                      ELSE h[n - 1]
    <3>1. n = 0 \/ n \in 1..Len(f)
      BY <2>1
    <3> QED
      BY <3>1, <2>3 DEF Gather
  <2> QED
    BY <2>2, <2>4, Zenon
<1>3. D(ReadBy(f))
  <2>1. ReadBy(f) = CHOOSE g : D(g)
    BY DEF ReadBy
  <2> HIDE DEF D
  <2> QED
    BY <1>2, <2>1
<1> DEFINE r == ReadBy(f)
<1> HIDE DEF r
<1>4. /\ DOMAIN r = 0..Len(f) /\ r[0] = <<>>
      /\ r = [n \in 0..Len(f) |-> r[n]]
      /\ \A k \in 1..Len(f) : r[k] = Gather(f, k, r[k - 1])
  <2>0. Len(f) \in Nat
    OBVIOUS
  <2>1. D(r)
    <3> HIDE DEF D
    <3> QED
      BY <1>3 DEF r
  <2>2. DOMAIN r = 0..Len(f) /\ r = [n \in 0..Len(f) |-> r[n]]
    BY <2>1
  <2>3. \A n \in 0..Len(f) : r[n] = IF n = 0 THEN <<>>
                      ELSE IF f[n].part = "tail" THEN Append(r[n - 1], f[n].entry)
                      ELSE r[n - 1]
    <3>1. r = [n \in 0..Len(f) |->
                         IF n = 0 THEN <<>>
                         ELSE IF f[n].part = "tail" THEN Append(r[n - 1], f[n].entry)
                         ELSE r[n - 1]]
      BY <2>1
    <3> QED
      BY <3>1, Zenon
  <2>4. \A k \in 1..Len(f) : k \in 0..Len(f) /\ k # 0
    OBVIOUS
  <2>5. \A k \in 1..Len(f) : r[k] = Gather(f, k, r[k - 1])
    BY <2>3, <2>4 DEF Gather
  <2>6. r[0] = <<>>
    <3>1. 0 \in 0..Len(f)
      BY <2>0
    <3> QED
      BY <3>1, <2>3
  <2> QED
    BY <2>2, <2>5, <2>6
<1>5. \A n \in 0..Len(f) : r[n] \in Seq(Entry)
  <2> DEFINE S == {n \in Nat : n =< Len(f) => r[n] \in Seq(Entry)}
  <2>1. 0 \in S
    BY <1>4, EmptySeq
  <2>2. ASSUME NEW n \in Nat, n \in S PROVE n + 1 \in S
    <3> SUFFICES ASSUME n + 1 =< Len(f) PROVE r[n + 1] \in Seq(Entry)
      OBVIOUS
    <3>1. r[n] \in Seq(Entry) /\ n + 1 \in 1..Len(f) /\ (n + 1) - 1 = n
      BY <2>2
    <3> QED
      BY <3>1, <1>4, GatherTyped
  <2>3. Nat \subseteq S
    <3> HIDE DEF S
    <3> QED
      BY <2>1, <2>2, SetInduction
  <2> QED
    BY <2>3
<1> QED
  BY <1>4, <1>5 DEF IsReadBy, r

LEMMA ReadByStep ==
  ASSUME NEW f \in Seq(Token), NEW n \in 1..Len(f)
  PROVE  /\ ReadBy(f)[n] = Gather(f, n, ReadBy(f)[n - 1])
         /\ ReadBy(f)[n] \in Seq(Entry) /\ ReadBy(f)[n - 1] \in Seq(Entry)
<1>1. n \in 0..Len(f) /\ n - 1 \in 0..Len(f)
  OBVIOUS
<1> QED
  BY <1>1, ReadByUnrolled DEF IsReadBy

LEMMA ReadTyped ==
  ASSUME NEW f \in Seq(Token)
  PROVE  /\ ReadBy(f)[0] = <<>> /\ Read(f) \in Seq(Entry)
         /\ \A n \in 0..Len(f) : ReadBy(f)[n] \in Seq(Entry)
<1>1. 0 \in 0..Len(f) /\ Len(f) \in 0..Len(f)
  OBVIOUS
<1> QED
  BY <1>1, ReadByUnrolled DEF IsReadBy, Read

\* What has been read by token n depends on the tokens up to n.
LEMMA ReadBySame ==
  ASSUME NEW f \in Seq(Token), NEW g \in Seq(Token),
         NEW n \in Nat, n =< Len(f), n =< Len(g), \A i \in 1..n : f[i] = g[i]
  PROVE  ReadBy(f)[n] = ReadBy(g)[n]
<1> DEFINE S == {k \in Nat : k =< n => ReadBy(f)[k] = ReadBy(g)[k]}
<1>1. 0 \in S
  BY ReadTyped
<1>2. ASSUME NEW k \in Nat, k \in S PROVE k + 1 \in S
  <2> SUFFICES ASSUME k + 1 =< n PROVE ReadBy(f)[k + 1] = ReadBy(g)[k + 1]
    OBVIOUS
  <2>1. k + 1 \in 1..Len(f) /\ k + 1 \in 1..Len(g) /\ k + 1 \in 1..n /\ (k + 1) - 1 = k /\ k =< n
    BY LenProperties
  <2>2. ReadBy(f)[k] = ReadBy(g)[k]
    BY <1>2, <2>1
  <2>3. ReadBy(f)[k + 1] = Gather(f, k + 1, ReadBy(f)[k])
    BY <2>1, ReadByStep
  <2>4. ReadBy(g)[k + 1] = Gather(g, k + 1, ReadBy(g)[k])
    BY <2>1, ReadByStep
  <2> QED
    BY <2>1, <2>2, <2>3, <2>4 DEF Gather
<1>3. Nat \subseteq S
  <2> HIDE DEF S
  <2> QED
    BY <1>1, <1>2, SetInduction
<1>4. n \in S
  <2> HIDE DEF S
  <2> QED
    BY <1>3
<1> QED
  BY <1>4

LEMMA ReadAppend ==
  ASSUME NEW f \in Seq(Token), NEW t \in Token
  PROVE  Read(Append(f, t)) = IF t.part = "tail" THEN Append(Read(f), t.entry) ELSE Read(f)
<1> DEFINE g == Append(f, t)
           n == Len(f)
<1>1. g \in Seq(Token) /\ Len(g) = n + 1 /\ n \in Nat /\ g[n + 1] = t /\ \A i \in 1..n : g[i] = f[i]
  OBVIOUS
<1> HIDE DEF g
<1>2. ReadBy(g)[n] = ReadBy(f)[n]
  <2>1. n =< Len(g) /\ n =< Len(f)
    BY <1>1
  <2> HIDE DEF n
  <2> QED
    BY <2>1, <1>1, ReadBySame
<1>3. n + 1 \in 1..Len(g) /\ (n + 1) - 1 = n
  BY <1>1
<1>4. ReadBy(g)[n + 1] = Gather(g, n + 1, ReadBy(g)[n])
  <2> HIDE DEF n
  <2> QED
    BY <1>1, <1>3, ReadByStep
<1> QED
  BY <1>1, <1>2, <1>4 DEF Read, Gather, g

LEMMA ReadOfPrefix ==
  ASSUME NEW f \in Seq(Token), NEW n \in 0..Len(f)
  PROVE  Read(SubSeq(f, 1, n)) = ReadBy(f)[n]
<1> DEFINE g == SubSeq(f, 1, n)
<1>1. g \in Seq(Token) /\ Len(g) = n /\ n \in Nat /\ n =< Len(f) /\ \A i \in 1..n : f[i] = g[i]
  OBVIOUS
<1> HIDE DEF g
<1>2. n =< Len(g)
  BY <1>1
<1>3. ReadBy(f)[n] = ReadBy(g)[n]
  BY <1>1, <1>2, ReadBySame
<1> QED
  BY <1>1, <1>3 DEF Read, g

\* A sequence begins with another one.
Begins(a, b) == Len(a) =< Len(b) /\ \A i \in 1..Len(a) : a[i] = b[i]

LEMMA GatherBegins ==
  ASSUME NEW f, NEW n, NEW a \in Seq(Entry), NEW b \in Seq(Entry),
         Gather(f, n, b) \in Seq(Entry), Begins(a, b)
  PROVE  Begins(a, Gather(f, n, b))
<1>1. CASE f[n].part = "tail"
  <2>1. Gather(f, n, b) = Append(b, f[n].entry)
    BY <1>1 DEF Gather
  <2>2. Len(Append(b, f[n].entry)) = Len(b) + 1 /\ \A i \in 1..Len(b) : Append(b, f[n].entry)[i] = b[i]
    OBVIOUS
  <2>3. Len(a) \in Nat /\ Len(b) \in Nat
    OBVIOUS
  <2> QED
    BY <2>1, <2>2, <2>3 DEF Begins
<1>2. CASE f[n].part # "tail"
  BY <1>2 DEF Gather
<1> QED
  BY <1>1, <1>2

LEMMA ReadGrows ==
  ASSUME NEW f \in Seq(Token), NEW n \in 0..Len(f)
  PROVE  Begins(ReadBy(f)[n], Read(f))
<1> DEFINE r == ReadBy(f)
           S == {d \in Nat : n + d =< Len(f) => Begins(r[n], r[n + d])}
<1>1. \A k \in 0..Len(f) : r[k] \in Seq(Entry)
  BY ReadTyped
<1>2. n \in Nat /\ Len(f) \in Nat
  OBVIOUS
<1>3. 0 \in S
  BY <1>1, <1>2 DEF Begins
<1>4. ASSUME NEW d \in Nat, d \in S PROVE d + 1 \in S
  <2> SUFFICES ASSUME n + (d + 1) =< Len(f) PROVE Begins(r[n], r[n + (d + 1)])
    OBVIOUS
  <2>1. Begins(r[n], r[n + d])
    BY <1>2, <1>4
  <2>2. n + (d + 1) \in 1..Len(f) /\ (n + (d + 1)) - 1 = n + d /\ n + d \in 0..Len(f)
    BY <1>2
  <2>3. r[n + (d + 1)] = Gather(f, n + (d + 1), r[n + d]) /\ r[n + (d + 1)] \in Seq(Entry)
    BY <2>2, ReadByStep
  <2>4. r[n] \in Seq(Entry) /\ r[n + d] \in Seq(Entry)
    BY <1>1, <2>2
  <2> HIDE DEF r
  <2> QED
    BY <2>1, <2>3, <2>4, GatherBegins
<1>5. Len(f) - n \in Nat /\ n + (Len(f) - n) = Len(f)
  BY <1>2
<1>6. Nat \subseteq S
  <2> HIDE DEF S
  <2> QED
    BY <1>3, <1>4, SetInduction
<1>7. Len(f) - n \in S
  <2> HIDE DEF S
  <2> QED
    BY <1>5, <1>6
<1> QED
  BY <1>5, <1>7 DEF Read

LEMMA BeginsIsPrefix ==
  ASSUME NEW X, NEW a \in Seq(X), NEW b \in Seq(X), Begins(a, b)
  PROVE  Len(a) \in 0..Len(b) /\ a = SubSeq(b, 1, Len(a))
<1> DEFINE c == SubSeq(b, 1, Len(a))
<1>1. Len(a) \in Nat /\ Len(b) \in Nat /\ Len(a) =< Len(b)
  BY DEF Begins
<1>2. Len(a) \in 0..Len(b)
  BY <1>1
<1>3. c \in Seq(X) /\ Len(c) = Len(a) /\ \A i \in 1..Len(a) : c[i] = b[i]
  BY <1>1
<1> HIDE DEF c
<1>4. a = c
  BY <1>3, SeqEqual DEF Begins
<1> QED
  BY <1>2, <1>4 DEF c

\* The entries read by token n are the ones that end by token n.
LEMMA ReadByElements ==
  ASSUME NEW f \in Seq(Token), NEW n \in 0..Len(f), NEW e \in Entry
  PROVE  e \in J!Elements(ReadBy(f)[n]) <=> \E i \in 1..n : f[i] = Closing(e)
<1> DEFINE r == ReadBy(f)
           Has(s) == \E i \in DOMAIN s : s[i] = e
           S == {k \in Nat : k =< Len(f) => (Has(r[k]) <=> \E i \in 1..k : f[i] = Closing(e))}
<1>1. 0 \in S
  <2>1. r[0] = <<>>
    BY ReadTyped
  <2> QED
    BY <2>1
<1>2. ASSUME NEW k \in Nat, k \in S PROVE k + 1 \in S
  <2> SUFFICES ASSUME k + 1 =< Len(f)
               PROVE  Has(r[k + 1]) <=> \E i \in 1..(k + 1) : f[i] = Closing(e)
    OBVIOUS
  <2>1. k + 1 \in 1..Len(f) /\ (k + 1) - 1 = k
    BY LenProperties
  <2>2. Has(r[k]) <=> \E i \in 1..k : f[i] = Closing(e)
    BY <1>2, <2>1
  <2>3. /\ r[k + 1] = Gather(f, k + 1, r[k])
        /\ r[k] \in Seq(Entry)
    BY <2>1, ReadByStep
  <2>4. f[k + 1] \in Token
    BY <2>1
  <2>5. f[k + 1] = Closing(e) <=> f[k + 1].part = "tail" /\ f[k + 1].entry = e
    BY <2>4, Tokens, KindsOfToken
  <2>6. Has(r[k + 1]) <=> Has(r[k]) \/ f[k + 1] = Closing(e)
    <3> DEFINE q == r[k]
               x == f[k + 1].entry
    <3>1. q \in Seq(Entry)
      BY <2>3
    <3> HIDE DEF q, x
    <3>2. Has(Append(q, x)) <=> Has(q) \/ x = e
      <4>1. /\ DOMAIN Append(q, x) = 1..(Len(q) + 1) /\ DOMAIN q = 1..Len(q) /\ Len(q) \in Nat
            /\ Append(q, x)[Len(q) + 1] = x
            /\ \A i \in 1..Len(q) : Append(q, x)[i] = q[i]
        BY <3>1
      <4>2. 1..(Len(q) + 1) = 1..Len(q) \cup {Len(q) + 1}
        BY <4>1
      <4> QED
        BY <4>1, <4>2
    <3>3. CASE f[k + 1].part = "tail"
      BY <3>2, <3>3, <2>3, <2>5 DEF Gather, q, x
    <3>4. CASE f[k + 1].part # "tail"
      BY <3>4, <2>3, <2>5 DEF Gather, q, x
    <3> QED
      BY <3>3, <3>4
  <2> HIDE DEF Has, r
  <2>7. (\E i \in 1..(k + 1) : f[i] = Closing(e))
          <=> (\E i \in 1..k : f[i] = Closing(e)) \/ f[k + 1] = Closing(e)
    OBVIOUS
  <2> QED
    BY <2>2, <2>6, <2>7
<1>3. Nat \subseteq S
  <2> HIDE DEF S
  <2> QED
    BY <1>1, <1>2, SetInduction
<1>4. n \in S
  <2> HIDE DEF S
  <2> QED
    BY <1>3
<1> QED
  BY <1>4 DEF J!Elements

----------------------------------------------------------------------------
(* The journal implements the abstract one: every step adds an entry to    *)
(* what a reader gets, promises one, loses an end, or changes nothing.     *)

LEMMA TailsAreClosings ==
  ASSUME NEW t \in Token
  PROVE  t.part = "tail" => t.entry \in Entry /\ t = Closing(t.entry)
  BY Tokens, KindsOfToken

\* A step of process p that leaves the file alone.
LEMMA QuietEnds ==
  ASSUME TypeOK, EndsInTurn, NEW p \in Proc, file' = file,
         \A q \in Proc : q # p => pc'[q] = pc[q] /\ buf'[q] = buf[q] /\ cur'[q] = cur[q],
         cur'[p] >= cur[p], cur'[p] \in Nat,
         cur'[p] = cur[p] /\ ToEnd(p)' => ToEnd(p)
  PROVE  EndsInTurn'
<1> SUFFICES ASSUME NEW e \in Entry, Ended(e)'
             PROVE  (e[2] < cur[e[1]] \/ (e[2] = cur[e[1]] /\ ~ToEnd(e[1])))'
  BY DEF EndsInTurn, Entry
<1>1. Ended(e) /\ e[1] \in Proc /\ e[2] \in Nat
  BY DEF Ended, Entry
<1>2. e[2] < cur[e[1]] \/ (e[2] = cur[e[1]] /\ ~ToEnd(e[1]))
  BY <1>1 DEF EndsInTurn
<1>3. cur[e[1]] \in Nat /\ cur[p] \in Nat
  BY <1>1, MaxAppendsAssumption DEF TypeOK
<1>4. CASE e[1] # p
  BY <1>1, <1>2, <1>4 DEF ToEnd
<1>5. CASE e[1] = p
  BY <1>1, <1>2, <1>3, <1>5
<1> QED
  BY <1>4, <1>5

\* The token a write adds, and what the write still has to do after it.
LEMMA NextToken ==
  ASSUME IInv, NEW p \in Proc, Write(p)
  PROVE  /\ buf[p][1] \in Token /\ Mine(p) \in Entry
         /\ \A e \in Entry : buf[p][1] = Closing(e) => e = Mine(p) /\ ToEnd(p) /\ ~ToEnd(p)'
         /\ ToEnd(p)' => ToEnd(p)
<1> DEFINE e == Mine(p)
           rest == SubSeq(buf[p], 2, Len(buf[p]))
<1>1. e \in Entry /\ pc[p] = "write"
  BY MineIsEntry DEF IInv, Write
<1>2. /\ buf'[p] = rest
      /\ pc'[p] = IF Len(buf[p]) = 1 THEN "sync" ELSE "write"
  BY <1>1 DEF IInv, TypeOK, Write
<1>3. \/ buf[p] = <<NL, Opening(e), Middle(e), Closing(e), NL>>
      \/ buf[p] = <<Opening(e), Middle(e), Closing(e), NL>>
      \/ buf[p] = <<Middle(e), Closing(e), NL>>
      \/ buf[p] = <<Closing(e), NL>>
      \/ buf[p] = <<NL>>
  BY <1>1 DEF IInv, BufInv
<1>4. /\ NL \in Token /\ Opening(e) \in Token /\ Middle(e) \in Token /\ Closing(e) \in Token
      /\ \A d \in Entry : NL # Closing(d) /\ Opening(e) # Closing(d) /\ Middle(e) # Closing(d)
      /\ \A d \in Entry : Closing(e) = Closing(d) => d = e
  BY <1>1, Tokens DEF NL, Opening, Middle, Closing
<1> HIDE DEF e
<1>5. CASE buf[p] = <<NL>>
  <2>1. pc'[p] = "sync" /\ buf[p][1] = NL
    BY <1>2, <1>5
  <2> QED
    BY <1>1, <1>4, <2>1 DEF ToEnd, e
<1>6. CASE buf[p] = <<Closing(e), NL>>
  <2>1. buf[p][1] = Closing(e) /\ Len(buf[p]) = 2 /\ buf[p] # <<NL>>
    BY <1>6
  <2>2. rest = <<NL>>
    <3>1. rest = SubSeq(buf[p], 2, 2)
      BY <2>1
    <3>2. SubSeq(<<Closing(e), NL>>, 2, 2) = <<NL>>
      BY <1>1, RestOfEntry DEF e
    <3> QED
      BY <3>1, <3>2, <1>6, Zenon
  <2>3. ToEnd(p) /\ ~ToEnd(p)'
    BY <1>1, <1>2, <2>1, <2>2 DEF ToEnd
  <2> QED
    BY <1>1, <1>4, <2>1, <2>3 DEF e
<1>7. CASE \/ buf[p] = <<NL, Opening(e), Middle(e), Closing(e), NL>>
           \/ buf[p] = <<Opening(e), Middle(e), Closing(e), NL>>
           \/ buf[p] = <<Middle(e), Closing(e), NL>>
  <2>1. buf[p][1] \in {NL, Opening(e), Middle(e)} /\ buf[p] # <<NL>>
    <3>1. CASE buf[p] = <<NL, Opening(e), Middle(e), Closing(e), NL>>
      <4>1. buf[p][1] = NL /\ Len(buf[p]) = 5
        BY <3>1
      <4> QED
        BY <4>1
    <3>2. CASE buf[p] = <<Opening(e), Middle(e), Closing(e), NL>>
      <4>1. buf[p][1] = Opening(e) /\ Len(buf[p]) = 4
        BY <3>2
      <4> QED
        BY <4>1
    <3>3. CASE buf[p] = <<Middle(e), Closing(e), NL>>
      <4>1. buf[p][1] = Middle(e) /\ Len(buf[p]) = 3
        BY <3>3
      <4> QED
        BY <4>1
    <3> QED
      BY <1>7, <3>1, <3>2, <3>3
  <2>2. ToEnd(p)
    BY <1>1, <2>1 DEF ToEnd
  <2> QED
    BY <1>1, <1>4, <2>1, <2>2 DEF e
<1> QED
  BY <1>3, <1>5, <1>6, <1>7

LEMMA WriteEnds == ASSUME IInv, EndsInTurn, NEW p \in Proc, Write(p) PROVE EndsInTurn'
<1> DEFINE t == buf[p][1]
<1>1. /\ t \in Token /\ Mine(p) \in Entry
      /\ \A e \in Entry : t = Closing(e) => e = Mine(p) /\ ToEnd(p) /\ ~ToEnd(p)'
      /\ ToEnd(p)' => ToEnd(p)
  BY NextToken
<1>2. file' = Append(file, t) /\ cur' = cur /\ file \in Seq(Token)
  BY DEF Write, IInv, TypeOK
<1>3. \A q \in Proc : q # p => pc'[q] = pc[q] /\ buf'[q] = buf[q]
  BY DEF Write, IInv, TypeOK
<1> HIDE DEF t
<1> SUFFICES ASSUME NEW e \in Entry, Ended(e)'
             PROVE  (e[2] < cur[e[1]] \/ (e[2] = cur[e[1]] /\ ~ToEnd(e[1])))'
  BY DEF EndsInTurn, Entry
<1>4. e[1] \in Proc /\ e[2] \in Nat
  BY DEF Entry
<1>5. Ended(e) \/ t = Closing(e)
  <2>1. PICK i \in 1..Len(file') : file'[i] = Closing(e)
    BY DEF Ended
  <2>2. Len(file') = Len(file) + 1 /\ file'[Len(file) + 1] = t /\ Len(file) \in Nat
        /\ \A k \in 1..Len(file) : file'[k] = file[k]
    BY <1>1, <1>2
  <2> QED
    BY <2>1, <2>2 DEF Ended
<1>6. CASE Ended(e)
  <2>1. e[2] < cur[e[1]] \/ (e[2] = cur[e[1]] /\ ~ToEnd(e[1]))
    BY <1>6 DEF EndsInTurn
  <2> QED
    BY <2>1, <1>1, <1>2, <1>3, <1>4 DEF ToEnd
<1>7. CASE t = Closing(e)
  <2>1. e = Mine(p) /\ ~ToEnd(p)'
    BY <1>1, <1>7
  <2>2. e[1] = p /\ e[2] = cur[p]
    BY <2>1 DEF Mine
  <2> QED
    BY <2>1, <2>2, <1>2
<1> QED
  BY <1>5, <1>6, <1>7

LEMMA EndsNext == ASSUME IInv, EndsInTurn, [Next]_vars PROVE EndsInTurn'
<1> USE DEF IInv
<1>0. TypeOK /\ \A p \in Proc : cur[p] \in Nat
  BY MaxAppendsAssumption DEF TypeOK
<1>1. ASSUME NEW p \in Proc, Begin(p) PROVE EndsInTurn'
  <2>1. /\ \A q \in Proc : q # p => pc'[q] = pc[q] /\ buf'[q] = buf[q] /\ cur'[q] = cur[q]
        /\ cur'[p] = cur[p] + 1 /\ file' = file
    BY <1>1 DEF Begin, TypeOK
  <2> QED
    BY <1>0, <2>1, QuietEnds
<1>2. ASSUME NEW p \in Proc, Lock(p) PROVE EndsInTurn'
  <2>1. /\ \A q \in Proc : q # p => pc'[q] = pc[q] /\ buf'[q] = buf[q] /\ cur'[q] = cur[q]
        /\ cur'[p] = cur[p] /\ file' = file /\ pc[p] = "wait"
    BY <1>2 DEF Lock, TypeOK
  <2> QED
    BY <1>0, <2>1, QuietEnds DEF ToEnd
<1>3. ASSUME NEW p \in Proc, Frame(p) PROVE EndsInTurn'
  <2>1. /\ \A q \in Proc : q # p => pc'[q] = pc[q] /\ buf'[q] = buf[q] /\ cur'[q] = cur[q]
        /\ cur'[p] = cur[p] /\ file' = file /\ pc[p] = "frame"
    BY <1>3 DEF Frame, TypeOK
  <2> QED
    BY <1>0, <2>1, QuietEnds DEF ToEnd
<1>4. ASSUME NEW p \in Proc, Write(p) PROVE EndsInTurn'
  BY <1>4, WriteEnds
<1>5. ASSUME NEW p \in Proc, Sync(p) \/ Fail(p) PROVE EndsInTurn'
  <2>1. /\ \A q \in Proc : q # p => pc'[q] = pc[q] /\ buf'[q] = buf[q] /\ cur'[q] = cur[q]
        /\ cur'[p] = cur[p] /\ file' = file /\ pc'[p] = "idle"
    BY <1>5 DEF Sync, Fail, TypeOK
  <2>2. ~ToEnd(p)'
    BY <2>1 DEF ToEnd
  <2> QED
    BY <1>0, <2>1, <2>2, QuietEnds
<1>6. CASE PowerLoss
  <2> SUFFICES ASSUME NEW e \in Entry, Ended(e)'
               PROVE  (e[2] < cur[e[1]] \/ (e[2] = cur[e[1]] /\ ~ToEnd(e[1])))'
    BY DEF EndsInTurn, Entry
  <2>1. PICK n \in synced..Len(file) : file' = SubSeq(file, 1, n)
    BY <1>6 DEF PowerLoss
  <2>2. file \in Seq(Token) /\ synced \in 0..Len(file)
    BY DEF TypeOK
  <2>3. Len(file') = n /\ n =< Len(file) /\ \A i \in 1..n : file'[i] = file[i]
    BY <2>1, <2>2
  <2>4. Ended(e)
    BY <2>2, <2>3 DEF Ended
  <2>5. e[2] < cur[e[1]] \/ e[2] = cur[e[1]]
    BY <2>4 DEF EndsInTurn
  <2>6. e[1] \in Proc
    BY DEF Entry
  <2>7. ~ToEnd(e[1])'
    BY <1>6, <2>6 DEF PowerLoss, ToEnd
  <2> QED
    BY <2>5, <2>7, <1>6 DEF PowerLoss
<1>7. CASE UNCHANGED vars
  BY <1>7 DEF vars, EndsInTurn, Ended, ToEnd
<1> QED
  BY <1>1, <1>2, <1>3, <1>4, <1>5, <1>6, <1>7 DEF Next

\* An entry is in the journal only once its process has written its end,
\* so no Append puts there what is there already.
THEOREM EntriesEndInTurn == Spec => []EndsInTurn
<1>1. Init => EndsInTurn
  BY DEF Init, EndsInTurn, Ended
<1>2. IInv /\ EndsInTurn /\ [Next]_vars => EndsInTurn'
  BY EndsNext
<1> QED
  BY <1>1, <1>2, Invariance, PTL DEF Spec

LEMMA WriteAdds == ASSUME IInv, EndsInTurn, NEW p \in Proc, Write(p) PROVE [J!Next]_(J!vars)
<1> DEFINE t == buf[p][1]
           e == Mine(p)
<1>1. /\ t \in Token /\ e \in Entry
      /\ \A d \in Entry : t = Closing(d) => d = e /\ ToEnd(p)
  BY NextToken
<1>2. file' = Append(file, t) /\ acked' = acked /\ file \in Seq(Token)
  BY DEF Write, IInv, TypeOK
<1> HIDE DEF t
<1>3. Read(file)' = IF t.part = "tail" THEN Append(Read(file), t.entry) ELSE Read(file)
  BY <1>1, <1>2, ReadAppend
<1>4. CASE t.part # "tail"
  BY <1>2, <1>3, <1>4 DEF J!vars
<1>5. CASE t.part = "tail"
  <2>1. t = Closing(t.entry) /\ t.entry = e /\ ToEnd(p)
    BY <1>1, <1>5, TailsAreClosings
  <2>2. e[1] = p /\ e[2] = cur[p] /\ cur[p] \in Nat
    BY MaxAppendsAssumption DEF Mine, IInv, TypeOK
  <2> HIDE DEF e
  <2>3. ~Ended(e)
    BY <1>1, <2>1, <2>2 DEF EndsInTurn
  <2>4. e \notin J!Elements(Read(file))
    <3>1. Len(file) \in 0..Len(file)
      BY <1>2, LenProperties
    <3>2. e \in J!Elements(ReadBy(file)[Len(file)]) <=> \E i \in 1..Len(file) : file[i] = Closing(e)
      BY <1>1, <1>2, <3>1, ReadByElements
    <3> QED
      BY <2>3, <3>2 DEF Ended, Read
  <2>5. J!Add(e)
    BY <1>2, <1>3, <1>5, <2>1, <2>4 DEF J!Add
  <2> QED
    BY <1>1, <2>5 DEF J!Next
<1> QED
  BY <1>4, <1>5

LEMMA SyncKeeps == ASSUME IInv, NEW p \in Proc, Sync(p) PROVE J!Next
<1> DEFINE e == Mine(p)
<1>1. e \in Entry /\ file \in Seq(Token) /\ WholeBy(file, e, Len(file))
  BY MineIsEntry DEF IInv, TypeOK, Sync, BufInv
<1>2. file' = file /\ acked' = acked \cup {e}
  BY DEF Sync
<1> HIDE DEF e
<1>3. e \in J!Elements(Read(file))
  <2>1. Len(file) \in 0..Len(file)
    BY <1>1, LenProperties
  <2>2. \E i \in 1..Len(file) : file[i] = Closing(e)
    BY <1>1, <2>1 DEF WholeBy
  <2> QED
    BY <1>1, <2>1, <2>2, ReadByElements DEF Read
<1>4. J!Keep(e)
  BY <1>2, <1>3 DEF J!Keep
<1> QED
  BY <1>1, <1>4 DEF J!Next

LEMMA PowerLossLoses == ASSUME IInv, PowerLoss PROVE J!Next
<1>1. PICK n \in synced..Len(file) : file' = SubSeq(file, 1, n)
  BY DEF PowerLoss
<1>2. /\ file \in Seq(Token) /\ n \in 0..Len(file) /\ synced \in 0..n
      /\ acked \subseteq Entry /\ acked' = acked
  BY <1>1 DEF IInv, TypeOK, PowerLoss
<1> DEFINE old == Read(file)
           new == Read(file')
           m == Len(new)
<1>3. new = ReadBy(file)[n]
  BY <1>1, <1>2, ReadOfPrefix
<1>4. old \in Seq(Entry) /\ new \in Seq(Entry) /\ Begins(new, old)
  BY <1>2, <1>3, ReadTyped, ReadGrows
<1>5. \A e \in acked : e \in J!Elements(new)
  <2> SUFFICES ASSUME NEW e \in acked PROVE e \in J!Elements(new)
    OBVIOUS
  <2>1. WholeBy(file, e, n)
    BY <1>2, WholeLonger DEF IInv, AckedDurable
  <2>2. \E i \in 1..n : file[i] = Closing(e)
    BY <1>2, <2>1 DEF WholeBy
  <2> HIDE DEF new
  <2> QED
    BY <1>2, <1>3, <2>2, ReadByElements
<1> HIDE DEF old, new
<1>6. m \in 0..Len(old) /\ new = SubSeq(old, 1, m)
  BY <1>4, BeginsIsPrefix
<1>7. J!Lose
  <2>1. acked \subseteq J!Elements(SubSeq(old, 1, m))
    BY <1>5, <1>6
  <2>2. /\ m \in 0..Len(Read(file))
        /\ acked \subseteq J!Elements(SubSeq(Read(file), 1, m))
        /\ Read(file)' = SubSeq(Read(file), 1, m)
    BY <2>1, <1>6 DEF old, new
  <2> QED
    BY <2>2, <1>2 DEF J!Lose
<1> QED
  BY <1>7 DEF J!Next

LEMMA StepImplements == ASSUME IInv, EndsInTurn, [Next]_vars PROVE [J!Next]_(J!vars)
<1>1. ASSUME NEW p \in Proc, Begin(p) \/ Lock(p) \/ Frame(p) \/ Fail(p)
      PROVE  UNCHANGED J!vars
  <2>1. file' = file /\ acked' = acked
    BY <1>1 DEF Begin, Lock, Frame, Fail
  <2> QED
    BY <2>1 DEF J!vars
<1>2. ASSUME NEW p \in Proc, Write(p) PROVE [J!Next]_(J!vars)
  BY <1>2, WriteAdds
<1>3. ASSUME NEW p \in Proc, Sync(p) PROVE J!Next
  BY <1>3, SyncKeeps
<1>4. CASE PowerLoss
  BY <1>4, PowerLossLoses
<1>5. CASE UNCHANGED vars
  BY <1>5 DEF vars, J!vars
<1> QED
  BY <1>1, <1>2, <1>3, <1>4, <1>5 DEF Next

\* What any reader gets from the journal file is the abstract journal: an
\* entry is whole or absent, there once, in order, and after its Append
\* returned nil there for good, whatever is cut short, killed or lost.
THEOREM Refinement == Spec => ImplementsJournal
<1>1. Init => J!Init
  <2>1. <<>> \in Seq(Token) /\ Len(<<>>) = 0
    BY EmptySeq
  <2>2. Read(<<>>) = <<>>
    BY <2>1, ReadTyped DEF Read
  <2> QED
    BY <2>2 DEF Init, J!Init
<1>2. IInv /\ EndsInTurn /\ [Next]_vars => [J!Next]_(J!vars)
  BY StepImplements
<1> QED
  BY <1>1, <1>2, Invariance, EntriesEndInTurn, PTL DEF Spec, ImplementsJournal, J!Spec
============================================================================

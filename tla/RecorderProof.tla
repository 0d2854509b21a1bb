---------------------------- MODULE RecorderProof ---------------------------
(***************************************************************************)
(* Proofs about Recorder for any number of callers, any capacity and any   *)
(* bounds.  The inductive invariant has named parts; each is shown         *)
(* inductive relative to TypeOK and the parts before it.                   *)
(***************************************************************************)
EXTENDS Recorder, SequenceTheorems, TLAPS

(* Who holds the mutex is exactly who is between the check of `closed' and *)
(* the send.                                                               *)
LockInv ==
  /\ \A c \in Callers : c \in mu <=> pc[c] = "send"
  /\ \A c, d \in mu : c = d
  /\ mu # {} <=> pend # <<>>
  /\ mu # {} => ~closed

(* closeOnce lets one caller at a time through the closing sequence, and   *)
(* nobody loads the counters before the writer is gone.                    *)
OnceInv ==
  /\ \A c, d \in Callers : Closing(c) /\ Closing(d) => c = d
  /\ once # "running" => \A c \in Callers : ~Closing(c)
  /\ \A c \in Callers : pc[c] = "fin_mark" => ~closed
  /\ \A c \in Callers : pc[c] = "fin_close" => closed /\ ~chClosed
  /\ \A c \in Callers : pc[c] \in {"fin_load", "fin_update"} => once = "done"
  /\ once = "fresh" => ~closed
  /\ once = "done" => done
  /\ chClosed => closed
  /\ done => chClosed /\ ch = <<>> /\ hand = <<>>

(* The pipeline holds the steps in the order of their indices.             *)
OrderInv ==
  /\ Ascending(steps) /\ Ascending(ch)
  /\ Before(steps, hand) /\ Before(steps, ch) /\ Before(steps, pend)
  /\ Before(hand, ch) /\ Before(hand, pend) /\ Before(ch, pend)
  /\ Below(steps, stepIndex) /\ Below(hand, stepIndex)
  /\ Below(ch, stepIndex) /\ Below(pend, stepIndex)

(* What the counters count, and what a summary has loaded of them.         *)
CountInv ==
  /\ stepCount = Len(steps) + writeFailed
  /\ \A c \in Callers : pc[c] = "fin_update" =>
       fin[c].failed = writeFailed /\ fin[c].dropped <= dropped
  /\ row.outcome # "in_progress" =>
       done /\ row.steps = Len(steps) + row.failed /\ row.dropped <= dropped

(* A caller inside Finalize has given an outcome.                          *)
ArgInv == \A c \in Callers : pc[c] \in FinPcs => fin[c].outcome \in Outcomes

IInv == TypeOK /\ LockInv /\ OnceInv /\ OrderInv /\ NothingLost /\ CountInv /\ ArgInv

-----------------------------------------------------------------------------
(* What Append does to a sequence, in the form the provers can use.        *)
LEMMA AppendFacts ==
  ASSUME NEW S, NEW s \in Seq(S), NEW x \in S
  PROVE  /\ Append(s, x) \in Seq(S)
         /\ Len(Append(s, x)) = Len(s) + 1
         /\ \A i \in 1 .. Len(s) : Append(s, x)[i] = s[i]
         /\ Append(s, x)[Len(s) + 1] = x
OBVIOUS

(* Every payload counts a natural number of tokens.                        *)
LEMMA PayloadFacts ==
  ASSUME NEW p \in Payload
  PROVE  p.tok \in Nat
<1>1. p.tok \in Tokens \/ p.tok \in {0}
  BY DEF Payload
<1>2. CASE p.tok \in Tokens
  BY <1>2, TokensAssumption
<1>3. CASE p.tok \in {0}
  BY <1>3
<1>. QED BY <1>1, <1>2, <1>3

(* New leaves a well-typed recorder.                                       *)
LEMMA TypeInit == Init => TypeOK
<1> SUFFICES ASSUME Init PROVE TypeOK
  OBVIOUS
<1>1. row \in Row /\ \A c \in Callers : fin[c] \in FinRecord
  BY DEF Init, Row, FinRecord
<1>2. fin \in [Callers -> FinRecord]
  BY <1>1 DEF Init
<1>3. ch \in Seq(Step) /\ Len(ch) <= Capacity
  BY CapacityAssumption DEF Init
<1>4. steps \in Seq(Step) /\ hand \in Seq(Step) /\ pend \in Seq(Step)
      /\ Len(hand) <= 1 /\ Len(pend) <= 1 /\ mu \in SUBSET Callers
  BY DEF Init
<1>5. pc \in [Callers -> {"idle", "send"} \cup FinPcs]
  BY DEF Init
<1>6. /\ row \in Row /\ stepIndex \in Nat
      /\ closed \in BOOLEAN /\ chClosed \in BOOLEAN /\ done \in BOOLEAN
      /\ once \in {"fresh", "running", "done"}
      /\ dropped \in Nat /\ writeFailed \in Nat
      /\ totalTokens \in Nat /\ stepCount \in Nat
      /\ recorded \in Nat /\ finalized \in Nat /\ alive \in BOOLEAN
  BY <1>1 DEF Init
<1>. QED BY <1>2, <1>3, <1>4, <1>5, <1>6 DEF TypeOK

(* No step of a caller, the writer or a crash breaks the types.            *)
LEMMA TypeNext == TypeOK /\ LockInv /\ [Next]_vars => TypeOK'
<1> SUFFICES ASSUME TypeOK, LockInv, [Next]_vars PROVE TypeOK'
  OBVIOUS
<1> USE DEF TypeOK, FinPcs, database, shared, writer, locals, history, Running
<1>1. ASSUME NEW c \in Callers, EnqueueClosed(c) PROVE TypeOK'
  BY <1>1 DEF EnqueueClosed
<1>2. ASSUME NEW c \in Callers, NEW load \in Payload, EnqueueOpen(c, load) PROVE TypeOK'
  <2>1. [idx |-> stepIndex, load |-> load] \in Step
    BY DEF Step
  <2>2. pend' \in Seq(Step) /\ Len(pend') <= 1
    BY <1>2, <2>1 DEF EnqueueOpen
  <2>. QED BY <1>2, <2>2 DEF EnqueueOpen, IndexAfter
<1>3. ASSUME NEW c \in Callers, SendOrDrop(c) PROVE TypeOK'
  <2>1. pend # <<>>
    BY <1>3 DEF SendOrDrop, LockInv
  <2>2. Head(pend) \in Step
    BY <2>1
  <2>3. ch' \in Seq(Step) /\ Len(ch') <= Capacity
    <3>1. CASE UNCHANGED ch
      BY <3>1
    <3>2. CASE HasRoom /\ ch' = Append(ch, Head(pend))
      BY <3>2, <2>2, AppendFacts, CapacityAssumption DEF HasRoom
    <3>. QED BY <1>3, <3>1, <3>2 DEF SendOrDrop
  <2>. QED BY <1>3, <2>3 DEF SendOrDrop
<1>4. ASSUME Receive PROVE TypeOK'
  <2>1. Head(ch) \in Step /\ ch' \in Seq(Step) /\ Len(ch') <= Capacity
    BY <1>4, CapacityAssumption DEF Receive
  <2>. QED BY <1>4, <2>1 DEF Receive
<1>5. ASSUME Persist PROVE TypeOK'
  <2>1. Head(hand) \in Step
    BY <1>5 DEF Persist
  <2>2. Head(hand).load.tok \in Nat
    BY <2>1, PayloadFacts DEF Step
  <2>3. totalTokens' \in Nat
    BY <1>5, <2>2 DEF Persist
  <2>4. steps' \in Seq(Step) /\ writeFailed' \in Nat
    <3>1. CASE steps' = Append(steps, Head(hand)) /\ UNCHANGED writeFailed
      BY <3>1, <2>1, AppendFacts
    <3>2. CASE writeFailed' = writeFailed + 1 /\ UNCHANGED steps
      BY <3>2
    <3>. QED BY <1>5, <3>1, <3>2 DEF Persist
  <2>. QED BY <1>5, <2>3, <2>4 DEF Persist
<1>6. ASSUME WriterReturn PROVE TypeOK'
  BY <1>6 DEF WriterReturn
<1>7. ASSUME NEW c \in Callers, NEW o \in Outcomes, FinCall(c, o) PROVE TypeOK'
  BY <1>7 DEF FinCall, FinRecord
<1>8. ASSUME NEW c \in Callers, FinOnce(c) PROVE TypeOK'
  BY <1>8 DEF FinOnce
<1>9. ASSUME NEW c \in Callers, FinMark(c) PROVE TypeOK'
  BY <1>9 DEF FinMark
<1>10. ASSUME NEW c \in Callers, FinClose(c) PROVE TypeOK'
  BY <1>10 DEF FinClose
<1>11. ASSUME NEW c \in Callers, FinWait(c) PROVE TypeOK'
  BY <1>11 DEF FinWait
<1>12. ASSUME NEW c \in Callers, FinLoad(c) PROVE TypeOK'
  BY <1>12 DEF FinLoad, FinRecord
<1>13. ASSUME NEW c \in Callers, FinUpdate(c) PROVE TypeOK'
  BY <1>13 DEF FinUpdate, Summary, Row, FinRecord
<1>14. ASSUME Crash PROVE TypeOK'
  BY <1>14 DEF Crash
<1>15. CASE UNCHANGED vars
  BY <1>15 DEF vars
<1>. QED BY <1>1, <1>2, <1>3, <1>4, <1>5, <1>6, <1>7, <1>8, <1>9, <1>10, <1>11, <1>12,
            <1>13, <1>14, <1>15 DEF Next, Quiescent

-----------------------------------------------------------------------------
(* At the start nobody is in enqueue.                                      *)
LEMMA LockInit == Init => LockInv
BY DEF Init, LockInv

(* The mutex of enqueue admits one caller, and only while the channel is open. *)
LEMMA LockNext == TypeOK /\ LockInv /\ [Next]_vars => LockInv'
<1> SUFFICES ASSUME TypeOK, LockInv, [Next]_vars PROVE LockInv'
  OBVIOUS
<1> USE DEF LockInv, Running, database, shared, writer, locals, history
<1>1. ASSUME NEW c \in Callers, EnqueueClosed(c) PROVE LockInv'
  BY <1>1 DEF TypeOK, EnqueueClosed
<1>2. ASSUME NEW c \in Callers, NEW load \in Payload, EnqueueOpen(c, load) PROVE LockInv'
  BY <1>2 DEF TypeOK, EnqueueOpen, MuFree
<1>3. ASSUME NEW c \in Callers, SendOrDrop(c) PROVE LockInv'
  BY <1>3 DEF TypeOK, SendOrDrop
<1>4. ASSUME Receive PROVE LockInv'
  BY <1>4 DEF TypeOK, Receive
<1>5. ASSUME Persist PROVE LockInv'
  BY <1>5 DEF TypeOK, Persist
<1>6. ASSUME WriterReturn PROVE LockInv'
  BY <1>6 DEF TypeOK, WriterReturn
<1>7. ASSUME NEW c \in Callers, NEW o \in Outcomes, FinCall(c, o) PROVE LockInv'
  BY <1>7 DEF TypeOK, FinCall
<1>8. ASSUME NEW c \in Callers, FinOnce(c) PROVE LockInv'
  BY <1>8 DEF TypeOK, FinOnce
<1>9. ASSUME NEW c \in Callers, FinMark(c) PROVE LockInv'
  BY <1>9 DEF TypeOK, FinMark, MayMark, MuFree
<1>10. ASSUME NEW c \in Callers, FinClose(c) PROVE LockInv'
  BY <1>10 DEF TypeOK, FinClose
<1>11. ASSUME NEW c \in Callers, FinWait(c) PROVE LockInv'
  BY <1>11 DEF TypeOK, FinWait
<1>12. ASSUME NEW c \in Callers, FinLoad(c) PROVE LockInv'
  BY <1>12 DEF TypeOK, FinLoad
<1>13. ASSUME NEW c \in Callers, FinUpdate(c) PROVE LockInv'
  BY <1>13 DEF TypeOK, FinUpdate
<1>14. ASSUME Crash PROVE LockInv'
  BY <1>14 DEF TypeOK, Crash
<1>15. CASE UNCHANGED vars
  BY <1>15 DEF vars
<1>. QED BY <1>1, <1>2, <1>3, <1>4, <1>5, <1>6, <1>7, <1>8, <1>9, <1>10, <1>11, <1>12,
            <1>13, <1>14, <1>15 DEF Next, Quiescent


-----------------------------------------------------------------------------
(* At the start nobody has called Finalize.                                *)
LEMMA OnceInit == Init => OnceInv
BY DEF Init, OnceInv, Closing

(* closeOnce: marking, closing and waiting happen once, in that order.     *)
LEMMA OnceNext == TypeOK /\ LockInv /\ OnceInv /\ [Next]_vars => OnceInv'
<1> SUFFICES ASSUME TypeOK, LockInv, OnceInv, [Next]_vars PROVE OnceInv'
  OBVIOUS
<1> USE DEF OnceInv, Running, database, shared, writer, locals, history, Closing
<1>1. ASSUME NEW c \in Callers, EnqueueClosed(c) PROVE OnceInv'
  BY <1>1 DEF TypeOK, EnqueueClosed
<1>2. ASSUME NEW c \in Callers, NEW load \in Payload, EnqueueOpen(c, load) PROVE OnceInv'
  BY <1>2 DEF TypeOK, EnqueueOpen
<1>3. ASSUME NEW c \in Callers, SendOrDrop(c) PROVE OnceInv'
  BY <1>3 DEF TypeOK, SendOrDrop, LockInv
<1>4. ASSUME Receive PROVE OnceInv'
  BY <1>4 DEF TypeOK, Receive
<1>5. ASSUME Persist PROVE OnceInv'
  BY <1>5 DEF TypeOK, Persist
<1>6. ASSUME WriterReturn PROVE OnceInv'
  BY <1>6 DEF TypeOK, WriterReturn, Drained
<1>7. ASSUME NEW c \in Callers, NEW o \in Outcomes, FinCall(c, o) PROVE OnceInv'
  BY <1>7 DEF TypeOK, FinCall
<1>8. ASSUME NEW c \in Callers, FinOnce(c) PROVE OnceInv'
  BY <1>8 DEF TypeOK, FinOnce
<1>9. ASSUME NEW c \in Callers, FinMark(c) PROVE OnceInv'
  BY <1>9 DEF TypeOK, FinMark
<1>10. ASSUME NEW c \in Callers, FinClose(c) PROVE OnceInv'
  BY <1>10 DEF TypeOK, FinClose
<1>11. ASSUME NEW c \in Callers, FinWait(c) PROVE OnceInv'
  BY <1>11 DEF TypeOK, FinWait, MayPassWait
<1>12. ASSUME NEW c \in Callers, FinLoad(c) PROVE OnceInv'
  BY <1>12 DEF TypeOK, FinLoad
<1>13. ASSUME NEW c \in Callers, FinUpdate(c) PROVE OnceInv'
  BY <1>13 DEF TypeOK, FinUpdate
<1>14. ASSUME Crash PROVE OnceInv'
  BY <1>14 DEF TypeOK, Crash
<1>15. CASE UNCHANGED vars
  BY <1>15 DEF vars
<1>. QED BY <1>1, <1>2, <1>3, <1>4, <1>5, <1>6, <1>7, <1>8, <1>9, <1>10, <1>11, <1>12,
            <1>13, <1>14, <1>15 DEF Next, Quiescent

-----------------------------------------------------------------------------
(* The elements of a typed sequence are typed.                             *)
LEMMA ElementFacts ==
  ASSUME NEW s \in Seq(Step)
  PROVE  /\ DOMAIN s = 1 .. Len(s) /\ Len(s) \in Nat
         /\ \A i \in DOMAIN s : s[i] \in Step /\ s[i].idx \in Nat
<1>1. DOMAIN s = 1 .. Len(s) /\ Len(s) \in Nat
  OBVIOUS
<1>2. ASSUME NEW i \in DOMAIN s PROVE s[i] \in Step
  BY <1>1, <1>2
<1>3. ASSUME NEW x \in Step PROVE x.idx \in Nat
  BY DEF Step
<1>. QED BY <1>1, <1>2, <1>3

(* A sequence of one element is a sequence.                                *)
LEMMA SingletonSeq ==
  ASSUME NEW S, NEW s \in Seq(S), s # <<>>, Len(s) <= 1
  PROVE  Head(s) \in S /\ s = <<Head(s)>> /\ Len(s) = 1
<1>1. Len(s) = 1 /\ Head(s) = s[1] /\ Head(s) \in S
  OBVIOUS
<1>2. <<Head(s)>> \in Seq(S) /\ Len(<<Head(s)>>) = 1 /\ <<Head(s)>>[1] = Head(s)
  BY <1>1
<1>. QED BY <1>1, <1>2, SeqEqual

(* What is below the next index stays below it when the index grows.       *)
LEMMA BelowNext ==
  ASSUME NEW s \in Seq(Step), NEW n \in Nat, Below(s, n)
  PROVE  Below(s, n + 1)
BY ElementFacts DEF Below

(* A sequence of one step is in order.                                     *)
LEMMA SingleFacts ==
  ASSUME NEW s \in Seq(Step), NEW x \in Step
  PROVE  /\ Before(s, <<x>>) <=> Below(s, x.idx)
         /\ Before(<<x>>, s) <=> \A i \in DOMAIN s : x.idx < s[i].idx
         /\ \A n \in Nat : x.idx < n => Below(<<x>>, n)
         /\ \A n \in Nat : Below(<<x>>, n) => x.idx < n
         /\ Before(s, <<>>) /\ Before(<<>>, s)
BY ElementFacts DEF Before, Below

(* Appending a step above all others keeps a sequence in order.            *)
LEMMA AppendOrder ==
  ASSUME NEW s \in Seq(Step), NEW t \in Seq(Step), NEW x \in Step,
         Ascending(s), Below(s, x.idx)
  PROVE  /\ Ascending(Append(s, x))
         /\ \A n \in Nat : Below(s, n) /\ x.idx < n => Below(Append(s, x), n)
         /\ Before(t, s) /\ Below(t, x.idx) => Before(t, Append(s, x))
         /\ Before(s, t) /\ Before(<<x>>, t) => Before(Append(s, x), t)
<1> DEFINE r == Append(s, x)
<1>1. /\ r \in Seq(Step) /\ Len(r) = Len(s) + 1 /\ DOMAIN r = 1 .. Len(s) + 1
      /\ \A i \in 1 .. Len(s) : r[i] = s[i]
      /\ r[Len(s) + 1] = x
  BY AppendFacts, ElementFacts
<1> HIDE DEF r
<1>2. Ascending(r)
  <2> SUFFICES ASSUME NEW i \in DOMAIN r, NEW j \in DOMAIN r, i < j PROVE r[i].idx < r[j].idx
    BY DEF Ascending
  <2>1. i \in DOMAIN s /\ r[i] = s[i]
    BY <1>1, ElementFacts
  <2>2. CASE j \in DOMAIN s
    BY <1>1, <2>1, <2>2, ElementFacts DEF Ascending
  <2>3. CASE j = Len(s) + 1
    BY <1>1, <2>1, <2>3 DEF Below
  <2>. QED BY <1>1, <2>2, <2>3, ElementFacts
<1>3. ASSUME NEW n \in Nat, Below(s, n), x.idx < n PROVE Below(r, n)
  BY <1>1, <1>3, ElementFacts DEF Below
<1>4. ASSUME Before(t, s), Below(t, x.idx) PROVE Before(t, r)
  <2> SUFFICES ASSUME NEW i \in DOMAIN t, NEW j \in DOMAIN r PROVE t[i].idx < r[j].idx
    BY DEF Before
  <2>1. CASE j \in DOMAIN s
    BY <1>1, <1>4, <2>1, ElementFacts DEF Before
  <2>2. CASE j = Len(s) + 1
    BY <1>1, <1>4, <2>2 DEF Below
  <2>. QED BY <1>1, <2>1, <2>2, ElementFacts
<1>5. ASSUME Before(s, t), Before(<<x>>, t) PROVE Before(r, t)
  <2>1. \A j \in DOMAIN t : x.idx < t[j].idx
    BY <1>5, SingleFacts
  <2> SUFFICES ASSUME NEW i \in DOMAIN r, NEW j \in DOMAIN t PROVE r[i].idx < t[j].idx
    BY DEF Before
  <2>2. CASE i \in DOMAIN s
    BY <1>1, <1>5, <2>2, ElementFacts DEF Before
  <2>3. CASE i = Len(s) + 1
    BY <1>1, <2>1, <2>3
  <2>. QED BY <1>1, <2>2, <2>3, ElementFacts
<1>. QED BY <1>2, <1>3, <1>4, <1>5 DEF r

(* Taking the first step keeps a sequence in order, and below the rest.    *)
LEMMA TailOrder ==
  ASSUME NEW s \in Seq(Step), NEW t \in Seq(Step), s # <<>>, Ascending(s)
  PROVE  /\ Ascending(Tail(s)) /\ Before(<<Head(s)>>, Tail(s))
         /\ \A n \in Nat : Below(s, n) => Below(Tail(s), n) /\ Below(<<Head(s)>>, n)
         /\ Before(t, s) => Before(t, Tail(s)) /\ Before(t, <<Head(s)>>)
         /\ Before(s, t) => Before(Tail(s), t) /\ Before(<<Head(s)>>, t)
<1> DEFINE r == Tail(s)
<1>1. /\ r \in Seq(Step) /\ Len(r) = Len(s) - 1 /\ DOMAIN r = 1 .. Len(s) - 1
      /\ \A i \in 1 .. Len(s) - 1 : r[i] = s[i + 1]
      /\ Head(s) = s[1] /\ s[1] \in Step /\ Len(s) >= 1 /\ 1 \in DOMAIN s
      /\ \A i \in DOMAIN r : i + 1 \in DOMAIN s
  BY ElementFacts
<1> HIDE DEF r
<1>2. Ascending(r)
  <2> SUFFICES ASSUME NEW i \in DOMAIN r, NEW j \in DOMAIN r, i < j PROVE r[i].idx < r[j].idx
    BY DEF Ascending
  <2>1. r[i] = s[i + 1] /\ r[j] = s[j + 1] /\ i + 1 < j + 1
    BY <1>1
  <2>. QED BY <1>1, <2>1 DEF Ascending
<1>3. Before(<<s[1]>>, r)
  <2>1. ASSUME NEW i \in DOMAIN r PROVE s[1].idx < r[i].idx
    <3>1. r[i] = s[i + 1] /\ 1 < i + 1
      BY <1>1
    <3>. QED BY <1>1, <3>1 DEF Ascending
  <2>. QED BY <1>1, <2>1, SingleFacts
<1>4. ASSUME NEW n \in Nat, Below(s, n) PROVE Below(r, n) /\ Below(<<s[1]>>, n)
  <2>1. s[1].idx < n
    BY <1>1, <1>4, ElementFacts DEF Below
  <2>. QED BY <1>1, <1>4, <2>1, ElementFacts, SingleFacts DEF Below
<1>5. ASSUME Before(t, s) PROVE Before(t, r) /\ Before(t, <<s[1]>>)
  <2>1. Below(t, s[1].idx)
    BY <1>1, <1>5, ElementFacts DEF Before, Below
  <2>2. Before(t, r)
    BY <1>1, <1>5 DEF Before
  <2>. QED BY <1>1, <2>1, <2>2, SingleFacts
<1>6. ASSUME Before(s, t) PROVE Before(r, t) /\ Before(<<s[1]>>, t)
  <2>1. \A j \in DOMAIN t : s[1].idx < t[j].idx
    BY <1>1, <1>6, ElementFacts DEF Before
  <2>2. Before(r, t)
    BY <1>1, <1>6, ElementFacts DEF Before
  <2>. QED BY <1>1, <2>1, <2>2, SingleFacts
<1>. QED BY <1>1, <1>2, <1>3, <1>4, <1>5, <1>6 DEF r

(* The empty pipeline is in order.                                         *)
LEMMA OrderInit == Init => OrderInv
BY DEF Init, OrderInv, Ascending, Before, Below

(* Every step of the pipeline keeps the order of the indices.              *)
LEMMA OrderNext == TypeOK /\ LockInv /\ OrderInv /\ [Next]_vars => OrderInv'
<1> SUFFICES ASSUME TypeOK, LockInv, OrderInv, [Next]_vars PROVE OrderInv'
  OBVIOUS
<1> USE DEF OrderInv, Running, database, shared, writer, locals, history
<1>1. ASSUME NEW c \in Callers, EnqueueClosed(c) PROVE OrderInv'
  BY <1>1 DEF EnqueueClosed
<1>2. ASSUME NEW c \in Callers, NEW load \in Payload, EnqueueOpen(c, load) PROVE OrderInv'
  <2> DEFINE s == [idx |-> stepIndex, load |-> load]
  <2>1. s \in Step /\ s.idx = stepIndex /\ stepIndex + 1 \in Nat
    BY DEF TypeOK, Step
  <2>2. pend' = <<s>> /\ stepIndex' = stepIndex + 1 /\ UNCHANGED <<steps, hand, ch>>
    BY <1>2 DEF EnqueueOpen, IndexAfter
  <2>3. Below(steps, stepIndex + 1) /\ Below(hand, stepIndex + 1) /\ Below(ch, stepIndex + 1)
    BY BelowNext DEF TypeOK
  <2>4. Before(steps, <<s>>) /\ Before(hand, <<s>>) /\ Before(ch, <<s>>)
    BY <2>1, SingleFacts DEF TypeOK
  <2>5. Below(<<s>>, stepIndex + 1)
    BY <2>1, SingleFacts DEF TypeOK
  <2> HIDE DEF s
  <2>. QED BY <2>2, <2>3, <2>4, <2>5
<1>3. ASSUME NEW c \in Callers, SendOrDrop(c) PROVE OrderInv'
  <2>1. pend # <<>>
    BY <1>3 DEF SendOrDrop, LockInv
  <2>2. PICK s \in Step : s = Head(pend) /\ pend = <<s>>
    BY <2>1, SingletonSeq DEF TypeOK
  <2>3. pend' = <<>> /\ UNCHANGED <<steps, hand, stepIndex>>
    BY <1>3 DEF SendOrDrop
  <2>4. s.idx \in Nat /\ s.idx < stepIndex
    BY <2>2, ElementFacts, SingleFacts DEF TypeOK, Step
  <2>5. Below(steps, s.idx) /\ Below(hand, s.idx) /\ Below(ch, s.idx)
    BY <2>2, SingleFacts DEF TypeOK
  <2>6. CASE ch' = ch
    BY <2>3, <2>6 DEF Before, Below
  <2>7. CASE ch' = Append(ch, s)
    <3>1. Ascending(ch') /\ Below(ch', stepIndex) /\ Before(steps, ch') /\ Before(hand, ch')
      BY <2>4, <2>5, <2>7, AppendOrder DEF TypeOK
    <3>. QED BY <2>3, <3>1 DEF Before, Below
  <2>. QED BY <1>3, <2>2, <2>6, <2>7 DEF SendOrDrop
<1>4. ASSUME Receive PROVE OrderInv'
  <2>1. hand' = <<Head(ch)>> /\ ch' = Tail(ch) /\ ch # <<>> /\ UNCHANGED <<steps, pend, stepIndex>>
    BY <1>4 DEF Receive
  <2>2. Ascending(ch') /\ Below(ch', stepIndex) /\ Before(steps, ch') /\ Before(ch', pend)
    BY <2>1, TailOrder DEF TypeOK
  <2>3. /\ Before(steps, hand') /\ Before(hand', ch') /\ Before(hand', pend)
        /\ Below(hand', stepIndex)
    BY <2>1, TailOrder DEF TypeOK
  <2>. QED BY <2>1, <2>2, <2>3
<1>5. ASSUME Persist PROVE OrderInv'
  <2>1. PICK s \in Step : s = Head(hand) /\ hand = <<s>>
    BY <1>5, SingletonSeq DEF TypeOK, Persist
  <2>2. hand' = <<>> /\ UNCHANGED <<ch, pend, stepIndex>>
    BY <1>5 DEF Persist
  <2>3. s.idx \in Nat /\ s.idx < stepIndex /\ Below(steps, s.idx)
    BY <2>1, ElementFacts, SingleFacts DEF TypeOK, Step
  <2>4. CASE steps' = steps
    BY <2>2, <2>4 DEF Before, Below
  <2>5. CASE steps' = Append(steps, s)
    <3>1. /\ Ascending(steps') /\ Below(steps', stepIndex)
          /\ Before(steps', ch) /\ Before(steps', pend)
      BY <2>1, <2>3, <2>5, AppendOrder DEF TypeOK
    <3>. QED BY <2>2, <3>1 DEF Before, Below
  <2>. QED BY <1>5, <2>1, <2>4, <2>5 DEF Persist
<1>6. ASSUME WriterReturn PROVE OrderInv'
  BY <1>6 DEF WriterReturn
<1>7. ASSUME NEW c \in Callers, NEW o \in Outcomes, FinCall(c, o) PROVE OrderInv'
  BY <1>7 DEF FinCall
<1>8. ASSUME NEW c \in Callers, FinOnce(c) PROVE OrderInv'
  BY <1>8 DEF FinOnce
<1>9. ASSUME NEW c \in Callers, FinMark(c) PROVE OrderInv'
  BY <1>9 DEF FinMark
<1>10. ASSUME NEW c \in Callers, FinClose(c) PROVE OrderInv'
  BY <1>10 DEF FinClose
<1>11. ASSUME NEW c \in Callers, FinWait(c) PROVE OrderInv'
  BY <1>11 DEF FinWait
<1>12. ASSUME NEW c \in Callers, FinLoad(c) PROVE OrderInv'
  BY <1>12 DEF FinLoad
<1>13. ASSUME NEW c \in Callers, FinUpdate(c) PROVE OrderInv'
  BY <1>13 DEF FinUpdate
<1>14. ASSUME Crash PROVE OrderInv'
  BY <1>14 DEF Crash
<1>15. CASE UNCHANGED vars
  BY <1>15 DEF vars
<1>. QED BY <1>1, <1>2, <1>3, <1>4, <1>5, <1>6, <1>7, <1>8, <1>9, <1>10, <1>11, <1>12,
            <1>13, <1>14, <1>15 DEF Next, Quiescent


-----------------------------------------------------------------------------
(* The type facts the counters need. *)
CountTyped ==
  /\ Len(steps) \in Nat /\ Len(ch) \in Nat /\ Len(hand) \in Nat /\ Len(pend) \in Nat
  /\ writeFailed \in Nat /\ dropped \in Nat /\ stepCount \in Nat /\ recorded \in Nat
  /\ row.steps \in Nat /\ row.failed \in Nat /\ row.dropped \in Nat
  /\ pc \in [Callers -> {"idle", "send"} \cup FinPcs]
  /\ fin \in [Callers -> FinRecord]
  /\ \A c \in Callers : fin[c].dropped \in Nat /\ fin[c].failed \in Nat

(* The types of the counters alone.                                        *)
LEMMA CountTypes == TypeOK => CountTyped
<1> SUFFICES ASSUME TypeOK PROVE CountTyped
  OBVIOUS
<1>1. row.steps \in Nat /\ row.failed \in Nat /\ row.dropped \in Nat
  BY DEF TypeOK, Row
<1>2. ASSUME NEW c \in Callers PROVE fin[c].dropped \in Nat /\ fin[c].failed \in Nat
  BY DEF TypeOK, FinRecord
<1>. QED BY <1>1, <1>2 DEF TypeOK, CountTyped

(* At the start nothing has been recorded and nothing lost.                *)
LEMMA LostInit == Init => NothingLost
BY DEF Init, NothingLost

(* Every step keeps the balance of recorded, stored, failed and dropped.   *)
LEMMA LostNext == TypeOK /\ LockInv /\ NothingLost /\ [Next]_vars => NothingLost'
<1> SUFFICES ASSUME TypeOK, LockInv, NothingLost, [Next]_vars PROVE NothingLost'
  OBVIOUS
<1>a. TypeOK'
  BY TypeNext
<1> SUFFICES ASSUME Len(steps) \in Nat, Len(ch) \in Nat, Len(hand) \in Nat, Len(pend) \in Nat,
                    writeFailed \in Nat, dropped \in Nat, recorded \in Nat,
                    Len(steps') \in Nat, Len(ch') \in Nat, Len(hand') \in Nat,
                    Len(pend') \in Nat, writeFailed' \in Nat, dropped' \in Nat,
                    recorded' \in Nat
             PROVE  NothingLost'
  <2>1. /\ steps \in Seq(Step) /\ ch \in Seq(Step) /\ hand \in Seq(Step) /\ pend \in Seq(Step)
        /\ writeFailed \in Nat /\ dropped \in Nat /\ recorded \in Nat
    BY DEF TypeOK
  <2>2. /\ steps' \in Seq(Step) /\ ch' \in Seq(Step) /\ hand' \in Seq(Step) /\ pend' \in Seq(Step)
        /\ writeFailed' \in Nat /\ dropped' \in Nat /\ recorded' \in Nat
    BY <1>a DEF TypeOK
  <2>3. \A s \in Seq(Step) : Len(s) \in Nat
    OBVIOUS
  <2>. QED BY <2>1, <2>2, <2>3
<1> USE DEF NothingLost, Running, database, shared, writer, locals, history
<1>1. ASSUME NEW c \in Callers, EnqueueClosed(c) PROVE NothingLost'
  BY <1>1 DEF EnqueueClosed
<1>2. ASSUME NEW c \in Callers, NEW load \in Payload, EnqueueOpen(c, load) PROVE NothingLost'
  <2>1. Len(pend) = 0 /\ Len(pend') = 1
    BY <1>2 DEF EnqueueOpen, LockInv, MuFree
  <2>. QED BY <1>2, <2>1 DEF EnqueueOpen
<1>3. ASSUME NEW c \in Callers, SendOrDrop(c) PROVE NothingLost'
  <2>1. pend # <<>> /\ pend' = <<>>
    BY <1>3 DEF SendOrDrop, LockInv
  <2>2. Head(pend) \in Step
    BY <2>1, SingletonSeq DEF TypeOK
  <2>3. Len(pend') = Len(pend) - 1
    <3>1. Len(pend) = 1
      BY <2>1, SingletonSeq DEF TypeOK
    <3>. QED BY <2>1, <3>1
  <2>4. Len(steps') = Len(steps)
    BY <1>3 DEF SendOrDrop
  <2>7. Len(hand') = Len(hand)
    BY <1>3 DEF SendOrDrop
  <2>8. writeFailed' = writeFailed
    BY <1>3 DEF SendOrDrop
  <2>9. recorded' = recorded
    BY <1>3 DEF SendOrDrop
  <2>5. ASSUME ch' = Append(ch, Head(pend)), UNCHANGED dropped PROVE NothingLost'
    <3>1. Len(ch') = Len(ch) + 1
      BY <2>2, <2>5, AppendFacts DEF TypeOK
    <3>2. dropped' = dropped
      BY <2>5
    <3>. QED BY <2>3, <2>4, <2>7, <2>8, <2>9, <3>1, <3>2
  <2>6. ASSUME dropped' = dropped + 1, UNCHANGED ch PROVE NothingLost'
    <3>1. dropped' = dropped + 1
      BY <2>6
    <3>2. Len(ch') = Len(ch)
      BY <2>6
    <3>. QED BY <2>3, <2>4, <2>7, <2>8, <2>9, <3>1, <3>2
  <2>. QED BY <1>3, <2>5, <2>6 DEF SendOrDrop
<1>4. ASSUME Receive PROVE NothingLost'
  <2>1. Len(hand) = 0 /\ Len(hand') = 1 /\ Len(ch') = Len(ch) - 1
    BY <1>4 DEF Receive, TypeOK
  <2>. QED BY <1>4, <2>1 DEF Receive
<1>5. ASSUME Persist PROVE NothingLost'
  <2>1. hand # <<>> /\ hand' = <<>>
    BY <1>5 DEF Persist
  <2>2. Head(hand) \in Step
    BY <2>1, SingletonSeq DEF TypeOK
  <2>3. Len(hand') = Len(hand) - 1
    <3>1. Len(hand) = 1
      BY <2>1, SingletonSeq DEF TypeOK
    <3>. QED BY <2>1, <3>1
  <2>4. Len(ch') = Len(ch)
    BY <1>5 DEF Persist
  <2>7. Len(pend') = Len(pend)
    BY <1>5 DEF Persist
  <2>8. dropped' = dropped
    BY <1>5 DEF Persist
  <2>9. recorded' = recorded
    BY <1>5 DEF Persist
  <2>5. ASSUME steps' = Append(steps, Head(hand)), UNCHANGED writeFailed PROVE NothingLost'
    <3>1. Len(steps') = Len(steps) + 1
      BY <2>2, <2>5, AppendFacts DEF TypeOK
    <3>2. writeFailed' = writeFailed
      BY <2>5
    <3>. QED BY <2>3, <2>4, <2>7, <2>8, <2>9, <3>1, <3>2
  <2>6. ASSUME writeFailed' = writeFailed + 1, UNCHANGED steps PROVE NothingLost'
    <3>1. writeFailed' = writeFailed + 1
      BY <2>6
    <3>2. Len(steps') = Len(steps)
      BY <2>6
    <3>. QED BY <2>3, <2>4, <2>7, <2>8, <2>9, <3>1, <3>2
  <2>. QED BY <1>5, <2>5, <2>6 DEF Persist
<1>6. ASSUME WriterReturn PROVE NothingLost'
  BY <1>6 DEF WriterReturn
<1>7. ASSUME NEW c \in Callers, NEW o \in Outcomes, FinCall(c, o) PROVE NothingLost'
  BY <1>7 DEF FinCall
<1>8. ASSUME NEW c \in Callers, FinOnce(c) PROVE NothingLost'
  BY <1>8 DEF FinOnce
<1>9. ASSUME NEW c \in Callers, FinMark(c) PROVE NothingLost'
  BY <1>9 DEF FinMark
<1>10. ASSUME NEW c \in Callers, FinClose(c) PROVE NothingLost'
  BY <1>10 DEF FinClose
<1>11. ASSUME NEW c \in Callers, FinWait(c) PROVE NothingLost'
  BY <1>11 DEF FinWait
<1>12. ASSUME NEW c \in Callers, FinLoad(c) PROVE NothingLost'
  BY <1>12 DEF FinLoad
<1>13. ASSUME NEW c \in Callers, FinUpdate(c) PROVE NothingLost'
  BY <1>13 DEF FinUpdate
<1>14. ASSUME Crash PROVE NothingLost'
  BY <1>14 DEF Crash
<1>15. CASE UNCHANGED vars
  BY <1>15 DEF vars
<1>. QED BY <1>1, <1>2, <1>3, <1>4, <1>5, <1>6, <1>7, <1>8, <1>9, <1>10, <1>11, <1>12,
            <1>13, <1>14, <1>15 DEF Next, Quiescent

(* At the start the counters count nothing.                                *)
LEMMA CountInit == Init => CountInv
BY DEF Init, CountInv

(* Every step keeps the counters equal to what they count.                 *)
LEMMA CountNext == TypeOK /\ LockInv /\ OnceInv /\ CountInv /\ [Next]_vars => CountInv'
<1> SUFFICES ASSUME TypeOK, LockInv, OnceInv, CountInv, [Next]_vars PROVE CountInv'
  OBVIOUS
<1>0. CountTyped
  BY CountTypes
<1> USE <1>0 DEF CountTyped, CountInv, Running, database, shared, writer, locals, history
<1>1. ASSUME NEW c \in Callers, EnqueueClosed(c) PROVE CountInv'
  BY <1>1 DEF EnqueueClosed
<1>2. ASSUME NEW c \in Callers, NEW load \in Payload, EnqueueOpen(c, load) PROVE CountInv'
  <2>1. Len(pend) = 0 /\ Len(pend') = 1
    BY <1>2 DEF EnqueueOpen, LockInv, MuFree
  <2>. QED BY <1>2, <2>1 DEF EnqueueOpen
<1>3. ASSUME NEW c \in Callers, SendOrDrop(c) PROVE CountInv'
  <2>0. pend # <<>> /\ pend' = <<>>
    BY <1>3 DEF SendOrDrop, LockInv
  <2>1. Len(pend) = 1 /\ Head(pend) \in Step /\ Len(pend') = 0
    BY <2>0, SingletonSeq DEF TypeOK
  <2>2. Len(ch') \in Nat /\ dropped' \in Nat
        /\ Len(ch') + dropped' = Len(ch) + dropped + 1 /\ dropped' >= dropped
    <3>1. CASE ch' = Append(ch, Head(pend)) /\ UNCHANGED dropped
      BY <2>1, <3>1, AppendFacts DEF TypeOK
    <3>2. CASE dropped' = dropped + 1 /\ UNCHANGED ch
      BY <3>2
    <3>. QED BY <1>3, <3>1, <3>2 DEF SendOrDrop
  <2>3. pc' = [pc EXCEPT ![c] = "idle"]
        /\ UNCHANGED <<row, steps, writeFailed, stepCount, hand, fin, recorded, done>>
    BY <1>3 DEF SendOrDrop
  <2>5. (stepCount = Len(steps) + writeFailed)'
    BY <2>3
  <2>6. \A d \in Callers : pc'[d] = "fin_update" =>
          fin'[d].failed = writeFailed' /\ fin'[d].dropped <= dropped'
    BY <2>2, <2>3
  <2>7. row'.outcome # "in_progress" =>
          done' /\ row'.steps = Len(steps') + row'.failed /\ row'.dropped <= dropped'
    BY <2>2, <2>3
  <2>. QED BY <2>5, <2>6, <2>7
<1>4. ASSUME Receive PROVE CountInv'
  <2>1. Len(hand) = 0 /\ Len(hand') = 1 /\ Len(ch') = Len(ch) - 1
    BY <1>4 DEF Receive, TypeOK
  <2>. QED BY <1>4, <2>1 DEF Receive
<1>5. ASSUME Persist PROVE CountInv'
  <2>0. hand # <<>> /\ hand' = <<>>
    BY <1>5 DEF Persist
  <2>1. Len(hand) = 1 /\ Head(hand) \in Step /\ Len(hand') = 0
    BY <2>0, SingletonSeq DEF TypeOK
  <2>2. Len(steps') \in Nat /\ writeFailed' \in Nat
        /\ Len(steps') + writeFailed' = Len(steps) + writeFailed + 1
    <3>1. CASE steps' = Append(steps, Head(hand)) /\ UNCHANGED writeFailed
      BY <2>1, <3>1, AppendFacts DEF TypeOK
    <3>2. CASE writeFailed' = writeFailed + 1 /\ UNCHANGED steps
      BY <3>2
    <3>. QED BY <1>5, <3>1, <3>2 DEF Persist
  <2>3. ~done /\ \A c \in Callers : pc[c] # "fin_update"
    BY <1>5 DEF Persist, OnceInv
  <2>4. stepCount' = stepCount + 1 /\ UNCHANGED <<row, done, dropped, pc, fin, ch, pend, recorded>>
    BY <1>5 DEF Persist
  <2>6. (stepCount = Len(steps) + writeFailed)'
    BY <2>2, <2>4
  <2>. QED BY <2>3, <2>4, <2>6
<1>6. ASSUME WriterReturn PROVE CountInv'
  BY <1>6 DEF WriterReturn
<1>7. ASSUME NEW c \in Callers, NEW o \in Outcomes, FinCall(c, o) PROVE CountInv'
  BY <1>7 DEF FinCall
<1>8. ASSUME NEW c \in Callers, FinOnce(c) PROVE CountInv'
  BY <1>8 DEF FinOnce
<1>9. ASSUME NEW c \in Callers, FinMark(c) PROVE CountInv'
  BY <1>9 DEF FinMark
<1>10. ASSUME NEW c \in Callers, FinClose(c) PROVE CountInv'
  BY <1>10 DEF FinClose
<1>11. ASSUME NEW c \in Callers, FinWait(c) PROVE CountInv'
  BY <1>11 DEF FinWait
<1>12. ASSUME NEW c \in Callers, FinLoad(c) PROVE CountInv'
  BY <1>12 DEF FinLoad
<1>13. ASSUME NEW c \in Callers, FinUpdate(c) PROVE CountInv'
  BY <1>13 DEF FinUpdate, Summary, OnceInv
<1>14. ASSUME Crash PROVE CountInv'
  BY <1>14 DEF Crash
<1>15. CASE UNCHANGED vars
  BY <1>15 DEF vars
<1>. QED BY <1>1, <1>2, <1>3, <1>4, <1>5, <1>6, <1>7, <1>8, <1>9, <1>10, <1>11, <1>12,
            <1>13, <1>14, <1>15 DEF Next, Quiescent

(* At the start nobody is inside Finalize.                                 *)
LEMMA ArgInit == Init => ArgInv
BY DEF Init, ArgInv, FinPcs

(* The outcome given to Finalize stays with the caller.                    *)
LEMMA ArgNext == TypeOK /\ ArgInv /\ [Next]_vars => ArgInv'
<1> SUFFICES ASSUME TypeOK, ArgInv, [Next]_vars PROVE ArgInv'
  OBVIOUS
<1> USE DEF ArgInv, Running, database, shared, writer, locals, history, FinPcs
<1>1. ASSUME NEW c \in Callers, EnqueueClosed(c) PROVE ArgInv'
  BY <1>1 DEF TypeOK, EnqueueClosed
<1>2. ASSUME NEW c \in Callers, NEW load \in Payload, EnqueueOpen(c, load) PROVE ArgInv'
  BY <1>2 DEF TypeOK, EnqueueOpen
<1>3. ASSUME NEW c \in Callers, SendOrDrop(c) PROVE ArgInv'
  BY <1>3 DEF TypeOK, SendOrDrop
<1>4. ASSUME Receive PROVE ArgInv'
  BY <1>4 DEF TypeOK, Receive
<1>5. ASSUME Persist PROVE ArgInv'
  BY <1>5 DEF TypeOK, Persist
<1>6. ASSUME WriterReturn PROVE ArgInv'
  BY <1>6 DEF TypeOK, WriterReturn
<1>7. ASSUME NEW c \in Callers, NEW o \in Outcomes, FinCall(c, o) PROVE ArgInv'
  BY <1>7 DEF TypeOK, FinCall
<1>8. ASSUME NEW c \in Callers, FinOnce(c) PROVE ArgInv'
  BY <1>8 DEF TypeOK, FinOnce
<1>9. ASSUME NEW c \in Callers, FinMark(c) PROVE ArgInv'
  BY <1>9 DEF TypeOK, FinMark
<1>10. ASSUME NEW c \in Callers, FinClose(c) PROVE ArgInv'
  BY <1>10 DEF TypeOK, FinClose
<1>11. ASSUME NEW c \in Callers, FinWait(c) PROVE ArgInv'
  BY <1>11 DEF TypeOK, FinWait
<1>12. ASSUME NEW c \in Callers, FinLoad(c) PROVE ArgInv'
  BY <1>12 DEF TypeOK, FinLoad
<1>13. ASSUME NEW c \in Callers, FinUpdate(c) PROVE ArgInv'
  BY <1>13 DEF TypeOK, FinUpdate
<1>14. ASSUME Crash PROVE ArgInv'
  BY <1>14 DEF TypeOK, Crash
<1>15. CASE UNCHANGED vars
  BY <1>15 DEF vars
<1>. QED BY <1>1, <1>2, <1>3, <1>4, <1>5, <1>6, <1>7, <1>8, <1>9, <1>10, <1>11, <1>12,
            <1>13, <1>14, <1>15 DEF Next, Quiescent

-----------------------------------------------------------------------------
(* The inductive invariant, the conjunction of all the parts above, holds  *)
(* in every reachable state.                                               *)
THEOREM Inductive == Spec => []IInv
<1>1. Init => IInv
  BY TypeInit, LockInit, OnceInit, OrderInit, LostInit, CountInit, ArgInit DEF IInv
<1>2. IInv /\ [Next]_vars => IInv'
  BY TypeNext, LockNext, OnceNext, OrderNext, LostNext, CountNext, ArgNext DEF IInv
<1>. QED BY <1>1, <1>2, PTL DEF Spec

(* The variables have their types in every reachable state. *)
THEOREM TypeCorrect == Spec => []TypeOK
<1>1. IInv => TypeOK
  BY DEF IInv
<1>. QED BY <1>1, Inductive, PTL

(* The stored steps are in strictly increasing order of step_index.        *)
THEOREM OrderCorrect == Spec => []StepsInOrder
<1>1. IInv => StepsInOrder
  BY DEF IInv, OrderInv, StepsInOrder
<1>. QED BY <1>1, Inductive, PTL

(* Every Record* call is stored, counted or still in the pipeline.         *)
THEOREM LossAccounted == Spec => []NothingLost
<1>1. IInv => NothingLost
  BY DEF IInv
<1>. QED BY <1>1, Inductive, PTL

(* No caller can send on, or close again, a closed channel.                *)
THEOREM ClosedSafe == Spec => []NoSendOnClosed
<1>1. IInv => NoSendOnClosed
  BY DEF IInv, LockInv, OnceInv, NoSendOnClosed
<1>. QED BY <1>1, Inductive, PTL

(* A written summary agrees with the rows of trajectory_steps for good.    *)
THEOREM SummaryCorrect == Spec => []SummaryMatchesSteps
<1>1. IInv => SummaryMatchesSteps
  BY DEF IInv, CountInv, OnceInv, SummaryMatchesSteps
<1>. QED BY <1>1, Inductive, PTL

-----------------------------------------------------------------------------
(* A step of the database: it appends, or it writes a summary when the     *)
(* steps are final.                                                        *)
StoreStep ==
  /\ Len(steps) <= Len(steps')
  /\ \A i \in DOMAIN steps : steps'[i] = steps[i]
  /\ row' # row => done /\ steps' = steps

(* persistStep only ever adds a row at the end.                            *)
LEMMA PersistAppends ==
  ASSUME IInv, Persist
  PROVE  StoreStep
<1>1. row' = row /\ hand # <<>>
  BY DEF Persist
<1>2. steps \in Seq(Step) /\ Head(hand) \in Step
  BY <1>1, SingletonSeq DEF IInv, TypeOK
<1>3. CASE steps' = steps
  BY <1>1, <1>2, <1>3 DEF StoreStep
<1>4. CASE steps' = Append(steps, Head(hand))
  <2>1. Len(steps') = Len(steps) + 1 /\ \A i \in 1 .. Len(steps) : steps'[i] = steps[i]
    BY <1>2, <1>4, AppendFacts
  <2>2. DOMAIN steps = 1 .. Len(steps) /\ Len(steps) \in Nat
    BY <1>2, ElementFacts
  <2>. QED BY <1>1, <2>1, <2>2 DEF StoreStep
<1>. QED BY <1>3, <1>4 DEF Persist

(* No step of the recorder rewrites a stored step, and the summary is      *)
(* written only after the writer has returned.                             *)
THEOREM StoreCorrect == Spec => StoreDiscipline
<1>1. IInv /\ [Next]_vars => [StoreStep]_database
  <2> SUFFICES ASSUME IInv, [Next]_vars PROVE [StoreStep]_database
    OBVIOUS
  <2> USE DEF database, shared, writer, locals, history, Running
  <2>1. ASSUME NEW c \in Callers, EnqueueClosed(c) PROVE [StoreStep]_database
    BY <2>1 DEF EnqueueClosed
  <2>2. ASSUME NEW c \in Callers, NEW load \in Payload, EnqueueOpen(c, load) PROVE [StoreStep]_database
    BY <2>2 DEF EnqueueOpen
  <2>3. ASSUME NEW c \in Callers, SendOrDrop(c) PROVE [StoreStep]_database
    BY <2>3 DEF SendOrDrop
  <2>4. ASSUME Receive PROVE [StoreStep]_database
    BY <2>4 DEF Receive
  <2>5. ASSUME Persist PROVE [StoreStep]_database
    BY <2>5, PersistAppends
  <2>6. ASSUME WriterReturn PROVE [StoreStep]_database
    BY <2>6 DEF WriterReturn
  <2>7. ASSUME NEW c \in Callers, NEW o \in Outcomes, FinCall(c, o) PROVE [StoreStep]_database
    BY <2>7 DEF FinCall
  <2>8. ASSUME NEW c \in Callers, FinOnce(c) PROVE [StoreStep]_database
    BY <2>8 DEF FinOnce
  <2>9. ASSUME NEW c \in Callers, FinMark(c) PROVE [StoreStep]_database
    BY <2>9 DEF FinMark
  <2>10. ASSUME NEW c \in Callers, FinClose(c) PROVE [StoreStep]_database
    BY <2>10 DEF FinClose
  <2>11. ASSUME NEW c \in Callers, FinWait(c) PROVE [StoreStep]_database
    BY <2>11 DEF FinWait
  <2>12. ASSUME NEW c \in Callers, FinLoad(c) PROVE [StoreStep]_database
    BY <2>12 DEF FinLoad
  <2>13. ASSUME NEW c \in Callers, FinUpdate(c) PROVE [StoreStep]_database
    <3>1. done /\ steps' = steps /\ steps \in Seq(Step)
      BY <2>13 DEF FinUpdate, IInv, OnceInv, TypeOK
    <3>2. DOMAIN steps = 1 .. Len(steps) /\ Len(steps) \in Nat
      BY <3>1, ElementFacts
    <3>. QED BY <3>1, <3>2 DEF StoreStep
  <2>14. ASSUME Crash PROVE [StoreStep]_database
    BY <2>14 DEF Crash
  <2>15. CASE UNCHANGED vars
    BY <2>15 DEF vars
  <2>. QED BY <2>1, <2>2, <2>3, <2>4, <2>5, <2>6, <2>7, <2>8, <2>9, <2>10, <2>11, <2>12,
              <2>13, <2>14, <2>15 DEF Next, Quiescent
<1>. QED BY <1>1, Inductive, PTL DEF Spec, StoreDiscipline, StoreStep

-----------------------------------------------------------------------------
(* Refinement: what each step of the recorder does to the abstract log.    *)
Pending == Elements(hand) \cup Elements(ch) \cup Elements(pend)

(* The set of the elements of a typed sequence.                            *)
LEMMA ElementsFacts ==
  ASSUME NEW s \in Seq(Step), NEW x \in Step
  PROVE  /\ Elements(<<>>) = {} /\ Elements(<<x>>) = {x}
         /\ Elements(Append(s, x)) = Elements(s) \cup {x}
         /\ s # <<>> => Elements(s) = {Head(s)} \cup Elements(Tail(s))
<1>1. Elements(<<>>) = {} /\ Elements(<<x>>) = {x}
  BY DEF Elements
<1>2. Elements(Append(s, x)) = Elements(s) \cup {x}
  <2> DEFINE r == Append(s, x)
  <2>1. /\ DOMAIN r = 1 .. Len(s) + 1 /\ DOMAIN s = 1 .. Len(s) /\ Len(s) \in Nat
        /\ \A i \in 1 .. Len(s) : r[i] = s[i]
        /\ r[Len(s) + 1] = x
    BY AppendFacts, ElementFacts
  <2> HIDE DEF r
  <2>2. ASSUME NEW e \in Elements(r) PROVE e \in Elements(s) \cup {x}
    <3>1. PICK i \in DOMAIN r : e = r[i]
      BY DEF Elements
    <3>2. CASE i \in DOMAIN s
      BY <2>1, <3>1, <3>2 DEF Elements
    <3>3. CASE i = Len(s) + 1
      BY <2>1, <3>1, <3>3
    <3>. QED BY <2>1, <3>2, <3>3
  <2>3. ASSUME NEW i \in DOMAIN s PROVE s[i] \in Elements(r)
    <3>1. i \in DOMAIN r /\ r[i] = s[i]
      BY <2>1
    <3>. QED BY <3>1 DEF Elements
  <2>4. x \in Elements(r)
    <3>1. Len(s) + 1 \in DOMAIN r
      BY <2>1
    <3>. QED BY <2>1, <3>1 DEF Elements
  <2>5. Elements(s) \subseteq Elements(r)
    BY <2>3 DEF Elements
  <2>. QED BY <2>2, <2>4, <2>5 DEF r
<1>3. ASSUME s # <<>> PROVE Elements(s) = {Head(s)} \cup Elements(Tail(s))
  <2> DEFINE r == Tail(s)
  <2>1. /\ DOMAIN r = 1 .. Len(s) - 1 /\ DOMAIN s = 1 .. Len(s) /\ Len(s) \in Nat
        /\ Len(s) >= 1 /\ Head(s) = s[1]
        /\ \A i \in 1 .. Len(s) - 1 : r[i] = s[i + 1]
    BY <1>3, ElementFacts
  <2> HIDE DEF r
  <2>2. ASSUME NEW i \in DOMAIN s PROVE s[i] \in {s[1]} \cup Elements(r)
    <3>1. CASE i = 1
      BY <3>1
    <3>2. CASE i # 1
      <4>1. i - 1 \in DOMAIN r /\ r[i - 1] = s[i]
        BY <2>1, <3>2
      <4>. QED BY <4>1 DEF Elements
    <3>. QED BY <3>1, <3>2
  <2>3. ASSUME NEW i \in DOMAIN r PROVE r[i] \in Elements(s)
    <3>1. i + 1 \in DOMAIN s /\ r[i] = s[i + 1]
      BY <2>1
    <3>. QED BY <3>1 DEF Elements
  <2>4. 1 \in DOMAIN s
    BY <2>1
  <2>5. Elements(s) \subseteq {s[1]} \cup Elements(r)
    BY <2>2 DEF Elements
  <2>6. Elements(r) \subseteq Elements(s) /\ s[1] \in Elements(s)
    BY <2>3, <2>4 DEF Elements
  <2>. QED BY <2>1, <2>5, <2>6 DEF r
<1>. QED BY <1>1, <1>2, <1>3

(* The order of the pipeline, told of its elements.                        *)
LEMMA ElementsOrder ==
  ASSUME NEW s \in Seq(Step), NEW t \in Seq(Step), NEW n \in Nat
  PROVE  /\ Before(s, t) => \A a \in Elements(s), b \in Elements(t) : a.idx < b.idx
         /\ Below(s, n) => \A a \in Elements(s) : a.idx < n
         /\ \A a \in Elements(s) : a \in Step /\ a.idx \in Nat
BY ElementFacts DEF Elements, Before, Below

(* A step accepted by enqueue is above everything stored or pending.       *)
LEMMA EnqueueAccepts ==
  ASSUME IInv, NEW c \in Callers, NEW load \in Payload, EnqueueOpen(c, load)
  PROVE  \E s \in Pending' : Log!Accept(s)
<1> DEFINE x == [idx |-> stepIndex, load |-> load]
<1>1. x \in Step /\ x.idx = stepIndex /\ stepIndex \in Nat
  BY DEF IInv, TypeOK, Step
<1>2. pend = <<>> /\ pend' = <<x>> /\ ~closed /\ UNCHANGED <<hand, ch, steps, closed, row>>
  BY DEF EnqueueOpen, IInv, LockInv, MuFree, database, writer
<1> HIDE DEF x
<1>3. Elements(pend) = {} /\ Elements(pend') = {x}
  BY <1>1, <1>2, ElementsFacts DEF IInv, TypeOK
<1>4. Pending' = Pending \cup {x}
  BY <1>2, <1>3 DEF Pending
<1>5. \A t \in Elements(hand) \cup Elements(ch) \cup Elements(steps) : t.idx < x.idx
  BY <1>1, ElementsOrder DEF IInv, TypeOK, OrderInv
<1>6. Log!Accept(x)
  BY <1>2, <1>3, <1>4, <1>5 DEF Log!Accept, Log!Stored, Pending, Elements
<1>. QED BY <1>4, <1>6

(* A step that finds the channel full is lost; one that fits stays pending. *)
LEMMA SendLoses ==
  ASSUME IInv, NEW c \in Callers, SendOrDrop(c)
  PROVE  UNCHANGED Log!lvars \/ \E s \in Pending : Log!Lose(s)
<1>1. pend # <<>> /\ pend' = <<>> /\ UNCHANGED <<hand, steps, closed, row>>
  BY DEF SendOrDrop, IInv, LockInv, database, writer
<1>2. PICK x \in Step : x = Head(pend) /\ pend = <<x>>
  BY <1>1, SingletonSeq DEF IInv, TypeOK
<1>3. Elements(pend) = {x} /\ Elements(pend') = {}
  BY <1>1, <1>2, ElementsFacts DEF IInv, TypeOK
<1>4. CASE ch' = Append(ch, x)
  <2>1. Elements(ch') = Elements(ch) \cup {x}
    BY <1>4, ElementsFacts DEF IInv, TypeOK
  <2>2. Pending' = Pending
    BY <1>1, <1>3, <2>1 DEF Pending
  <2>. QED BY <1>1, <2>2 DEF Log!lvars, Pending
<1>5. CASE ch' = ch
  <2>1. x \notin Elements(hand) /\ x \notin Elements(ch)
    <3>1. \A a \in Elements(hand), b \in Elements(pend) : a.idx < b.idx
      BY ElementsOrder DEF IInv, TypeOK, OrderInv
    <3>2. \A a \in Elements(ch), b \in Elements(pend) : a.idx < b.idx
      BY ElementsOrder DEF IInv, TypeOK, OrderInv
    <3>3. x.idx \in Nat
      BY DEF Step
    <3>. QED BY <1>3, <3>1, <3>2, <3>3
  <2>2. Pending' = Pending \ {x} /\ x \in Pending
    BY <1>1, <1>3, <1>5, <2>1 DEF Pending
  <2>3. Log!Lose(x)
    BY <1>1, <2>2 DEF Log!Lose, Pending
  <2>. QED BY <2>2, <2>3
<1>. QED BY <1>2, <1>4, <1>5 DEF SendOrDrop

(* The writer stores, or loses, the oldest pending step.                   *)
LEMMA PersistStores ==
  ASSUME IInv, Persist
  PROVE  \E s \in Pending : Log!Store(s) \/ Log!Lose(s)
<1>1. hand # <<>> /\ hand' = <<>> /\ UNCHANGED <<ch, pend, closed, row>>
  BY DEF Persist, shared, locals
<1>2. PICK x \in Step : x = Head(hand) /\ hand = <<x>>
  BY <1>1, SingletonSeq DEF IInv, TypeOK
<1>3. Elements(hand) = {x} /\ Elements(hand') = {}
  BY <1>1, <1>2, ElementsFacts DEF IInv, TypeOK
<1>4. \A b \in Elements(ch) \cup Elements(pend) : x.idx < b.idx
  <2>1. \A a \in Elements(hand), b \in Elements(ch) : a.idx < b.idx
    BY ElementsOrder DEF IInv, TypeOK, OrderInv
  <2>2. \A a \in Elements(hand), b \in Elements(pend) : a.idx < b.idx
    BY ElementsOrder DEF IInv, TypeOK, OrderInv
  <2>. QED BY <1>3, <2>1, <2>2
<1>5. x.idx \in Nat
  BY DEF Step
<1>6. x \notin Elements(ch) \cup Elements(pend)
  BY <1>4, <1>5
<1>7. Pending' = Pending \ {x} /\ x \in Pending
  BY <1>1, <1>3, <1>6 DEF Pending
<1>8. Log!Oldest(x)
  <2>1. ASSUME NEW t \in Pending PROVE x.idx <= t.idx
    <3>1. CASE t = x
      BY <1>5, <3>1
    <3>2. CASE t \in Elements(ch) \cup Elements(pend)
      <4>1. t.idx \in Nat
        BY <3>2, ElementsOrder DEF IInv, TypeOK
      <4>. QED BY <1>4, <1>5, <3>2, <4>1
    <3>. QED BY <1>3, <3>1, <3>2 DEF Pending
  <2>. QED BY <1>7, <2>1 DEF Log!Oldest, Pending
<1>9. CASE steps' = Append(steps, x)
  BY <1>1, <1>7, <1>8, <1>9 DEF Log!Store, Pending
<1>10. CASE steps' = steps
  BY <1>1, <1>7, <1>10 DEF Log!Lose, Pending
<1>. QED BY <1>2, <1>7, <1>9, <1>10 DEF Persist

(* Taking a step from the channel is no step of the log.                   *)
LEMMA ReceiveStutters ==
  ASSUME IInv, Receive
  PROVE  UNCHANGED Log!lvars
<1>1. /\ hand = <<>> /\ ch # <<>> /\ hand' = <<Head(ch)>> /\ ch' = Tail(ch)
      /\ UNCHANGED <<pend, steps, closed, row>>
  BY DEF Receive, database, locals
<1>2. Head(ch) \in Step
  BY <1>1 DEF IInv, TypeOK
<1>3. Elements(hand) = {} /\ Elements(hand') = {Head(ch)}
  BY <1>1, <1>2, ElementsFacts DEF IInv, TypeOK
<1>4. Elements(ch) = {Head(ch)} \cup Elements(ch')
  BY <1>1, <1>2, ElementsFacts DEF IInv, TypeOK
<1>5. Pending' = Pending
  BY <1>1, <1>3, <1>4 DEF Pending
<1>. QED BY <1>1, <1>5 DEF Log!lvars, Pending

(* Finalize writes a summary of a sealed, drained log, or nothing.         *)
LEMMA UpdateSummarizes ==
  ASSUME IInv, NEW c \in Callers, FinUpdate(c)
  PROVE  UNCHANGED Log!lvars \/ Log!Summarize
<1>1. done /\ closed /\ hand = <<>> /\ ch = <<>> /\ pend = <<>>
  BY DEF FinUpdate, IInv, OnceInv, LockInv
<1>2. UNCHANGED <<steps, closed, hand, ch, pend>>
  BY DEF FinUpdate, shared, writer
<1>3. Elements(hand) = {} /\ Elements(ch) = {} /\ Elements(pend) = {}
  BY <1>1 DEF Elements
<1>4. Pending = {} /\ Pending' = Pending
  BY <1>2, <1>3 DEF Pending
<1>5. CASE row' = Summary(c)
  <2>1. row'.outcome = fin[c].outcome /\ row'.steps = stepCount /\ row'.failed = fin[c].failed
    BY <1>5 DEF Summary
  <2>2. fin[c].failed = writeFailed /\ stepCount = Len(steps) + writeFailed
    BY DEF FinUpdate, IInv, CountInv
  <2>3. row'.outcome # "in_progress"
    BY <2>1, OutcomesAssumption DEF FinUpdate, IInv, ArgInv, FinPcs
  <2>. QED BY <1>1, <1>2, <1>4, <2>1, <2>2, <2>3 DEF Log!Summarize, Pending
<1>6. CASE row' = row
  BY <1>2, <1>4, <1>6 DEF Log!lvars, Pending
<1>. QED BY <1>5, <1>6 DEF FinUpdate

(* The initial state of the recorder is one of the log.                    *)
LEMMA LogInit == Init => Log!LInit
<1> SUFFICES ASSUME Init PROVE Log!LInit
  OBVIOUS
<1>1. Elements(hand) = {} /\ Elements(ch) = {} /\ Elements(pend) = {}
  BY DEF Init, Elements
<1>2. row.outcome = "in_progress" /\ steps = <<>> /\ closed = FALSE
  BY DEF Init
<1>. QED BY <1>1, <1>2 DEF Log!LInit

(* Every step of the recorder is a step of the log, or stutters.           *)
LEMMA LogNext == IInv /\ [Next]_vars => [Log!LNext]_Log!lvars
<1> SUFFICES ASSUME IInv, [Next]_vars PROVE [Log!LNext]_Log!lvars
  OBVIOUS
<1> USE DEF Running, database, shared, writer, locals, history
<1>1. ASSUME NEW c \in Callers, EnqueueClosed(c) PROVE [Log!LNext]_Log!lvars
  BY <1>1 DEF EnqueueClosed, Log!lvars, Elements
<1>2. ASSUME NEW c \in Callers, NEW load \in Payload, EnqueueOpen(c, load) PROVE [Log!LNext]_Log!lvars
  BY <1>2, EnqueueAccepts DEF Log!LNext, Pending
<1>3. ASSUME NEW c \in Callers, SendOrDrop(c) PROVE [Log!LNext]_Log!lvars
  BY <1>3, SendLoses DEF Log!LNext, Pending
<1>4. ASSUME Receive PROVE [Log!LNext]_Log!lvars
  BY <1>4, ReceiveStutters
<1>5. ASSUME Persist PROVE [Log!LNext]_Log!lvars
  BY <1>5, PersistStores DEF Log!LNext, Pending
<1>6. ASSUME WriterReturn PROVE [Log!LNext]_Log!lvars
  BY <1>6 DEF WriterReturn, Log!lvars, Elements
<1>7. ASSUME NEW c \in Callers, NEW o \in Outcomes, FinCall(c, o) PROVE [Log!LNext]_Log!lvars
  BY <1>7 DEF FinCall, Log!lvars, Elements
<1>8. ASSUME NEW c \in Callers, FinOnce(c) PROVE [Log!LNext]_Log!lvars
  BY <1>8 DEF FinOnce, Log!lvars, Elements
<1>9. ASSUME NEW c \in Callers, FinMark(c) PROVE [Log!LNext]_Log!lvars
  <2>1. ~closed /\ closed' = TRUE /\ UNCHANGED <<steps, hand, ch, pend, row>>
    BY <1>9 DEF FinMark, IInv, OnceInv
  <2>2. Log!Seal
    BY <2>1 DEF Log!Seal, Elements
  <2>. QED BY <2>2 DEF Log!LNext
<1>10. ASSUME NEW c \in Callers, FinClose(c) PROVE [Log!LNext]_Log!lvars
  BY <1>10 DEF FinClose, Log!lvars, Elements
<1>11. ASSUME NEW c \in Callers, FinWait(c) PROVE [Log!LNext]_Log!lvars
  BY <1>11 DEF FinWait, Log!lvars, Elements
<1>12. ASSUME NEW c \in Callers, FinLoad(c) PROVE [Log!LNext]_Log!lvars
  BY <1>12 DEF FinLoad, Log!lvars, Elements
<1>13. ASSUME NEW c \in Callers, FinUpdate(c) PROVE [Log!LNext]_Log!lvars
  BY <1>13, UpdateSummarizes DEF Log!LNext
<1>14. ASSUME Crash PROVE [Log!LNext]_Log!lvars
  BY <1>14 DEF Crash, Log!lvars, Elements
<1>15. CASE UNCHANGED vars
  BY <1>15 DEF vars, Log!lvars, Elements
<1>. QED BY <1>1, <1>2, <1>3, <1>4, <1>5, <1>6, <1>7, <1>8, <1>9, <1>10, <1>11, <1>12,
            <1>13, <1>14, <1>15 DEF Next, Quiescent

(* The recorder implements the append-only log.                            *)
THEOREM Refinement == Spec => ImplementsLog
BY LogInit, LogNext, Inductive, PTL DEF Spec, ImplementsLog, Log!LSpec

=============================================================================

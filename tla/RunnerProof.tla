----------------------------- MODULE RunnerProof ----------------------------
(***************************************************************************)
(* Proofs about Runner for any keys, any batches of tool calls, any turn   *)
(* limit and any budget: the conversation is well formed, no query is      *)
(* dispatched twice, the trajectory is finalized as Run returns, and the   *)
(* numbers told to the model are those the consumers of the capture count. *)
(***************************************************************************)
EXTENDS Runner, SequenceTheorems, FiniteSetTheorems, TLAPS

(* What a step does to the conversation and the capture, whatever the      *)
(* reason: nothing, a new reply, or one tool message.                      *)
Quiet == UNCHANGED <<queue, asked, told, seen, okSeq, tools>>

(* Tool calls are only at hand within the turn limit.                      *)
TurnInv == pc = "calls" => turn < MaxTurns

(* The conversation so far; no reply is read while calls are open.         *)
TalkInv ==
  /\ Len(asked) = Len(told) + Len(queue)
  /\ \A i \in DOMAIN told : told[i].call = asked[i]
  /\ \A i \in DOMAIN queue : queue[i] = asked[Len(told) + i]

(* Before the model is first asked nothing is said, and between its replies*)
(* every call has been answered.                                           *)
PhaseInv ==
  /\ pc = "generate" => queue = <<>>
  /\ pc = "open" => asked = <<>> /\ queue = <<>>

Asks(batch) ==
  /\ queue = <<>>
  /\ asked' = asked \o batch /\ queue' = batch
  /\ UNCHANGED <<told, seen, okSeq, tools>>

Says(form, result, q) ==
  /\ queue # <<>>
  /\ told' = Append(told, [call |-> Head(queue), form |-> form, result |-> result, q |-> q])
  /\ queue' = Tail(queue)
  /\ UNCHANGED asked

Silent(form, result) == Says(form, result, 0) /\ UNCHANGED <<seen, okSeq, tools>>

-----------------------------------------------------------------------------
(* What Append does to a sequence, in the form the provers can use.        *)
LEMMA AppendFacts ==
  ASSUME NEW S, NEW s \in Seq(S), NEW x \in S
  PROVE  /\ Append(s, x) \in Seq(S)
         /\ Len(Append(s, x)) = Len(s) + 1
         /\ \A i \in 1 .. Len(s) : Append(s, x)[i] = s[i]
         /\ Append(s, x)[Len(s) + 1] = x
OBVIOUS

(* A batch of calls is a nonempty sequence of calls.                       *)
LEMMA BatchFacts ==
  ASSUME NEW batch \in Batches
  PROVE  batch \in Seq(Calls) /\ batch # <<>>
BY BatchAssumption DEF Calls

(* A message that Tell appends is one.                                     *)
LEMMA MessageFacts ==
  ASSUME NEW call \in Calls, NEW form \in Forms,
         NEW result \in Result \cup {NoResult}, NEW q \in Nat
  PROVE  [call |-> call, form |-> form, result |-> result, q |-> q] \in Message
BY DEF Message

(* A tool message answers the first open call.                             *)
LEMMA SaysTypes ==
  ASSUME queue \in Seq(Calls), told \in Seq(Message),
         NEW form \in Forms, NEW result \in Result \cup {NoResult}, NEW q \in Nat,
         Says(form, result, q)
  PROVE  /\ queue' \in Seq(Calls) /\ told' \in Seq(Message)
         /\ Head(queue) \in Calls
<1>1. Head(queue) \in Calls /\ Tail(queue) \in Seq(Calls)
  BY DEF Says
<1>2. [call |-> Head(queue), form |-> form, result |-> result, q |-> q] \in Message
  BY <1>1, MessageFacts
<1>. QED BY <1>1, <1>2, AppendFacts DEF Says

(* The record a dispatch captures is well typed.                           *)
LEMMA CaptureFacts ==
  ASSUME NEW key \in Keys, NEW status \in Statuses, NEW n \in Nat
  PROVE  /\ [status |-> status, data |-> n] \in Result
         /\ [key |-> key, result |-> [status |-> status, data |-> n]] \in Capture
BY DEF Result, Capture

-----------------------------------------------------------------------------
(* Run starts well typed.                                                  *)
LEMMA TypeInit == Init => TypeOK
<1> SUFFICES ASSUME Init PROVE TypeOK
  OBVIOUS
<1>1. turn \in 0..MaxTurns
  BY BoundAssumption DEF Init
<1>2. /\ queue \in Seq(Calls) /\ asked \in Seq(Calls) /\ told \in Seq(Message)
      /\ tools \in Seq(Capture) /\ finals \in Seq({"success", "error", "abort"})
  BY DEF Init
<1>3. DOMAIN seen \subseteq Keys /\ seen \in [DOMAIN seen -> Result]
  BY DEF Init
<1>4. /\ pc \in {"open", "generate", "calls", "returned"}
      /\ okSeq \in Nat /\ spent \in Nat /\ ret \in {"none", "answer", "error", "panic"}
  BY DEF Init
<1>. QED BY <1>1, <1>2, <1>3, <1>4 DEF TypeOK

(* No step of the loop breaks the types.                                   *)
LEMMA TypeNext == TypeOK /\ TurnInv /\ [Next]_vars => TypeOK'
<1> SUFFICES ASSUME TypeOK, TurnInv, [Next]_vars PROVE TypeOK'
  OBVIOUS
<1> USE DEF TypeOK, talk, book
<1>1. CASE Open
  BY <1>1 DEF Open
<1>2. CASE OpenFails
  BY <1>2 DEF OpenFails
<1>3. ASSUME NEW o \in {"success", "error", "abort"}, NEW how \in {"answer", "error", "panic"},
             Return(o, how), UNCHANGED <<turn, talk, book, spent>>
      PROVE  TypeOK'
  <2>1. finals' \in Seq({"success", "error", "abort"})
    BY <1>3 DEF Return
  <2>. QED BY <1>3, <2>1 DEF Return
<1>4. CASE GenerateFails
  BY <1>4, <1>3 DEF GenerateFails
<1>5. CASE Answer
  BY <1>5, <1>3 DEF Answer
<1>6. ASSUME NEW batch \in Batches, NEW tok \in CallTokens, Reply(batch, tok)
      PROVE  /\ spent' \in Nat /\ asked' \in Seq(Calls) /\ queue' \in Seq(Calls)
  <2>1. batch \in Seq(Calls) /\ tok \in Nat
    BY BatchFacts, SpendAssumption
  <2>2. asked \o batch \in Seq(Calls)
    BY <2>1, ConcatProperties
  <2>. QED BY <1>6, <2>1, <2>2 DEF Reply
<1>7. ASSUME NEW batch \in Batches, NEW tok \in CallTokens, ReplyWithin(batch, tok)
      PROVE  TypeOK'
  BY <1>6, <1>7 DEF ReplyWithin
<1>8. ASSUME NEW batch \in Batches, NEW tok \in CallTokens, ReplyBeyond(batch, tok)
      PROVE  TypeOK'
  <2>1. finals' \in Seq({"success", "error", "abort"})
    BY <1>8 DEF ReplyBeyond, Return
  <2>. QED BY <1>6, <1>8, <2>1 DEF ReplyBeyond, Return
<1>9. CASE AskUser
  <2>1. Says("clarified", NoResult, 0)
    BY <1>9 DEF AskUser, Tell, NextCall, Says
  <2>2. queue' \in Seq(Calls) /\ told' \in Seq(Message)
    BY <2>1, SaysTypes DEF Forms
  <2>. QED BY <1>9, <2>2 DEF AskUser, Tell
<1>10. CASE Repeat
  <2>1. Says("repeat", seen[Head(queue)], 0)
    BY <1>10 DEF Repeat, Tell, NextCall, Says
  <2>2. seen[Head(queue)] \in Result
    BY <1>10 DEF Repeat, Duplicate
  <2>3. queue' \in Seq(Calls) /\ told' \in Seq(Message)
    BY <2>1, <2>2, SaysTypes DEF Forms
  <2>. QED BY <1>10, <2>3 DEF Repeat, Tell
<1>11. CASE DispatchFails
  <2>1. Says("failed", NoResult, 0)
    BY <1>11 DEF DispatchFails, Dispatching, Tell, NextCall, Says
  <2>2. queue' \in Seq(Calls) /\ told' \in Seq(Message)
    BY <2>1, SaysTypes DEF Forms
  <2>. QED BY <1>11, <2>2 DEF DispatchFails, Tell
<1>12. ASSUME NEW status \in Statuses, Dispatch(status) PROVE TypeOK'
  <2> DEFINE r == [status |-> status, data |-> Len(told) + 1]
             n == IF Counts(status) THEN okSeq + 1 ELSE okSeq
             q == IF Counts(status) THEN n ELSE 0
  <2>1. n \in Nat /\ q \in Nat
    <3>1. okSeq \in Nat /\ okSeq + 1 \in Nat
      OBVIOUS
    <3>. QED BY <3>1 DEF Counts
  <2>2. Head(queue) \in Keys
    <3>1. Head(queue) \in Calls /\ Head(queue) # Clarify
      BY <1>12 DEF Dispatch, Dispatching, NextCall
    <3>. QED BY <3>1 DEF Calls
  <2>3. r \in Result /\ [key |-> Head(queue), result |-> r] \in Capture
    <3>1. Len(told) + 1 \in Nat
      BY LenProperties
    <3>. QED BY <2>2, <3>1, CaptureFacts
  <2>4. Says("result", r, q) /\ tools' = Captured(Head(queue), r)
        /\ seen' = Remember(Head(queue), r) /\ okSeq' = n
    BY <1>12 DEF Dispatch, Dispatching, Tell, NextCall, Says
  <2> HIDE DEF r, n, q
  <2>5. queue' \in Seq(Calls) /\ told' \in Seq(Message)
    BY <2>1, <2>3, <2>4, SaysTypes DEF Forms
  <2>6. tools' \in Seq(Capture)
    BY <2>3, <2>4, AppendFacts DEF Captured
  <2>7. DOMAIN seen' \subseteq Keys /\ seen' \in [DOMAIN seen' -> Result]
    BY <2>2, <2>3, <2>4 DEF Remember
  <2>. QED BY <1>12, <2>1, <2>4, <2>5, <2>6, <2>7 DEF Dispatch, Tell
<1>13. CASE EndTurn
  <2>1. pc = "calls" /\ turn + 1 \in 0..MaxTurns
    BY <1>13, BoundAssumption DEF EndTurn, TurnInv
  <2>. QED BY <1>13, <2>1 DEF EndTurn
<1>14. CASE OutOfTurns
  BY <1>14, <1>3 DEF OutOfTurns
<1>15. CASE Panic
  BY <1>15, <1>3 DEF Panic
<1>16. CASE UNCHANGED vars
  BY <1>16 DEF vars
<1>. QED BY <1>1, <1>2, <1>4, <1>5, <1>7, <1>8, <1>9, <1>10, <1>11, <1>12, <1>13, <1>14,
            <1>15, <1>16 DEF Next, Done

-----------------------------------------------------------------------------
(* Every step does one of four things to the conversation and the capture. *)
LEMMA Kinds ==
  ASSUME TypeOK, PhaseInv, [Next]_vars
  PROVE  \/ Quiet
         \/ \E batch \in Batches : Asks(batch)
         \/ Silent("clarified", NoResult)
         \/ Silent("failed", NoResult)
         \/ Head(queue) \in DOMAIN seen /\ Silent("repeat", seen[Head(queue)])
         \/ \E status \in Statuses : Dispatch(status)
<1> USE DEF talk, book
<1>1. CASE Open \/ OpenFails \/ GenerateFails \/ Answer \/ EndTurn \/ OutOfTurns \/ Panic
           \/ UNCHANGED vars
  BY <1>1 DEF Quiet, Open, OpenFails, GenerateFails, Answer, EndTurn, OutOfTurns, Panic, vars
<1>2. ASSUME NEW batch \in Batches, NEW tok \in CallTokens,
             ReplyWithin(batch, tok) \/ ReplyBeyond(batch, tok)
      PROVE  Asks(batch)
  <2>1. Reply(batch, tok) /\ UNCHANGED <<told, book>>
    BY <1>2 DEF ReplyWithin, ReplyBeyond
  <2>. QED BY <2>1 DEF Asks, Reply, Generating, PhaseInv
<1>3. CASE AskUser
  BY <1>3 DEF AskUser, Tell, NextCall, Silent, Says
<1>4. CASE DispatchFails
  BY <1>4 DEF DispatchFails, Dispatching, Tell, NextCall, Silent, Says
<1>5. CASE Repeat
  BY <1>5 DEF Repeat, Duplicate, Tell, NextCall, Silent, Says
<1>. QED BY <1>1, <1>2, <1>3, <1>4, <1>5 DEF Next, Done

-----------------------------------------------------------------------------
(* At the start no turn has begun.                                         *)
LEMMA TurnInit == Init => TurnInv
BY DEF Init, TurnInv

(* A reply is only read within the limit.                                  *)
LEMMA TurnNext == TypeOK /\ TurnInv /\ [Next]_vars => TurnInv'
<1> SUFFICES ASSUME TypeOK, TurnInv, [Next]_vars PROVE TurnInv'
  OBVIOUS
<1> USE DEF TurnInv, talk, book
<1>1. CASE Open \/ OpenFails \/ GenerateFails \/ Answer \/ EndTurn \/ OutOfTurns \/ Panic
           \/ UNCHANGED vars
  BY <1>1 DEF Return, Open, OpenFails, GenerateFails, Answer, EndTurn, OutOfTurns, Panic, vars
<1>2. ASSUME NEW batch \in Batches, NEW tok \in CallTokens,
             ReplyWithin(batch, tok) \/ ReplyBeyond(batch, tok)
      PROVE  TurnInv'
  BY <1>2 DEF ReplyWithin, ReplyBeyond, Reply, Return, Generating
<1>3. CASE AskUser \/ Repeat \/ DispatchFails \/ \E status \in Statuses : Dispatch(status)
  BY <1>3 DEF AskUser, Repeat, DispatchFails, Dispatch, Tell
<1>. QED BY <1>1, <1>2, <1>3 DEF Next, Done

(* At the start nothing has been said.                                     *)
LEMMA PhaseInit == Init => PhaseInv
BY DEF Init, PhaseInv

(* A turn ends only when its calls have been answered.                     *)
LEMMA PhaseNext == TypeOK /\ PhaseInv /\ [Next]_vars => PhaseInv'
<1> SUFFICES ASSUME TypeOK, PhaseInv, [Next]_vars PROVE PhaseInv'
  OBVIOUS
<1> USE DEF PhaseInv, talk, book
<1>1. CASE Open
  <2>1. pc' = "generate" /\ UNCHANGED queue
    BY <1>1 DEF Open
  <2>2. queue = <<>>
    BY <1>1 DEF Open
  <2>. QED BY <2>1, <2>2
<1>2. CASE OpenFails \/ GenerateFails \/ Answer \/ EndTurn \/ OutOfTurns \/ Panic
           \/ UNCHANGED vars
  BY <1>2 DEF Return, OpenFails, GenerateFails, Answer, EndTurn, OutOfTurns, Panic, vars
<1>3. ASSUME NEW batch \in Batches, NEW tok \in CallTokens,
             ReplyWithin(batch, tok) \/ ReplyBeyond(batch, tok)
      PROVE  PhaseInv'
  BY <1>3 DEF ReplyWithin, ReplyBeyond, Reply, Return
<1>4. CASE AskUser \/ Repeat \/ DispatchFails \/ \E status \in Statuses : Dispatch(status)
  BY <1>4 DEF AskUser, Repeat, DispatchFails, Dispatch, Dispatching, Tell, NextCall
<1>. QED BY <1>1, <1>2, <1>3, <1>4 DEF Next, Done

-----------------------------------------------------------------------------
(* The empty conversation is well formed.                                  *)
LEMMA TalkInit == Init => TalkInv
BY DEF Init, TalkInv

(* A message answers the first open call.                                  *)
LEMMA TalkSays ==
  ASSUME TypeOK, TalkInv,
         NEW form \in Forms, NEW result \in Result \cup {NoResult}, NEW q \in Nat,
         Says(form, result, q)
  PROVE  TalkInv'
<1>1. /\ queue \in Seq(Calls) /\ told \in Seq(Message) /\ asked \in Seq(Calls)
      /\ queue # <<>>
  BY DEF TypeOK, Says
<1>2. /\ Len(Tail(queue)) = Len(queue) - 1 /\ Len(queue) \in Nat \ {0}
      /\ Tail(queue) \in Seq(Calls) /\ Head(queue) = queue[1]
      /\ \A i \in 1..Len(Tail(queue)) : Tail(queue)[i] = queue[i + 1]
  BY <1>1, HeadTailProperties, EmptySeq
<1> DEFINE m == [call |-> Head(queue), form |-> form, result |-> result, q |-> q]
<1>3. m \in Message /\ m.call = Head(queue)
  BY <1>1, MessageFacts
<1> HIDE DEF m
<1>4. /\ Len(told') = Len(told) + 1 /\ told' \in Seq(Message)
      /\ \A i \in 1..Len(told) : told'[i] = told[i]
      /\ told'[Len(told) + 1] = m
  BY <1>1, <1>3, AppendFacts DEF Says, m
<1>5. queue' = Tail(queue) /\ asked' = asked
  BY DEF Says
<1>6. DOMAIN told' = 1..(Len(told) + 1) /\ DOMAIN queue' = 1..(Len(queue) - 1)
      /\ DOMAIN told = 1..Len(told) /\ DOMAIN queue = 1..Len(queue) /\ Len(told) \in Nat
  <2>1. DOMAIN told' = 1..Len(told')
    BY <1>4, LenProperties
  <2>2. DOMAIN told = 1..Len(told) /\ Len(told) \in Nat /\ DOMAIN queue = 1..Len(queue)
    BY <1>1, LenProperties
  <2>3. DOMAIN Tail(queue) = 1..Len(Tail(queue))
    BY <1>2, LenProperties
  <2>. QED BY <2>1, <2>2, <2>3, <1>2, <1>4, <1>5
<1>7. Len(asked') = Len(told') + Len(queue')
  <2>1. Len(asked) = Len(told) + Len(queue)
    BY DEF TalkInv
  <2>2. Len(queue') = Len(queue) - 1 /\ Len(asked') = Len(asked) /\ Len(queue) \in Nat
    BY <1>2, <1>5
  <2>3. Len(told') = Len(told) + 1 /\ Len(told) \in Nat
    BY <1>4, <1>6
  <2>. QED BY ONLY <2>1, <2>2, <2>3
<1>8. ASSUME NEW i \in DOMAIN told' PROVE told'[i].call = asked'[i]
  <2>1. CASE i \in 1..Len(told)
    BY <2>1, <1>4, <1>5, <1>6 DEF TalkInv
  <2>2. CASE i = Len(told) + 1
    <3>1. queue[1] = asked[Len(told) + 1]
      BY <1>2, <1>6 DEF TalkInv
    <3>. QED BY <2>2, <3>1, <1>2, <1>3, <1>4, <1>5
  <2>. QED BY <1>6, <1>8, <2>1, <2>2
<1>9. ASSUME NEW i \in DOMAIN queue' PROVE queue'[i] = asked'[Len(told') + i]
  <2>1. i \in 1..Len(Tail(queue)) /\ i + 1 \in DOMAIN queue /\ i \in Nat
    BY <1>2, <1>6, <1>9
  <2>2. queue[i + 1] = asked[Len(told) + (i + 1)]
    BY <2>1 DEF TalkInv
  <2>3. Len(told) + (i + 1) = Len(told') + i
    BY <2>1, <1>4, <1>6
  <2>. QED BY <2>1, <2>2, <2>3, <1>2, <1>5
<1>. QED BY <1>7, <1>8, <1>9 DEF TalkInv

(* A reply brings calls, all of them open.                                 *)
LEMMA TalkAsks ==
  ASSUME TypeOK, TalkInv, NEW batch \in Batches, Asks(batch)
  PROVE  TalkInv'
<1>1. /\ queue = <<>> /\ told' = told /\ asked' = asked \o batch /\ queue' = batch
      /\ asked \in Seq(Calls) /\ told \in Seq(Message) /\ batch \in Seq(Calls)
  BY BatchFacts DEF TypeOK, Asks
<1>2. /\ Len(asked') = Len(asked) + Len(batch)
      /\ \A i \in 1..(Len(asked) + Len(batch)) :
           asked'[i] = IF i <= Len(asked) THEN asked[i] ELSE batch[i - Len(asked)]
  BY <1>1, ConcatProperties
<1>3. /\ Len(asked) = Len(told) /\ Len(told) \in Nat /\ Len(batch) \in Nat
      /\ DOMAIN told = 1..Len(told) /\ DOMAIN batch = 1..Len(batch)
  BY <1>1, LenProperties DEF TalkInv
<1>4. \A i \in DOMAIN told : told'[i].call = asked'[i]
  BY <1>1, <1>2, <1>3 DEF TalkInv
<1>5. ASSUME NEW i \in DOMAIN batch PROVE batch[i] = asked'[Len(told) + i]
  BY <1>2, <1>3, <1>5
<1>. QED BY <1>1, <1>2, <1>3, <1>4, <1>5 DEF TalkInv

(* What a dispatch that returns does to the capture and to the map of      *)
(* earlier results.                                                        *)
Keeps(status, r, q) ==
  /\ Head(queue) \in Keys /\ Head(queue) \notin DOMAIN seen
  /\ r \in Result /\ r.status = status
  /\ q = (IF status = "OK" THEN okSeq + 1 ELSE 0)
  /\ Says("result", r, q)
  /\ [key |-> Head(queue), result |-> r] \in Capture
  /\ tools' = Append(tools, [key |-> Head(queue), result |-> r])
  /\ seen' = Remember(Head(queue), r)
  /\ okSeq' = (IF status = "OK" THEN okSeq + 1 ELSE okSeq)

(* A dispatch that returns captures, remembers and tells one result.       *)
LEMMA DispatchKeeps ==
  ASSUME TypeOK, NEW status \in Statuses, Dispatch(status)
  PROVE  \E r \in Result, q \in Nat : Keeps(status, r, q)
<1> DEFINE r == [status |-> status, data |-> Len(told) + 1]
           q == IF status = "OK" THEN okSeq + 1 ELSE 0
<1>1. Head(queue) \in Calls /\ Head(queue) # Clarify /\ Head(queue) \notin DOMAIN seen
  BY DEF TypeOK, Dispatch, Dispatching, NextCall, Duplicate
<1>2. Head(queue) \in Keys
  BY <1>1 DEF Calls
<1>3. Len(told) + 1 \in Nat
  BY LenProperties DEF TypeOK
<1>4. r \in Result /\ r.status = status /\ [key |-> Head(queue), result |-> r] \in Capture
  BY <1>2, <1>3, CaptureFacts
<1>5. q \in Nat
  <2>1. okSeq \in Nat
    BY DEF TypeOK
  <2>. QED BY <2>1
<1>6. /\ Says("result", r, q)
      /\ tools' = Append(tools, [key |-> Head(queue), result |-> r])
      /\ seen' = Remember(Head(queue), r)
      /\ okSeq' = (IF status = "OK" THEN okSeq + 1 ELSE okSeq)
  BY DEF Dispatch, Dispatching, NextCall, Tell, Counts, Captured, Says
<1> HIDE DEF r
<1>7. Keeps(status, r, q)
  BY <1>1, <1>2, <1>4, <1>6 DEF Keeps
<1>. QED BY <1>4, <1>5, <1>7

(* Whatever the conversation does, its messages answer its calls.          *)
LEMMA TalkNext == TypeOK /\ PhaseInv /\ TalkInv /\ [Next]_vars => TalkInv'
<1> SUFFICES ASSUME TypeOK, PhaseInv, TalkInv, [Next]_vars PROVE TalkInv'
  OBVIOUS
<1>1. CASE Quiet
  BY <1>1 DEF Quiet, TalkInv
<1>2. ASSUME NEW batch \in Batches, Asks(batch) PROVE TalkInv'
  BY <1>2, TalkAsks
<1>3. ASSUME NEW form \in Forms, NEW result \in Result \cup {NoResult}, Silent(form, result)
      PROVE  TalkInv'
  BY <1>3, TalkSays DEF Silent
<1>4. CASE Silent("clarified", NoResult) \/ Silent("failed", NoResult)
  BY <1>3, <1>4 DEF Forms
<1>5. CASE Head(queue) \in DOMAIN seen /\ Silent("repeat", seen[Head(queue)])
  <2>1. seen[Head(queue)] \in Result
    BY <1>5 DEF TypeOK
  <2>. QED BY <1>3, <1>5, <2>1 DEF Forms
<1>6. ASSUME NEW status \in Statuses, Dispatch(status) PROVE TalkInv'
  <2>1. PICK r \in Result, q \in Nat : Keeps(status, r, q)
    BY <1>6, DispatchKeeps
  <2>. QED BY <2>1, TalkSays DEF Keeps, Forms
<1>. QED BY <1>1, <1>2, <1>4, <1>5, <1>6, Kinds

-----------------------------------------------------------------------------
(* A sequence with one element more, told of its domain.                   *)
LEMMA GrownFacts ==
  ASSUME NEW S, NEW s \in Seq(S), NEW x \in S, NEW t, t = Append(s, x)
  PROVE  /\ DOMAIN t = DOMAIN s \cup {Len(s) + 1} /\ Len(s) + 1 \notin DOMAIN s
         /\ \A i \in DOMAIN s : t[i] = s[i]
         /\ t[Len(s) + 1] = x
         /\ Len(t) = Len(s) + 1
OBVIOUS

(* No query is captured twice, and a repeat shows what is captured.        *)
AskedOnce ==
  /\ \A i, j \in DOMAIN tools : tools[i].key = tools[j].key => i = j
  /\ \A m \in DOMAIN told : told[m].form = "repeat" =>
       \E i \in DOMAIN tools : tools[i] = [key |-> told[m].call, result |-> told[m].result]

(* The map of earlier results and the capture hold the same queries and    *)
(* results.                                                                *)
SeenInv ==
  /\ \A i \in DOMAIN tools : tools[i].key \in DOMAIN seen
  /\ \A k \in DOMAIN seen : \E i \in DOMAIN tools : tools[i] = [key |-> k, result |-> seen[k]]
  /\ AskedOnce

(* At the start nothing has been captured.                                 *)
LEMMA SeenInit == Init => SeenInv
BY DEF Init, SeenInv, AskedOnce

(* A message that captures nothing shows, if it is a repeat, what the      *)
(* capture holds.                                                          *)
LEMMA SeenSilent ==
  ASSUME TypeOK, SeenInv, NEW form \in Forms, NEW result \in Result \cup {NoResult},
         Silent(form, result),
         form = "repeat" => Head(queue) \in DOMAIN seen /\ result = seen[Head(queue)]
  PROVE  SeenInv'
<1>1. told \in Seq(Message) /\ queue \in Seq(Calls) /\ queue # <<>>
  BY DEF TypeOK, Silent, Says
<1> DEFINE m == [call |-> Head(queue), form |-> form, result |-> result, q |-> 0]
<1>2. m \in Message /\ m.call = Head(queue) /\ m.form = form /\ m.result = result
  BY <1>1, MessageFacts
<1>3. told' = Append(told, m) /\ tools' = tools /\ seen' = seen
  BY DEF Silent, Says
<1> HIDE DEF m
<1>4. /\ DOMAIN told' = DOMAIN told \cup {Len(told) + 1}
      /\ \A i \in DOMAIN told : told'[i] = told[i]
      /\ told'[Len(told) + 1] = m
  BY <1>1, <1>2, <1>3, GrownFacts
<1>5. ASSUME NEW n \in DOMAIN told', told'[n].form = "repeat"
      PROVE  \E i \in DOMAIN tools : tools[i] = [key |-> told'[n].call, result |-> told'[n].result]
  <2>1. CASE n \in DOMAIN told
    BY <2>1, <1>4, <1>5 DEF SeenInv, AskedOnce
  <2>2. CASE n = Len(told) + 1
    <3>1. form = "repeat"
      BY <2>2, <1>2, <1>4, <1>5
    <3>2. \E i \in DOMAIN tools : tools[i] = [key |-> Head(queue), result |-> seen[Head(queue)]]
      BY <3>1 DEF SeenInv
    <3>. QED BY <3>1, <3>2, <2>2, <1>2, <1>4
  <2>. QED BY <1>4, <1>5, <2>1, <2>2
<1>. QED BY <1>3, <1>5 DEF SeenInv, AskedOnce

(* A dispatch captures a query that was not captured before.               *)
LEMMA SeenKeeps ==
  ASSUME TypeOK, SeenInv, NEW status \in Statuses, NEW r \in Result, NEW q \in Nat,
         Keeps(status, r, q)
  PROVE  SeenInv'
<1> DEFINE k == Head(queue)
           c == [key |-> k, result |-> r]
           m == [call |-> k, form |-> "result", result |-> r, q |-> q]
<1>1. told \in Seq(Message) /\ tools \in Seq(Capture) /\ queue \in Seq(Calls) /\ queue # <<>>
  BY DEF TypeOK, Keeps, Says
<1>2. m \in Message /\ m.form = "result"
  BY <1>1, MessageFacts DEF Forms
<1>3. c \in Capture /\ c.key = k /\ c.result = r /\ k \notin DOMAIN seen
  BY DEF Keeps
<1>4. told' = Append(told, m) /\ tools' = Append(tools, c) /\ seen' = Remember(k, r)
  BY DEF Keeps, Says
<1> HIDE DEF c, m, k
<1>5. /\ DOMAIN told' = DOMAIN told \cup {Len(told) + 1}
      /\ \A i \in DOMAIN told : told'[i] = told[i]
      /\ told'[Len(told) + 1] = m
  BY <1>1, <1>2, <1>4, GrownFacts
<1>6. /\ DOMAIN tools' = DOMAIN tools \cup {Len(tools) + 1}
      /\ \A i \in DOMAIN tools : tools'[i] = tools[i]
      /\ tools'[Len(tools) + 1] = c
  BY <1>1, <1>3, <1>4, GrownFacts
<1>7. /\ DOMAIN seen' = DOMAIN seen \cup {k} /\ seen'[k] = r
      /\ \A x \in DOMAIN seen : seen'[x] = seen[x]
  BY <1>3, <1>4 DEF Remember
<1>8. \A i \in DOMAIN tools' : tools'[i].key \in DOMAIN seen'
  BY <1>3, <1>6, <1>7 DEF SeenInv
<1>9. ASSUME NEW x \in DOMAIN seen'
      PROVE  \E i \in DOMAIN tools' : tools'[i] = [key |-> x, result |-> seen'[x]]
  <2>1. CASE x \in DOMAIN seen
    <3>1. PICK i \in DOMAIN tools : tools[i] = [key |-> x, result |-> seen[x]]
      BY <2>1 DEF SeenInv
    <3>. QED BY <2>1, <3>1, <1>6, <1>7
  <2>2. CASE x = k
    BY <2>2, <1>6, <1>7 DEF c
  <2>. QED BY <1>7, <1>9, <2>1, <2>2
<1>10. ASSUME NEW i \in DOMAIN tools', NEW j \in DOMAIN tools', tools'[i].key = tools'[j].key
       PROVE  i = j
  <2>1. \A x \in DOMAIN tools : tools'[x].key # k
    BY <1>3, <1>6 DEF SeenInv
  <2>2. CASE i \in DOMAIN tools /\ j \in DOMAIN tools
    BY <2>2, <1>6, <1>10 DEF SeenInv, AskedOnce
  <2>3. CASE i = Len(tools) + 1 \/ j = Len(tools) + 1
    BY <2>1, <2>3, <1>3, <1>6, <1>10
  <2>. QED BY <1>6, <1>10, <2>2, <2>3
<1>11. ASSUME NEW n \in DOMAIN told', told'[n].form = "repeat"
       PROVE  \E i \in DOMAIN tools' :
                tools'[i] = [key |-> told'[n].call, result |-> told'[n].result]
  <2>1. n \in DOMAIN told /\ told'[n] = told[n]
    BY <1>2, <1>5, <1>11
  <2>2. PICK i \in DOMAIN tools : tools[i] = [key |-> told[n].call, result |-> told[n].result]
    BY <2>1, <1>11 DEF SeenInv, AskedOnce
  <2>. QED BY <2>1, <2>2, <1>6
<1>. QED BY <1>8, <1>9, <1>10, <1>11 DEF SeenInv, AskedOnce

(* No step lets the map and the capture drift apart.                       *)
LEMMA SeenNext == TypeOK /\ PhaseInv /\ SeenInv /\ [Next]_vars => SeenInv'
<1> SUFFICES ASSUME TypeOK, PhaseInv, SeenInv, [Next]_vars PROVE SeenInv'
  OBVIOUS
<1>1. ASSUME UNCHANGED <<told, seen, tools>> PROVE SeenInv'
  BY <1>1 DEF SeenInv, AskedOnce
<1>2. CASE Quiet
  BY <1>1, <1>2 DEF Quiet
<1>3. ASSUME NEW batch \in Batches, Asks(batch) PROVE SeenInv'
  BY <1>1, <1>3 DEF Asks
<1>4. CASE Silent("clarified", NoResult)
  BY <1>4, SeenSilent DEF Forms
<1>5. CASE Silent("failed", NoResult)
  BY <1>5, SeenSilent DEF Forms
<1>6. CASE Head(queue) \in DOMAIN seen /\ Silent("repeat", seen[Head(queue)])
  <2>1. seen[Head(queue)] \in Result
    BY <1>6 DEF TypeOK
  <2>. QED BY <1>6, <2>1, SeenSilent DEF Forms
<1>7. ASSUME NEW status \in Statuses, Dispatch(status) PROVE SeenInv'
  BY <1>7, DispatchKeeps, SeenKeeps
<1>. QED BY <1>2, <1>3, <1>4, <1>5, <1>6, <1>7, Kinds

-----------------------------------------------------------------------------
(* At the start nothing is finalized.                                      *)
LEMMA FinalInit == Init => FinalizedAsReturned
BY DEF Init, FinalizedAsReturned

(* Every way out finalizes once, with the outcome that is returned.        *)
LEMMA FinalNext == PhaseInv /\ FinalizedAsReturned /\ [Next]_vars => FinalizedAsReturned'
<1> SUFFICES ASSUME PhaseInv, FinalizedAsReturned, [Next]_vars PROVE FinalizedAsReturned'
  OBVIOUS
<1> USE DEF FinalizedAsReturned, talk, book
<1>1. ASSUME NEW o, NEW how, pc # "returned", Return(o, how),
             <<o, how>> \in {<<"success", "answer">>, <<"error", "error">>, <<"abort", "panic">>}
      PROVE  FinalizedAsReturned'
  <2>1. finals' = <<o>>
    BY <1>1 DEF Return
  <2>. QED BY <1>1, <2>1 DEF Return
<1>2. CASE Open
  BY <1>2 DEF Open
<1>3. CASE OpenFails
  BY <1>3 DEF OpenFails, PhaseInv
<1>4. CASE GenerateFails
  BY <1>1, <1>4 DEF GenerateFails, Generating
<1>5. CASE Answer
  BY <1>1, <1>5 DEF Answer, Generating
<1>6. ASSUME NEW batch \in Batches, NEW tok \in CallTokens, ReplyWithin(batch, tok)
      PROVE  FinalizedAsReturned'
  BY <1>6 DEF ReplyWithin, Reply, Generating
<1>7. ASSUME NEW batch \in Batches, NEW tok \in CallTokens, ReplyBeyond(batch, tok)
      PROVE  FinalizedAsReturned'
  BY <1>1, <1>7 DEF ReplyBeyond, Reply, Generating
<1>8. CASE AskUser \/ Repeat \/ DispatchFails \/ \E status \in Statuses : Dispatch(status)
  BY <1>8 DEF AskUser, Repeat, DispatchFails, Dispatch, Dispatching, Tell, NextCall
<1>9. CASE EndTurn
  BY <1>9 DEF EndTurn
<1>10. CASE OutOfTurns
  BY <1>1, <1>10 DEF OutOfTurns
<1>11. CASE Panic
  BY <1>1, <1>11 DEF Panic, Generating, NextCall, Dispatching
<1>12. CASE UNCHANGED vars
  BY <1>12 DEF vars
<1>. QED BY <1>2, <1>3, <1>4, <1>5, <1>6, <1>7, <1>8, <1>9, <1>10, <1>11, <1>12 DEF Next, Done

-----------------------------------------------------------------------------
(* Capturing one more call leaves the numbers of the earlier ones alone,   *)
(* and gives the next number to the new one if it is OK.                   *)
LEMMA RankNext ==
  ASSUME tools \in Seq(Capture), NEW c \in Capture, tools' = Append(tools, c)
  PROVE  /\ \A i \in DOMAIN tools : (Rank(i))' = Rank(i) /\ ((IsOK(i))' <=> IsOK(i))
         /\ (Rank(Len(tools)))' = Rank(Len(tools)) + (IF c.result.status = "OK" THEN 1 ELSE 0)
<1>1. /\ DOMAIN tools' = DOMAIN tools \cup {Len(tools) + 1}
      /\ \A i \in DOMAIN tools : tools'[i] = tools[i]
      /\ tools'[Len(tools) + 1] = c /\ Len(tools') = Len(tools) + 1
  BY GrownFacts
<1>2. DOMAIN tools = 1..Len(tools) /\ Len(tools) \in Nat
  BY LenProperties
<1>3. \A i \in DOMAIN tools : (IsOK(i))' <=> IsOK(i)
  BY <1>1 DEF IsOK
<1>4. ASSUME NEW n \in 0..Len(tools)
      PROVE  {j \in 1..n : (IsOK(j))'} = {j \in 1..n : IsOK(j)}
  <2>1. \A j \in 1..n : j \in DOMAIN tools
    BY <1>2, <1>4
  <2>. QED BY <2>1, <1>3
<1>5. ASSUME NEW i \in DOMAIN tools PROVE (Rank(i))' = Rank(i)
  <2>1. i \in 0..Len(tools)
    BY <1>2, <1>5
  <2>. QED BY <2>1, <1>4 DEF Rank
<1> DEFINE S == {j \in 1..Len(tools) : IsOK(j)}
           n == Len(tools) + 1
           T == {j \in 1..n : tools'[j].result.status = "OK"}
<1>6. IsFiniteSet(S) /\ n \notin S
  <2>1. IsFiniteSet(1..Len(tools))
    BY <1>2, FS_Interval
  <2>2. S \subseteq 1..Len(tools)
    OBVIOUS
  <2>. QED BY <2>1, <2>2, <1>2, FS_Subset
<1>7. 1..n = (1..Len(tools)) \cup {n}
  BY <1>2
<1>8. \A j \in 1..Len(tools) : tools'[j].result.status = "OK" <=> IsOK(j)
  BY <1>1, <1>2 DEF IsOK
<1>9. tools'[n].result.status = "OK" <=> c.result.status = "OK"
  BY <1>1
<1>10. T = S \cup (IF c.result.status = "OK" THEN {n} ELSE {})
  BY <1>7, <1>8, <1>9
<1>11. (Rank(Len(tools)))' = Cardinality(T)
  BY <1>1 DEF Rank, IsOK
<1>12. Rank(Len(tools)) = Cardinality(S) /\ Cardinality(S) \in Nat
  BY <1>6, FS_CardinalityType DEF Rank
<1> HIDE DEF S, n, T
<1>13. ASSUME c.result.status = "OK"
       PROVE  (Rank(Len(tools)))' = Rank(Len(tools)) + 1
  <2>1. T = S \cup {n}
    BY <1>10, <1>13
  <2>2. Cardinality(T) = Cardinality(S) + 1
    BY <2>1, <1>6, FS_AddElement
  <2>. QED BY <2>2, <1>11, <1>12
<1>14. ASSUME c.result.status # "OK"
       PROVE  (Rank(Len(tools)))' = Rank(Len(tools)) + 0
  <2>1. T = S
    BY <1>10, <1>14
  <2>. QED BY <2>1, <1>11, <1>12
<1>. QED BY <1>3, <1>5, <1>13, <1>14

(* At the start no result has been numbered.                               *)
LEMMA NumberInit == Init => QIndexConserved
<1> SUFFICES ASSUME Init PROVE QIndexConserved
  OBVIOUS
<1>1. tools = <<>> /\ told = <<>> /\ okSeq = 0
  BY DEF Init
<1>2. {j \in 1..0 : IsOK(j)} = {}
  OBVIOUS
<1>3. Rank(Len(tools)) = 0
  BY <1>1, <1>2, FS_EmptySet DEF Rank
<1>. QED BY <1>1, <1>3 DEF QIndexConserved

(* A message without a number changes nothing.                             *)
LEMMA NumberSilent ==
  ASSUME TypeOK, QIndexConserved, NEW form \in Forms, NEW result \in Result \cup {NoResult},
         Silent(form, result)
  PROVE  QIndexConserved'
<1>1. told \in Seq(Message) /\ queue \in Seq(Calls) /\ queue # <<>>
  BY DEF TypeOK, Silent, Says
<1> DEFINE m == [call |-> Head(queue), form |-> form, result |-> result, q |-> 0]
<1>2. m \in Message /\ m.q = 0
  BY <1>1, MessageFacts
<1>3. told' = Append(told, m) /\ tools' = tools /\ okSeq' = okSeq
  BY DEF Silent, Says
<1> HIDE DEF m
<1>4. /\ DOMAIN told' = DOMAIN told \cup {Len(told) + 1}
      /\ \A i \in DOMAIN told : told'[i] = told[i]
      /\ told'[Len(told) + 1] = m
  BY <1>1, <1>2, <1>3, GrownFacts
<1>5. \A n \in DOMAIN told' : told'[n].q # 0 => n \in DOMAIN told /\ told'[n] = told[n]
  BY <1>2, <1>4
<1>6. \A i : (Rank(i))' = Rank(i) /\ ((IsOK(i))' <=> IsOK(i))
  BY <1>3 DEF Rank, IsOK
<1>7. okSeq' = (Rank(Len(tools)))'
  BY <1>3 DEF Rank, IsOK, QIndexConserved
<1>. QED BY <1>3, <1>4, <1>5, <1>6, <1>7 DEF QIndexConserved

(* The number told with a captured success is the one the capture gives it.*)
LEMMA NumberKeeps ==
  ASSUME TypeOK, QIndexConserved, NEW status \in Statuses, NEW r \in Result, NEW q \in Nat,
         Keeps(status, r, q)
  PROVE  QIndexConserved'
<1> DEFINE k == Head(queue)
           c == [key |-> k, result |-> r]
           m == [call |-> k, form |-> "result", result |-> r, q |-> q]
           t == Len(tools) + 1
           n == Len(told) + 1
<1>1. told \in Seq(Message) /\ tools \in Seq(Capture) /\ queue \in Seq(Calls) /\ queue # <<>>
  BY DEF TypeOK, Keeps, Says
<1>2. m \in Message /\ m.q = q /\ m.call = k /\ m.result = r
  BY <1>1, MessageFacts DEF Forms
<1>3. /\ c \in Capture /\ c.key = k /\ c.result = r /\ r.status = status
      /\ q = (IF status = "OK" THEN okSeq + 1 ELSE 0)
      /\ okSeq' = (IF status = "OK" THEN okSeq + 1 ELSE okSeq)
  BY DEF Keeps
<1>4. told' = Append(told, m) /\ tools' = Append(tools, c)
  BY DEF Keeps, Says
<1>5. okSeq \in Nat /\ okSeq = Rank(Len(tools))
  BY DEF TypeOK, QIndexConserved
<1> HIDE DEF c, m, k
<1>6. /\ DOMAIN told' = DOMAIN told \cup {n} /\ told'[n] = m
      /\ \A i \in DOMAIN told : told'[i] = told[i]
  BY <1>1, <1>2, <1>4, GrownFacts
<1>7. /\ DOMAIN tools' = DOMAIN tools \cup {t} /\ tools'[t] = c /\ Len(tools') = t
      /\ \A i \in DOMAIN tools : tools'[i] = tools[i]
  BY <1>1, <1>3, <1>4, GrownFacts
<1>8. /\ \A i \in DOMAIN tools : (Rank(i))' = Rank(i) /\ ((IsOK(i))' <=> IsOK(i))
      /\ (Rank(Len(tools)))' = Rank(Len(tools)) + (IF c.result.status = "OK" THEN 1 ELSE 0)
  BY <1>1, <1>3, <1>4, RankNext
<1>9. okSeq' = (Rank(Len(tools)))'
  BY <1>3, <1>5, <1>8
<1>10. ASSUME NEW i, i = t
       PROVE  /\ (IsOK(i))' <=> status = "OK"
              /\ status = "OK" => (Rank(i))' = q
  <2>1. (IsOK(i))' <=> status = "OK"
    BY <1>3, <1>7, <1>10 DEF IsOK
  <2>2. (Rank(i))' = (Rank(Len(tools)))'
    BY <1>7, <1>10 DEF Rank
  <2>. QED BY <2>1, <2>2, <1>3, <1>9
<1>11. ASSUME NEW x \in DOMAIN told', told'[x].q # 0
       PROVE  \E i \in DOMAIN tools' :
                /\ (IsOK(i))' /\ (Rank(i))' = told'[x].q
                /\ tools'[i] = [key |-> told'[x].call, result |-> told'[x].result]
  <2>1. CASE x \in DOMAIN told
    <3>1. PICK i \in DOMAIN tools :
                 /\ IsOK(i) /\ Rank(i) = told[x].q
                 /\ tools[i] = [key |-> told[x].call, result |-> told[x].result]
      BY <2>1, <1>6, <1>11 DEF QIndexConserved
    <3>. QED BY <2>1, <3>1, <1>6, <1>7, <1>8
  <2>2. CASE x = n
    <3>1. q # 0 /\ status = "OK"
      BY <2>2, <1>2, <1>3, <1>6, <1>11
    <3>2. tools'[t] = [key |-> told'[x].call, result |-> told'[x].result] /\ told'[x].q = q
      BY <2>2, <1>2, <1>6, <1>7 DEF c
    <3>. QED BY <3>1, <3>2, <1>7, <1>10
  <2>. QED BY <1>6, <1>11, <2>1, <2>2
<1>12. ASSUME NEW i \in DOMAIN tools', (IsOK(i))'
       PROVE  \E x \in DOMAIN told' : told'[x].q = (Rank(i))' /\ told'[x].call = tools'[i].key
  <2>1. CASE i \in DOMAIN tools
    <3>1. PICK x \in DOMAIN told : told[x].q = Rank(i) /\ told[x].call = tools[i].key
      BY <2>1, <1>8, <1>12 DEF QIndexConserved
    <3>. QED BY <2>1, <3>1, <1>6, <1>7, <1>8
  <2>2. CASE i = t
    <3>1. status = "OK" /\ (Rank(i))' = q
      BY <2>2, <1>10, <1>12
    <3>. QED BY <2>2, <3>1, <1>2, <1>3, <1>6, <1>7
  <2>. QED BY <1>7, <1>12, <2>1, <2>2
<1>. QED BY <1>9, <1>11, <1>12 DEF QIndexConserved

(* No step lets the numbers of the loop and of the capture drift apart.    *)
LEMMA NumberNext == TypeOK /\ PhaseInv /\ QIndexConserved /\ [Next]_vars => QIndexConserved'
<1> SUFFICES ASSUME TypeOK, PhaseInv, QIndexConserved, [Next]_vars PROVE QIndexConserved'
  OBVIOUS
<1>1. ASSUME UNCHANGED <<told, okSeq, tools>> PROVE QIndexConserved'
  <2>1. \A i : (Rank(i))' = Rank(i) /\ ((IsOK(i))' <=> IsOK(i))
    BY <1>1 DEF Rank, IsOK
  <2>2. okSeq' = (Rank(Len(tools)))'
    BY <1>1 DEF Rank, IsOK, QIndexConserved
  <2>. QED BY <1>1, <2>1, <2>2 DEF QIndexConserved
<1>2. CASE Quiet
  BY <1>1, <1>2 DEF Quiet
<1>3. ASSUME NEW batch \in Batches, Asks(batch) PROVE QIndexConserved'
  BY <1>1, <1>3 DEF Asks
<1>4. CASE Silent("clarified", NoResult) \/ Silent("failed", NoResult)
  BY <1>4, NumberSilent DEF Forms
<1>5. CASE Head(queue) \in DOMAIN seen /\ Silent("repeat", seen[Head(queue)])
  <2>1. seen[Head(queue)] \in Result
    BY <1>5 DEF TypeOK
  <2>. QED BY <1>5, <2>1, NumberSilent DEF Forms
<1>6. ASSUME NEW status \in Statuses, Dispatch(status) PROVE QIndexConserved'
  BY <1>6, DispatchKeeps, NumberKeeps
<1>. QED BY <1>2, <1>3, <1>4, <1>5, <1>6, Kinds

-----------------------------------------------------------------------------
(* The inductive invariant: the conversation, the phases of the loop, the  *)
(* map of earlier results, the numbering and the finalization.             *)
IInv ==
  TypeOK /\ TurnInv /\ PhaseInv /\ TalkInv /\ SeenInv /\ FinalizedAsReturned /\ QIndexConserved

(* Every reachable state of a run satisfies the invariant.                 *)
THEOREM Inductive == Spec => []IInv
<1>1. Init => IInv
  BY TypeInit, TurnInit, PhaseInit, TalkInit, SeenInit, FinalInit, NumberInit DEF IInv
<1>2. IInv /\ [Next]_vars => IInv'
  BY TypeNext, TurnNext, PhaseNext, TalkNext, SeenNext, FinalNext, NumberNext DEF IInv
<1>. QED BY <1>1, <1>2, PTL DEF Spec

(* The variables of the loop have their types in every reachable state.    *)
THEOREM TypeCorrect == Spec => []TypeOK
<1>1. IInv => TypeOK
  BY DEF IInv
<1>. QED BY <1>1, Inductive, PTL

(* Every tool call gets one tool message, in order, before the next        *)
(* request to the model.                                                   *)
THEOREM CallsAnswered == Spec => []EveryCallAnswered
<1>1. IInv => EveryCallAnswered
  BY DEF IInv, TalkInv, PhaseInv, EveryCallAnswered
<1>. QED BY <1>1, Inductive, PTL

(* A query that has succeeded never reaches the tools again, and a repeat  *)
(* that shows a success shows the one the capture holds.                   *)
THEOREM SuccessesUnique == Spec => []NoSuccessRepeated
<1>1. TypeOK /\ AskedOnce => NoSuccessRepeated
  <2> SUFFICES ASSUME TypeOK, AskedOnce PROVE NoSuccessRepeated
    OBVIOUS
  <2>1. \A i, j \in DOMAIN tools : i < j => i # j
    BY DEF TypeOK
  <2>. QED BY <2>1 DEF AskedOnce, NoSuccessRepeated
<1>2. IInv => NoSuccessRepeated
  BY <1>1 DEF IInv, SeenInv
<1>. QED BY <1>2, Inductive, PTL

(* The trajectory is finalized once, as Run returns, with its outcome.     *)
THEOREM FinalizedOnce == Spec => []FinalizedAsReturned
<1>1. IInv => FinalizedAsReturned
  BY DEF IInv
<1>. QED BY <1>1, Inductive, PTL

(* The result ids told to the model are those the consumers of the capture *)
(* count on their own.                                                     *)
THEOREM IdsConserved == Spec => []QIndexConserved
<1>1. IInv => QIndexConserved
  BY DEF IInv
<1>. QED BY <1>1, Inductive, PTL

=============================================================================

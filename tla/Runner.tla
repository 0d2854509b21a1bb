------------------------------- MODULE Runner -------------------------------
(***************************************************************************)
(* One task of the agent (eino_agent/runner.go): the model is asked, the   *)
(* tool calls of its reply are answered one by one, each by the user, by a *)
(* repeat of an earlier result, or by a dispatch, until it answers in      *)
(* prose or a guard rail ends the run.  Dispatches that return are         *)
(* captured (tool_dispatch.go, trajectory_callback.go, trajcapture), and   *)
(* the consumers of a run number the captured successes q1, q2, ... on     *)
(* their own: the loop must have announced the same numbers to the model.  *)
(*                                                                         *)
(* A reply is an element of Batches: its tool calls, structured or found   *)
(* by the fallback detectors.  Every outcome of the calls out of the loop  *)
(* (model, clarifier, tools) is possible, including a panic.               *)
(***************************************************************************)
EXTENDS Integers, Sequences, FiniteSets

CONSTANTS
  Keys,        \* canonical keys of tool queries (canonicalToolKey)
  Clarify,     \* the call request_clarification
  Batches,     \* tool calls one reply may carry
  Failures,    \* result statuses other than OK
  CallTokens,  \* tokens one model call may report
  MaxTurns,    \* maxTurns
  MaxBudget    \* maxBudgetTokens (at llm's prices maxBudgetUSD is reached later)

ASSUME KeysAssumption   == Clarify \notin Keys
ASSUME BatchAssumption  == Batches \subseteq Seq(Keys \cup {Clarify}) \ {<<>>}
ASSUME StatusAssumption == "OK" \notin Failures
ASSUME BoundAssumption  == MaxTurns \in Nat \ {0} /\ MaxBudget \in Nat
ASSUME SpendAssumption  == CallTokens \subseteq Nat

VARIABLES
  pc,        \* "open", "generate", "calls" or "returned"
  turn,      \* completed turns
  queue,     \* calls of the current reply not yet answered
  asked,     \* every tool call of the conversation, in order
  told,      \* every tool message of the conversation, in order
  seen,      \* canonical key -> earlier result
  okSeq,     \* number of the last announced result
  spent,     \* spentTokens
  tools,     \* Capture.toolCalls
  finals,    \* the outcomes Finalize was called with
  ret        \* how Run ended: "none", "answer", "error" or "panic"

talk == <<queue, asked, told>>
book == <<seen, okSeq, tools>>
vars == <<pc, turn, talk, book, spent, finals, ret>>

-----------------------------------------------------------------------------
Calls    == Keys \cup {Clarify}
Statuses == {"OK"} \cup Failures

(* A tool result; `data' tells results apart.                              *)
Result  == [status : Statuses, data : Nat]
Capture == [key : Keys, result : Result]

(* A tool message: the call it answers, how, the result it shows, and the  *)
(* number it announces (0: none).                                          *)
NoResult == [status |-> "none", data |-> 0]
Forms    == {"clarified", "repeat", "failed", "result"}
Message  == [call : Calls, form : Forms, result : Result \cup {NoResult}, q : Nat]

TypeOK ==
  /\ pc \in {"open", "generate", "calls", "returned"}
  /\ turn \in 0..MaxTurns
  /\ queue \in Seq(Calls) /\ asked \in Seq(Calls) /\ told \in Seq(Message)
  /\ DOMAIN seen \subseteq Keys /\ seen \in [DOMAIN seen -> Result]
  /\ okSeq \in Nat /\ spent \in Nat
  /\ tools \in Seq(Capture)
  /\ finals \in Seq({"success", "error", "abort"})
  /\ ret \in {"none", "answer", "error", "panic"}

Init ==
  /\ pc = "open" /\ turn = 0
  /\ queue = <<>> /\ asked = <<>> /\ told = <<>>
  /\ seen = [k \in {} |-> NoResult] /\ okSeq = 0 /\ spent = 0
  /\ tools = <<>> /\ finals = <<>> /\ ret = "none"

-----------------------------------------------------------------------------
(* finalizeWarn, then return: a failing Finalize changes nothing here.     *)
Return(outcome, how) ==
  /\ finals' = Append(finals, outcome)
  /\ ret' = how
  /\ pc' = "returned"

Open ==
  /\ pc = "open"
  /\ pc' = "generate"
  /\ UNCHANGED <<turn, talk, book, spent, finals, ret>>

(* Without a trajectory there is no run, and nothing to finalize.          *)
OpenFails ==
  /\ pc = "open"
  /\ pc' = "returned" /\ ret' = "error"
  /\ UNCHANGED <<turn, talk, book, spent, finals>>

(* Mutant: the loop runs once too often.                                   *)
MutGenerating == pc = "generate" /\ turn <= MaxTurns

Generating == pc = "generate" /\ turn < MaxTurns

GenerateFails ==
  /\ Generating
  /\ Return("error", "error")
  /\ UNCHANGED <<turn, talk, book, spent>>

(* A reply without tool calls is the answer, whatever it cost.             *)
Answer ==
  /\ Generating
  /\ Return("success", "answer")
  /\ UNCHANGED <<turn, talk, book, spent>>

OverBudget(n) == n > MaxBudget

Reply(batch, tok) ==
  /\ Generating
  /\ spent' = spent + tok
  /\ asked' = asked \o batch
  /\ queue' = batch

ReplyWithin(batch, tok) ==
  /\ Reply(batch, tok)
  /\ ~OverBudget(spent + tok)
  /\ pc' = "calls"
  /\ UNCHANGED <<turn, told, book, finals, ret>>

ReplyBeyond(batch, tok) ==
  /\ Reply(batch, tok)
  /\ OverBudget(spent + tok)
  /\ Return("error", "error")
  /\ UNCHANGED <<turn, told, book>>

-----------------------------------------------------------------------------
(* The tool call at hand, answered by one tool message.                    *)
NextCall == pc = "calls" /\ queue # <<>>

Tell(form, result, q) ==
  /\ told' = Append(told, [call |-> Head(queue), form |-> form, result |-> result, q |-> q])
  /\ queue' = Tail(queue)
  /\ UNCHANGED <<pc, turn, asked, spent, finals, ret>>

(* Mutant: the clarification leaves its call unanswered.                   *)
MutAskUserSilent ==
  /\ NextCall /\ Head(queue) = Clarify
  /\ queue' = Tail(queue)
  /\ UNCHANGED <<pc, turn, asked, told, book, spent, finals, ret>>

AskUser ==
  /\ NextCall /\ Head(queue) = Clarify
  /\ Tell("clarified", NoResult, 0)
  /\ UNCHANGED book

Duplicate(k) == k \in DOMAIN seen

Repeat ==
  /\ NextCall /\ Head(queue) # Clarify
  /\ Duplicate(Head(queue))
  /\ Tell("repeat", seen[Head(queue)], 0)
  /\ UNCHANGED book

Dispatching == NextCall /\ Head(queue) # Clarify /\ ~Duplicate(Head(queue))

(* Dispatch returned an error: told to the model, not captured.            *)
DispatchFails ==
  /\ Dispatching
  /\ Tell("failed", NoResult, 0)
  /\ UNCHANGED book

Remember(k, r) == [x \in DOMAIN seen \cup {k} |-> IF x = k THEN r ELSE seen[x]]

(* recordedDispatch's OnEnd: the handler captures the response.            *)
Captured(k, r) == Append(tools, [key |-> k, result |-> r])

(* Mutant: every response gets a number.                                   *)
MutCounts(status) == TRUE

(* Dispatch returned a response: captured and remembered whatever its      *)
(* status, numbered only when it is OK.                                    *)
Counts(status) == status = "OK"

Dispatch(status) ==
  LET r == [status |-> status, data |-> Len(told) + 1]
      n == IF Counts(status) THEN okSeq + 1 ELSE okSeq
  IN  /\ Dispatching
      /\ tools' = Captured(Head(queue), r)
      /\ seen' = Remember(Head(queue), r)
      /\ okSeq' = n
      /\ Tell("result", r, IF Counts(status) THEN n ELSE 0)

(* Mutant: the loop over the calls comes round with no call left.          *)
MutEndTurn == pc = "calls" /\ queue = <<>> /\ UNCHANGED vars

(* Mutant: the map of earlier results is made anew in every turn.           *)
MutEndTurnForgets ==
  /\ pc = "calls" /\ queue = <<>>
  /\ turn' = turn + 1
  /\ pc' = "generate"
  /\ seen' = [k \in {} |-> NoResult]
  /\ UNCHANGED <<talk, okSeq, tools, spent, finals, ret>>

EndTurn ==
  /\ pc = "calls" /\ queue = <<>>
  /\ turn' = turn + 1
  /\ pc' = "generate"
  /\ UNCHANGED <<talk, book, spent, finals, ret>>

OutOfTurns ==
  /\ pc = "generate" /\ ~(turn < MaxTurns)
  /\ Return("error", "error")
  /\ UNCHANGED <<turn, talk, book, spent>>

(* Mutant: no deferred recover.                                            *)
MutPanic ==
  /\ \/ Generating
     \/ NextCall /\ Head(queue) = Clarify
     \/ Dispatching
  /\ pc' = "returned" /\ ret' = "panic"
  /\ UNCHANGED <<turn, talk, book, spent, finals>>

(* A panic of the model, the clarifier or a tool reaches the deferred      *)
(* recover, which finalizes and panics on.                                 *)
Panic ==
  /\ \/ Generating
     \/ NextCall /\ Head(queue) = Clarify
     \/ Dispatching
  /\ Return("abort", "panic")
  /\ UNCHANGED <<turn, talk, book, spent>>

Done == pc = "returned" /\ UNCHANGED vars

Next ==
  \/ Open
  \/ OpenFails
  \/ GenerateFails
  \/ Answer
  \/ \E batch \in Batches, tok \in CallTokens : ReplyWithin(batch, tok)
  \/ \E batch \in Batches, tok \in CallTokens : ReplyBeyond(batch, tok)
  \/ AskUser
  \/ Repeat
  \/ DispatchFails
  \/ \E status \in Statuses : Dispatch(status)
  \/ EndTurn
  \/ OutOfTurns
  \/ Panic
  \/ Done

Spec == Init /\ [][Next]_vars

(* The goroutine runs on, and the model, the user and the tools answer.    *)
FairSpec == Spec /\ WF_vars(Next)

-----------------------------------------------------------------------------
(* Properties                                                              *)

(* contract.OKCalls and AnalystResultID: the number the consumers of the   *)
(* captured calls give to the i-th of them, if it is OK.                   *)
IsOK(i) == tools[i].result.status = "OK"
Rank(i) == Cardinality({j \in 1..i : IsOK(j)})

(* Conservation of result ids (qindex_conservation_test.go): the result    *)
(* announced to the model as q{n} is the n-th successful call of the       *)
(* capture, and every successful call has been announced.                  *)
QIndexConserved ==
  /\ okSeq = Rank(Len(tools))
  /\ \A m \in DOMAIN told : told[m].q # 0 =>
       \E i \in DOMAIN tools :
         /\ IsOK(i) /\ Rank(i) = told[m].q
         /\ tools[i] = [key |-> told[m].call, result |-> told[m].result]
  /\ \A i \in DOMAIN tools : IsOK(i) =>
       \E m \in DOMAIN told : told[m].q = Rank(i) /\ told[m].call = tools[i].key

(* Every tool call is answered, once and in order, before the model is     *)
(* asked again ("API 强制每个都配 tool_result", runner.go:114).            *)
EveryCallAnswered ==
  /\ Len(asked) = Len(told) + Len(queue)
  /\ \A i \in DOMAIN told : told[i].call = asked[i]
  /\ \A i \in DOMAIN queue : queue[i] = asked[Len(told) + i]
  /\ pc = "generate" => queue = <<>>

(* A query that has succeeded is not dispatched again, however many turns  *)
(* and replies later it comes back, and a repeat that shows a success      *)
(* shows the one the capture holds for that very query.  Of a query whose  *)
(* result was not OK nothing is promised: runner.go:140 remembers that one *)
(* too, and answers with it, though line 134 speaks of a cache of          *)
(* successes.                                                              *)
NoSuccessRepeated ==
  /\ \A i, j \in DOMAIN tools : i < j /\ tools[i].key = tools[j].key => ~IsOK(i)
  /\ \A m \in DOMAIN told : told[m].form = "repeat" /\ told[m].result.status = "OK" =>
       \E i \in DOMAIN tools : tools[i] = [key |-> told[m].call, result |-> told[m].result]

(* The trajectory is finalized exactly when Run ends, once, and with the   *)
(* outcome its caller sees; only a run that never opened has none.         *)
FinalizedAsReturned ==
  /\ pc # "returned" => finals = <<>>
  /\ pc = "returned" =>
       \/ finals = <<>> /\ ret = "error" /\ asked = <<>>
       \/ finals = <<"success">> /\ ret = "answer"
       \/ finals = <<"error">> /\ ret = "error"
       \/ finals = <<"abort">> /\ ret = "panic"

(* Run ends, whatever the model keeps asking for.                          *)
Terminates == <>(pc = "returned")

=============================================================================

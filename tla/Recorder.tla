------------------------------ MODULE Recorder ------------------------------
(***************************************************************************)
(* The asynchronous trajectory recorder (trajectory/recorder.go): callers  *)
(* hand steps to a bounded channel under a mutex, one writer goroutine     *)
(* drains it into trajectory_steps, and Finalize closes the channel, waits *)
(* for the writer and back-fills the summary row of trajectories.          *)
(*                                                                         *)
(* Every step of the model is one section of the code that no other        *)
(* goroutine can observe half done.  The process may die at any point:     *)
(* what is left is the database, `row' and `steps'.                        *)
(***************************************************************************)
EXTENDS Integers, Sequences

CONSTANTS
  Callers,      \* goroutines that hold the Recorder
  Roles,        \* explicit roles of RecordLLMCallRole: "judge", "advisor"
  Tokens,       \* token counts an LLM call may report
  Outcomes,     \* what Finalize may be called with: success, error, abort
  Capacity,     \* channelBuffer
  MaxRecords,   \* bound: Record* calls in one behaviour
  MaxFinalizes  \* bound: Finalize calls in one behaviour

ASSUME CapacityAssumption == Capacity \in Nat \ {0}
ASSUME TokensAssumption   == Tokens \subseteq Nat
ASSUME BoundsAssumption   == MaxRecords \in Nat /\ MaxFinalizes \in Nat
ASSUME OutcomesAssumption == "in_progress" \notin Outcomes

VARIABLES
  row,          \* the row of trajectories
  steps,        \* the rows of trajectory_steps, in insertion order
  mu,           \* who holds recorder.mu: a set of at most one caller
  stepIndex,    \* next step_index
  closed,       \* Finalize has begun: enqueue refuses
  ch,           \* the channel's buffer
  chClosed,     \* close(r.ch) was executed
  once,         \* closeOnce: "fresh", "running" or "done"
  done,         \* close(r.done): the writer goroutine has returned
  hand,         \* the step the writer took and has not yet counted, if any
  dropped,
  writeFailed,
  totalTokens,
  stepCount,
  pc,           \* where each caller is
  pend,         \* the step the holder of mu is about to send, if any
  fin,          \* the arguments and loaded counters of each caller's Finalize
  recorded,     \* history: number of Record* calls that took effect
  finalized,    \* history: number of Finalize calls begun
  alive         \* the process has not died

database  == <<row, steps>>
shared    == <<mu, stepIndex, closed, ch, chClosed, once, done>>
writer    == <<hand, writeFailed, totalTokens, stepCount>>
locals    == <<pc, pend, fin>>
history   == <<recorded, finalized>>
vars == <<database, shared, writer, dropped, locals, history, alive>>

-----------------------------------------------------------------------------
(* What the four Record* methods hand over: the agent's own LLM calls,     *)
(* those of another role, and tool calls and reasoning without role or     *)
(* tokens.                                                                 *)
Payload ==
  [type : {"llm_call"}, role : {"agent"} \cup Roles, tok : Tokens]
    \cup [type : {"tool_call", "reasoning"}, role : {""}, tok : {0}]

Step == [idx : Nat, load : Payload]

(* judge and advisor calls stay out of the totals. *)
CountsInTotals(load) == load.role \in {"", "agent"}

FinPcs == {"fin_once", "fin_mark", "fin_close", "fin_wait", "fin_load", "fin_update"}
Closing(c) == pc[c] \in {"fin_mark", "fin_close", "fin_wait"}

FinRecord == [outcome : Outcomes \cup {"in_progress"}, dropped : Nat, failed : Nat]
Row == [outcome : Outcomes \cup {"in_progress"},
        tokens : Nat, steps : Nat, dropped : Nat, failed : Nat]

TypeOK ==
  /\ row \in Row
  /\ steps \in Seq(Step)
  /\ mu \in SUBSET Callers
  /\ stepIndex \in Nat
  /\ closed \in BOOLEAN /\ chClosed \in BOOLEAN /\ done \in BOOLEAN
  /\ ch \in Seq(Step) /\ Len(ch) <= Capacity
  /\ once \in {"fresh", "running", "done"}
  /\ hand \in Seq(Step) /\ Len(hand) <= 1
  /\ dropped \in Nat /\ writeFailed \in Nat
  /\ totalTokens \in Nat /\ stepCount \in Nat
  /\ pc \in [Callers -> {"idle", "send"} \cup FinPcs]
  /\ pend \in Seq(Step) /\ Len(pend) <= 1
  /\ fin \in [Callers -> FinRecord]
  /\ recorded \in Nat /\ finalized \in Nat
  /\ alive \in BOOLEAN

(* New has inserted the placeholder row and started writeLoop. *)
Init ==
  /\ row = [outcome |-> "in_progress", tokens |-> 0, steps |-> 0,
            dropped |-> 0, failed |-> 0]
  /\ steps = <<>>
  /\ mu = {} /\ stepIndex = 0 /\ closed = FALSE
  /\ ch = <<>> /\ chClosed = FALSE /\ once = "fresh" /\ done = FALSE
  /\ hand = <<>> /\ dropped = 0 /\ writeFailed = 0
  /\ totalTokens = 0 /\ stepCount = 0
  /\ pc = [c \in Callers |-> "idle"]
  /\ pend = <<>>
  /\ fin = [c \in Callers |-> [outcome |-> "in_progress", dropped |-> 0, failed |-> 0]]
  /\ recorded = 0 /\ finalized = 0
  /\ alive = TRUE

-----------------------------------------------------------------------------
(* Every action is taken by a live process. *)
Running == alive /\ UNCHANGED alive

(* enqueue *)

MuFree == mu = {}

(* Mutant: a late step is refused without being counted.                   *)
MutEnqueueClosed(c) ==
  /\ Running
  /\ pc[c] = "idle" /\ recorded < MaxRecords
  /\ MuFree /\ closed
  /\ recorded' = recorded + 1
  /\ UNCHANGED <<database, shared, writer, dropped, locals, finalized>>

(* A step that arrives after Finalize has begun is counted, not queued. *)
EnqueueClosed(c) ==
  /\ Running
  /\ pc[c] = "idle" /\ recorded < MaxRecords
  /\ MuFree /\ closed
  /\ dropped' = dropped + 1
  /\ recorded' = recorded + 1
  /\ UNCHANGED <<database, shared, writer, locals, finalized>>

(* Mutant: the index is not advanced.                                      *)
MutIndexAfter(i) == i

(* The index is taken before the send, so a step that does not fit leaves  *)
(* a gap.                                                                  *)
IndexAfter(i) == i + 1

EnqueueOpen(c, load) ==
  /\ Running
  /\ pc[c] = "idle" /\ recorded < MaxRecords
  /\ MuFree /\ ~closed
  /\ mu' = {c}
  /\ pend' = <<[idx |-> stepIndex, load |-> load]>>
  /\ stepIndex' = IndexAfter(stepIndex)
  /\ pc' = [pc EXCEPT ![c] = "send"]
  /\ recorded' = recorded + 1
  /\ UNCHANGED <<database, closed, ch, chClosed, once, done, writer, dropped, fin, finalized>>

(* Mutant: one slot too many.                                              *)
MutHasRoom == Len(ch) <= Capacity

HasRoom == Len(ch) < Capacity

(* Mutant: a blocking send.                                                *)
MutSendOrDrop(c) ==
  /\ Running
  /\ pc[c] = "send" /\ HasRoom
  /\ ch' = Append(ch, Head(pend))
  /\ pend' = <<>> /\ mu' = {}
  /\ pc' = [pc EXCEPT ![c] = "idle"]
  /\ UNCHANGED <<database, stepIndex, closed, chClosed, once, done, writer, dropped, fin, history>>

(* select { case ch <- s: default: dropped++ }, then the deferred Unlock.  *)
SendOrDrop(c) ==
  /\ Running
  /\ pc[c] = "send"
  /\ \/ HasRoom /\ ch' = Append(ch, Head(pend)) /\ UNCHANGED dropped
     \/ ~HasRoom /\ dropped' = dropped + 1 /\ UNCHANGED ch
  /\ pend' = <<>>
  /\ mu' = {}
  /\ pc' = [pc EXCEPT ![c] = "idle"]
  /\ UNCHANGED <<database, stepIndex, closed, chClosed, once, done, writer, fin, history>>

-----------------------------------------------------------------------------
(* writeLoop *)

Receive ==
  /\ Running
  /\ hand = <<>> /\ ch # <<>>
  /\ hand' = <<Head(ch)>>
  /\ ch' = Tail(ch)
  /\ UNCHANGED <<database, mu, stepIndex, closed, chClosed, once, done, writeFailed,
                 totalTokens, stepCount, dropped, locals, history>>

(* persistStep: a failed INSERT is counted and the loop goes on; the step  *)
(* enters the totals either way.                                           *)
Persist ==
  /\ Running
  /\ hand # <<>>
  /\ \/ steps' = Append(steps, Head(hand)) /\ UNCHANGED writeFailed
     \/ writeFailed' = writeFailed + 1 /\ UNCHANGED steps
  /\ totalTokens' = totalTokens
       + (IF CountsInTotals(Head(hand).load) THEN Head(hand).load.tok ELSE 0)
  /\ stepCount' = stepCount + 1
  /\ hand' = <<>>
  /\ UNCHANGED <<row, shared, dropped, locals, history>>

(* Mutants: the writer leaves when the channel is closed but not drained,  *)
(* or does not report its end after a failed INSERT.                       *)
MutDrainedEarly  == chClosed
MutDrainedIfOk   == chClosed /\ ch = <<>> /\ hand = <<>> /\ writeFailed = 0

(* `for s := range r.ch' ends when the channel is closed and empty. *)
Drained == chClosed /\ ch = <<>> /\ hand = <<>>

WriterReturn ==
  /\ Running
  /\ Drained /\ ~done
  /\ done' = TRUE
  /\ UNCHANGED <<database, mu, stepIndex, closed, ch, chClosed, once, writer,
                 dropped, locals, history>>

Writer == Receive \/ Persist \/ WriterReturn

-----------------------------------------------------------------------------
(* Finalize *)

FinCall(c, o) ==
  /\ Running
  /\ pc[c] = "idle" /\ finalized < MaxFinalizes
  /\ fin' = [fin EXCEPT ![c] = [outcome |-> o, dropped |-> 0, failed |-> 0]]
  /\ pc' = [pc EXCEPT ![c] = "fin_once"]
  /\ finalized' = finalized + 1
  /\ UNCHANGED <<database, shared, writer, dropped, pend, recorded>>

(* closeOnce.Do: the first caller runs the body, the others block until it *)
(* has returned.                                                           *)
FinOnce(c) ==
  /\ Running
  /\ pc[c] = "fin_once"
  /\ \/ once = "fresh" /\ once' = "running" /\ pc' = [pc EXCEPT ![c] = "fin_mark"]
     \/ once = "done" /\ pc' = [pc EXCEPT ![c] = "fin_load"] /\ UNCHANGED once
  /\ UNCHANGED <<database, mu, stepIndex, closed, ch, chClosed, done, writer, dropped,
                 pend, fin, history>>

(* Mutant: Finalize does not take mu.                                      *)
MutMayMark == TRUE

MayMark == MuFree

(* Mutant: `closed' is not set.                                            *)
MutFinMark(c) ==
  /\ Running
  /\ pc[c] = "fin_mark" /\ MayMark
  /\ pc' = [pc EXCEPT ![c] = "fin_close"]
  /\ UNCHANGED <<database, shared, writer, dropped, pend, fin, history>>

FinMark(c) ==
  /\ Running
  /\ pc[c] = "fin_mark" /\ MayMark
  /\ closed' = TRUE
  /\ pc' = [pc EXCEPT ![c] = "fin_close"]
  /\ UNCHANGED <<database, mu, stepIndex, ch, chClosed, once, done, writer, dropped,
                 pend, fin, history>>

FinClose(c) ==
  /\ Running
  /\ pc[c] = "fin_close"
  /\ chClosed' = TRUE
  /\ pc' = [pc EXCEPT ![c] = "fin_wait"]
  /\ UNCHANGED <<database, mu, stepIndex, closed, ch, once, done, writer, dropped,
                 pend, fin, history>>

(* Mutant: Finalize does not wait for the writer.                          *)
MutMayPassWait == TRUE

MayPassWait == done

FinWait(c) ==
  /\ Running
  /\ pc[c] = "fin_wait" /\ MayPassWait
  /\ once' = "done"
  /\ pc' = [pc EXCEPT ![c] = "fin_load"]
  /\ UNCHANGED <<database, mu, stepIndex, closed, ch, chClosed, done, writer, dropped,
                 pend, fin, history>>

FinLoad(c) ==
  /\ Running
  /\ pc[c] = "fin_load"
  /\ fin' = [fin EXCEPT ![c] = [outcome |-> @.outcome, dropped |-> dropped, failed |-> writeFailed]]
  /\ pc' = [pc EXCEPT ![c] = "fin_update"]
  /\ UNCHANGED <<database, shared, writer, dropped, pend, history>>

(* The UPDATE of the summary row; it may fail, and then Finalize only      *)
(* returns the error.                                                      *)
Summary(c) == [outcome |-> fin[c].outcome, tokens |-> totalTokens, steps |-> stepCount,
               dropped |-> fin[c].dropped, failed |-> fin[c].failed]

FinUpdate(c) ==
  /\ Running
  /\ pc[c] = "fin_update"
  /\ \/ row' = Summary(c)
     \/ UNCHANGED row
  /\ pc' = [pc EXCEPT ![c] = "idle"]
  /\ UNCHANGED <<steps, shared, writer, dropped, pend, fin, history>>

-----------------------------------------------------------------------------
Crash ==
  /\ alive /\ alive' = FALSE
  /\ UNCHANGED <<database, shared, writer, dropped, locals, history>>

(* Nothing is left to do: all calls the bounds allow have returned and the *)
(* writer waits or is gone; or the process is dead.                        *)
Quiescent ==
  /\ \/ ~alive
     \/ /\ \A c \in Callers : pc[c] = "idle"
        /\ recorded = MaxRecords /\ finalized = MaxFinalizes
        /\ hand = <<>> /\ ch = <<>> /\ done = chClosed
  /\ UNCHANGED vars

Next ==
  \/ \E c \in Callers : EnqueueClosed(c)
  \/ \E c \in Callers, load \in Payload : EnqueueOpen(c, load)
  \/ \E c \in Callers : SendOrDrop(c)
  \/ \E c \in Callers, o \in Outcomes : FinCall(c, o)
  \/ \E c \in Callers : FinOnce(c)
  \/ \E c \in Callers : FinMark(c)
  \/ \E c \in Callers : FinClose(c)
  \/ \E c \in Callers : FinWait(c)
  \/ \E c \in Callers : FinLoad(c)
  \/ \E c \in Callers : FinUpdate(c)
  \/ Receive
  \/ Persist
  \/ WriterReturn
  \/ Crash
  \/ Quiescent

Spec == Init /\ [][Next]_vars

(* A caller inside a method is scheduled and sync.Mutex is starvation-free *)
(* (strong fairness of the one step that takes the mutex again).           *)
CallerFairness ==
  \A c \in Callers :
    /\ WF_vars(SendOrDrop(c)) /\ WF_vars(FinOnce(c)) /\ SF_vars(FinMark(c))
    /\ WF_vars(FinClose(c)) /\ WF_vars(FinWait(c)) /\ WF_vars(FinLoad(c))
    /\ WF_vars(FinUpdate(c))

(* Database calls return: what Finalize's wait relies on.                  *)
WriterFairness == WF_vars(Receive \/ Persist \/ WriterReturn)

FairSpec == Spec /\ CallerFairness

-----------------------------------------------------------------------------
(* Properties                                                              *)

Ascending(s) == \A i, j \in DOMAIN s : i < j => s[i].idx < s[j].idx
Before(s, t) == \A i \in DOMAIN s, j \in DOMAIN t : s[i].idx < t[j].idx
Below(s, n)  == \A i \in DOMAIN s : s[i].idx < n

(* trajectory_steps replays the run: whatever is lost, the rows carry      *)
(* strictly increasing step_index in the order of insertion, and no step   *)
(* still under way would be inserted before one that is stored.            *)
StepsInOrder ==
  /\ Ascending(steps)
  /\ Before(steps, hand) /\ Before(steps, ch) /\ Before(steps, pend)

(* No step vanishes unaccounted: every Record* call that took effect is    *)
(* stored, counted as write-failed or dropped, or still in the pipeline.   *)
NothingLost ==
  recorded = Len(steps) + writeFailed + dropped + Len(hand) + Len(ch) + Len(pend)

(* The comment on `closed' (recorder.go:53): no enqueue that passed the    *)
(* check can reach the send after close(r.ch), which would panic; nor is   *)
(* the channel closed twice.                                               *)
NoSendOnClosed ==
  /\ chClosed => pend = <<>>
  /\ \A c \in Callers : pc[c] = "fin_close" => ~chClosed

(* A finalized row tells the truth about the steps table: its step_count   *)
(* is the rows stored plus the failures it reports, nothing is added after *)
(* it, and it reports no more drops than happened.                         *)
SummaryMatchesSteps ==
  row.outcome # "in_progress" =>
    /\ row.steps = Len(steps) + row.failed
    /\ row.dropped <= dropped
    /\ hand = <<>> /\ ch = <<>>

(* The database only grows: a stored step is never changed or removed, and *)
(* the summary is written only once the writer is gone and the steps are   *)
(* final.                                                                  *)
StoreDiscipline ==
  [][ /\ Len(steps) <= Len(steps')
      /\ \A i \in DOMAIN steps : steps'[i] = steps[i]
      /\ row' # row => done /\ steps' = steps ]_database

(* The recorder implements the append-only log of TrajectoryLog: pending   *)
(* is the step under way to the channel, the channel and the writer's.     *)
Elements(s) == {s[i] : i \in DOMAIN s}

Log == INSTANCE TrajectoryLog WITH
  log <- steps, pending <- Elements(hand) \cup Elements(ch) \cup Elements(pend),
  sealed <- closed, summary <- row

ImplementsLog == Log!LSpec

(* A Record* call returns even if the writer never runs again (a database  *)
(* call that hangs): recording never blocks the agent.                     *)
RecordReturns == \A c \in Callers : pc[c] = "send" ~> (pc[c] = "idle" \/ ~alive)

(* Finalize returns, to the caller that runs the body and to every other.  *)
FinalizeReturns ==
  WriterFairness => \A c \in Callers : pc[c] \in FinPcs ~> (pc[c] = "idle" \/ ~alive)

(* No caller hangs: recording waits for nobody, finalizing only for the    *)
(* writer.                                                                 *)
CallsReturn == RecordReturns /\ FinalizeReturns

=============================================================================

------------------------------ MODULE Captured ------------------------------
(***************************************************************************)
(* What the tools of a task returned, as trajcapture/capture.go keeps it   *)
(* for the evaluators and the advisor: the calls in the order of their     *)
(* results, and the advice that refers to them.                            *)
(***************************************************************************)
EXTENDS DataCorrectness, FiniteSets

CONSTANTS
  Calls,       \* tool calls with their results
  TaskFiles,   \* what the task files say: [minClaims, spec]
  Drafts,      \* drafts of the advisor's model
  MaxCalls     \* calls in a run

IsSequence(s) == s \in Seq(ToSet(s))

(* The assertions about a row that name no columns, one block's.           *)
ValueBinds(block) == {block.table[w].expectValues : w \in DOMAIN block.table}
Blocks(spec) == {spec.top} \cup ToSet(spec.anyOf)

ASSUME CapturedAssumption ==
  /\ Calls \subseteq [name : STRING, status : STRING, err : BOOLEAN, json : Nodes]
  /\ \A t \in TaskFiles : \A block \in Blocks(t.spec) : \A binds \in ValueBinds(block) :
       /\ IsSequence(binds)
       /\ \A b \in DOMAIN binds : IsSequence(binds[b].candidates) /\ binds[b].value \in Fractions
  /\ \A draft \in Drafts : draft \in Seq(Int)

VARIABLES
  task,
  calls        \* what the capture holds

captureVars == <<task, calls>>

CaptureInit == task \in TaskFiles /\ calls = <<>>

RecordToolCall(call) ==
  /\ Len(calls) < MaxCalls
  /\ calls' = Append(calls, call)
  /\ UNCHANGED task

(* Every task is run with a capture of its own.                            *)
NewCapture(t) == task' = t /\ calls' = <<>>

CaptureNext ==
  \/ \E call \in Calls : RecordToolCall(call)
  \/ \E t \in TaskFiles : NewCapture(t)

CaptureSpec == CaptureInit /\ [][CaptureNext]_captureVars

-----------------------------------------------------------------------------
(* The advisor (advisor/advisor.go) drafts recommendations from the calls  *)
(* of the run.  A draft is the sequence of the results its items refer to, *)
(* 0 for a reference that is no q{N}; NoDraft is a call that failed.       *)
NoDraft == <<-1>>

AnalystResults(run) == DOMAIN OKCalls(run)

Advise(run, draft) ==
  IF draft = NoDraft THEN NoDraft
  ELSE Filtered(draft, {i \in DOMAIN draft : draft[i] \in AnalystResults(run)})

AdvisorGrounding(run, draft, minItems) ==
  /\ draft # NoDraft
  /\ ToSet(draft) \subseteq DOMAIN OKCalls(run)
  /\ Len(draft) >= minItems

-----------------------------------------------------------------------------
(* Properties                                                              *)

(* Calls that failed, wherever they come between the others, change no     *)
(* result that an answer can cite ("retries do not count",                 *)
(* attribution.go:63), nor the verdict on the draft of an advisor: what he *)
(* saw as a result the gate takes for one.                                 *)
Failing == {call \in Calls : call.status # "OK"}
FailedCallsShiftNothing ==
  \A i \in 1..(Len(calls) + 1), call \in Failing :
    LET retried == InsertAt(calls, i, call) IN
    /\ OKCalls(retried) = OKCalls(calls)
    /\ \A draft \in Drafts :
         LET kept == Advise(calls, draft) IN
         /\ Advise(retried, draft) = kept
         /\ AdvisorGrounding(retried, kept, 0) <=> draft # NoDraft

(* Taking the first free cell for each value finds a cell of its own for   *)
(* every value whenever there is such a choice at all, provided that no    *)
(* cell can be within the tolerance of two different values.               *)
Apart(binds) ==
  \A b, c \in ToSet(binds) :
    LET off == Minus(b.value, c.value) IN off[1] = 0 \/ Abs(off[1]) * Precision > 2 * off[2]

(* Not farther from a value than the tolerance, on either side of it.      *)
Near(node, value) ==
  LET tolerance == <<1, Precision>> IN
  /\ node.is = "number"
  /\ Leq(Minus(value, tolerance), node.v) /\ Leq(node.v, Plus(value, tolerance))

(* The column under a name is the last of that name, and in the row.       *)
Under(columns, row, n, name) ==
  /\ n \in DOMAIN row \cap DOMAIN columns /\ columns[n] = name
  /\ \A m \in DOMAIN columns : columns[m] = name => m <= n

HasMatching(columns, row, binds) ==
  \E cell \in [DOMAIN binds -> DOMAIN row] :
    \A b \in DOMAIN binds :
      LET names == binds[b].candidates
          named == {c \in DOMAIN names : \E n \in DOMAIN row : Under(columns, row, n, names[c])}
      IN /\ Near(row[cell[b]], binds[b].value)
         /\ named # {} => Under(columns, row, cell[b], names[Min(named)])
         /\ named = {} => \A o \in DOMAIN binds \ {b} : cell[o] # cell[b]

ValuesMatched ==
  \A i \in DOMAIN calls, block \in Blocks(task.spec) :
    LET table == Field(calls[i].json, "table") IN
    \A binds \in ValueBinds(block) : Apart(binds) /\ table # Nowhere =>
      \A r \in DOMAIN Items(Field(table, "rows")) :
        LET row == Items(Items(Field(table, "rows"))[r]) IN
        CheckExpectValues(Columns(table), row, binds) <=> HasMatching(Columns(table), row, binds)

=============================================================================

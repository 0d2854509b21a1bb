-------------------------------- MODULE Audit -------------------------------
(***************************************************************************)
(* The audit of stored trajectories, cmd/attr-audit -resolve, beside the   *)
(* grading of the same answers while they were fresh: it reads the tool    *)
(* calls back from the steps the recorder stored (trajectory/recorder.go), *)
(* as they were redacted on the way (trajectory/redact.go), and evaluates  *)
(* the claims again.                                                       *)
(*                                                                         *)
(* How steps get lost is the subject of Recorder; here some may be.  A     *)
(* trajectory whose answer was not stored is not audited, and left out.    *)
(***************************************************************************)
EXTENDS Grading

CONSTANTS
  MaxSampleRows,   \* maxSampleRows, 10 in the code
  Height,          \* how many levels a JSON value has
  Private,         \* texts that look like a player's name or number
  MaxLost          \* bound: steps lost in a run

Placeholder == "<player>"    \* what redactString puts in their place

ASSUME AuditAssumption ==
  /\ MaxSampleRows \in Nat \ {0} /\ MaxLost \in Nat /\ Placeholder \in Texts
  /\ Height \in [Nodes -> Nat]
  /\ \A node \in Nodes : node.is \in {"list", "object"} =>
       \A part \in DOMAIN node.v : Height[node.v[part]] < Height[node]

VARIABLES
  steps,     \* the outputs of the stored tool_call steps, in their order
  lost,      \* history: the calls whose steps were dropped or not written
  verdicts   \* what the audit found about each claim, or NotAudited

auditVars == <<gradingVars, steps, lost, verdicts>>

NotAudited == <<"not audited">>

-----------------------------------------------------------------------------
(* Redact: texts that look private become one and the same text, and of    *)
(* every list the first elements stay.                                     *)
RedactText(text) == IF text \in Private THEN Placeholder ELSE text

Sample(items) == SubSeq(items, 1, Min({MaxSampleRows, Len(items)}))

RedactValue[node \in Nodes] ==
  IF node.is = "text" THEN Text(RedactText(node.v))
  ELSE IF node.is = "list" THEN List([i \in DOMAIN Sample(node.v) |-> RedactValue[node.v[i]]])
  ELSE IF node.is = "object" THEN Object([name \in DOMAIN node.v |-> RedactValue[node.v[name]]])
  ELSE node

Redact(call) == [call EXCEPT !.json = RedactValue[@]]

(* The answer is one text to the recorder: what its anchors name goes too. *)
RedactPath(path) ==
  [i \in DOMAIN path |->
     Seg(RedactText(path[i].name), [k \in DOMAIN path[i].keys |-> RedactText(path[i].keys[k])])]

RedactAnchor(anchor) == [p \in DOMAIN anchor |-> [anchor[p] EXCEPT !.path = RedactPath(@)]]

RedactClaim(claim) == Claim(RedactAnchor(claim.anchor), claim.number, claim.marks)

FinalOutput(a) == [block |-> a.block, claims |-> [i \in DOMAIN a.claims |-> RedactClaim(a.claims[i])]]

-----------------------------------------------------------------------------
AuditInit == GradingInit /\ steps = <<>> /\ lost = {} /\ verdicts = NotAudited

(* The step of a call is stored, or dropped, or cannot be written.         *)
Record(call) ==
  /\ ToolCall(call)
  /\ \/ steps' = Append(steps, Redact(call)) /\ UNCHANGED lost
     \/ Cardinality(lost) < MaxLost /\ lost' = lost \cup {Len(calls')} /\ UNCHANGED steps
  /\ UNCHANGED verdicts

Grade(a) == Evaluate(a) /\ UNCHANGED <<steps, lost, verdicts>>

(* Mutant: the steps are read back in the reverse order.                   *)
MutLoadToolCalls == Reverse(steps)

(* The stored steps by their index; that an index is missing goes unseen.  *)
LoadToolCalls == steps

Tally(verdict) == IF verdict = "derived_unsupported" THEN "unresolvable" ELSE verdict

(* The claims of the stored answer are evaluated against the stored calls. *)
Audit ==
  /\ answer # NoAnswer /\ verdicts = NotAudited
  /\ LET claims == ParseAttributionOutput(FinalOutput(answer)) IN
     /\ claims # <<>>
     /\ verdicts' = [i \in DOMAIN claims |-> Tally(EvalAnchor(LoadToolCalls, claims[i]))]
  /\ UNCHANGED <<gradingVars, steps, lost>>

Another(t) ==
  /\ NextTask(t)
  /\ steps' = <<>> /\ lost' = {} /\ verdicts' = NotAudited

AuditNext ==
  \/ \E call \in Calls : Record(call)
  \/ \E a \in Answers : Grade(a)
  \/ Audit
  \/ \E t \in TaskFiles : Another(t)

AuditSpec == AuditInit /\ [][AuditNext]_auditVars

-----------------------------------------------------------------------------
(* Properties                                                              *)

Cites(anchor) == {anchor[p] : p \in {p \in DOMAIN anchor : anchor[p].op = ""}}

Names(cell) == UNION {{cell.path[i].name} \cup ToSet(cell.path[i].keys) : i \in DOMAIN cell.path}

(* No list in it, at any depth, is longer than what is kept of it.         *)
Short[node \in Nodes] ==
  CASE node.is = "list"   -> Len(node.v) <= MaxSampleRows /\ \A i \in DOMAIN node.v : Short[node.v[i]]
    [] node.is = "object" -> \A name \in DOMAIN node.v : Short[node.v[name]]
    [] OTHER              -> TRUE

Live(i) == Tally(EvalAnchor(calls, answer.claims[i]))
Audited == verdicts # NotAudited

(* The q{N} of the calls before the first that was lost.                   *)
Numbered ==
  LET before == {n \in DOMAIN calls : \A l \in lost : n < l}
  IN 1..Cardinality({n \in before : calls[n].status = "OK"})

(* What redaction and losses leave of a run never turns the audit against  *)
(* a claim that it can still check: a claim about single cells of calls    *)
(* before the first lost one, none of them found by a private name, has    *)
(* the verdict it had while fresh, or cannot be resolved any more, and     *)
(* that only if some list was cut (main.go:65, redact.go:28).              *)
ShortenedNeverContradicts ==
  Audited =>
    \A i \in DOMAIN verdicts :
      LET cells == Cites(answer.claims[i].anchor) IN
      (\A c \in cells : ~WholeColumn(c) /\ c.q \in Numbered /\ Names(c) \cap (Private \cup {Placeholder}) = {}) =>
        \/ verdicts[i] = Live(i)
        \/ /\ verdicts[i] = "unresolvable"
           /\ \E c \in cells : ~Short[OKCalls(calls)[c.q].json]

=============================================================================

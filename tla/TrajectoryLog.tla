---------------------------- MODULE TrajectoryLog ---------------------------
(***************************************************************************)
(* What the trajectory recorder promises, without goroutines, mutex or     *)
(* channel: an append-only log of numbered steps.  Accepted steps are      *)
(* pending until they are stored, oldest first, or lost; sealing ends      *)
(* acceptance; a summary is written only when the log is sealed and        *)
(* nothing is pending, so nothing is stored after it.                      *)
(***************************************************************************)
EXTENDS Integers, Sequences

VARIABLES
  log,      \* the stored steps, in order
  pending,  \* the set of accepted steps neither stored nor lost
  sealed,   \* no step is accepted any more
  summary   \* the summary row

lvars == <<log, pending, sealed, summary>>

Stored == {log[i] : i \in DOMAIN log}

LInit ==
  /\ log = <<>> /\ pending = {} /\ sealed = FALSE
  /\ summary.outcome = "in_progress"

Accept(s) ==
  /\ ~sealed
  /\ \A t \in pending \cup Stored : t.idx < s.idx
  /\ pending' = pending \cup {s}
  /\ UNCHANGED <<log, sealed, summary>>

Oldest(s) == s \in pending /\ \A t \in pending : s.idx <= t.idx

Store(s) ==
  /\ Oldest(s)
  /\ log' = Append(log, s)
  /\ pending' = pending \ {s}
  /\ UNCHANGED <<sealed, summary>>

Lose(s) ==
  /\ s \in pending
  /\ pending' = pending \ {s}
  /\ UNCHANGED <<log, sealed, summary>>

Seal == ~sealed /\ sealed' = TRUE /\ UNCHANGED <<log, pending, summary>>

(* A later summary may replace an earlier one; each counts the log.        *)
Summarize ==
  /\ sealed /\ pending = {}
  /\ summary'.outcome # "in_progress"
  /\ summary'.steps = Len(log) + summary'.failed
  /\ UNCHANGED <<log, pending, sealed>>

LNext ==
  \/ \E s \in pending' : Accept(s)
  \/ \E s \in pending : Store(s) \/ Lose(s)
  \/ Seal
  \/ Summarize

LSpec == LInit /\ [][LNext]_lvars
=============================================================================

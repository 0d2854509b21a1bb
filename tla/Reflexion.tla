------------------------------ MODULE Reflexion -----------------------------
(***************************************************************************)
(* What an agent is told of its earlier attempts (eval_harness/reflexion). *)
(* The provider keeps, per task, lessons from wrong queries and a hint     *)
(* from a right query with a weak interpretation; a persistent provider    *)
(* also recalls from the long-term memory, in three searches, and may      *)
(* write to it.  The actions below are its methods; AB composes them with  *)
(* the experiment that calls them.                                         *)
(*                                                                         *)
(* Texts are members of Lessons; lessons and hints carry the run and the   *)
(* attempt they come from.  The counters of HitStats only count what       *)
(* `recalled' shows and are left out.                                      *)
(***************************************************************************)
EXTENDS Facets, MemoryStore, Sequences

CONSTANTS
  Tasks,
  TaskFacets,  \* facetsForTask
  Lessons,     \* what the reflecting model may answer
  Template,    \* summary of a hint that was not distilled
  CallFacets,  \* tags the analyze call of an attempt may have
  NoAnswer,    \* the reflecting model failed or answered with blanks
  Limit,       \* memories in one context
  Breadth      \* crossRecallBreadth(Limit)

ASSUME LimitAssumption == Limit \in Nat \ {0} /\ Breadth >= Limit

VARIABLES
  lessons,     \* Provider.lessons: task -> sequence of lessons
  refine,      \* Provider.refine: task -> hint, or NoHint
  queryFacets, \* PersistentProvider.queryFacets
  items,       \* the long-term memory
  wrote,       \* has an observation been written to it
  shown,       \* the context of the attempt under way: its hint and lessons
  recalled     \* ... and its memories

NoHint  == [run |-> 0, attempt |-> 0]
Nothing == [hint |-> NoHint, lessons |-> <<>>]

short == <<lessons, refine>>
memory == <<items, wrote>>
reflexionVars == <<short, queryFacets, memory, shown, recalled>>

ColdShort ==
  /\ lessons = [t \in Tasks |-> <<>>]
  /\ refine = [t \in Tasks |-> NoHint]

-----------------------------------------------------------------------------
(* Mutant: the hints survive.                                              *)
MutReset == lessons' = [t \in Tasks |-> <<>>] /\ UNCHANGED refine

Reset ==
  /\ lessons' = [t \in Tasks |-> <<>>]
  /\ refine' = [t \in Tasks |-> NoHint]

(* Provider.ContextFor: a hint goes first, and alone.                      *)
ShortContext(t) ==
  IF refine[t] # NoHint THEN [hint |-> refine[t], lessons |-> <<>>]
                        ELSE [hint |-> NoHint, lessons |-> lessons[t]]

(* How many memories still fit.                                            *)
Room == Limit - Cardinality(recalled)

Fresh(hits) == {x \in hits : \A y \in recalled : Source(y) # Source(x)}

Own(hits, t) == {x \in hits : x.task = t}

(* The first two searches of longContextFor: of what they find, the items  *)
(* of the task itself, as long as there is room.                           *)
RecallOwn(t) ==
  \E hits \in SearchResults(items, t, Limit) :
    LET new == Fresh(Own(hits, t))
        n   == IF Room < Cardinality(new) THEN Room ELSE Cardinality(new)
    IN  \E S \in SUBSET new : Cardinality(S) = n /\ recalled' = recalled \cup S

(* The third search is for any task, and wide; the best by facets fill up. *)
RecallCross ==
  \E hits \in SearchResults(items, NoTask, Breadth) :
    \E S \in Reranked(Fresh(hits), queryFacets, Room) : recalled' = recalled \cup S

-----------------------------------------------------------------------------
(* memoryItemFromObservation: the tags are not part of the source.         *)
MemoryItem(t, kind, text, tags) ==
  [source |-> <<t, kind, text>>, task |-> t, reflection |-> TRUE, score |-> 8, tags |-> tags]

(* A failing Upsert is reported and forgotten.                             *)
Store(persist, item) ==
  \/ persist /\ items' = Upsert(items, item) /\ wrote' = TRUE
  \/ UNCHANGED memory

(* A right query, weakly explained: the calls are kept for the next        *)
(* attempt; for the memory the reflecting model distils a lesson, and a    *)
(* fixed text stands in when it does not.                                  *)
ObserveWeak(t, stamp, tags, persist) ==
  /\ refine' = [refine EXCEPT ![t] = stamp]
  /\ \E out \in Lessons \cup {NoAnswer} :
       Store(persist, MemoryItem(t, "refine", IF out = NoAnswer THEN Template ELSE out, tags))
  /\ UNCHANGED lessons

(* A wrong query: without an answer of the reflecting model nothing is     *)
(* learned.                                                                *)
ObserveWrong(t, stamp, tags, persist) ==
  /\ \/ \E out \in Lessons :
          /\ lessons' = [lessons EXCEPT ![t] = Append(@, stamp)]
          /\ Store(persist, MemoryItem(t, "fix", out, tags))
     \/ UNCHANGED <<lessons, memory>>
  /\ UNCHANGED refine

(* Observe, by the verdict on the attempt.                                 *)
Observe(t, verdict, stamp, tags, persist) ==
  \/ verdict = "weak" /\ ObserveWeak(t, stamp, tags, persist)
  \/ verdict = "wrong" /\ ObserveWrong(t, stamp, tags, persist)
  \/ verdict = "fine" /\ UNCHANGED <<short, memory>>

=============================================================================

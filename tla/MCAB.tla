-------------------------------- MODULE MCAB --------------------------------
(* Two tasks, one run more than a reset needs to be seen, two or three     *)
(* attempts; memories of both tasks and of none, room for two; notes on    *)
(* a task and on none.                                                     *)
EXTENDS AB

CONSTANTS ta, tb, anyTask, lesson, template, noAnswer

Mean      == DeriveFacets([aggs |-> {"avg"}, dim |-> 1, nullFilter |-> FALSE, threshold |-> FALSE, having |-> FALSE])
Sentinel  == DeriveFacets([aggs |-> {"avg"}, dim |-> 1, nullFilter |-> TRUE, threshold |-> FALSE, having |-> FALSE])

MCTasks      == {ta, tb}
MCTaskList   == <<ta, tb>>
MCTaskFacets == [t \in MCTasks |-> IF t = ta THEN Mean ELSE Sentinel]
MCLessons    == {lesson}
MCCallFacets == {Mean}

OfTask(t) == [source |-> <<t, "fix", lesson>>, task |-> t, reflection |-> TRUE, score |-> 8, tags |-> {}]
Note      == [source |-> <<"note">>, task |-> anyTask, reflection |-> TRUE, score |-> 10, tags |-> {}]
NoteOf(t) == [Note EXCEPT !.source = <<"note", t>>, !.task = t]

MCStores == {{OfTask(ta)}, {OfTask(ta), OfTask(tb)}}
MCNotes  == {Note, NoteOf(ta)}
=============================================================================

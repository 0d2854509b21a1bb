---------------------------- MODULE Distribution ----------------------------
(***************************************************************************)
(* The tool query_distribution (tools/query_distribution.go) and the SQL   *)
(* it builds (schema_protocol/profile_builder.go, sql_builder.go).         *)
(*                                                                         *)
(* One call is a sequence of statements without a transaction around them, *)
(* and a refresh may replace the table between any two.  A table is a      *)
(* function from finitely many row numbers, of the rows that pass the      *)
(* filter, to a row: its value in the column asked for and its group, both *)
(* integers or Null.  Shares are counts; means, variances and totals are   *)
(* left out.                                                               *)
(***************************************************************************)
EXTENDS Integers, FiniteSetsExt, SequencesExt

CONSTANTS
  Contents,             \* what a refresh may leave in the table
  Queries,              \* [tool, column, filter, groups, bucket]
  Buckets,              \* bucket_key -> bounds of all buckets but the last
  MinSample,            \* 100 in the code
  ValueTopN, GroupsTopN,
  RowsAttachThreshold,
  PerGroupTuning,       \* tuning.per_group_rows_attach_threshold, or 0
  MaxRefreshes          \* bound: refreshes

Null == -1              \* sorts before every value, as in SQLite
Percents == {10, 25, 50, 75, 90, 95, 99}
Rows == [value : Nat \cup {Null}, group : Nat \cup {Null}]

ASSUME DistributionAssumption ==
  /\ MinSample \in Nat \ {0} /\ ValueTopN \in Nat \ {0} /\ GroupsTopN \in Nat \ {0}
  /\ RowsAttachThreshold \in Nat /\ PerGroupTuning \in Nat
  /\ \A t \in Contents : IsFiniteSet(DOMAIN t) /\ t \in [DOMAIN t -> Rows]
  /\ \A q \in Queries : q.tool = "query_distribution"
  /\ \A b \in DOMAIN Buckets : Buckets[b] \in Seq(Int)

VARIABLES
  table,
  query,       \* the call under way
  pc,          \* its next statement, "told" with the reply there, or "idle"
  part,        \* what it has read: profile; topGroups, totals and groups done
  reply,
  seen,        \* history: the table as the call began
  fresh,       \* history: and no refresh came before its last statement
  refreshes

vars == <<table, query, pc, part, reply, seen, fresh, refreshes>>

-----------------------------------------------------------------------------
(* What the statements return                                              *)
Values(rows) == [i \in DOMAIN rows |-> rows[i].value]
GroupsOf(rows) == [i \in DOMAIN rows |-> rows[i].group]
Count(vals) == Cardinality(DOMAIN vals)
Occurrences(vals, v) == Cardinality({i \in DOMAIN vals : vals[i] = v})

(* The elements in the order in which before[x] are those before x.        *)
InOrder(before) ==
  [i \in 1..Cardinality(DOMAIN before) |->
     CHOOSE x \in DOMAIN before : Cardinality(before[x]) = i - 1]
Ascending(S) == InOrder([x \in S |-> {y \in S : y < x}])

(* Mutant: the rank is rounded down.                                       *)
MutRank(count, p) == Max({1, (count * p) \div 100})

Rank(count, p) == Max({1, (count * p + 99) \div 100})

AtRank(vals, r) ==
  CHOOSE v \in Range(vals) :
    LET below == Cardinality({i \in DOMAIN vals : vals[i] < v}) IN
    below < r /\ r <= below + Occurrences(vals, v)

OrZero(v) == IF v = Null THEN 0 ELSE v

Profile(vals) ==
  LET real == Range(vals) \ {Null} IN
  [count     |-> Count(vals),
   distinct  |-> Cardinality(real),
   min       |-> IF real = {} THEN 0 ELSE Min(real),
   max       |-> IF real = {} THEN 0 ELSE Max(real),
   quantile  |-> [p \in Percents |->
                    IF DOMAIN vals = {} THEN 0 ELSE OrZero(AtRank(vals, Rank(Count(vals), p)))],
   topN      |-> <<>>,
   tailCount |-> 0]

(* The n most frequent values, the smaller first of equally frequent ones. *)
TopN(vals, n) ==
  LET Before(a, b) == \/ Occurrences(vals, a) > Occurrences(vals, b)
                      \/ Occurrences(vals, a) = Occurrences(vals, b) /\ a < b
      order == InOrder([v \in Range(vals) |-> {w \in Range(vals) : Before(w, v)}])
  IN [i \in 1..Min({n, Len(order)}) |-> [value |-> order[i], count |-> Occurrences(vals, order[i])]]

HasNull(top) == \E i \in DOMAIN top : top[i].value = Null
Counts(told) == [i \in DOMAIN told |-> told[i].count]
HeadSum(top) == SumFunction(Counts(top))

(* A value belongs to the first bucket whose bound it does not exceed; no  *)
(* comparison with Null holds, which leaves it to ELSE, the last bucket.   *)
Ord(bucket, v) ==
  IF bucket = "" THEN v
  ELSE LET fits == {b \in DOMAIN Buckets[bucket] : v # Null /\ v <= Buckets[bucket][b]} IN
       IF fits = {} THEN Len(Buckets[bucket]) + 1 ELSE Min(fits)

(* Each value or bucket with its count and that of it and all above it.    *)
Distribution(vals, bucket) ==
  LET ords  == [i \in DOMAIN vals |-> Ord(bucket, vals[i])]
      order == Ascending(Range(ords))
  IN [i \in DOMAIN order |->
        [bucket |-> order[i], count |-> Occurrences(ords, order[i]),
         cum |-> Cardinality({k \in DOMAIN ords : ords[k] >= order[i]})]]

(* runDistribution: an unknown bucket_key and a second group_by are only   *)
(* noticed here, and a Null cannot be scanned as the name of a value.      *)
RunDistribution(vals, groups, bucket) ==
  CASE bucket \notin DOMAIN Buckets \cup {""} \/ groups > 1 \/ (bucket = "" /\ Null \in Range(vals)) ->
         [status |-> "SCHEMA_ERROR", data |-> <<>>]
    [] OTHER -> IF Count(vals) < MinSample THEN [status |-> "INSUFFICIENT_DATA", data |-> <<>>]
                ELSE [status |-> "OK", data |-> Distribution(vals, bucket)]

(* Mutant: the groups' statements run without the filter on the group.     *)
MutInGroup(rows, g) == rows

(* withGroupFilter, for groups that are integers.                          *)
InGroup(rows, g) == RestrictValues(rows, LAMBDA row : row.group = g)

-----------------------------------------------------------------------------
NoProfile == [count |-> 0]
NoTail == [groups |-> 0, players |-> 0]
NoPart == [profile |-> NoProfile, topGroups |-> <<>>, totals |-> NoTail, groups |-> <<>>]
Answer(status) == [status |-> status, profile |-> NoProfile, data |-> <<>>, groups |-> <<>>, tail |-> NoTail]
NoReply == Answer("")
NoQuery == [tool |-> "none"]

Init ==
  /\ table \in Contents /\ seen = <<>>
  /\ query = NoQuery /\ pc = "idle" /\ part = NoPart /\ reply = NoReply
  /\ fresh = TRUE /\ refreshes = 0

Refresh(rows) ==
  /\ refreshes < MaxRefreshes
  /\ table' = rows /\ refreshes' = refreshes + 1
  /\ fresh' = (fresh /\ pc \in {"idle", "told"})
  /\ UNCHANGED <<query, pc, part, reply, seen>>

Call(q, place) ==
  /\ pc = "idle"
  /\ query' = q /\ pc' = place /\ seen' = table
  /\ UNCHANGED <<table, part, reply, fresh, refreshes>>

Begin(q) == Call(q, IF q.groups = 1 THEN "summary" ELSE "profile")

(* The loop takes the reply; the tool keeps nothing of a call.             *)
Deliver ==
  /\ pc = "told"
  /\ query' = NoQuery /\ pc' = "idle" /\ part' = NoPart /\ reply' = NoReply
  /\ seen' = <<>> /\ fresh' = TRUE
  /\ UNCHANGED <<table, refreshes>>

(* Every builder first asks whether table, filter and group are known and   *)
(* not private, and all but those of the groups whether the column is.     *)
FilterKnown(q) == q.filter = "known"
ColumnKnown(q) == q.column = "known"

Reply(answer) == pc' = "told" /\ reply' = answer /\ UNCHANGED part
Go(place, p) == pc' = place /\ part' = p /\ UNCHANGED reply
Reading(place) == pc = place /\ UNCHANGED <<table, query, seen, fresh, refreshes>>

(* A statement that fails, for instance on a locked database.              *)
StatementFails ==
  /\ pc \notin {"idle", "told"} /\ Reading(pc)
  /\ pc = "groups" => Len(part.groups) < Len(part.topGroups)
  /\ Reply(Answer("SCHEMA_ERROR"))

WithTop(profile, top) ==
  [profile EXCEPT !.topN = top, !.tailCount = profile.count - HeadSum(top)]

ReadProfile ==
  /\ Reading("profile")
  /\ LET p == Profile(Values(table)) IN
     IF ~FilterKnown(query) \/ ~ColumnKnown(query) THEN Reply(Answer("SCHEMA_ERROR"))
     ELSE IF p.count < MinSample THEN Reply(Answer("INSUFFICIENT_DATA"))
     ELSE Go("topn", [part EXCEPT !.profile = p])

ReadTopN ==
  /\ Reading("topn")
  /\ LET top == TopN(Values(table), ValueTopN)
         p   == WithTop(part.profile, top)
     IN CASE HasNull(top) -> Reply(Answer("SCHEMA_ERROR"))
          [] OTHER -> IF p.distinct <= RowsAttachThreshold
                      THEN Go("rows", [part EXCEPT !.profile = p])
                      ELSE Reply([Answer("OK") EXCEPT !.profile = p])

ReadRows ==
  /\ Reading("rows")
  /\ LET data == RunDistribution(Values(table), query.groups, query.bucket) IN
     IF data.status # "OK" THEN Reply(Answer(data.status))
     ELSE Reply([Answer("OK") EXCEPT !.profile = part.profile, !.data = data.data])

ReadGroups ==
  /\ Reading("summary")
  /\ LET top == TopN(GroupsOf(table), GroupsTopN) IN
     IF ~FilterKnown(query) \/ HasNull(top) THEN Reply(Answer("SCHEMA_ERROR"))
     ELSE Go("totals", [part EXCEPT !.topGroups = top])

(* COUNT(DISTINCT) does not count Null, COUNT of all rows does.            *)
ReadTotals ==
  /\ Reading("totals")
  /\ IF Count(table) < MinSample THEN Reply(Answer("INSUFFICIENT_DATA"))
     ELSE Go("groups", [part EXCEPT !.totals =
               [groups |-> Cardinality(Range(GroupsOf(table)) \ {Null}), players |-> Count(table)]])

(* Without tuning the groups together get the rows of a call without them. *)
PerGroupRowsAttachThreshold ==
  IF PerGroupTuning > 0 THEN PerGroupTuning ELSE Max({1, RowsAttachThreshold \div GroupsTopN})

NextGroup == part.topGroups[Len(part.groups) + 1].value
GroupDone(profile, data) ==
  Go("groups", [part EXCEPT !.groups = Append(@, [group |-> NextGroup, profile |-> profile, data |-> data])])

ReadGroupProfile ==
  /\ Reading("groups") /\ Len(part.groups) < Len(part.topGroups)
  /\ IF ~ColumnKnown(query) THEN Reply(Answer("SCHEMA_ERROR"))
     ELSE Go("grouptopn", [part EXCEPT !.profile = Profile(Values(InGroup(table, NextGroup)))])

ReadGroupTopN ==
  /\ Reading("grouptopn")
  /\ LET top == TopN(Values(InGroup(table, NextGroup)), ValueTopN)
         p   == WithTop(part.profile, top)
     IN CASE HasNull(top) -> Reply(Answer("SCHEMA_ERROR"))
          [] OTHER -> IF p.distinct <= PerGroupRowsAttachThreshold
                      THEN Go("grouprows", [part EXCEPT !.profile = p])
                      ELSE GroupDone(p, <<>>)

(* A group below the minimum keeps its profile and gets no rows.           *)
ReadGroupRows ==
  /\ Reading("grouprows")
  /\ LET data == RunDistribution(Values(InGroup(table, NextGroup)), 0, query.bucket) IN
     IF data.status = "SCHEMA_ERROR" THEN Reply(Answer("SCHEMA_ERROR"))
     ELSE GroupDone(part.profile, data.data)

GroupsTail ==
  LET groups == part.totals.groups - Len(part.topGroups) IN
  IF groups = 0 THEN NoTail
  ELSE [groups |-> groups, players |-> part.totals.players - HeadSum(part.topGroups)]

FinishGroups ==
  /\ Reading("groups") /\ Len(part.groups) = Len(part.topGroups)
  /\ Reply([Answer("OK") EXCEPT !.groups = part.groups, !.tail = GroupsTail])

Next ==
  \/ \E rows \in Contents : Refresh(rows)
  \/ \E q \in Queries : Begin(q)
  \/ StatementFails \/ Deliver
  \/ ReadProfile \/ ReadTopN \/ ReadRows
  \/ ReadGroups \/ ReadTotals \/ ReadGroupProfile \/ ReadGroupTopN \/ ReadGroupRows \/ FinishGroups

Spec == Init /\ [][Next]_vars

-----------------------------------------------------------------------------
(* Properties                                                              *)

Told == query.tool = "query_distribution" /\ reply.status = "OK" /\ fresh
Parts ==
  IF query.groups = 1
  THEN {[rows |-> Values(InGroup(seen, g.group)), profile |-> g.profile, data |-> g.data] : g \in Range(reply.groups)}
  ELSE {[rows |-> Values(seen), profile |-> reply.profile, data |-> reply.data]}

Covers(x) ==
  /\ x.profile.count = Count(x.rows) /\ x.profile.count > 0
  /\ x.profile.tailCount = Cardinality({i \in DOMAIN x.rows :
       \A t \in Range(x.profile.topN) : t.value # x.rows[i]})
  /\ x.profile.tailCount = 0 => Len(x.profile.topN) = x.profile.distinct

RowsCover(x) ==
  x.data # <<>> =>
    /\ SumFunction(Counts(x.data)) = Count(x.rows)
    /\ \A i \in DOMAIN x.data :
         x.data[i].cum = SumFunctionOnSet(Counts(x.data), {k \in DOMAIN x.data : k >= i})

(* A call that no refresh interrupts accounts for every row: the most      *)
(* frequent values and the tail, the rows and their sums from the top      *)
(* down, and, unless rows have no group, the groups and the groups' tail   *)
(* (contract/response.go:55, query_distribution.go:268).                   *)
EveryRowToldOnce ==
  Told =>
    /\ \A x \in Parts : Covers(x) /\ RowsCover(x)
    /\ query.groups = 1 /\ Null \notin Range(GroupsOf(seen)) =>
         LET counts == [i \in DOMAIN reply.groups |-> reply.groups[i].profile.count] IN
         /\ SumFunction(counts) + reply.tail.players = Count(seen)
         /\ Len(reply.groups) + reply.tail.groups = Cardinality(Range(GroupsOf(seen)))

(* Each quantile is the smallest value that at least that share of all     *)
(* rows does not exceed (profile_builder.go:22), if no value is missing.   *)
QuantilesNearestRank ==
  Told =>
    \A x \in Parts : Null \notin Range(x.rows) =>
      \A p \in Percents :
        LET enough == {v \in Range(x.rows) :
                         100 * Cardinality({i \in DOMAIN x.rows : x.rows[i] <= v}) >= p * Count(x.rows)}
        IN x.profile.quantile[p] = Min(enough)

=============================================================================

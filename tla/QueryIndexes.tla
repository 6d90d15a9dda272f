----------------------------- MODULE QueryIndexes -----------------------------
(***************************************************************************)
(* The index checks of the query workspace: src/util/schema.ts, from         *)
(* getIndicesForType on.  They tell which index Platform is expected to use  *)
(* for a statement, or why it will probably reject it.                      *)
(*                                                                         *)
(* A statement is edited clause by clause; every state is one whose check is *)
(* shown below the editor.  A filter is <<field, operator>>, with "<" and ">" *)
(* for one-sided bounds and "between" for the two operators that bound a      *)
(* field by themselves.  A warning is named, not worded.  Left out: `$id`,    *)
(* which the primary key serves, and LIMIT.                                 *)
(***************************************************************************)
EXTENDS Naturals, Sequences, FiniteSets, SequencesExt

CONSTANTS
    Types,      \* document types: [indices |-> sequence, totals |-> SUBSET {"count", "sum",
                \* "other"}], an index being [fields |-> sequence of numbers, points and
                \* ranges |-> SUBSET {"count", "sum"}]; "other" is a sum of another field
    Fields,     \* 1..n: the fields a statement may name
    MaxFilters, \* bound on the WHERE clause
    MaxOrder    \* bound on ORDER BY and on GROUP BY

VARIABLES
    type,    \* the document type of the statement
    version, \* 14 if the network's protocol is known to need contiguous prefixes, else 13
    select,  \* "documents", "count", "sum", or "avg"
    where,   \* the filters
    orderBy, \* fields
    groupBy  \* fields, of an aggregate

vars == <<type, version, select, where, orderBy, groupBy>>

Operators == <<"=", "in", "<", ">", "between">>
RangeOperators == {"<", ">", "between"}

Init ==
    /\ type \in Types /\ version \in {13, 14}
    /\ select \in {"documents", "count", "sum", "avg"}
    /\ select # "documents" => version = 13
    /\ where = <<>> /\ orderBy = <<>> /\ groupBy = <<>>

\* Filters are written in the order of their fields and operators: it tells nothing apart.
Written(filter) == filter[1] * 10 + SelectInSeq(Operators, LAMBDA op : op = filter[2])
AddFilter ==
    /\ Len(where) < MaxFilters /\ orderBy = <<>> /\ groupBy = <<>>
    /\ \E filter \in Fields \X Range(Operators) :
          /\ where # <<>> => Written(Last(where)) <= Written(filter)
          /\ where' = Append(where, filter)
    /\ UNCHANGED <<type, version, select, orderBy, groupBy>>

AddOrder ==
    /\ select = "documents" /\ Len(orderBy) < MaxOrder
    /\ \E f \in Fields \ Range(orderBy) : orderBy' = Append(orderBy, f)
    /\ UNCHANGED <<type, version, select, where, groupBy>>

\* The parser refuses GROUP BY in a document query.
AddGroup ==
    /\ select # "documents" /\ Len(groupBy) < MaxOrder
    /\ \E f \in Fields : groupBy' = Append(groupBy, f)
    /\ UNCHANGED <<type, version, select, where, orderBy>>

Next == AddFilter \/ AddOrder \/ AddGroup

Spec == Init /\ [][Next]_vars

-----------------------------------------------------------------------------
(* queryRoles, clauseWarnings, namedFields                                 *)

FiltersOn(f, ops) == {i \in DOMAIN where : where[i][1] = f /\ where[i][2] \in ops}
FieldsWith(ops) == {where[i][1] : i \in {j \in DOMAIN where : where[j][2] \in ops}}
FirstWith(ops) ==
    LET is == {i \in DOMAIN where : where[i][2] \in ops}
    IN {where[i][1] : i \in {j \in is : \A k \in is : j <= k}}

Equality == FieldsWith({"="})
InFields == FieldsWith({"in"})
RangeFields == FieldsWith(RangeOperators)
Ordered == Range(orderBy)

Named == Equality \cup FirstWith(RangeOperators) \cup FirstWith({"in"}) \cup Ordered

\* Both bounds are one range; two lower ones, or BETWEEN and another, are not.
ConflictingRanges(f) ==
    \/ Cardinality(FiltersOn(f, {">"})) > 1
    \/ Cardinality(FiltersOn(f, {"<"})) > 1
    \/ FiltersOn(f, {"between"}) # {} /\ Cardinality(FiltersOn(f, RangeOperators)) > 1

ClauseWarnings(oneIn) ==
    {w \in {"several IN", "conflicting ranges", "IN and range", "= and other", "several ="} :
        CASE w = "several IN" -> oneIn /\ Len(SelectSeq(where, LAMBDA x : x[2] = "in")) > 1
          [] w = "conflicting ranges" -> \E f \in RangeFields : ConflictingRanges(f)
          [] w = "IN and range" -> InFields \cap RangeFields # {}
          [] w = "= and other" -> Equality \cap (RangeFields \cup InFields) # {}
          [] w = "several =" -> \E f \in Equality : Cardinality(FiltersOn(f, {"="})) > 1}

-----------------------------------------------------------------------------
(* indexDifference: Index::matches of protocol 13.                         *)

\* The index ends with the ORDER BY run once trailing properties are trimmed.
OrderRunEnds(fields) ==
    {k \in Len(orderBy)..Len(fields) : SubSeq(fields, k - Len(orderBy) + 1, k) = orderBy}
Reduced(fields) ==
    SubSeq(fields, 1, CHOOSE k \in OrderRunEnds(fields) : \A l \in OrderRunEnds(fields) : l <= k)

LastTwo(fields) == {fields[i] : i \in {j \in DOMAIN fields : j + 2 > Len(fields)}}

Matches(fields) ==
    /\ Named \subseteq Range(fields)
    /\ OrderRunEnds(fields) # {}
    /\ FirstWith({"in"}) \subseteq LastTwo(fields)
    /\ Named \subseteq Range(Reduced(fields))

Difference(fields) == Len(fields) - Cardinality(Named)

\* contiguityMismatch: Index::matches_contiguous of protocol 14.
Prefix(fields, n) == {fields[i] : i \in {j \in DOMAIN fields : j <= n}}
Follow == FirstWith(RangeOperators) \cup FirstWith({"in"})
FollowEquality(fields) ==
    /\ FirstWith(RangeOperators) \cap FirstWith({"in"}) = {}
    /\ Follow \subseteq
         Prefix(fields, Cardinality(Equality) + Cardinality(Follow)) \ Equality

BugGapAllowed(fields) == TRUE
NoGap(fields) == Prefix(fields, Cardinality(Named)) \subseteq Named

Contiguous(fields) ==
    /\ Prefix(fields, Cardinality(Equality)) \subseteq Equality
    /\ FollowEquality(fields)
    /\ NoGap(fields)

-----------------------------------------------------------------------------
(* checkQueryAgainstIndices                                                *)

MaxDifference == 2

Unordered == (RangeFields \cup InFields) \ Ordered
QueryWarnings ==
    ClauseWarnings(version < 14)
    \cup (IF Cardinality(RangeFields) > 1 THEN {"several ranges"} ELSE {})
    \cup (IF Unordered # {} THEN {"not ordered"} ELSE {})

\* Positions, in type.indices, of those that fit; the best leaves the fewest properties
\* unused, and comes first by name.
Fitting ==
    {i \in DOMAIN type.indices :
        LET fields == type.indices[i].fields
        IN Matches(fields) /\ (version >= 14 => Contiguous(fields))}
Better(i, j) ==
    LET d(k) == Difference(type.indices[k].fields) IN d(i) < d(j) \/ (d(i) = d(j) /\ i <= j)
Best == CHOOSE i \in Fitting : \A j \in Fitting : Better(i, j)

\* A check is the position of the matched index, 0 if none is, and the warnings.
Check(index, warnings) == [index |-> index, warnings |-> warnings]

QueryCheck ==
    IF where = <<>> /\ orderBy = <<>> THEN Check(0, QueryWarnings)
    ELSE IF type.indices = <<>> THEN Check(0, QueryWarnings \cup {"no indices"})
    ELSE IF version >= 14 /\ Cardinality(InFields) > 1 THEN Check(0, QueryWarnings)
    ELSE IF Fitting = {} THEN Check(0, QueryWarnings \cup {"no index"})
    ELSE IF Difference(type.indices[Best].fields) > MaxDifference
         THEN Check(0, QueryWarnings \cup {"too many unused"})
    ELSE Check(Best, QueryWarnings)

-----------------------------------------------------------------------------
(* aggregateGroupMode, checkAggregateAgainstIndices                        *)

GroupMode ==
    CASE groupBy = <<>> -> "aggregate"
      [] Len(groupBy) = 1 ->
            IF groupBy[1] \in InFields THEN "perIn"
            ELSE IF groupBy[1] \in RangeFields THEN "range" ELSE "unsupported"
      [] Len(groupBy) = 2 ->
            IF groupBy[1] \in InFields /\ groupBy[2] \in RangeFields
            THEN "compound" ELSE "unsupported"
      [] OTHER -> "unsupported"

\* Two ranges are a walk of walks, of COUNT only.
Carrier ==
    select = "count" /\ Cardinality(RangeFields) = 2 /\ GroupMode = "range" /\ InFields = {}
Points == Equality \cup InFields
Needs == CASE select = "count" -> {"count"} [] select = "sum" -> {"sum"}
           [] select = "avg" -> {"count", "sum"}

AggregateWarnings ==
    ClauseWarnings(TRUE)
    \cup (IF GroupMode = "unsupported" THEN {"group by"} ELSE {})
    \cup (IF Cardinality(RangeFields) > 1 /\ ~Carrier THEN {"several ranges"} ELSE {})
    \cup (IF Cardinality(RangeFields) = 1 /\ InFields # {} /\ GroupMode = "aggregate"
          THEN {"IN with range"} ELSE {})
    \cup (IF select # "count" /\ "other" \in type.totals THEN {"other sum"} ELSE {})

\* An index the totals are read from: point lookups use all of its properties, a range its
\* last one, two ranges its first and last.
CountsBy(index) ==
    LET fields == index.fields
    IN /\ Needs \subseteq index.points /\ (RangeFields # {} => Needs \subseteq index.ranges)
       /\ IF Carrier
          THEN /\ Len(fields) >= 2 /\ fields[1] # Last(fields)
               /\ {fields[1], Last(fields)} \subseteq RangeFields
               /\ {fields[i] : i \in 2..(Len(fields) - 1)} \subseteq Points
          ELSE /\ Len(fields) = Cardinality(Points) + (IF RangeFields = {} THEN 0 ELSE 1)
               /\ IF RangeFields = {} THEN Range(fields) \subseteq Points
                  ELSE /\ Last(fields) = CHOOSE f \in FirstWith(RangeOperators) : TRUE
                       /\ Prefix(fields, Len(fields) - 1) \subseteq Points

Counting == {i \in DOMAIN type.indices : CountsBy(type.indices[i])}

\* The walk groups by the first property, and counts whatever other filters there are.
CarrierWarnings(index) ==
    IF ~Carrier THEN {}
    ELSE (IF Points \subseteq Range(index.fields) THEN {} ELSE {"filter ignored"})
         \cup (IF index.fields[1] = groupBy[1] THEN {} ELSE {"grouped otherwise"})

AggregateCheck ==
    IF where = <<>>
    THEN Check(0, AggregateWarnings \cup (IF Needs \subseteq type.totals THEN {} ELSE {"no total"}))
    ELSE IF Counting = {} THEN Check(0, AggregateWarnings \cup {"no index"})
    ELSE LET first == CHOOSE i \in Counting : \A j \in Counting : i <= j
         IN Check(first, AggregateWarnings \cup CarrierWarnings(type.indices[first]))

IndexCheck == IF select = "documents" THEN QueryCheck ELSE AggregateCheck

-----------------------------------------------------------------------------
(* What an index can do: an entry of it is a value for each of its fields.  *)

\* Values 0..2 of a field; every filter compares with 1.
Entries(fields) == [Range(fields) -> 0..2]
Satisfies(entry, filter) ==
    CASE filter[2] \in {"=", "in"} -> entry[filter[1]] = 1
      [] filter[2] = "<" -> entry[filter[1]] < 1
      [] filter[2] = ">" -> entry[filter[1]] > 1
      [] filter[2] = "between" -> entry[filter[1]] \in 1..2

\* d precedes e by the given fields, the first of them being the most significant.
Precedes(fields, d, e) ==
    \E i \in DOMAIN fields :
        /\ d[fields[i]] < e[fields[i]]
        /\ \A j \in 1..(i - 1) : d[fields[j]] = e[fields[j]]

Selected(fields) ==
    {e \in Entries(fields) : \A i \in DOMAIN where : Satisfies(e, where[i])}

\* One uninterrupted scan of the index finds what the filters select, already sorted.
ServedByScan(fields) ==
    LET found == Selected(fields)
    IN /\ \A d, e \in found, x \in Entries(fields) \ found :
             ~(Precedes(fields, d, x) /\ Precedes(fields, x, e))
       /\ \A d, e \in found : Precedes(fields, d, e) => ~Precedes(orderBy, e, d)

\* The totals kept in the index are of what the filters select, and grouped as asked: every
\* field of it is filtered and no other; ranges are last, or group the walk.
TotalledByIndex(fields) ==
    /\ Range(fields) = Points \cup RangeFields
    /\ \A i \in DOMAIN fields :
          fields[i] \in RangeFields => i = Len(fields) \/ (i = 1 /\ groupBy = <<fields[1]>>)

-----------------------------------------------------------------------------
(* Properties.                                                             *)

\* What the check passes without a warning, Platform can do.  A document query under the
\* contiguous rules is one scan, of one value of an IN, whose entries are sorted as the
\* statement says; an aggregate is read from totals of what the filters select.
PassedIsServed ==
    LET check == IndexCheck
    IN check.index # 0 /\ check.warnings = {} =>
          LET fields == type.indices[check.index].fields
          IN IF select # "documents" THEN TotalledByIndex(fields)
             ELSE version >= 14 /\ (InFields = {} \/ RangeFields = {}) => ServedByScan(fields)

=============================================================================

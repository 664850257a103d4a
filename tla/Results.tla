------------------------------ MODULE Results ------------------------------
(***************************************************************************)
(* The aggregation of query results in pkg/results/result.go: a RowsMap    *)
(* into which the rows returned by several hosts are merged, either row by *)
(* row (MergeRows) or as another host's RowsMap (MergeRowsMap); ToRows     *)
(* flattening it into the Result's Rows, and the Result lifecycle New,     *)
(* Start and End.  A MergeableAttributes key is a model value of Keys and  *)
(* types.Counters is one natural number whose Add is +.  The order in      *)
(* which the caller merges the hosts, and the path it takes for each, are *)
(* left open; so is Go's randomised map iteration in ToRows.               *)
(***************************************************************************)
EXTENDS Naturals, FiniteSets, Sequences, SequencesExt, Functions

CONSTANTS
    Hosts,      \* hosts whose query results are merged
    Keys,       \* MergeableAttributes values (Labels + Attributes)
    Counts,     \* counter values a returned row may carry
    MaxRows     \* bound on the rows one host returns

VARIABLES
    input,      \* input[h]: the Rows host h returned
    rm,         \* the caller's RowsMap: a function from some Keys to counters
    merged,     \* sum of the merged counts MergeRows/MergeRowsMap returned
    how,        \* how[h]: "pending", or the path by which h was merged
    phase,      \* the Result: "new", "started", "rows" (Rows set), "ended"
    rows,       \* Result.Rows, a sequence of <<key, counters>>
    status      \* Result.Status.Code

vars == <<input, rm, merged, how, phase, rows, status>>

Row == Keys \X Counts
HostRows == UNION {[1..n -> Row] : n \in 0..MaxRows}
EmptyMap == [k \in {} |-> 0]

(* rm[k] = counters.Add(c), or rm[k] = c for a key not yet present.       *)
Put(m, k, c) ==
    [x \in DOMAIN m \cup {k} |-> IF x = k /\ k \in DOMAIN m THEN m[k] + c
                                 ELSE IF x = k THEN c ELSE m[x]]

(* MergeRows: one pass over r; the count of rows folded into an existing *)
(* key is returned.  The accumulator is <<map, merged>>.                   *)
MergeRowsStep(acc, res) ==
    <<Put(acc[1], res[1], res[2]),
      acc[2] + (IF res[1] \in DOMAIN acc[1] THEN 1 ELSE 0)>>
MergeRowsInto(m, r) == FoldLeft(MergeRowsStep, <<m, 0>>, r)

(* The RowsMap a host builds from its own rows before shipping it.         *)
ToRowsMap(r) == MergeRowsInto(EmptyMap, r)[1]

(* MergeRowsMap: every entry of om is added into rm; the count of keys    *)
(* already present is returned.  Map iteration order does not matter to   *)
(* the outcome, so the loop is given by its net effect.                    *)
MergeRowsMapOverwrite(m, om) ==
    <<[k \in DOMAIN m \cup DOMAIN om |-> IF k \in DOMAIN om THEN om[k] ELSE m[k]],
      Cardinality(DOMAIN m \cap DOMAIN om)>>
MergeRowsMapInto(m, om) ==
    <<[k \in DOMAIN m \cup DOMAIN om |->
          (IF k \in DOMAIN m THEN m[k] ELSE 0) + (IF k \in DOMAIN om THEN om[k] ELSE 0)],
      Cardinality(DOMAIN m \cap DOMAIN om)>>

ZeroRow == <<"zero", 0>>

(* ToRows: make(Rows, len(rm)) filled by index in map iteration order.     *)
ToRowsAppend(m) ==
    LET n == Cardinality(DOMAIN m)
    IN {[i \in 1..n |-> ZeroRow] \o
        [i \in 1..n |-> <<f[i], m[f[i]]>>] : f \in Bijection(1..n, DOMAIN m)}
ToRowsOrders(m) ==
    LET n == Cardinality(DOMAIN m)
    IN {[i \in 1..n |-> <<f[i], m[f[i]]>>] : f \in Bijection(1..n, DOMAIN m)}

TypeOK ==
    /\ input \in [Hosts -> HostRows]
    /\ \E D \in SUBSET Keys : rm \in [D -> Nat]
    /\ merged \in Nat
    /\ how \in [Hosts -> {"pending", "rows", "map"}]
    /\ phase \in {"new", "started", "rows", "ended"}
    /\ rows \in Seq(Keys \X Nat)
    /\ status \in {"ok", "empty"}

(* New(): Status OK, no rows; each host has returned its rows.             *)
Init ==
    /\ input \in [Hosts -> HostRows]
    /\ rm = EmptyMap
    /\ merged = 0
    /\ how = [h \in Hosts |-> "pending"]
    /\ phase = "new"
    /\ rows = <<>>
    /\ status = "ok"

(* Start(): resets Summary and HostsStatuses, neither of which is state   *)
(* here.                                                                   *)
Start ==
    /\ phase = "new"
    /\ phase' = "started"
    /\ UNCHANGED <<input, rm, merged, how, rows, status>>

MergeRows(h) ==
    /\ phase = "started" /\ how[h] = "pending"
    /\ LET res == MergeRowsInto(rm, input[h])
       IN rm' = res[1] /\ merged' = merged + res[2]
    /\ how' = [how EXCEPT ![h] = "rows"]
    /\ UNCHANGED <<input, phase, rows, status>>

MergeRowsMap(h) ==
    /\ phase = "started" /\ how[h] = "pending"
    /\ LET res == MergeRowsMapInto(rm, ToRowsMap(input[h]))
       IN rm' = res[1] /\ merged' = merged + res[2]
    /\ how' = [how EXCEPT ![h] = "map"]
    /\ UNCHANGED <<input, phase, rows, status>>

(* Result.Rows = rm.ToRows(), once every host has been merged.            *)
ToRows ==
    /\ phase = "started" /\ \A h \in Hosts : how[h] # "pending"
    /\ rows' \in ToRowsOrders(rm)
    /\ phase' = "rows"
    /\ UNCHANGED <<input, rm, merged, how, status>>

(* End(): Status Empty when there are no rows; Interfaces sorted.          *)
End ==
    /\ phase = "rows"
    /\ phase' = "ended"
    /\ status' = IF Len(rows) = 0 THEN "empty" ELSE status
    /\ UNCHANGED <<input, rm, merged, how, rows>>

Next ==
    \/ Start
    \/ \E h \in Hosts : MergeRows(h) \/ MergeRowsMap(h)
    \/ ToRows
    \/ End

Spec == Init /\ [][Next]_vars

-----------------------------------------------------------------------------
Merged == {h \in Hosts : how[h] # "pending"}
RowsOf(S) == UNION {{<<h, i>> : i \in DOMAIN input[h]} : h \in S}
KeyOf(hi) == input[hi[1]][hi[2]][1]
CountOf(hi) == input[hi[1]][hi[2]][2]
SumOver(S) == FoldFunctionOnSet(+, 0, [hi \in S |-> CountOf(hi)], S)

(* Whatever the order in which hosts are merged, and whichever of         *)
(* MergeRows and MergeRowsMap each takes, the RowsMap holds, for every key *)
(* any merged host returned, the sum of the counters of all its rows, and *)
(* nothing else.  A merge that overwrites instead of Add-ing breaks this  *)
(* as soon as two rows share a key.                                        *)
MergeIsPerKeySum ==
    LET R == RowsOf(Merged)
    IN  /\ DOMAIN rm = {KeyOf(hi) : hi \in R}
        /\ \A k \in DOMAIN rm : rm[k] = SumOver({hi \in R : KeyOf(hi) = k})

=============================================================================

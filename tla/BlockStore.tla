----------------------------- MODULE BlockStore -----------------------------
(***************************************************************************)
(* What a goDB block file promises its writer (spec section 3): a store of *)
(* at most NumElements payloads keyed by non-zero timestamps, each         *)
(* timestamp written once and kept.  GPFile implements it on the bytes of  *)
(* the file: the refinement mapping decodes the header on disk and the    *)
(* blocks it points at.                                                    *)
(***************************************************************************)
EXTENDS Naturals, FiniteSets

CONSTANTS NumElements, Timestamps, Data, NoData

VARIABLE store   \* store[ts]: the payload under ts, or NoData

Keys == Timestamps \ {0}
Used == {ts \in Keys : store[ts] # NoData}

Init == store = [ts \in Keys |-> NoData]

(* A block is stored under a timestamp not yet used, while a slot is free. *)
Put(ts, d) ==
    /\ store[ts] = NoData
    /\ Cardinality(Used) < NumElements
    /\ store' = [store EXCEPT ![ts] = d]

Next == \E ts \in Keys, d \in Data : Put(ts, d)

Spec == Init /\ [][Next]_store
=============================================================================

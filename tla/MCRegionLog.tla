---------------------------- MODULE MCRegionLog ----------------------------
(***************************************************************************)
(* Three regions of the presets, with budgets small enough to be full: one *)
(* that evicts what was read longest ago, one that refuses, a scratchpad.  *)
(* BeforeAFailure ends at the first emit that raises, for the properties   *)
(* about the calls before one; the scratchpad meets one of the other two.  *)
(* RefusedThenFlushed begins with such an emit, for the run that goes on.  *)
(***************************************************************************)
EXTENDS RegionLog, TLC

CONSTANTS durable, reference, scratch

Presets ==
  durable :> [budget |-> 2, eviction |-> "lru", versioned |-> TRUE, reset |-> FALSE, purge |-> FALSE]
    @@ reference :> [budget |-> 2, eviction |-> "reject", versioned |-> TRUE, reset |-> FALSE, purge |-> FALSE]
    @@ scratch :> [budget |-> 3, eviction |-> "fifo", versioned |-> FALSE, reset |-> TRUE, purge |-> TRUE]

BeforeAFailure ==
  /\ ~failed
  /\ \E r \in {durable, reference} :
       content[r] = Nothing /\ CallsOn({durable, reference, scratch} \ {r})

(* A write is refused: its emit raised before the line was flushed.  The    *)
(* calls after it go through, and flush what is in the buffer.              *)
RefusedThenFlushed ==
  \/ /\ records = <<>>
     /\ \E r \in Regions, n \in Sizes : Write(r, Unset, n, "append")
     /\ failed' /\ written' = 0
  \/ /\ failed
     /\ CallsOn(Regions) /\ written' = Len(records')

RefusedThenFlushedSpec == RegionInit /\ [][RefusedThenFlushed]_regionVars
=============================================================================

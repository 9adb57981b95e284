------------------------------- MODULE MCHeap -------------------------------
(***************************************************************************)
(* The heap's memory for TLC: the sections obtained from the system, and   *)
(* the blocks they are cut into.  A behaviour chooses one of them at its   *)
(* start and the other stands still, so that each is explored by itself.   *)
(***************************************************************************)
EXTENDS HeapBlocks, HeapSections

VARIABLE part       \* the component that moves

heapVars == <<blockVars, sectionVars, part>>

------------------------------------------------------------------------------
(* Values of the constants *)

MCBuilds == BOOLEAN
MCFalsePtrs == {2}
MCGrowths == {2, 5}
Req(sz, kind, off) == [sz |-> sz, kind |-> kind, ignoreOffPage |-> off]
MCRequests ==
    {Req(1, "normal", FALSE), Req(1, "uncollectable", FALSE),
     Req(2, "normal", TRUE), Req(3, "ptrfree", FALSE)}

------------------------------------------------------------------------------
HeapInit ==
    /\ part \in {"blocks", "sections"}
    /\ BlocksInit
    /\ part # "blocks" => munmap
    /\ SectionsInit
    /\ part # "sections" => maxHeap = 0

HeapNext ==
    /\ \/ part = "blocks" /\ BlocksNext /\ UNCHANGED sectionVars
       \/ part = "sections" /\ SectionsNext /\ UNCHANGED blockVars
    /\ UNCHANGED part

HeapSpec == HeapInit /\ [][HeapNext]_heapVars
=============================================================================

------------------------------ MODULE MCThreads ------------------------------
(***************************************************************************)
(* Threads and what the systems they run on add, for TLC: the thread       *)
(* registry, the stacks and the free-list builders of the pthreads port,   *)
(* the thread table of the Windows ports, and the stop and the exception   *)
(* handler of Darwin.  A behaviour chooses one of them at its start and    *)
(* the others stand still, so that each is explored by itself.             *)
(***************************************************************************)
EXTENDS ThreadRegistry, ThreadStacks, Builders, WinRegistry, DarwinStop, TLC

CONSTANTS m, t1, t2, i1, i2

VARIABLE part       \* the component that moves

threadsVars ==
    <<registryVars, stacksVars, buildersVars, registryWinVars, darwinVars, part>>

------------------------------------------------------------------------------
(* Values of the constants *)

\* The two thread identifiers share a chain of the thread table.
MCIndex == [id \in Id |-> 1]
MCProfiles == {{"again", "foreign"}, {"fork"}, {"exit", "cancel"}}

\* One stack deep enough for nested calls of GC_do_blocking and
\* GC_call_with_gc_active.
MCMaxFrames == [t \in StackThread |-> IF t = t1 THEN 4 ELSE 2]

\* m and t2 share a chain of the Windows thread table, in the child of a fork
\* m and t1 do; t1 and t2 share a slot of the map from pthreads to ids.
MCIdOf == (m :> 1 @@ t1 :> 2 @@ t2 :> 3)
MCChild == (m :> 2 @@ t1 :> 4 @@ t2 :> 1)
MCBucket == [id \in 1..4 |-> id % 2]
MCMap == (m :> 1 @@ t1 :> 0 @@ t2 :> 0)

MCFirst == <<m, t1>>

------------------------------------------------------------------------------
ThreadsInit ==
    /\ part \in {"registry", "stacks", "builders", "win32", "darwin"}
    /\ RegistryInit /\ thr[Main].id = i1
    /\ part # "registry" => client = CHOOSE p \in Profiles : TRUE
    /\ StacksInit
    /\ BuildersInit
    /\ WinRegistryInit
    /\ part # "win32" => flavor = CHOOSE x \in Flavors : TRUE
    /\ DarwinInit
    /\ part # "darwin" => GC_query_task_threads

Others(moving) ==
    /\ moving # "registry" => UNCHANGED registryVars
    /\ moving # "stacks" => UNCHANGED stacksVars
    /\ moving # "builders" => UNCHANGED buildersVars
    /\ moving # "win32" => UNCHANGED registryWinVars
    /\ moving # "darwin" => UNCHANGED darwinVars

ThreadsNext ==
    /\ \/ part = "registry" /\ RegistryNext
       \/ part = "stacks" /\ StacksNext
       \/ part = "builders" /\ BuildersNext
       \/ part = "win32" /\ WinRegistryNext
       \/ part = "darwin" /\ DarwinNext
    /\ Others(part)
    /\ UNCHANGED part

ThreadsSpec ==
    /\ ThreadsInit /\ [][ThreadsNext]_threadsVars
    /\ RegistryFairness
    /\ StacksFairness
    /\ BuildersFairness
    /\ WinRegistryFairness
    /\ DarwinFairness

------------------------------------------------------------------------------
\* Nobody waits for ever: a thread that leaves, that was resumed, that collects,
\* that joins or detaches another one, and that faulted.
NobodyWaitsForever ==
    /\ LeaveUnlessDisabled /\ GoesOn /\ CollectionsStart
    /\ WaitersReturn /\ StopsAndStarts /\ FaultsServed
=============================================================================

------------------------------ MODULE MCObjects ------------------------------
(***************************************************************************)
(* What clients hand to the collector and what it finds out about objects, *)
(* for TLC: roots, descriptors, the debugging allocator, the back graph,   *)
(* dirty pages, cords and their files, thread-specific storage, and the    *)
(* threads and stacks of Windows.  A behaviour chooses one of them at its  *)
(* start and the others stand still, so that each is explored by itself.   *)
(***************************************************************************)
EXTENDS Roots, Typed, BackGraph, DebugHeap, Cords, LazyFile, Pagemap,
        Specific, WinThreads, WinStacks, TLC

CONSTANTS main, thrA, thrB, i1, i2, q1, q2

VARIABLE part       \* the component that moves

objectVars == <<rootsVars, typedVars, backVars, debugVars, cordVars, lazyVars,
                dirtyVars, pagemapVars, specificVars, winVars, winStackVars, part>>

------------------------------------------------------------------------------
(* Values of the constants *)

\* Roots: intervals that overlap, meet and end within words; libraries with
\* and without a read-only part; two memory maps.
MCRtHash == [x \in Addr |-> x % 3]
MCRanges == {<<0, 4>>, <<2, 10>>, <<10, 12>>, <<3, 5>>}
MCExcluded == {<<3, 4>>, <<5, 8>>}
MCLibrary == << [load |-> <<2, 8>>, relro |-> <<4, 6>>],
                [load |-> <<8, 12>>, relro |-> <<8, 10>>],
                [load |-> <<0, 2>>, relro |-> <<>>] >>
Mapped(x, y, p) == [from |-> x, to |-> y, prot |-> p]
MCMapLists ==
    {<< Mapped(0, 6, "w"), Mapped(6, 8, "none"), Mapped(8, 12, "w") >>,
     << Mapped(0, 2, "w"), Mapped(2, 4, "none"), Mapped(4, 10, "w"), Mapped(10, 12, "w") >>}
MCOurMemory == << <<6, 8>>, <<2, 4>> >>

\* Descriptors: bitmaps that fit in a word, that need one or two more words,
\* and with bits beyond their length.
Bits(s, n) == [bm |-> s, len |-> n]
MCBitmaps == {Bits({0, 1}, 2), Bits({1, 3}, 4), Bits({0}, 2), Bits({0, 6, 8}, 7),
              Bits({1, 13}, 15), Bits({1, 9}, 1)}
MCArraySizes == {[n |-> n, size |-> s] : n \in {1, 3, 4, 5, 7}, s \in 1..4}

\* Back graphs: one without a cycle, and one with a cycle that is entered twice.
Dag == [o \in 1..4 |-> CASE o = 1 -> {2, 3, 4} [] o = 2 -> {4} [] o = 3 -> {2, 4} [] OTHER -> {}]
Loop == [o \in 1..4 |-> CASE o = 1 -> {2, 4} [] o = 2 -> {3} [] o = 3 -> {2, 4} [] OTHER -> {}]
MCGraphs == {Dag, Loop}

\* Cords: strings below and above SHORT_LIMIT, a deep left tree, functions.
MCCordStrings == {<<"a">>, <<"b", "a">>, <<"a", "b", "a", "b">>}
MCCordFns == {[f |-> <<"a", "b">>, len |-> 4], [f |-> <<"nul">>, len |-> 2]}
MCCordStarts ==
    {<<>>, << <<"b">>, <<"a">>, <<"b">>, <<"b">>, <<"a">>, <<"b">>, <<"a">>, <<"b">> >>,
     << <<"a", "b", "b">>, <<"a", "b", "a">> >>}

\* Dirty pages: one and two blocks to a page, hashes that collide, two writers.
MCSections == << <<1, 2>>, <<3, 4>> >>
Build(v, n, h, w, k) == [vdb |-> v, bpp |-> n, pht |-> h, writers |-> w, sects |-> k]
Distinct == [x \in 1..4 |-> x]
Colliding == [x \in 1..4 |-> 0]
MCConfigs ==
    {Build("soft", 1, Colliding, {thrA}, 1), Build("gww", 2, Distinct, {thrA}, 2),
     Build("proc", 1, Distinct, {thrA}, 1), Build("mprotect", 1, Distinct, {thrA}, 1),
     Build("mprotect", 2, Distinct, {thrA, thrB}, 1)}

\* Regions that meet, that are out of order, with a gap, longer than the buffer,
\* and one that begins inside of a page.
MCRegions ==
    {<< <<0, 6>>, <<6, 11>> >>, << <<4, 14>>, <<0, 4>> >>,
     << <<2, 4>>, <<8, 14>> >>, << <<6, 14>>, <<1, 4>> >>}

MCCacheSlot == [q \in TsdPage |-> 1]

\* Windows stacks: two below a page of data or heap, and one that is unused.
MCPages == <<"data", "s1", "s1", "s1", "data", "s2", "s2", "heap", "s3", "s3">>
MCAreaOf == (main :> "s1" @@ thrA :> "s2")

------------------------------------------------------------------------------
ObjectsInit ==
    /\ part \in {"roots", "typed", "back", "debug", "cords", "files", "dirty",
                 "pagemap", "specific", "threads", "stacks"}
    /\ RootsInit /\ (part # "roots" => variant = "merge")
    /\ TypedInit
    /\ BackInit /\ (part # "back" => ptrs = Dag)
    /\ DebugInit /\ (part # "debug" => dbMode = "plain")
    /\ CordInit /\ (part # "cords" => nops = 0 /\ val = <<>>)
    /\ LazyInit
    /\ DirtyInit /\ (part # "dirty" => vdb = "soft")
    /\ PagemapInit /\ (part # "pagemap" => soft = {} /\ regions = CHOOSE x \in Regions : TRUE)
    /\ SpecificInit
    /\ WinInit
    /\ WinStacksInit /\ (part # "stacks" => memPrivate)

Others(moving) ==
    /\ moving # "roots" => UNCHANGED rootsVars
    /\ moving # "typed" => UNCHANGED typedVars
    /\ moving # "back" => UNCHANGED backVars
    /\ moving # "debug" => UNCHANGED debugVars
    /\ moving # "cords" => UNCHANGED cordVars
    /\ moving # "files" => UNCHANGED lazyVars
    /\ moving # "dirty" => UNCHANGED dirtyVars
    /\ moving # "pagemap" => UNCHANGED pagemapVars
    /\ moving # "specific" => UNCHANGED specificVars
    /\ moving # "threads" => UNCHANGED winVars
    /\ moving # "stacks" => UNCHANGED winStackVars

ObjectsNext ==
    /\ \/ part = "roots" /\ RootsNext
       \/ part = "typed" /\ TypedNext
       \/ part = "back" /\ BackNext
       \/ part = "debug" /\ DebugNext
       \/ part = "cords" /\ CordNext
       \/ part = "files" /\ LazyNext
       \/ part = "dirty" /\ DirtyNext
       \/ part = "pagemap" /\ PagemapNext
       \/ part = "specific" /\ SpecificNext
       \/ part = "threads" /\ WinNext
       \/ part = "stacks" /\ WinStacksNext
    /\ Others(part)
    /\ UNCHANGED part

ObjectsSpec == ObjectsInit /\ [][ObjectsNext]_objectVars

------------------------------------------------------------------------------
\* The debugging aids: the back graph, and the lists of errors.
DiagnosticsSound == BackSound /\ DebugSound

\* Cords, those read from files lazily among them, have their characters.
CharactersRight == CordsSound /\ CharsRight /\ LinesTagged

\* Windows: threads that DllMain reports, and their stacks.
WinSound == WinThreadsSound /\ WinStacksSound

\* A collection misses no object that was written beyond its end, and no stack
\* of a thread that attached meanwhile.
NothingMissed == SmashedFound /\ AttachedScanned
=============================================================================

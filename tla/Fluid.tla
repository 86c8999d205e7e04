-------------------------------- MODULE Fluid --------------------------------
(***************************************************************************)
(* The frames of fluidanimate (pthreads.cpp, which pthreads_scheduler.cpp  *)
(* repeats but for main; cellpool.cpp).  The threads share a grid of cells *)
(* and each sweeps the cells of its own part, phase by phase, with a       *)
(* barrier after every phase.  A cell is a list of structures of           *)
(* ParticlesPerCell slots: the first lies in the array cells, the others   *)
(* come from the pools of the threads.                                     *)
(*                                                                         *)
(* Physics is reduced to what the sharing depends on: the cell each        *)
(* particle belongs to by its position (pos), and how many neighbours      *)
(* have been added to its density and to its acceleration.  Two particles  *)
(* of adjacent cells are taken to be in reach of each other.               *)
(***************************************************************************)
EXTENDS Integers, FiniteSets, FiniteSetsExt

CONSTANTS
    nx, ny, nz,          \* cells in each dimension
    XDIVS, ZDIVS,        \* parts in x and z, one for each thread
    numParticles,
    ParticlesPerCell,    \* 16 in the code
    framenum,
    InitialAlloc,        \* structures of a new pool, at least 1024 in the code
    MaxBlocks,           \* bound: structures the pools may allocate
    NULL

Threads == 0 .. XDIVS * ZDIVS - 1
Cells == 0 .. nx * ny * nz - 1
Particles == 1 .. numParticles
Slots == 0 .. ParticlesPerCell - 1

ASSUME GridAssumption ==
    /\ {nx, ny, nz, XDIVS, ZDIVS} \subseteq Nat \ {0}
    /\ XDIVS \in {ZDIVS, 2 * ZDIVS} /\ nx >= XDIVS /\ nz >= ZDIVS
ASSUME SizesAssumption ==
    /\ {ParticlesPerCell, InitialAlloc} \subseteq Nat \ {0}
    /\ {numParticles, framenum, MaxBlocks} \subseteq Nat
    /\ MaxBlocks >= XDIVS * ZDIVS * InitialAlloc

\* The structures, in the order of their addresses: the two arrays of cells,
\* and above them those of the pools.
Heads == {0, 1} \X Cells
Blocks == {2} \X (0 .. MaxBlocks - 1)
Nodes == Heads \cup Blocks

ASSUME NullAssumption == NULL \notin Nodes \cup Particles \cup (Nodes \X Slots)

VARIABLES
    entered, left,         \* barriers each thread has entered and left
    cells,                 \* which array is cells; the other is cells2
    cnumPars,              \* for each array
    nextp, slot,           \* of each structure
    last_cells,
    pool, alloc, used,     \* pools[t]: free list, next allocation; blocks so far
    loaded, pool_id,       \* InitSim: particles read, pool of the next structure
    pos, density, force,   \* of each particle
    todo,                  \* cells left in this phase, for each thread
    j, cell2, dest,        \* RebuildGridMT: source index, source, slot reserved
    saved,                 \* how often SaveFile wrote each particle, or NULL
    wide                   \* history: a particle has travelled more than one cell

barrierVars == <<entered, left>>
poolVars == <<pool, alloc, used>>
initVars == <<loaded, pool_id>>
particleVars == <<pos, density, force>>
rebuildVars == <<j, cell2, dest>>
gridVars == <<cnumPars, nextp, slot, last_cells>>
vars == <<barrierVars, cells, gridVars, poolVars, initVars, particleVars, todo, rebuildVars, saved,
          wide>>

B == INSTANCE Barrier WITH served <- {}
-----------------------------------------------------------------------------
(* The grid *)

Ix(c) == c % nx
Iy(c) == (c \div nx) % ny
Iz(c) == c \div (nx * ny)

\* Where the i-th of divs parts of n cells begins, rounded to the nearest.
Part(n, divs, i) == (2 * n * i + divs) \div (2 * divs)

InGrid(t, c) ==
    LET i == t \div ZDIVS
        k == t % ZDIVS
    IN  /\ Ix(c) >= Part(nx, XDIVS, i) /\ Ix(c) < Part(nx, XDIVS, i + 1)
        /\ Iz(c) >= Part(nz, ZDIVS, k) /\ Iz(c) < Part(nz, ZDIVS, k + 1)

OwnCells(t) == {c \in Cells : InGrid(t, c)}

Adjacent(a, b) == a - b \in -1 .. 1
Neighbours(c) == {d \in Cells : /\ Adjacent(Ix(c), Ix(d))
                                /\ Adjacent(Iy(c), Iy(d))
                                /\ Adjacent(Iz(c), Iz(d))}

Border_OneSide(c) == \E t \in Threads : InGrid(t, c) /\ \E d \in Neighbours(c) : d > c /\ ~InGrid(t, d)
Border(c) == \E t \in Threads : InGrid(t, c) /\ \E d \in Neighbours(c) : ~InGrid(t, d)
-----------------------------------------------------------------------------
(* Lists of structures *)

\* The structure k steps behind n.
Behind(n, k) ==
    LET at[i \in 0 .. k] == IF i = 0 THEN n ELSE nextp[at[i - 1]]
    IN  at[k]

\* The j-th particle of a cell, and where it is stored.
Place(a, c, i) == <<Behind(<<a, c>>, i \div ParticlesPerCell), i % ParticlesPerCell>>
Held(place) == slot[place[1]][place[2]]
Places(c) == {Place(cells, c, i) : i \in 0 .. cnumPars[cells][c] - 1}
Members(c) == {Held(place) : place \in Places(c)}

\* cellpool_getcell(pool of t), appended behind tail; an empty pool allocates a
\* linked run of structures, and twice as many the next time.
Linked(t) ==
    IF pool[t] # NULL THEN nextp
    ELSE LET end == used + alloc[t] - 1
         IN  [n \in Nodes |-> IF n[1] # 2 \/ n[2] \notin used .. end THEN nextp[n]
                              ELSE IF n[2] = end THEN NULL ELSE <<2, n[2] + 1>>]
FirstFree(t) == IF pool[t] # NULL THEN pool[t] ELSE <<2, used>>

GetCell(t, tail) ==
    /\ pool[t] = NULL => used + alloc[t] <= MaxBlocks
    /\ nextp' = [Linked(t) EXCEPT ![FirstFree(t)] = NULL, ![tail] = FirstFree(t)]
    /\ pool' = [pool EXCEPT ![t] = Linked(t)[FirstFree(t)]]
    /\ used' = used + (IF pool[t] = NULL THEN alloc[t] ELSE 0)
    /\ alloc' = IF pool[t] = NULL THEN [alloc EXCEPT ![t] = 2 * @] ELSE alloc

ReturnCell(t, n) ==
    /\ nextp' = [nextp EXCEPT ![n] = pool[t]]
    /\ pool' = [pool EXCEPT ![t] = n]

\* A cell with np particles needs another structure for the next.
Full(np) == np % ParticlesPerCell = 0 /\ np # 0
-----------------------------------------------------------------------------
(* InitSim *)

Phases == <<"swap", "clear", "rebuild", "init", "densities", "densities2",
            "forces", "collisions", "advance", "collisions2">>
PhaseAfter(rounds) == Phases[1 + (rounds % 10)]
Phase(t) == PhaseAfter(left[t])

Work(t, rounds) == IF PhaseAfter(rounds) # "swap" THEN OwnCells(t)
                   ELSE IF t = 0 THEN {0} ELSE {}

\* cnumPars2 is not initialised: -1 stands for what the memory holds.
Init ==
    /\ entered = [t \in Threads |-> 0] /\ left = [t \in Threads |-> 0]
    /\ cells = 0
    /\ cnumPars = [a \in {0, 1} |-> [c \in Cells |-> IF a = 0 THEN 0 ELSE -1]]
    /\ used = XDIVS * ZDIVS * InitialAlloc
    /\ nextp = [n \in Nodes |-> IF n \in {2} \X (0 .. used - 1) /\ (n[2] + 1) % InitialAlloc # 0
                                THEN <<2, n[2] + 1>> ELSE NULL]
    /\ slot = [n \in Nodes |-> [i \in Slots |-> NULL]]
    /\ last_cells = [c \in Cells |-> NULL]
    /\ pool = [t \in Threads |-> <<2, t * InitialAlloc>>]
    /\ alloc = [t \in Threads |-> InitialAlloc]
    /\ loaded = 0 /\ pool_id = 0
    /\ pos = [p \in Particles |-> 0]
    /\ density = [p \in Particles |-> 0] /\ force = [p \in Particles |-> 0]
    /\ todo = [t \in Threads |-> Work(t, 0)]
    /\ j = [t \in Threads |-> 0]
    /\ cell2 = [t \in Threads |-> NULL] /\ dest = [t \in Threads |-> NULL]
    /\ saved = NULL /\ wide = FALSE

\* The next particle of the file, in any cell.
Load(c) ==
    /\ loaded < numParticles
    /\ loaded' = loaded + 1
    /\ pos' = [pos EXCEPT ![loaded + 1] = c]
    /\ LET np == cnumPars[0][c]
           tail == Behind(<<0, c>>, IF np = 0 THEN 0 ELSE (np - 1) \div ParticlesPerCell)
           node == IF Full(np) THEN FirstFree(pool_id) ELSE tail
       IN  /\ IF Full(np)
              THEN GetCell(pool_id, tail) /\ pool_id' = (pool_id + 1) % (XDIVS * ZDIVS)
              ELSE UNCHANGED <<nextp, poolVars, pool_id>>
           /\ slot' = [slot EXCEPT ![node][np % ParticlesPerCell] = loaded + 1]
           /\ cnumPars' = [cnumPars EXCEPT ![0][c] = np + 1]
    /\ UNCHANGED <<barrierVars, cells, last_cells, density, force, todo, rebuildVars, saved, wide>>
-----------------------------------------------------------------------------
(* The phases of a frame *)

Started == loaded = numParticles
Goal_Shared(t) == IF t = 0 THEN framenum ELSE framenum - 1
Goal(t) == framenum
Working(t) == Started /\ entered[t] = left[t] /\ left[t] < 10 * Goal(t)

\* Thread t has cells left to visit in a phase; c is the next of them.
At(t, c, phase) ==
    /\ Working(t) /\ Phase(t) = phase
    /\ todo[t] # {} /\ c = Min(todo[t])

Visited(t, c) == todo' = [todo EXCEPT ![t] = @ \ {c}]

Swap ==
    /\ At(0, 0, "swap")
    /\ cells' = 1 - cells
    /\ Visited(0, 0)
    /\ UNCHANGED <<barrierVars, gridVars, poolVars, initVars, particleVars, rebuildVars, saved, wide>>

\* ClearParticlesMT
CountCleared_Keep(c) == UNCHANGED cnumPars
CountCleared(c) == cnumPars' = [cnumPars EXCEPT ![cells][c] = 0]

HeadsCleared_Keep(c) == UNCHANGED nextp
HeadsCleared(c) == nextp' = [nextp EXCEPT ![<<cells, c>>] = NULL]

Clear(t, c) ==
    /\ At(t, c, "clear")
    /\ CountCleared(c) /\ HeadsCleared(c)
    /\ last_cells' = [last_cells EXCEPT ![c] = <<cells, c>>]
    /\ Visited(t, c)
    /\ UNCHANGED <<barrierVars, cells, slot, poolVars, initVars, particleVars, rebuildVars, saved, wide>>

\* RebuildGridMT: for each particle of the source cell a slot is reserved in
\* its destination, under the destination's mutex if that is on a border ...
Source_Head(t, c) == <<1 - cells, c>>
Source(t, c) == IF j[t] = 0 THEN <<1 - cells, c>> ELSE cell2[t]
SourceSlot(t, c) == <<Source(t, c), j[t] % ParticlesPerCell>>
Destination(t, c) == pos[Held(SourceSlot(t, c))]

Reserve(t, c) ==
    /\ At(t, c, "rebuild") /\ dest[t] = NULL /\ j[t] < cnumPars[1 - cells][c]
    /\ LET d == Destination(t, c)
           np == cnumPars[cells][d]
           node == IF Full(np) THEN FirstFree(t) ELSE last_cells[d]
       IN  /\ IF Full(np) THEN GetCell(t, last_cells[d]) ELSE UNCHANGED <<nextp, poolVars>>
           /\ last_cells' = [last_cells EXCEPT ![d] = node]
           /\ cnumPars' = [cnumPars EXCEPT ![cells][d] = np + 1]
           /\ dest' = [dest EXCEPT ![t] = <<node, np % ParticlesPerCell>>]
    /\ UNCHANGED <<barrierVars, cells, slot, initVars, particleVars, todo, j, cell2, saved, wide>>

\* ... and written after it is released; a source structure that has been
\* emptied goes to the pool of this thread ...
Copy(t, c) ==
    LET from == Source(t, c)
        emptied == j[t] % ParticlesPerCell = ParticlesPerCell - 1
    IN  /\ At(t, c, "rebuild") /\ dest[t] # NULL
        /\ slot' = [slot EXCEPT ![dest[t][1]][dest[t][2]] = Held(SourceSlot(t, c))]
        /\ dest' = [dest EXCEPT ![t] = NULL]
        /\ j' = [j EXCEPT ![t] = @ + 1]
        /\ cell2' = [cell2 EXCEPT ![t] = IF emptied THEN nextp[from] ELSE from]
        /\ IF emptied /\ from \notin Heads
           THEN ReturnCell(t, from) ELSE UNCHANGED <<nextp, pool>>
        /\ UNCHANGED <<barrierVars, cells, cnumPars, last_cells, alloc, used, initVars,
                       particleVars, todo, saved, wide>>

\* ... as does the last one of the cell.
Rest(n) == n # NULL /\ n \notin Heads

SourceDone(t, c) ==
    /\ At(t, c, "rebuild") /\ dest[t] = NULL /\ j[t] = cnumPars[1 - cells][c]
    /\ IF Rest(Source(t, c))
       THEN ReturnCell(t, Source(t, c)) ELSE UNCHANGED <<nextp, pool>>
    /\ j' = [j EXCEPT ![t] = 0] /\ cell2' = [cell2 EXCEPT ![t] = NULL]
    /\ Visited(t, c)
    /\ UNCHANGED <<barrierVars, cells, cnumPars, slot, last_cells, alloc, used, initVars,
                   particleVars, dest, saved, wide>>

\* InitDensitiesAndForcesMT
Zeroed(f, c) == [p \in Particles |-> IF p \in Members(c) THEN 0 ELSE f[p]]

InitDensitiesAndForces(t, c) ==
    /\ At(t, c, "init")
    /\ density' = Zeroed(density, c) /\ force' = Zeroed(force, c)
    /\ Visited(t, c)
    /\ UNCHANGED <<barrierVars, cells, gridVars, poolVars, initVars, pos, rebuildVars, saved, wide>>

\* InitNeighCellList, and the pairs of places the loops over it let through.
NeighCells(c) == {c} \cup {d \in Neighbours(c) : d < c /\ cnumPars[cells][d] # 0}

Below_Differ(m, n) == m # n
Below(m, n) ==
    \/ m[1][1] < n[1][1]
    \/ m[1][1] = n[1][1] /\ m[1][2] < n[1][2]
    \/ m[1] = n[1] /\ m[2] < n[2]

Pairs(c) == {pair \in Places(c) \X UNION {Places(d) : d \in NeighCells(c)} : Below(pair[2], pair[1])}

Summed(f, c) ==
    [p \in Particles |-> f[p] + Cardinality({m \in Pairs(c) : p \in {Held(m[1]), Held(m[2])}})]

\* ComputeDensitiesMT, ComputeForcesMT
ComputeDensities(t, c) ==
    /\ At(t, c, "densities")
    /\ density' = Summed(density, c)
    /\ Visited(t, c)
    /\ UNCHANGED <<barrierVars, cells, gridVars, poolVars, initVars, pos, force, rebuildVars, saved, wide>>

ComputeForces(t, c) ==
    /\ At(t, c, "forces")
    /\ force' = Summed(force, c)
    /\ Visited(t, c)
    /\ UNCHANGED <<barrierVars, cells, gridVars, poolVars, initVars, pos, density, rebuildVars, saved, wide>>

\* ComputeDensities2MT scales, ProcessCollisionsMT and ProcessCollisions2MT
\* push back from the walls: each changes only values of the cell's particles.
Adjust(t, c, phase) ==
    /\ At(t, c, phase)
    /\ Visited(t, c)
    /\ UNCHANGED <<barrierVars, cells, gridVars, poolVars, initVars, particleVars, rebuildVars, saved, wide>>

ComputeDensities2(t, c) == Adjust(t, c, "densities2")
ProcessCollisions(t, c) == Adjust(t, c, "collisions")
ProcessCollisions2(t, c) == Adjust(t, c, "collisions2")

\* AdvanceParticlesMT.  Nothing in it keeps a particle from travelling further than
\* to an adjacent cell: the checks are disabled (pthreads.cpp:565-597).
Advance(t, c) ==
    /\ At(t, c, "advance")
    /\ \E to \in [Members(c) -> Cells] :
          /\ pos' = [p \in Particles |-> IF p \in Members(c) THEN to[p] ELSE pos[p]]
          /\ wide' = (wide \/ \E p \in Members(c) : to[p] \notin Neighbours(c))
    /\ Visited(t, c)
    /\ UNCHANGED <<barrierVars, cells, gridVars, poolVars, initVars, density, force, rebuildVars, saved>>

\* pthread_barrier_wait after each phase
Enter(t) ==
    /\ Working(t) /\ todo[t] = {}
    /\ B!Enter(t)
    /\ UNCHANGED <<cells, gridVars, poolVars, initVars, particleVars, todo, rebuildVars, saved, wide>>

Leave(t) ==
    /\ B!MayLeave(t)
    /\ left' = [left EXCEPT ![t] = @ + 1]
    /\ todo' = [todo EXCEPT ![t] = Work(t, left[t] + 1)]
    /\ UNCHANGED <<entered, cells, gridVars, poolVars, initVars, particleVars, rebuildVars,
                   saved, wide>>

\* main joins the threads, writes the particles and returns the structures.
Joined == Started /\ \A t \in Threads : left[t] = 10 * framenum

SaveFile ==
    /\ Joined /\ saved = NULL
    /\ saved' = [p \in Particles |->
                  Cardinality({at \in Cells \X (0 .. numParticles - 1) :
                      at[2] < cnumPars[cells][at[1]] /\ Held(Place(cells, at[1], at[2])) = p})]
    /\ UNCHANGED <<barrierVars, cells, gridVars, poolVars, initVars, particleVars, todo,
                   rebuildVars, wide>>

CleanUpSim(c) ==
    LET head == <<cells, c>>
        temp == nextp[head]
    IN  /\ saved # NULL /\ temp # NULL
        /\ nextp' = [nextp EXCEPT ![head] = nextp[temp], ![temp] = pool[0]]
        /\ pool' = [pool EXCEPT ![0] = temp]
        /\ UNCHANGED <<barrierVars, cells, cnumPars, slot, last_cells, alloc, used, initVars,
                       particleVars, todo, rebuildVars, saved, wide>>

Sweep(t, c) ==
    \/ Clear(t, c) \/ Reserve(t, c) \/ Copy(t, c) \/ SourceDone(t, c)
    \/ InitDensitiesAndForces(t, c)
    \/ ComputeDensities(t, c) \/ ComputeDensities2(t, c) \/ ComputeForces(t, c)
    \/ ProcessCollisions(t, c) \/ Advance(t, c) \/ ProcessCollisions2(t, c)

ThreadStep(t) == Enter(t) \/ Leave(t) \/ (\E c \in Cells : Sweep(t, c))

Next ==
    \/ \E c \in Cells : Load(c) \/ CleanUpSim(c)
    \/ Swap
    \/ \E t \in Threads : ThreadStep(t)
    \/ SaveFile

Spec == Init /\ [][Next]_vars

FairSpec ==
    /\ Spec
    /\ WF_vars(\E c \in Cells : Load(c)) /\ WF_vars(Swap)
    /\ \A t \in Threads : WF_vars(ThreadStep(t))
-----------------------------------------------------------------------------
(* Properties *)

\* The types of the variables: barriers, grid, pools, particles, and where each
\* thread is in its sweep.
TypeOK ==
    /\ entered \in [Threads -> Nat] /\ left \in [Threads -> 0 .. 10 * framenum]
    /\ cells \in {0, 1}
    /\ cnumPars \in [{0, 1} -> [Cells -> -1 .. numParticles]]
    /\ nextp \in [Nodes -> Nodes \cup {NULL}]
    /\ slot \in [Nodes -> [Slots -> Particles \cup {NULL}]]
    /\ last_cells \in [Cells -> Nodes \cup {NULL}]
    /\ pool \in [Threads -> Blocks \cup {NULL}]
    /\ alloc \in [Threads -> Nat] /\ used \in 0 .. MaxBlocks
    /\ loaded \in 0 .. numParticles /\ pool_id \in Threads
    /\ pos \in [Particles -> Cells]
    /\ density \in [Particles -> Nat] /\ force \in [Particles -> Nat]
    /\ todo \in [Threads -> SUBSET Cells]
    /\ j \in [Threads -> 0 .. numParticles]
    /\ cell2 \in [Threads -> Nodes \cup {NULL}]
    /\ dest \in [Threads -> (Nodes \X Slots) \cup {NULL}]
    /\ saved \in [Particles -> Nat] \cup {NULL} /\ wide \in BOOLEAN

\* What a thread is about to touch, and whether it does so under the mutex of
\* the cell concerned.
Read(loc) == [loc |-> loc, write |-> FALSE, locked |-> FALSE]
Write(loc) == [loc |-> loc, write |-> TRUE, locked |-> FALSE]
WriteLocked(loc, c) == [loc |-> loc, write |-> TRUE, locked |-> Border(c)]

Walk(a, c) ==   \* reading a cell: its count, its structures, its particles
    {Read(<<"num", a, c>>)} \cup
    {Read(<<"next", Behind(<<a, c>>, i \div ParticlesPerCell)>>) : i \in 0 .. cnumPars[a][c] - 1}

Own(fields, c) == {Write(<<f, p>>) : f \in fields, p \in Members(c)}
Look(fields, c) == {Read(<<f, p>>) : f \in fields, p \in UNION {Members(d) : d \in NeighCells(c)}}
WalkAround(c) == (UNION {Walk(cells, d) : d \in NeighCells(c)}) \cup
                 {Read(<<"num", cells, d>>) : d \in Neighbours(c)}
AddTo(field, c) == UNION {{WriteLocked(<<field, p>>, d) : p \in Members(d)} : d \in NeighCells(c)}

ReserveAccess(t, c) ==
    LET d == Destination(t, c)
    IN  {WriteLocked(<<"num", cells, d>>, d), WriteLocked(<<"last", d>>, d),
         WriteLocked(<<"next", last_cells[d]>>, d),
         Read(<<"slot", SourceSlot(t, c)>>), Write(<<"pool", t>>)} \cup
        (IF pool[t] = NULL THEN {} ELSE {Write(<<"next", pool[t]>>)})

CopyAccess(t, c) ==
    {Write(<<"slot", dest[t]>>), Read(<<"slot", SourceSlot(t, c)>>),
     Read(<<"next", Source(t, c)>>), Write(<<"pool", t>>)} \cup
    (IF Rest(Source(t, c)) THEN {Write(<<"next", Source(t, c)>>)} ELSE {})

Access(t) ==
    IF ~(Working(t) /\ todo[t] # {}) THEN {}
    ELSE IF Phase(t) = "swap" THEN {Write(<<"arrays">>)}
    ELSE LET c == Min(todo[t])
         IN {Read(<<"arrays">>)} \cup
            CASE Phase(t) = "clear" ->
                    {Write(<<"num", cells, c>>), Write(<<"next", <<cells, c>>>>), Write(<<"last", c>>)}
              [] Phase(t) = "rebuild" ->
                    {Read(<<"num", 1 - cells, c>>)} \cup
                    (IF dest[t] # NULL THEN CopyAccess(t, c)
                     ELSE IF j[t] < cnumPars[1 - cells][c] THEN ReserveAccess(t, c)
                     ELSE {Write(<<"pool", t>>)} \cup
                          (IF Rest(Source(t, c)) THEN {Write(<<"next", Source(t, c)>>)} ELSE {}))
              [] Phase(t) = "init" -> Walk(cells, c) \cup Own({"density", "force"}, c)
              [] Phase(t) = "densities" ->
                    WalkAround(c) \cup Look({"p"}, c) \cup AddTo("density", c)
              [] Phase(t) = "densities2" -> Walk(cells, c) \cup Own({"density"}, c)
              [] Phase(t) = "forces" ->
                    WalkAround(c) \cup Look({"p", "v", "density"}, c) \cup AddTo("force", c)
              [] Phase(t) = "collisions" -> Walk(cells, c) \cup Own({"force"}, c)
              [] OTHER -> Walk(cells, c) \cup Own({"p", "v"}, c)

Conflict(x, y) == x.loc = y.loc /\ (x.write \/ y.write) /\ ~(x.locked /\ y.locked)

Race(t, u) == \E x \in Access(t), y \in Access(u) : Conflict(x, y)

\* Thread t is about to put a particle into a cell that is not next to the one it
\* comes from, and takes no mutex because that cell is not on a border.
Astray(t) ==
    /\ Working(t) /\ todo[t] # {} /\ Phase(t) = "rebuild" /\ dest[t] = NULL
    /\ LET c == Min(todo[t])
       IN  /\ j[t] < cnumPars[1 - cells][c]
           /\ Destination(t, c) \notin Neighbours(c) /\ ~Border(Destination(t, c))

\* Threads use no mutex for the cells that are not on a border, which is right if
\* particles travel at most one cell (the comment at pthreads.cpp:601).  Whatever
\* the particles do, that is the one way to a race: no two threads are about to
\* touch the same datum, one writing and not both under its mutex, unless one of
\* them is putting a particle that travelled further into such a cell.  From that
\* race on the code may do what this model does not.
NoRace ==
    \A t, u \in Threads : t # u /\ Race(t, u) => Astray(t) \/ Astray(u)

\* cells holds a complete grid: from the end of RebuildGridMT to the next swap.
Swapped == Phase(0) = "swap" /\ todo[0] = {}
Settled == /\ Started /\ ~Swapped
           /\ \A t \in Threads : Phase(t) \notin {"clear", "rebuild"}

\* Whatever moved, each particle is stored once, in the cell of its position,
\* and SaveFile writes every particle once (the assertion at its end), as long as
\* particles travel at most one cell.
StoredOnce(p) == Cardinality({at \in Cells \X (0 .. numParticles - 1) :
                              at[2] < cnumPars[cells][at[1]] /\ Held(Place(cells, at[1], at[2])) = p}) = 1

InPlace(p) == \E c \in Cells : p \in Members(c) /\
    ((\A t \in Threads : Phase(t) \in {"init", "densities", "densities2", "forces", "collisions"})
     => c = pos[p])

ParticlesConserved == ~wide =>
    /\ Settled /\ saved = NULL => \A p \in Particles : StoredOnce(p) /\ InPlace(p)
    /\ saved # NULL => \A p \in Particles : saved[p] = 1

\* Structures migrate between pools but are neither lost nor listed twice: each
\* is in one pool or behind one cell, as long as particles travel at most one cell.
ListFrom(n) ==
    LET at[i \in 0 .. MaxBlocks] == IF i = 0 THEN n
                                    ELSE IF at[i - 1] = NULL THEN NULL ELSE nextp[at[i - 1]]
    IN  {at[i] : i \in 0 .. MaxBlocks} \ {NULL}

BlocksAccounted ==
    Settled /\ ~wide => \A b \in {2} \X (0 .. used - 1) :
        Cardinality({t \in Threads : b \in ListFrom(pool[t])})
        + Cardinality({c \in Cells : b \in ListFrom(nextp[<<cells, c>>])}) = 1

\* Between two frames' moves each particle's density and acceleration have had
\* every neighbour added at most once; exactly once if no cell is longer than
\* one structure.  (Again as long as particles travel at most one cell.)
InReach(p) == {q \in Particles \ {p} : pos[q] \in Neighbours(pos[p])}
NoLongCell == \A c \in Cells : cnumPars[cells][c] <= ParticlesPerCell

DensityKnown == \A t \in Threads : Phase(t) \in {"densities2", "forces", "collisions"}
ForceKnown == \A t \in Threads : Phase(t) = "collisions"

AddedOnce(f) ==
    \A p \in Particles : /\ f[p] <= Cardinality(InReach(p))
                         /\ NoLongCell => f[p] = Cardinality(InReach(p))

PairsAtMostOnce == Started /\ ~wide => (DensityKnown => AddedOnce(density)) /\ (ForceKnown => AddedOnce(force))

\* Every thread gets through all its frames: no thread waits at a barrier that
\* another never reaches (pthreads.cpp:1119-1163), unless a particle has travelled
\* more than one cell.
FramesDone == <>(wide \/ \A t \in Threads : left[t] = 10 * framenum)

\* "make sure densities are computed only once per pair" (pthreads.cpp:721): each
\* pair in reach is counted.  It fails: the neighbour cells have a lower index and
\* the test compares addresses, which a structure of a pool does not follow.
EachPairOnce == Started /\ ~wide /\ DensityKnown =>
    \A p \in Particles : density[p] = Cardinality(InReach(p))
=============================================================================

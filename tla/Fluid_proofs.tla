---------------------------- MODULE Fluid_proofs ----------------------------
(***************************************************************************)
(* Theorems about the frames of fluidanimate (module Fluid), for a grid of *)
(* any size, any division of it among threads, and any number of particles *)
(* and frames.                                                             *)
(*                                                                         *)
(* The inductive invariant, FluidInv, is of four parts: how far each       *)
(* thread and each cell are in the phases of a frame (RoundInv, Stage);    *)
(* the lists of structures, of which each is in one (Lists); what is       *)
(* stored in the cells, each particle in one place (Contents); and how the *)
(* state of the program is that of these lists and contents (Grid), which  *)
(* depends on the stage of a cell.  The lists, the contents and their      *)
(* ranges are quantified: the invariant says that there are some.          *)
(*                                                                         *)
(* The sums over neighbours need one more, SumsInv: how many pairs have    *)
(* been added to each particle of a complete grid.                         *)
(*                                                                         *)
(* All of it holds until a particle travels more than one cell (wide): the *)
(* threads take no mutex for cells that no neighbour's thread shares.      *)
(*                                                                         *)
(* The prover has no induction over data: what a recursive function        *)
(* computes (Behind, ListFrom) is shown by the least argument for which it *)
(* would differ.                                                           *)
(***************************************************************************)
EXTENDS Fluid, FiniteSetTheorems, FunctionTheorems, WellFoundedInduction, TLAPS

-----------------------------------------------------------------------------
(* Numbers *)

\* A set of numbers has a least element.
LEMMA LeastElement ==
    ASSUME NEW S \in SUBSET Nat, S # {}
    PROVE  \E x \in S : \A y \in S : x <= y
<1>1. PICK x \in S : \A y \in S : ~(<<y, x>> \in OpToRel(<, Nat))
  BY NatLessThanWellFounded, WFMin
<1>2. \A y \in S : ~(y < x)
  BY <1>1 DEF OpToRel
<1> QED
  BY <1>2

\* The quotient and the remainder.
LEMMA DivMod ==
    ASSUME NEW a \in Int, NEW b \in Nat, b # 0
    PROVE  /\ a \div b \in Int /\ a % b \in Int /\ 0 <= a % b /\ a % b < b
           /\ a = b * (a \div b) + (a % b)
<1>1. a \div b \in Int /\ a % b \in Int
  OBVIOUS
<1>2. 0 <= a % b /\ a % b < b
  OBVIOUS
<1>3. a = b * (a \div b) + (a % b)
  OBVIOUS
<1> QED
  BY <1>1, <1>2, <1>3

\* The quotient is the only one.
LEMMA Quotient ==
    ASSUME NEW a \in Int, NEW b \in Nat, b # 0, NEW q \in Int, NEW r \in 0 .. b - 1, a = b * q + r
    PROVE  a \div b = q /\ a % b = r
OBVIOUS

\* Quotients keep the order.
LEMMA DivMonotone ==
    ASSUME NEW a \in Int, NEW c \in Int, a <= c, NEW b \in Nat, b # 0
    PROVE  a \div b <= c \div b
OBVIOUS

\* The parts of a dimension begin at 0, end at n and do not overlap.
LEMMA PartsInOrder ==
    ASSUME NEW n \in Nat, NEW divs \in Nat \ {0}
    PROVE  /\ \A i \in Nat : Part(n, divs, i) \in Nat
           /\ Part(n, divs, 0) = 0 /\ Part(n, divs, divs) = n
           /\ \A i, k \in Nat : i <= k => Part(n, divs, i) <= Part(n, divs, k)
<1>0. 2 * divs \in Nat /\ 2 * divs # 0 /\ divs \in Nat
  OBVIOUS
<1>1. ASSUME NEW i \in Nat PROVE 2 * n * i + divs \in Nat /\ Part(n, divs, i) \in Nat
  <2>1. 2 * n * i \in Nat
    OBVIOUS
  <2>2. 2 * n * i + divs \in Nat
    BY <1>0, <2>1
  <2>3. 0 \div (2 * divs) <= (2 * n * i + divs) \div (2 * divs)
    BY <1>0, <2>2, DivMonotone
  <2>4. 0 \div (2 * divs) = 0
    BY <1>0, Quotient
  <2>5. (2 * n * i + divs) \div (2 * divs) \in Int
    BY <1>0, <2>2, DivMod
  <2> QED
    BY <2>2, <2>3, <2>4, <2>5 DEF Part
<1>2. Part(n, divs, 0) = 0
  <2>1. divs = (2 * divs) * 0 + divs /\ divs \in 0 .. (2 * divs) - 1
    BY <1>0
  <2>2. divs \div (2 * divs) = 0
    BY <1>0, <2>1, Quotient
  <2>3. 2 * n * 0 + divs = divs
    OBVIOUS
  <2> QED
    BY <2>2, <2>3 DEF Part
<1>3. Part(n, divs, divs) = n
  <2>1. 2 * n * divs + divs = (2 * divs) * n + divs /\ divs \in 0 .. (2 * divs) - 1
    BY <1>0
  <2>2. (2 * n * divs + divs) \div (2 * divs) = n
    BY <1>0, <1>1, <2>1, Quotient
  <2> QED
    BY <2>2 DEF Part
<1>4. ASSUME NEW i \in Nat, NEW k \in Nat, i <= k PROVE Part(n, divs, i) <= Part(n, divs, k)
  <2>1. 2 * n * i + divs <= 2 * n * k + divs
    <3>1. 2 * n \in Nat
      OBVIOUS
    <3>2. \A m \in Nat : m * i <= m * k
      BY <1>4
    <3>3. (2 * n) * i <= (2 * n) * k
      BY <3>1, <3>2
    <3> QED
      BY <3>3
  <2> QED
    BY <1>0, <1>1, <2>1, DivMonotone DEF Part
<1> QED
  BY <1>1, <1>2, <1>3, <1>4

\* Each place in a dimension lies in exactly one part.
LEMMA OnePart ==
    ASSUME NEW n \in Nat, NEW divs \in Nat \ {0}, NEW x \in 0 .. n - 1
    PROVE  \E i \in 0 .. divs - 1 :
              /\ Part(n, divs, i) <= x /\ x < Part(n, divs, i + 1)
              /\ \A k \in 0 .. divs - 1 : Part(n, divs, k) <= x /\ x < Part(n, divs, k + 1) => k = i
<1> DEFINE Ends == {i \in Nat : x < Part(n, divs, i + 1)}
<1>1. divs - 1 \in Ends
  <2>1. divs - 1 \in Nat /\ (divs - 1) + 1 = divs /\ x < n
    OBVIOUS
  <2> QED
    BY <2>1, PartsInOrder
<1>2. PICK i \in Ends : \A y \in Ends : i <= y
  <2>1. Ends \in SUBSET Nat /\ Ends # {}
    BY <1>1
  <2> HIDE DEF Ends
  <2> QED BY <2>1, LeastElement
<1>3. i \in Nat /\ i <= divs - 1 /\ x < Part(n, divs, i + 1)
  BY <1>1, <1>2
<1>4. Part(n, divs, i) <= x
  <2>1. CASE i = 0
    BY <2>1, PartsInOrder
  <2>2. CASE i # 0
    <3>1. i - 1 \in Nat /\ (i - 1) + 1 = i /\ ~(i <= i - 1)
      BY <1>3, <2>2
    <3>2. ~(x < Part(n, divs, i))
      BY <1>2, <3>1
    <3> QED
      BY <1>3, <3>2, PartsInOrder
  <2> QED
    BY <2>1, <2>2
<1>5. ASSUME NEW k \in 0 .. divs - 1, Part(n, divs, k) <= x, x < Part(n, divs, k + 1) PROVE k = i
  <2>0. k \in Nat /\ k + 1 \in Nat /\ i + 1 \in Nat
    BY <1>3
  <2>1. ~(k + 1 <= i)
    BY <1>3, <1>4, <1>5, <2>0, PartsInOrder
  <2>2. ~(i + 1 <= k)
    BY <1>3, <1>5, <2>0, PartsInOrder
  <2> QED
    BY <1>3, <2>0, <2>1, <2>2
<1> QED
  BY <1>3, <1>4, <1>5

\* The sizes of the grid and of its division.
LEMMA Dimensions ==
    /\ nx \in Nat /\ nx # 0 /\ ny \in Nat /\ ny # 0 /\ nz \in Nat /\ nz # 0
    /\ XDIVS \in Nat \ {0} /\ ZDIVS \in Nat \ {0} /\ ZDIVS # 0
    /\ nx * ny \in Nat /\ nx * ny # 0
    /\ Cells \subseteq Nat /\ Threads \subseteq Nat /\ 0 \in Cells /\ 0 \in Threads
<1>1. /\ nx \in Nat /\ nx # 0 /\ ny \in Nat /\ ny # 0 /\ nz \in Nat /\ nz # 0
      /\ XDIVS \in Nat /\ XDIVS # 0 /\ ZDIVS \in Nat /\ ZDIVS # 0
  BY GridAssumption
<1>2. \A m, n \in Nat : m # 0 /\ n # 0 => m * n \in Nat /\ m * n # 0
  OBVIOUS
<1>3. nx * ny \in Nat /\ nx * ny # 0
  BY <1>1, <1>2
<1>4. nx * ny * nz \in Nat /\ nx * ny * nz # 0 /\ XDIVS * ZDIVS \in Nat /\ XDIVS * ZDIVS # 0
  BY <1>1, <1>2, <1>3
<1> QED
  BY <1>1, <1>3, <1>4 DEF Cells, Threads

\* A cell's index gives its coordinates, each within its dimension (the loops over ix, iy, iz).
LEMMA Coordinates ==
    ASSUME NEW c \in Cells
    PROVE  Ix(c) \in 0 .. nx - 1 /\ Iy(c) \in 0 .. ny - 1 /\ Iz(c) \in 0 .. nz - 1
<1>0. c \in Int /\ 0 <= c /\ c < nx * ny * nz
  BY Dimensions DEF Cells
<1>1. Ix(c) \in 0 .. nx - 1
  BY <1>0, Dimensions, DivMod DEF Ix
<1>2. c \div nx \in Int
  BY <1>0, Dimensions, DivMod
<1>3. Iy(c) \in 0 .. ny - 1
  BY <1>2, Dimensions, DivMod DEF Iy
<1> DEFINE m == nx * ny
<1>4. /\ m \in Nat /\ m # 0 /\ nz \in Nat
  BY Dimensions
<1>5. Iz(c) \in Int /\ c % m \in Int /\ 0 <= c % m /\ c % m < m /\ c = m * Iz(c) + (c % m)
  BY <1>0, <1>4, DivMod DEF Iz
<1>6. c < m * nz
  BY <1>0
<1> HIDE DEF m
<1>7. 0 <= Iz(c)
  <2>1. \A q \in Int : q <= -1 => m * q <= -m
    BY <1>4
  <2> QED
    BY <1>0, <1>4, <1>5, <2>1
<1>8. Iz(c) <= nz - 1
  <2>1. \A q \in Int : nz <= q => m * nz <= m * q
    BY <1>4
  <2> QED
    BY <1>0, <1>4, <1>5, <1>6, <2>1
<1> QED
  BY <1>1, <1>3, <1>4, <1>5, <1>7, <1>8

\* The part of a thread, by its number.
LEMMA ThreadParts ==
    /\ \A t \in Threads : t \div ZDIVS \in 0 .. XDIVS - 1 /\ t % ZDIVS \in 0 .. ZDIVS - 1
    /\ \A i \in 0 .. XDIVS - 1, k \in 0 .. ZDIVS - 1 :
          \E t \in Threads : \A u \in Threads : u \div ZDIVS = i /\ u % ZDIVS = k <=> u = t
<1>1. ASSUME NEW t \in Threads
      PROVE  /\ t \div ZDIVS \in 0 .. XDIVS - 1 /\ t % ZDIVS \in 0 .. ZDIVS - 1
             /\ t \in Int /\ t = ZDIVS * (t \div ZDIVS) + (t % ZDIVS)
  <2>0. t \in Int /\ 0 <= t /\ t < XDIVS * ZDIVS /\ ZDIVS \in Nat /\ ZDIVS # 0 /\ XDIVS \in Nat
    BY Dimensions DEF Threads
  <2> DEFINE q == t \div ZDIVS
             r == t % ZDIVS
  <2>1. q \in Int /\ r \in Int /\ 0 <= r /\ r < ZDIVS /\ t = ZDIVS * q + r
    BY <2>0, DivMod
  <2> HIDE DEF q, r
  <2>2. 0 <= q
    <3>1. \A x \in Int : x <= -1 => ZDIVS * x <= -ZDIVS
      BY <2>0
    <3> QED
      BY <2>0, <2>1, <3>1
  <2>3. q <= XDIVS - 1
    <3>1. \A x \in Int : XDIVS <= x => ZDIVS * XDIVS <= ZDIVS * x
      BY <2>0
    <3>2. XDIVS * ZDIVS = ZDIVS * XDIVS
      BY <2>0
    <3> QED
      BY <2>0, <2>1, <3>1, <3>2
  <2>4. q \in 0 .. XDIVS - 1 /\ r \in 0 .. ZDIVS - 1
    BY <2>0, <2>1, <2>2, <2>3
  <2> QED
    BY <2>0, <2>1, <2>4 DEF q, r
<1>2. ASSUME NEW i \in 0 .. XDIVS - 1, NEW k \in 0 .. ZDIVS - 1
      PROVE  \E t \in Threads : \A u \in Threads : u \div ZDIVS = i /\ u % ZDIVS = k <=> u = t
  <2>0. ZDIVS \in Nat /\ ZDIVS # 0 /\ XDIVS \in Nat /\ i \in Int /\ k \in Int
    BY Dimensions
  <2> DEFINE t == ZDIVS * i + k
  <2>1. t \in Int /\ 0 <= t /\ t <= XDIVS * ZDIVS - 1
    <3>1. ZDIVS * i <= ZDIVS * (XDIVS - 1) /\ 0 <= ZDIVS * i /\ ZDIVS * i \in Int
      BY <2>0
    <3>2. ZDIVS * (XDIVS - 1) = XDIVS * ZDIVS - ZDIVS /\ XDIVS * ZDIVS \in Int
      BY <2>0
    <3> QED
      BY <2>0, <3>1, <3>2
  <2>2. t \in Threads
    BY <2>1 DEF Threads
  <2>3. t \div ZDIVS = i /\ t % ZDIVS = k
    BY <2>0, <2>1, Quotient
  <2>4. ASSUME NEW u \in Threads, u \div ZDIVS = i, u % ZDIVS = k PROVE u = t
    BY <1>1, <2>4
  <2> HIDE DEF t
  <2> QED
    BY <2>2, <2>3, <2>4
<1> QED
  BY <1>1, <1>2

Owner(c) == CHOOSE t \in Threads : InGrid(t, c)

\* Each cell belongs to exactly one thread.
LEMMA OneOwner ==
    ASSUME NEW c \in Cells
    PROVE  Owner(c) \in Threads /\ \A t \in Threads : InGrid(t, c) <=> t = Owner(c)
<1>0. Ix(c) \in 0 .. nx - 1 /\ Iz(c) \in 0 .. nz - 1
  BY Coordinates
<1>1. PICK i \in 0 .. XDIVS - 1 :
         /\ Part(nx, XDIVS, i) <= Ix(c) /\ Ix(c) < Part(nx, XDIVS, i + 1)
         /\ \A k \in 0 .. XDIVS - 1 : Part(nx, XDIVS, k) <= Ix(c) /\ Ix(c) < Part(nx, XDIVS, k + 1) => k = i
  BY <1>0, Dimensions, OnePart
<1>2. PICK k \in 0 .. ZDIVS - 1 :
         /\ Part(nz, ZDIVS, k) <= Iz(c) /\ Iz(c) < Part(nz, ZDIVS, k + 1)
         /\ \A i2 \in 0 .. ZDIVS - 1 : Part(nz, ZDIVS, i2) <= Iz(c) /\ Iz(c) < Part(nz, ZDIVS, i2 + 1) => i2 = k
  BY <1>0, Dimensions, OnePart
<1>3. PICK t \in Threads : \A u \in Threads : u \div ZDIVS = i /\ u % ZDIVS = k <=> u = t
  BY ThreadParts
<1>4. /\ \A m \in 0 .. XDIVS : Part(nx, XDIVS, m) \in Int
      /\ \A m \in 0 .. ZDIVS : Part(nz, ZDIVS, m) \in Int
      /\ Ix(c) \in Int /\ Iz(c) \in Int
  BY <1>0, Dimensions, PartsInOrder
<1>5. ASSUME NEW u \in Threads PROVE InGrid(u, c) <=> u = t
  <2> DEFINE a == u \div ZDIVS
             b == u % ZDIVS
  <2>1. a \in 0 .. XDIVS - 1 /\ b \in 0 .. ZDIVS - 1
    BY ThreadParts
  <2>2. a + 1 \in 0 .. XDIVS /\ b + 1 \in 0 .. ZDIVS /\ a \in 0 .. XDIVS /\ b \in 0 .. ZDIVS
    BY <2>1, Dimensions
  <2>3. InGrid(u, c) <=> /\ Part(nx, XDIVS, a) <= Ix(c) /\ Ix(c) < Part(nx, XDIVS, a + 1)
                         /\ Part(nz, ZDIVS, b) <= Iz(c) /\ Iz(c) < Part(nz, ZDIVS, b + 1)
    <3> HIDE DEF a, b
    <3>1. InGrid(u, c) <=> /\ Ix(c) >= Part(nx, XDIVS, a) /\ Ix(c) < Part(nx, XDIVS, a + 1)
                           /\ Iz(c) >= Part(nz, ZDIVS, b) /\ Iz(c) < Part(nz, ZDIVS, b + 1)
      BY DEF InGrid, a, b
    <3> QED
      BY <1>4, <2>2, <3>1
  <2>4. InGrid(u, c) <=> a = i /\ b = k
    <3> HIDE DEF a, b
    <3> QED BY <1>1, <1>2, <2>1, <2>3
  <2> QED
    BY <1>3, <2>4
<1> QED
  BY <1>5 DEF Owner

\* The sweep of a thread goes over its own cells.
LEMMA OwnCellsOf ==
    /\ \A t \in Threads, c \in Cells : c \in OwnCells(t) <=> t = Owner(c)
    /\ \A t \in Threads : OwnCells(t) \subseteq Cells
BY OneOwner DEF OwnCells

\* Cell 0, which stands for the swap of the arrays, belongs to thread 0.
LEMMA FirstCell == Owner(0) = 0
<1>0. 0 \in Cells /\ 0 \in Threads
  BY Dimensions
<1>1. 0 \div ZDIVS = 0 /\ 0 % ZDIVS = 0 /\ 0 % nx = 0 /\ 0 \div (nx * ny) = 0
  BY Dimensions, Quotient
<1>2. Ix(0) = 0 /\ Iz(0) = 0
  BY <1>1 DEF Ix, Iz
<1>3. /\ Part(nx, XDIVS, 0) = 0 /\ Part(nz, ZDIVS, 0) = 0
  BY Dimensions, PartsInOrder
<1>4. Part(nx, XDIVS, 1) > 0
  <2>1. 2 * nx * 1 + XDIVS >= 2 * XDIVS + 0 /\ 2 * nx * 1 + XDIVS \in Int /\ 2 * XDIVS \in Nat /\ 2 * XDIVS # 0
    BY GridAssumption, Dimensions
  <2>2. (2 * XDIVS) \div (2 * XDIVS) = 1
    <3>1. 2 * XDIVS = (2 * XDIVS) * 1 + 0 /\ 0 \in 0 .. (2 * XDIVS) - 1
      BY <2>1
    <3> QED BY <2>1, <3>1, Quotient
  <2>3. (2 * XDIVS) \div (2 * XDIVS) <= (2 * nx * 1 + XDIVS) \div (2 * XDIVS)
    BY <2>1, DivMonotone
  <2>4. (2 * nx * 1 + XDIVS) \div (2 * XDIVS) \in Int
    BY <2>1, DivMod
  <2> QED
    BY <2>2, <2>3, <2>4 DEF Part
<1>5. Part(nz, ZDIVS, 1) > 0
  <2>1. 2 * nz * 1 + ZDIVS >= 2 * ZDIVS + 0 /\ 2 * nz * 1 + ZDIVS \in Int /\ 2 * ZDIVS \in Nat /\ 2 * ZDIVS # 0
    BY GridAssumption, Dimensions
  <2>2. (2 * ZDIVS) \div (2 * ZDIVS) = 1
    <3>1. 2 * ZDIVS = (2 * ZDIVS) * 1 + 0 /\ 0 \in 0 .. (2 * ZDIVS) - 1
      BY <2>1
    <3> QED BY <2>1, <3>1, Quotient
  <2>3. (2 * ZDIVS) \div (2 * ZDIVS) <= (2 * nz * 1 + ZDIVS) \div (2 * ZDIVS)
    BY <2>1, DivMonotone
  <2>4. (2 * nz * 1 + ZDIVS) \div (2 * ZDIVS) \in Int
    BY <2>1, DivMod
  <2> QED
    BY <2>2, <2>3, <2>4 DEF Part
<1>6. InGrid(0, 0)
  BY <1>1, <1>2, <1>3, <1>4, <1>5 DEF InGrid
<1> QED
  BY <1>0, <1>6, OneOwner

\* To be neighbours is mutual, and a cell is its own neighbour.
LEMMA NeighboursMutual ==
    /\ \A c, d \in Cells : d \in Neighbours(c) <=> c \in Neighbours(d)
    /\ \A c \in Cells : c \in Neighbours(c) /\ Neighbours(c) \subseteq Cells
<1>1. \A c \in Cells : Ix(c) \in Int /\ Iy(c) \in Int /\ Iz(c) \in Int
  BY Coordinates, Dimensions
<1>2. \A m, n \in Int : Adjacent(m, n) <=> Adjacent(n, m)
  BY DEF Adjacent
<1>3. \A m \in Int : Adjacent(m, m)
  BY DEF Adjacent
<1>4. \A c, d \in Cells : d \in Neighbours(c) <=> c \in Neighbours(d)
  BY <1>1, <1>2 DEF Neighbours
<1> QED
  BY <1>1, <1>3, <1>4 DEF Neighbours

\* A cell that two threads reach from cells of theirs is on a border.
LEMMA ReachedIsBorder ==
    ASSUME NEW c \in Cells, NEW e \in Cells, Owner(c) # Owner(e), NEW d \in Cells,
           d \in Neighbours(c), d \in Neighbours(e)
    PROVE  Border(d)
<1>1. PICK x \in {c, e} : Owner(x) # Owner(d) /\ x \in Cells /\ x \in Neighbours(d)
  BY NeighboursMutual
<1>2. InGrid(Owner(d), d) /\ Owner(d) \in Threads /\ ~InGrid(Owner(d), x)
  BY <1>1, OneOwner
<1> QED
  BY <1>1, <1>2 DEF Border

-----------------------------------------------------------------------------
(* Barriers and stages *)

\* A thread is at most one barrier ahead of another, and one that waits at a
\* barrier has visited all its cells.
RoundInv ==
    /\ entered \in [Threads -> Nat] /\ left \in [Threads -> Nat]
    /\ todo \in [Threads -> SUBSET Cells]
    /\ \A t \in Threads : /\ entered[t] \in {left[t], left[t] + 1} /\ entered[t] <= 10 * framenum
                          /\ entered[t] # left[t] => todo[t] = {}
                          /\ todo[t] \subseteq Work(t, left[t])
                          /\ left[t] = 10 * framenum => todo[t] = Work(t, left[t])
    /\ \A t, u \in Threads : left[t] <= entered[u]
    /\ cells \in {0, 1} /\ loaded \in 0 .. numParticles
    /\ ~Started => /\ cells = 0
                   /\ \A t \in Threads : left[t] = 0 /\ entered[t] = 0 /\ todo[t] = Work(t, 0)

\* The sizes are numbers.
LEMMA Sizes ==
    /\ framenum \in Nat /\ numParticles \in Nat /\ ParticlesPerCell \in Nat /\ ParticlesPerCell # 0
    /\ InitialAlloc \in Nat /\ InitialAlloc # 0 /\ MaxBlocks \in Nat
BY SizesAssumption

\* The phase of a thread is the remainder of its count of barriers.
LEMMA PhaseNumbers ==
    ASSUME NEW r \in Nat
    PROVE  /\ r % 10 \in 0 .. 9
           /\ PhaseAfter(r) = "swap" <=> r % 10 = 0
           /\ PhaseAfter(r) = "clear" <=> r % 10 = 1
           /\ PhaseAfter(r) = "rebuild" <=> r % 10 = 2
           /\ PhaseAfter(r) = "init" <=> r % 10 = 3
           /\ PhaseAfter(r) = "densities" <=> r % 10 = 4
           /\ PhaseAfter(r) = "densities2" <=> r % 10 = 5
           /\ PhaseAfter(r) = "forces" <=> r % 10 = 6
           /\ PhaseAfter(r) = "collisions" <=> r % 10 = 7
           /\ PhaseAfter(r) = "advance" <=> r % 10 = 8
           /\ PhaseAfter(r) = "collisions2" <=> r % 10 = 9
<1>1. r % 10 \in 0 .. 9
  OBVIOUS
<1> DEFINE n == r % 10
<1>2. PhaseAfter(r) = <<"swap", "clear", "rebuild", "init", "densities", "densities2",
            "forces", "collisions", "advance", "collisions2">>[1 + n]
  BY DEF PhaseAfter, Phases
<1>3. n \in 0 .. 9
  BY <1>1
<1> HIDE DEF n
<1>4. /\ n = 0 => PhaseAfter(r) = "swap"
      /\ n = 1 => PhaseAfter(r) = "clear"
      /\ n = 2 => PhaseAfter(r) = "rebuild"
      /\ n = 3 => PhaseAfter(r) = "init"
      /\ n = 4 => PhaseAfter(r) = "densities"
      /\ n = 5 => PhaseAfter(r) = "densities2"
      /\ n = 6 => PhaseAfter(r) = "forces"
      /\ n = 7 => PhaseAfter(r) = "collisions"
      /\ n = 8 => PhaseAfter(r) = "advance"
      /\ n = 9 => PhaseAfter(r) = "collisions2"
  BY <1>2
<1>5. n = 0 \/ n = 1 \/ n = 2 \/ n = 3 \/ n = 4 \/ n = 5 \/ n = 6 \/ n = 7 \/ n = 8 \/ n = 9
  BY <1>3
<1>6. /\ PhaseAfter(r) = "swap" <=> n = 0
      /\ PhaseAfter(r) = "clear" <=> n = 1
      /\ PhaseAfter(r) = "rebuild" <=> n = 2
      /\ PhaseAfter(r) = "init" <=> n = 3
      /\ PhaseAfter(r) = "densities" <=> n = 4
      /\ PhaseAfter(r) = "densities2" <=> n = 5
      /\ PhaseAfter(r) = "forces" <=> n = 6
      /\ PhaseAfter(r) = "collisions" <=> n = 7
      /\ PhaseAfter(r) = "advance" <=> n = 8
      /\ PhaseAfter(r) = "collisions2" <=> n = 9
  BY <1>4, <1>5
<1> QED
  BY <1>1, <1>6 DEF n

\* A thread works on cells of its own, in the swap on cell 0.
LEMMA WorkIsOwn ==
    ASSUME NEW t \in Threads, NEW r \in Nat
    PROVE  /\ Work(t, r) \subseteq OwnCells(t) /\ Work(t, r) \in SUBSET Cells
           /\ r % 10 # 0 => Work(t, r) = OwnCells(t)
           /\ r % 10 = 0 => Work(t, r) \subseteq {0} /\ (t = 0 => Work(t, r) = {0})
<1>1. 0 \in OwnCells(0)
  BY FirstCell, Dimensions, OwnCellsOf
<1> QED
  BY <1>1, PhaseNumbers, OwnCellsOf DEF Work

\* A thread visits the first of the cells it has left.
LEMMA MinIsFirst ==
    ASSUME NEW S \in SUBSET Cells, S # {}
    PROVE  Min(S) \in S /\ \A x \in S : Min(S) <= x
<1>1. S \in SUBSET Nat
  BY Dimensions
<1>2. \E x \in S : \A y \in S : x <= y
  BY <1>1, LeastElement
<1> QED
  BY <1>2 DEF Min

\* The thread at a cell is its owner.
LEMMA AtOwn ==
    ASSUME RoundInv, NEW t \in Threads, NEW c, NEW phase, At(t, c, phase)
    PROVE  /\ c \in Cells /\ c \in todo[t] /\ t = Owner(c) /\ c = Min(todo[t])
           /\ entered[t] = left[t] /\ left[t] < 10 * framenum /\ left[t] \in Nat
           /\ PhaseAfter(left[t]) = phase /\ Started
<1>1. todo[t] \in SUBSET Cells /\ todo[t] # {} /\ c = Min(todo[t])
  BY DEF At, RoundInv
<1>2. c \in todo[t]
  BY <1>1, MinIsFirst
<1>3. c \in OwnCells(t)
  BY <1>2, WorkIsOwn DEF RoundInv
<1> QED
  BY <1>1, <1>2, <1>3, OwnCellsOf DEF At, Working, Phase, Goal, RoundInv

\* A step of a thread at a cell, which it may have finished with.
LEMMA VisitRounds ==
    ASSUME RoundInv, NEW t \in Threads, NEW c, NEW phase, At(t, c, phase),
           Visited(t, c) \/ UNCHANGED todo, UNCHANGED <<barrierVars, loaded>>, cells' \in {0, 1}
    PROVE  RoundInv'
<1>1. left[t] < 10 * framenum /\ Started /\ left[t] \in Nat /\ entered[t] = left[t]
  BY AtOwn
<1>2. todo' \in [Threads -> SUBSET Cells] /\ \A u \in Threads : todo'[u] \subseteq todo[u] /\ (u # t => todo'[u] = todo[u])
  BY DEF Visited, RoundInv
<1>3. Started'
  BY <1>1 DEF Started
<1>4. entered' = entered /\ left' = left
  BY DEF barrierVars
<1>5. left[t] # 10 * framenum
  BY <1>1, Sizes
<1>6. \A u \in Threads : Work(u, left'[u]) = Work(u, left[u])
  BY <1>4
<1> QED
  BY <1>1, <1>2, <1>3, <1>4, <1>5, <1>6 DEF RoundInv

\* A thread enters a barrier.
LEMMA EnterRounds ==
    ASSUME RoundInv, NEW t \in Threads, Enter(t) PROVE RoundInv'
<1>1. /\ entered[t] = left[t] /\ entered' = [entered EXCEPT ![t] = @ + 1] /\ UNCHANGED <<left, todo, cells, loaded>>
      /\ left[t] < 10 * framenum /\ todo[t] = {} /\ Started
  BY DEF Enter, Working, Goal, B!Enter, initVars
<1>2. Started' <=> Started
  BY <1>1 DEF Started
<1>3. \A u \in Threads : Work(u, left'[u]) = Work(u, left[u])
  BY <1>1
<1>4. framenum \in Nat /\ 10 * framenum \in Nat
  BY Sizes
<1> QED
  BY <1>1, <1>2, <1>3, <1>4 DEF RoundInv

\* A thread leaves a barrier that all have entered.
LEMMA LeaveRounds ==
    ASSUME RoundInv, NEW t \in Threads, Leave(t)
    PROVE  RoundInv' /\ Started /\ entered[t] = left[t] + 1 /\ todo[t] = {} /\ \A u \in Threads : left[t] < entered[u]
<1>1. /\ left[t] < entered[t] /\ (\A u \in Threads : left[t] < entered[u])
      /\ left' = [left EXCEPT ![t] = @ + 1]
      /\ todo' = [todo EXCEPT ![t] = Work(t, left[t] + 1)] /\ UNCHANGED <<entered, cells, loaded>>
  BY DEF Leave, B!MayLeave, initVars
<1>2. Started' <=> Started
  BY <1>1 DEF Started
<1>3. left[t] \in Nat /\ entered[t] = left[t] + 1 /\ todo[t] = {} /\ Started
  BY <1>1 DEF RoundInv
<1>4. left[t] + 1 \in Nat
  BY <1>3
<1>5. \A u \in Threads \ {t} : left'[u] = left[u] /\ todo'[u] = todo[u]
  BY <1>1 DEF RoundInv
<1>6. left'[t] = left[t] + 1 /\ todo'[t] = Work(t, left'[t]) /\ todo'[t] \in SUBSET Cells
  BY <1>1, <1>4, WorkIsOwn DEF RoundInv
<1>7. /\ left' \in [Threads -> Nat] /\ todo' \in [Threads -> SUBSET Cells]
  BY <1>1, <1>4, <1>6 DEF RoundInv
<1>8. ASSUME NEW u \in Threads
      PROVE /\ entered'[u] \in {left'[u], left'[u] + 1} /\ entered'[u] <= 10 * framenum
            /\ entered'[u] # left'[u] => todo'[u] = {}
            /\ todo'[u] \subseteq Work(u, left'[u])
            /\ left'[u] = 10 * framenum => todo'[u] = Work(u, left'[u])
  <2>1. CASE u = t
    BY <1>1, <1>3, <1>6, <2>1 DEF RoundInv
  <2>2. CASE u # t
    BY <1>1, <1>5, <2>2 DEF RoundInv
  <2> QED
    BY <2>1, <2>2
<1>9. ASSUME NEW u \in Threads, NEW v \in Threads PROVE left'[u] <= entered'[v]
  <2>1. CASE u = t
    BY <1>1, <1>3, <1>6, <2>1 DEF RoundInv
  <2>2. CASE u # t
    BY <1>1, <1>5, <2>2 DEF RoundInv
  <2> QED
    BY <2>1, <2>2
<1>10. RoundInv'
  BY <1>1, <1>2, <1>3, <1>7, <1>8, <1>9 DEF RoundInv
<1> QED
  BY <1>1, <1>3, <1>10

\* How many phases have been through a cell, and how many of the frame whose
\* swap was the last (10: the next swap is due).
Visits(c) == IF c \in todo[Owner(c)] THEN left[Owner(c)] ELSE left[Owner(c)] + 1
FrameStart(v) == 10 * ((v - 1) \div 10)
Stage(c) == Visits(c) - FrameStart(Visits(0))

\* Where the frame of a visit begins.
LEMMA FrameStarts ==
    ASSUME NEW v \in Nat
    PROVE  /\ FrameStart(v) \in Int /\ v - FrameStart(v) \in 1 .. 10
           /\ v % 10 # 0 => FrameStart(v) = v - (v % 10) /\ FrameStart(v + 1) = v - (v % 10)
           /\ v % 10 = 0 => FrameStart(v) = v - 10 /\ FrameStart(v + 1) = v
<1>1. v - 1 \in Int /\ (v - 1) \div 10 \in Int /\ v \div 10 \in Int /\ v % 10 \in Int
  OBVIOUS
<1>2. v - 1 = 10 * ((v - 1) \div 10) + ((v - 1) % 10) /\ (v - 1) % 10 \in 0 .. 9
  BY <1>1
<1>3. v = 10 * (v \div 10) + (v % 10) /\ v % 10 \in 0 .. 9
  OBVIOUS
<1>4. v - FrameStart(v) \in 1 .. 10 /\ FrameStart(v) \in Int
  BY <1>1, <1>2 DEF FrameStart
<1>5. (v + 1) - 1 = v
  OBVIOUS
<1>6. FrameStart(v + 1) = v - (v % 10)
  BY <1>1, <1>3, <1>5 DEF FrameStart
<1>7. v % 10 # 0 => (v - 1) \div 10 = v \div 10
  OBVIOUS
<1>8. v % 10 = 0 => (v - 1) \div 10 = (v \div 10) - 1
  OBVIOUS
<1>9. v % 10 # 0 => FrameStart(v) = v - (v % 10)
  BY <1>1, <1>3, <1>7 DEF FrameStart
<1>10. v % 10 = 0 => FrameStart(v) = v - 10
  BY <1>1, <1>3, <1>8 DEF FrameStart
<1> QED
  BY <1>4, <1>6, <1>9, <1>10

\* No cell is more than a phase ahead of another.
LEMMA VisitsClose ==
    ASSUME RoundInv, NEW c \in Cells, NEW d \in Cells
    PROVE  Visits(c) \in Nat /\ Visits(d) \in Nat /\ Visits(c) <= Visits(d) + 1
<1>1. Owner(c) \in Threads /\ Owner(d) \in Threads
  BY OneOwner
<1>2. PICK t \in Threads : t = Owner(c)
  BY <1>1
<1>3. PICK u \in Threads : u = Owner(d)
  BY <1>1
<1>4. /\ left[t] \in Nat /\ left[u] \in Nat /\ left[t] <= entered[u]
      /\ entered[u] = left[u] \/ (entered[u] = left[u] + 1 /\ todo[u] = {})
  BY DEF RoundInv
<1>5. /\ Visits(c) = left[t] \/ Visits(c) = left[t] + 1
      /\ Visits(d) = left[u] \/ Visits(d) = left[u] + 1
      /\ todo[u] = {} => Visits(d) = left[u] + 1
  BY <1>2, <1>3 DEF Visits
<1>6. Visits(d) = left[u] + 1 \/ entered[u] = left[u]
  BY <1>4, <1>5
<1>7. \A a, b, v, w, e \in Int : /\ v = a \/ v = a + 1
                                 /\ w = b \/ w = b + 1
                                 /\ e = b \/ e = b + 1
                                 /\ w = b + 1 \/ e = b
                                 /\ a <= e
                                 => v <= w + 1
  OBVIOUS
<1>8. Visits(c) \in Nat /\ Visits(d) \in Nat /\ entered[u] \in Nat
  BY <1>4, <1>5
<1> QED
  BY <1>4, <1>5, <1>6, <1>7, <1>8

\* A cell is never more than one stage from cell 0.
LEMMA StageRange ==
    ASSUME RoundInv, NEW c \in Cells
    PROVE  /\ Stage(c) \in 0 .. 11 /\ Stage(0) \in 1 .. 10
           /\ Stage(c) \in {Stage(0) - 1, Stage(0), Stage(0) + 1}
<1>1. 0 \in Cells
  BY Dimensions
<1>2. Visits(c) \in Nat /\ Visits(0) \in Nat /\ Visits(c) <= Visits(0) + 1 /\ Visits(0) <= Visits(c) + 1
  BY <1>1, VisitsClose
<1>3. FrameStart(Visits(0)) \in Int /\ Visits(0) - FrameStart(Visits(0)) \in 1 .. 10
  BY <1>2, FrameStarts
<1>4. Stage(0) \in 1 .. 10 /\ Stage(0) = Visits(0) - FrameStart(Visits(0)) /\ Stage(c) = Visits(c) - FrameStart(Visits(0))
  BY <1>3 DEF Stage
<1> QED
  BY <1>2, <1>3, <1>4

\* Nor from any other.
LEMMA StagesClose ==
    ASSUME RoundInv, NEW c \in Cells, NEW d \in Cells
    PROVE  Stage(c) <= Stage(d) + 1
<1>1. 0 \in Cells
  BY Dimensions
<1>2. Visits(c) \in Nat /\ Visits(0) \in Nat /\ Visits(d) \in Nat /\ Visits(c) <= Visits(d) + 1
  BY <1>1, VisitsClose
<1>3. FrameStart(Visits(0)) \in Int
  BY <1>2, FrameStarts
<1> QED
  BY <1>2, <1>3 DEF Stage

\* A thread works on a cell that no phase has got further with than this one.
LEMMA AtLeastVisits ==
    ASSUME RoundInv, NEW t \in Threads, NEW c, NEW phase, At(t, c, phase)
    PROVE  /\ Visits(c) = left[t] /\ Visits(c) \in Nat
           /\ \A d \in Cells : Visits(d) \in {left[t], left[t] + 1}
<1>1. c \in Cells /\ c \in todo[t] /\ t = Owner(c) /\ left[t] \in Nat /\ entered[t] = left[t]
  BY AtOwn
<1>2. Visits(c) = left[t]
  BY <1>1 DEF Visits
<1>3. ASSUME NEW d \in Cells PROVE Visits(d) \in {left[t], left[t] + 1}
  <2>1. PICK u \in Threads : u = Owner(d)
    BY OneOwner
  <2>2. /\ left[u] \in Nat /\ left[t] <= entered[u] /\ left[u] <= entered[t]
        /\ entered[u] = left[u] \/ (entered[u] = left[u] + 1 /\ todo[u] = {})
    BY DEF RoundInv
  <2>3. /\ Visits(d) = left[u] \/ Visits(d) = left[u] + 1
        /\ todo[u] = {} => Visits(d) = left[u] + 1
    BY <2>1 DEF Visits
  <2>4. Visits(d) = left[u] + 1 \/ entered[u] = left[u]
    BY <2>2, <2>3
  <2>5. \A a, b, w, e \in Int : /\ w = b \/ w = b + 1
                                /\ e = b \/ e = b + 1
                                /\ w = b + 1 \/ e = b
                                /\ a <= e /\ b <= a
                                => w = a \/ w = a + 1
    OBVIOUS
  <2>6. Visits(d) \in Nat /\ entered[u] \in Nat
    BY <2>2, <2>3
  <2> QED
    BY <1>1, <2>2, <2>3, <2>4, <2>5, <2>6
<1> QED
  BY <1>1, <1>2, <1>3

\* In the n-th phase of a frame the cells have been through n phases or n + 1.
LEMMA StageAt ==
    ASSUME RoundInv, NEW t \in Threads, NEW c, NEW phase, At(t, c, phase),
           NEW n \in 1 .. 9, left[t] % 10 = n
    PROVE  /\ Stage(c) = n /\ \A d \in Cells : Stage(d) \in {n, n + 1}
           /\ FrameStart(left[t]) = left[t] - n /\ FrameStart(left[t] + 1) = left[t] - n
<1>1. c \in Cells /\ 0 \in Cells /\ left[t] \in Nat
  BY AtOwn, Dimensions
<1>2. Visits(c) = left[t] /\ \A d \in Cells : Visits(d) \in {left[t], left[t] + 1}
  BY AtLeastVisits
<1>3. FrameStart(left[t]) = left[t] - n /\ FrameStart(left[t] + 1) = left[t] - n
  BY <1>1, FrameStarts
<1>4. FrameStart(Visits(0)) = left[t] - n
  BY <1>1, <1>2, <1>3
<1>5. \A d \in Cells : Visits(d) - FrameStart(Visits(0)) \in {n, n + 1}
  BY <1>1, <1>2, <1>4
<1> QED
  BY <1>1, <1>2, <1>3, <1>4, <1>5 DEF Stage

\* A visit counts for its cell and for no other.
LEMMA VisitsAfter ==
    ASSUME RoundInv, NEW t \in Threads, NEW c, NEW phase, At(t, c, phase),
           Visited(t, c), UNCHANGED barrierVars
    PROVE  /\ Visits(c)' = Visits(c) + 1
           /\ \A d \in Cells \ {c} : Visits(d)' = Visits(d)
<1>1. c \in Cells /\ c \in todo[t] /\ t = Owner(c) /\ left[t] \in Nat
  BY AtOwn
<1>2. /\ left' = left /\ todo'[t] = todo[t] \ {c} /\ \A u \in Threads \ {t} : todo'[u] = todo[u]
  BY DEF Visited, barrierVars, RoundInv
<1>3. Visits(c)' = left'[t] + 1
  BY <1>1, <1>2 DEF Visits
<1>4. Visits(c) = left[t]
  BY <1>1 DEF Visits
<1>5. ASSUME NEW d \in Cells \ {c} PROVE Visits(d)' = Visits(d)
  <2>1. PICK u \in Threads : u = Owner(d)
    BY OneOwner
  <2>2. d \in todo'[u] <=> d \in todo[u]
    BY <1>2, <2>1
  <2> QED
    BY <1>2, <2>1, <2>2 DEF Visits
<1> QED
  BY <1>2, <1>3, <1>4, <1>5

\* A visit of any phase but the swap takes its cell a stage on, and no other.
LEMMA StageAfter ==
    ASSUME RoundInv, NEW t \in Threads, NEW c, NEW phase, At(t, c, phase), phase # "swap",
           Visited(t, c), UNCHANGED barrierVars
    PROVE  /\ Stage(c)' = Stage(c) + 1
           /\ \A d \in Cells \ {c} : Stage(d)' = Stage(d)
<1>1. c \in Cells /\ 0 \in Cells /\ left[t] \in Nat /\ PhaseAfter(left[t]) = phase
  BY AtOwn, Dimensions
<1>2. PICK n \in 1 .. 9 : left[t] % 10 = n
  <2>1. left[t] % 10 \in 0 .. 9 /\ left[t] % 10 # 0
    BY <1>1, PhaseNumbers
  <2> QED
    BY <2>1
<1>3. FrameStart(left[t]) = FrameStart(left[t] + 1)
  BY <1>2, StageAt
<1>4. /\ \A d \in Cells : Visits(d) \in {left[t], left[t] + 1}
      /\ Visits(c) = left[t] /\ Visits(c)' = Visits(c) + 1
      /\ \A d \in Cells \ {c} : Visits(d)' = Visits(d)
  BY AtLeastVisits, VisitsAfter
<1>5. FrameStart(Visits(0)') = FrameStart(Visits(0))
  BY <1>1, <1>3, <1>4
<1>6. FrameStart(Visits(0)) \in Int
  BY <1>1, <1>4, FrameStarts
<1>7. Stage(c)' = Stage(c) + 1
  BY <1>1, <1>4, <1>5, <1>6 DEF Stage
<1>8. ASSUME NEW d \in Cells \ {c} PROVE Stage(d)' = Stage(d)
  BY <1>4, <1>5, <1>8 DEF Stage
<1> QED
  BY <1>7, <1>8

\* The swap begins a new frame.
LEMMA StageSwap ==
    ASSUME RoundInv, At(0, 0, "swap"), Visited(0, 0), UNCHANGED barrierVars
    PROVE  /\ \A d \in Cells : Stage(d) \in {10, 11}
           /\ Stage(0) = 10 /\ Stage(0)' = 1
           /\ \A d \in Cells \ {0} : Stage(d)' = Stage(d) - 10
<1>0. 0 \in Threads /\ 0 \in Cells
  BY Dimensions
<1>1. left[0] \in Nat /\ PhaseAfter(left[0]) = "swap"
  BY <1>0, AtOwn
<1>2. left[0] % 10 = 0
  BY <1>1, PhaseNumbers
<1>3. FrameStart(left[0]) = left[0] - 10 /\ FrameStart(left[0] + 1) = left[0]
  BY <1>1, <1>2, FrameStarts
<1>4. /\ \A d \in Cells : Visits(d) \in {left[0], left[0] + 1}
      /\ Visits(0) = left[0] /\ Visits(0)' = Visits(0) + 1
      /\ \A d \in Cells \ {0} : Visits(d)' = Visits(d)
  BY <1>0, AtLeastVisits, VisitsAfter
<1>5. FrameStart(Visits(0)) = left[0] - 10 /\ FrameStart(Visits(0)') = left[0]
  BY <1>3, <1>4
<1>6. \A d \in Cells : Stage(d) \in {10, 11}
  BY <1>1, <1>4, <1>5 DEF Stage
<1>7. Stage(0) = 10 /\ Stage(0)' = 1
  BY <1>1, <1>4, <1>5 DEF Stage
<1>8. ASSUME NEW d \in Cells \ {0} PROVE Stage(d)' = Stage(d) - 10
  BY <1>1, <1>4, <1>5, <1>8 DEF Stage
<1> QED
  BY <1>6, <1>7, <1>8

\* Leaving a barrier moves no cell on, but for the swap, which has nothing to do
\* for it.
LEMMA StageLeave ==
    ASSUME RoundInv, NEW t \in Threads, Leave(t), NEW d \in Cells
    PROVE  Stage(d)' = Stage(d) \/ (Stage(d) \in {0, 10} /\ Stage(d)' = Stage(d) + 1)
<1>0. 0 \in Cells
  BY Dimensions
<1>1. /\ left[t] \in Nat /\ entered[t] = left[t] + 1 /\ todo[t] = {} /\ Started
      /\ left' = [left EXCEPT ![t] = @ + 1]
      /\ todo' = [todo EXCEPT ![t] = Work(t, left[t] + 1)]
      /\ \A u \in Threads : left[t] < entered[u]
  BY LeaveRounds DEF Leave, RoundInv
<1>2. left'[t] = left[t] + 1 /\ todo'[t] = Work(t, left[t] + 1)
  BY <1>1 DEF RoundInv
<1>3. ASSUME NEW c \in Cells, Owner(c) # t PROVE Visits(c)' = Visits(c)
  <2>1. left'[Owner(c)] = left[Owner(c)] /\ todo'[Owner(c)] = todo[Owner(c)]
    BY <1>1, <1>3, OneOwner DEF RoundInv
  <2> QED
    BY <2>1 DEF Visits
<1>4. ASSUME NEW c \in Cells, Owner(c) = t
      PROVE  /\ Visits(c) = left[t] + 1
             /\ Visits(c)' = IF c \in Work(t, left[t] + 1) THEN left[t] + 1 ELSE left[t] + 2
  BY <1>1, <1>2, <1>4 DEF Visits
<1>5. left[t] + 1 \in Nat
  BY <1>1
<1>6. CASE (left[t] + 1) % 10 # 0
  <2>1. Work(t, left[t] + 1) = OwnCells(t)
    BY <1>5, <1>6, WorkIsOwn
  <2>2. ASSUME NEW c \in Cells PROVE Visits(c)' = Visits(c)
    BY <1>3, <1>4, <2>1, OwnCellsOf
  <2> QED
    BY <1>0, <2>2 DEF Stage
<1>7. CASE (left[t] + 1) % 10 = 0
  <2>1. Work(t, left[t] + 1) \subseteq {0} /\ (t = 0 => Work(t, left[t] + 1) = {0})
    BY <1>5, <1>7, WorkIsOwn
  <2>2. Visits(0)' = Visits(0)
    BY <1>0, <1>3, <1>4, <2>1, FirstCell
  <2>3. CASE Visits(d)' = Visits(d)
    BY <2>2, <2>3 DEF Stage
  <2>4. CASE Visits(d)' # Visits(d)
    <3>1. Owner(d) = t /\ Visits(d) = left[t] + 1 /\ Visits(d)' = left[t] + 2
      BY <1>3, <1>4, <2>4
    <3>2. Visits(0) \in {left[t] + 1, left[t] + 2}
      <4>1. 0 \in Threads /\ Owner(0) = 0
        BY FirstCell, Dimensions
      <4>2. /\ left[0] \in Nat /\ left[0] <= entered[t] /\ left[t] < entered[0]
            /\ entered[0] = left[0] \/ (entered[0] = left[0] + 1 /\ todo[0] = {})
        BY <1>1, <4>1 DEF RoundInv
      <4>3. /\ Visits(0) = left[0] \/ Visits(0) = left[0] + 1
            /\ todo[0] = {} => Visits(0) = left[0] + 1
        BY <4>1 DEF Visits
      <4>4. Visits(0) = left[0] + 1 \/ entered[0] = left[0]
        BY <4>2, <4>3
      <4>5. \A a, b, w, e \in Int : /\ w = b \/ w = b + 1
                                    /\ e = b \/ e = b + 1
                                    /\ w = b + 1 \/ e = b
                                    /\ a < e /\ b <= a + 1
                                    => w = a + 1 \/ w = a + 2
        OBVIOUS
      <4>6. Visits(0) \in Nat /\ entered[0] \in Nat
        BY <4>2, <4>3
      <4> QED
        BY <1>1, <4>2, <4>3, <4>4, <4>5, <4>6
    <3>3. FrameStart(left[t] + 1) = left[t] + 1 - 10 /\ FrameStart(left[t] + 1 + 1) = left[t] + 1
      <4>1. PICK v \in Nat : v = left[t] + 1
        BY <1>5
      <4>2. FrameStart(v) = v - 10 /\ FrameStart(v + 1) = v
        BY <1>7, <4>1, FrameStarts
      <4>3. FrameStart(left[t] + 1) = FrameStart(v) /\ FrameStart(left[t] + 1 + 1) = FrameStart(v + 1)
        BY <4>1
      <4>4. left[t] + 1 - 10 = v - 10
        BY <1>1, <4>1
      <4> QED
        BY <4>1, <4>2, <4>3, <4>4
    <3>4. left[t] + 1 + 1 = left[t] + 2
      BY <1>1
    <3>5. FrameStart(Visits(0)) \in {left[t] + 1 - 10, left[t] + 1}
      BY <3>2, <3>3, <3>4
    <3>6. Stage(d) \in {0, 10}
      BY <1>1, <3>1, <3>5 DEF Stage
    <3>7. Stage(d)' = Stage(d) + 1
      BY <1>1, <2>2, <3>1, <3>5 DEF Stage
    <3> QED
      BY <3>6, <3>7
  <2> QED
    BY <2>3, <2>4
<1> QED
  BY <1>6, <1>7

\* Nothing else touches the stages.
LEMMA StageQuiet ==
    ASSUME left' = left, todo' = todo PROVE \A d \in Cells : Stage(d)' = Stage(d)
BY DEF Stage, Visits

\* When all threads are at the beginning of a frame, its swap is due.
LEMMA StageDue ==
    ASSUME NEW r \in Nat, r % 10 = 0, \A t \in Threads : left[t] = r /\ todo[t] = Work(t, r),
           NEW c \in Cells
    PROVE  Stage(c) \in {10, 11} /\ Stage(0) = 10
<1>1. 0 \in Cells /\ 0 \in Threads /\ Owner(0) = 0 /\ Owner(c) \in Threads
  BY Dimensions, FirstCell, OneOwner
<1>2. Visits(c) \in {r, r + 1}
  BY <1>1 DEF Visits
<1>3. Visits(0) = r
  BY <1>1, WorkIsOwn DEF Visits
<1>4. FrameStart(r) = r - 10
  BY FrameStarts
<1> QED
  BY <1>2, <1>3, <1>4 DEF Stage

\* So it is before the first frame, and when all threads have been joined.
LEMMA StageIdle ==
    ASSUME RoundInv, ~Started \/ Joined, NEW c \in Cells
    PROVE  Stage(c) \in {10, 11} /\ Stage(0) = 10
<1>1. PICK r \in Nat : r % 10 = 0 /\ \A t \in Threads : left[t] = r /\ todo[t] = Work(t, r)
  <2>1. CASE ~Started
    <3>1. 0 \in Nat /\ 0 % 10 = 0
      OBVIOUS
    <3> QED
      BY <2>1, <3>1 DEF RoundInv
  <2>2. CASE Joined
    <3>1. 10 * framenum \in Nat /\ (10 * framenum) % 10 = 0
      BY Sizes
    <3> QED
      BY <2>2, <3>1 DEF RoundInv, Joined
  <2> QED
    BY <2>1, <2>2
<1> QED
  BY <1>1, StageDue

-----------------------------------------------------------------------------
(* Lists of structures *)

Owners == Heads \cup ({2} \X Threads)
UsedBlocks(u) == {2} \X (0 .. u - 1)

\* at[o][i], for lo[o] <= i <= hi[o], is the i-th structure of owner o: a cell of
\* one of the arrays, or the pool of a thread.
Listed(lo, hi, o, i) == lo[o] <= i /\ i <= hi[o]
First(at, lo, hi, o) == IF lo[o] <= hi[o] THEN at[o][lo[o]] ELSE NULL
Numbered(at, lo, hi) ==
    /\ at \in [Owners -> [Int -> Nodes]] /\ lo \in [Owners -> Int] /\ hi \in [Owners -> Int]
    /\ \A o \in Owners : lo[o] <= hi[o] + 1
Linkage(np, at, lo, hi) ==
    \A o \in Owners, i \in Int : Listed(lo, hi, o, i) =>
        np[at[o][i]] = IF i = hi[o] THEN NULL ELSE at[o][i + 1]
Disjoint(at, lo, hi) ==
    \A o, m \in Owners, i, k \in Int :
        Listed(lo, hi, o, i) /\ Listed(lo, hi, m, k) /\ at[o][i] = at[m][k] => o = m /\ i = k
AllListed(us, at, lo, hi) ==
    /\ \A o \in Owners, i \in Int : Listed(lo, hi, o, i) => at[o][i] \in UsedBlocks(us)
    /\ \A b \in UsedBlocks(us) : \E o \in Owners, i \in Int : Listed(lo, hi, o, i) /\ at[o][i] = b
Pooled(pl, at, lo, hi) == \A t \in Threads : pl[t] = First(at, lo, hi, <<2, t>>)

Lists(np, pl, us, at, lo, hi) ==
    /\ Numbered(at, lo, hi) /\ Linkage(np, at, lo, hi) /\ Disjoint(at, lo, hi)
    /\ AllListed(us, at, lo, hi) /\ Pooled(pl, at, lo, hi)

\* Steps of the lists: the first structure of h is put in front of a free list,
\* the first of a free list is put behind the last of h, and an empty free list
\* is given a run of k structures.
Returned(np, pl, at, lo, h, t, nq, pq) ==
    /\ nq[at[h][lo[h]]] = pl[t]
    /\ \A n \in Blocks : n # at[h][lo[h]] => nq[n] = np[n]
    /\ pq = [pl EXCEPT ![t] = at[h][lo[h]]]
Taken(np, pl, at, lo, hi, h, t, nq, pq) ==
    /\ nq[pl[t]] = NULL
    /\ lo[h] <= hi[h] => nq[at[h][hi[h]]] = pl[t]
    /\ \A n \in Blocks : n # pl[t] /\ ~(lo[h] <= hi[h] /\ n = at[h][hi[h]]) => nq[n] = np[n]
    /\ pq = [pl EXCEPT ![t] = np[pl[t]]]
Run(np, pl, us, t, k, nq, pq) ==
    /\ \A n \in Blocks : nq[n] = IF n[2] \notin us .. us + k - 1 THEN np[n]
                                 ELSE IF n[2] = us + k - 1 THEN NULL ELSE <<2, n[2] + 1>>
    /\ pq = [pl EXCEPT ![t] = <<2, us>>]

\* The lists after those steps: only list h, or none of a cell, is changed.
Returns(np, pl, us, at, lo, hi, h) ==
    \E at2, lo2 :
       /\ Lists(np, pl, us, at2, lo2, hi)
       /\ lo2[h] = lo[h] + 1
       /\ \A g \in Heads : at2[g] = at[g] /\ (g # h => lo2[g] = lo[g])
Takes(np, pl, us, at, lo, hi, h, n) ==
    \E at2, lo2, hi2 :
       /\ Lists(np, pl, us, at2, lo2, hi2)
       /\ hi2[h] = hi[h] + 1 /\ at2[h] = [at[h] EXCEPT ![hi[h] + 1] = n]
       /\ \A g \in Heads : /\ lo2[g] = lo[g]
                           /\ g # h => at2[g] = at[g] /\ hi2[g] = hi[g]
Refills(np, pl, us, at, lo, hi, t) ==
    \E at2, lo2, hi2 :
       /\ Lists(np, pl, us, at2, lo2, hi2)
       /\ lo2[<<2, t>>] <= hi2[<<2, t>>]
       /\ \A g \in Heads : lo2[g] = lo[g] /\ at2[g] = at[g] /\ hi2[g] = hi[g]

\* Heads, pools and blocks are told apart.
LEMMA OwnerKinds ==
    /\ \A h \in Heads, t \in Threads : h # <<2, t>>
    /\ \A t, u \in Threads : <<2, t>> = <<2, u>> => t = u
    /\ \A t \in Threads : <<2, t>> \in Owners
    /\ Heads \subseteq Owners /\ Heads \subseteq Nodes /\ Blocks \subseteq Nodes
    /\ \A n \in Heads : n \notin Blocks
    /\ \A n \in Nodes : n # NULL
<1>1. \A h \in Heads, t \in Threads : h # <<2, t>>
  BY DEF Heads
<1>2. \A n \in Heads : n \notin Blocks
  BY DEF Heads, Blocks
<1>3. \A t, u \in Threads : <<2, t>> = <<2, u>> => t = u
  OBVIOUS
<1>4. \A t \in Threads : <<2, t>> \in Owners
  BY DEF Owners
<1>5. Heads \subseteq Owners /\ Heads \subseteq Nodes /\ Blocks \subseteq Nodes
  BY DEF Owners, Nodes
<1>6. \A n \in Nodes : n # NULL
  BY NullAssumption
<1> QED
  BY <1>1, <1>2, <1>3, <1>4, <1>5, <1>6

\* Structures in use are among those there may be.
LEMMA UsedAreBlocks ==
    ASSUME NEW us \in Nat, us <= MaxBlocks
    PROVE  UsedBlocks(us) \subseteq Blocks
BY SizesAssumption DEF UsedBlocks, Blocks

\* Only the links of the structures from the pools matter to the lists.
LEMMA ListsOfBlocks ==
    ASSUME NEW np, NEW pl, NEW us \in Nat, us <= MaxBlocks, NEW at, NEW lo, NEW hi,
           Lists(np, pl, us, at, lo, hi), NEW nq, \A n \in Blocks : nq[n] = np[n]
    PROVE  Lists(nq, pl, us, at, lo, hi)
<1>1. \A o \in Owners, i \in Int : Listed(lo, hi, o, i) => at[o][i] \in Blocks
  BY UsedAreBlocks DEF Lists, AllListed
<1> QED
  BY <1>1 DEF Lists, Linkage

\* An empty list may be numbered from anywhere.
LEMMA ListsRenumber ==
    ASSUME NEW np, NEW pl, NEW us, NEW at, NEW lo, NEW hi, Lists(np, pl, us, at, lo, hi),
           NEW h \in Heads, lo[h] = hi[h] + 1
    PROVE  Lists(np, pl, us, at, [lo EXCEPT ![h] = 1], [hi EXCEPT ![h] = 0])
<1> DEFINE lo2 == [lo EXCEPT ![h] = 1]
           hi2 == [hi EXCEPT ![h] = 0]
<1>0. h \in Owners /\ \A t \in Threads : <<2, t>> # h /\ <<2, t>> \in Owners
  BY OwnerKinds
<1>1. /\ lo \in [Owners -> Int] /\ hi \in [Owners -> Int] /\ at \in [Owners -> [Int -> Nodes]]
      /\ \A o \in Owners : lo[o] <= hi[o] + 1
  BY DEF Lists, Numbered
<1>2. Numbered(at, lo2, hi2)
  BY <1>0, <1>1 DEF Numbered
<1>3. \A o \in Owners, i \in Int : Listed(lo2, hi2, o, i) => o # h /\ Listed(lo, hi, o, i)
  BY <1>0, <1>1 DEF Listed
<1>4. \A o \in Owners, i \in Int : Listed(lo, hi, o, i) => o # h /\ Listed(lo2, hi2, o, i)
  BY <1>0, <1>1 DEF Listed
<1>5. \A o \in Owners : o # h => lo2[o] = lo[o] /\ hi2[o] = hi[o]
  BY <1>1
<1> HIDE DEF lo2, hi2
<1>6. Linkage(np, at, lo2, hi2)
  BY <1>3, <1>5 DEF Lists, Linkage
<1>7. Disjoint(at, lo2, hi2)
  BY <1>3 DEF Lists, Disjoint
<1>8. AllListed(us, at, lo2, hi2)
  BY <1>3, <1>4 DEF Lists, AllListed
<1>9. Pooled(pl, at, lo2, hi2)
  BY <1>0, <1>5 DEF Lists, Pooled, First
<1> QED
  BY <1>2, <1>6, <1>7, <1>8, <1>9 DEF Lists, lo2, hi2

\* The first structure of a cell's list goes to the front of a pool.
LEMMA ListsReturn ==
    ASSUME NEW np, NEW pl \in [Threads -> Blocks \cup {NULL}], NEW us \in Nat, us <= MaxBlocks,
           NEW at, NEW lo, NEW hi,
           Lists(np, pl, us, at, lo, hi), NEW h \in Heads, lo[h] <= hi[h], NEW t \in Threads,
           NEW nq, NEW pq, Returned(np, pl, at, lo, h, t, nq, pq)
    PROVE  Returns(nq, pq, us, at, lo, hi, h)
<1> USE DEF Returned, Returns
<1> DEFINE m == <<2, t>>
           b == at[h][lo[h]]
           l == lo[m] - 1
           at2 == [at EXCEPT ![m][l] = b]
           lo2 == [lo EXCEPT ![h] = @ + 1, ![m] = @ - 1]
<1>0. /\ h \in Owners /\ m \in Owners /\ h # m /\ Heads \subseteq Owners
      /\ \A g \in Heads : g # m
      /\ \A u \in Threads : <<2, u>> \in Owners /\ <<2, u>> # h /\ (<<2, u>> = m => u = t)
  <2>1. \A u \in Threads : <<2, u>> = m => u = t
    BY DEF m
  <2> QED
    BY <2>1, OwnerKinds DEF m
<1>1. /\ lo \in [Owners -> Int] /\ hi \in [Owners -> Int] /\ at \in [Owners -> [Int -> Nodes]]
      /\ \A o \in Owners : lo[o] <= hi[o] + 1
  BY DEF Lists, Numbered
<1>2. /\ lo[h] \in Int /\ lo[m] \in Int /\ l \in Int /\ Listed(lo, hi, h, lo[h])
      /\ b \in UsedBlocks(us) /\ b \in Blocks /\ b \in Nodes /\ b # NULL
  <2>1. lo[h] \in Int /\ lo[m] \in Int /\ l \in Int /\ Listed(lo, hi, h, lo[h])
    BY <1>0, <1>1 DEF Listed
  <2>2. b \in UsedBlocks(us)
    BY <1>0, <2>1 DEF Lists, AllListed
  <2>3. b \in Blocks
    BY <2>2, UsedAreBlocks
  <2>4. b \in Nodes
    BY <2>3, OwnerKinds
  <2> QED
    BY <2>1, <2>2, <2>3, <2>4, OwnerKinds
<1>3. /\ at2 \in [Owners -> [Int -> Nodes]] /\ lo2 \in [Owners -> Int]
      /\ lo2[h] = lo[h] + 1 /\ lo2[m] = l /\ at2[m][l] = b
      /\ \A o \in Owners : o # h /\ o # m => lo2[o] = lo[o]
      /\ \A o \in Owners : o # m => at2[o] = at[o]
      /\ \A i \in Int : i # l => at2[m][i] = at[m][i]
  <2>0. lo[m] - 1 = l
    OBVIOUS
  <2> HIDE DEF m, l, b
  <2>1. at2 \in [Owners -> [Int -> Nodes]]
    BY <1>0, <1>1, <1>2
  <2>2. at2[m][l] = b /\ \A i \in Int : i # l => at2[m][i] = at[m][i]
    BY <1>0, <1>1, <1>2
  <2>3. \A o \in Owners : o # m => at2[o] = at[o]
    BY <1>1
  <2>4. lo2 \in [Owners -> Int] /\ lo2[h] = lo[h] + 1
    BY <1>0, <1>1, <1>2
  <2>5. lo2[m] = l
    BY <1>0, <1>1, <1>2, <2>0
  <2>6. \A o \in Owners : o # h /\ o # m => lo2[o] = lo[o]
    BY <1>1
  <2> QED
    BY <2>1, <2>2, <2>3, <2>4, <2>5, <2>6
<1>4. l = lo[m] - 1 /\ b = at[h][lo[h]] /\ m = <<2, t>>
  OBVIOUS
<1> HIDE DEF m, l, b, at2, lo2
<1>5. Numbered(at2, lo2, hi)
  <2>1. ASSUME NEW o \in Owners PROVE lo2[o] <= hi[o] + 1
    <3>1. CASE o = h
      BY <1>0, <1>1, <1>2, <1>3, <3>1
    <3>2. CASE o = m
      BY <1>0, <1>1, <1>2, <1>3, <1>4, <3>2
    <3>3. CASE o # h /\ o # m
      BY <1>1, <1>3, <3>3
    <3> QED
      BY <3>1, <3>2, <3>3
  <2> QED
    BY <1>1, <1>3, <2>1 DEF Numbered
<1>6. \A o \in Owners, i \in Int :
        Listed(lo2, hi, o, i) <=> (o = m /\ i = l) \/ (Listed(lo, hi, o, i) /\ ~(o = h /\ i = lo[h]))
  <2> SUFFICES ASSUME NEW o \in Owners, NEW i \in Int
               PROVE  Listed(lo2, hi, o, i) <=> (o = m /\ i = l) \/ (Listed(lo, hi, o, i) /\ ~(o = h /\ i = lo[h]))
    OBVIOUS
  <2>0. lo[o] \in Int /\ hi[o] \in Int
    BY <1>1
  <2>1. CASE o = h
    <3>1. lo2[o] = lo[o] + 1 /\ o # m /\ lo[h] = lo[o]
      BY <1>0, <1>3, <2>1
    <3>2. lo[o] + 1 <= i <=> lo[o] <= i /\ i # lo[o]
      BY <2>0
    <3> QED
      BY <2>1, <3>1, <3>2 DEF Listed
  <2>2. CASE o = m
    <3>1. l <= hi[o] /\ lo2[o] = l /\ l = lo[o] - 1 /\ o # h
      BY <1>0, <1>1, <1>2, <1>3, <1>4, <2>2
    <3>2. l <= i /\ i <= hi[o] <=> i = l \/ (lo[o] <= i /\ i <= hi[o])
      BY <2>0, <3>1
    <3> QED
      BY <2>2, <3>1, <3>2 DEF Listed
  <2>3. CASE o # h /\ o # m
    BY <1>3, <2>3 DEF Listed
  <2> QED
    BY <2>1, <2>2, <2>3
<1>7. \A o \in Owners, i \in Int : Listed(lo, hi, o, i) => at2[o][i] = at[o][i]
  <2>1. \A i \in Int : Listed(lo, hi, m, i) => i # l
    BY <1>0, <1>1, <1>2, <1>4 DEF Listed
  <2> QED
    BY <1>3, <2>1
<1>8. \A o \in Owners, i \in Int : Listed(lo, hi, o, i) /\ at[o][i] = b => o = h /\ i = lo[h]
  BY <1>0, <1>2, <1>4 DEF Lists, Disjoint
<1>9. Disjoint(at2, lo2, hi)
  BY <1>3, <1>6, <1>7, <1>8 DEF Lists, Disjoint
<1>10. AllListed(us, at2, lo2, hi)
  <2>1. \A o \in Owners, i \in Int : Listed(lo2, hi, o, i) => at2[o][i] \in UsedBlocks(us)
    BY <1>2, <1>3, <1>6, <1>7 DEF Lists, AllListed
  <2>2. ASSUME NEW n \in UsedBlocks(us) PROVE \E o \in Owners, i \in Int : Listed(lo2, hi, o, i) /\ at2[o][i] = n
    <3>1. PICK o \in Owners, i \in Int : Listed(lo, hi, o, i) /\ at[o][i] = n
      BY DEF Lists, AllListed
    <3>2. CASE o = h /\ i = lo[h]
      BY <1>0, <1>2, <1>3, <1>4, <1>6, <3>1, <3>2
    <3>3. CASE ~(o = h /\ i = lo[h])
      BY <1>6, <1>7, <3>1, <3>3
    <3> QED
      BY <3>2, <3>3
  <2> QED
    BY <2>1, <2>2 DEF AllListed
<1>11. Linkage(nq, at2, lo2, hi)
  <2> SUFFICES ASSUME NEW o \in Owners, NEW i \in Int, Listed(lo2, hi, o, i)
               PROVE  nq[at2[o][i]] = IF i = hi[o] THEN NULL ELSE at2[o][i + 1]
    BY DEF Linkage
  <2>1. CASE o = m /\ i = l
    <3>1. nq[at2[o][i]] = First(at, lo, hi, m)
      BY <1>3, <1>4, <2>1 DEF Lists, Pooled
    <3>2. l + 1 = lo[m] /\ (l = hi[m] <=> ~(lo[m] <= hi[m]))
      BY <1>0, <1>1, <1>2, <1>4
    <3>3. lo[m] # l
      BY <1>2, <1>4
    <3> QED
      BY <1>2, <1>3, <2>1, <3>1, <3>2, <3>3 DEF First
  <2>2. CASE ~(o = m /\ i = l)
    <3>1. Listed(lo, hi, o, i) /\ ~(o = h /\ i = lo[h])
      BY <1>6, <2>2
    <3>2. at2[o][i] = at[o][i] /\ at[o][i] # b /\ at[o][i] \in Blocks
      BY <1>7, <1>8, <3>1, UsedAreBlocks DEF Lists, AllListed
    <3>3. nq[at2[o][i]] = np[at[o][i]]
      BY <1>4, <3>2
    <3>4. np[at[o][i]] = IF i = hi[o] THEN NULL ELSE at[o][i + 1]
      BY <3>1 DEF Lists, Linkage
    <3>5. i # hi[o] => Listed(lo, hi, o, i + 1) /\ i + 1 \in Int
      <4>1. lo[o] \in Int /\ hi[o] \in Int /\ lo[o] <= i /\ i <= hi[o]
        BY <1>1, <3>1 DEF Listed
      <4> QED
        BY <4>1 DEF Listed
    <3> QED
      BY <1>7, <3>3, <3>4, <3>5
  <2> QED
    BY <2>1, <2>2
<1>12. Pooled(pq, at2, lo2, hi)
  <2> SUFFICES ASSUME NEW u \in Threads PROVE pq[u] = First(at2, lo2, hi, <<2, u>>)
    BY DEF Pooled
  <2>1. CASE u = t
    <3>1. l <= hi[m]
      BY <1>0, <1>1, <1>2, <1>4
    <3> QED
      BY <1>3, <1>4, <2>1, <3>1 DEF First
  <2>2. CASE u # t
    <3>1. pq[u] = pl[u]
      BY <2>2
    <3>2. <<2, u>> # m /\ <<2, u>> # h /\ <<2, u>> \in Owners
      BY <1>0, <2>2
    <3>3. pl[u] = First(at, lo, hi, <<2, u>>)
      BY DEF Lists, Pooled
    <3> QED
      BY <1>3, <3>1, <3>2, <3>3 DEF First
  <2> QED
    BY <2>1, <2>2
<1>13. Lists(nq, pq, us, at2, lo2, hi)
  BY <1>5, <1>9, <1>10, <1>11, <1>12 DEF Lists
<1>14. \A g \in Heads : at2[g] = at[g] /\ (g # h => lo2[g] = lo[g])
  BY <1>0, <1>3
<1> QED
  BY <1>3, <1>13, <1>14

\* The first structure of a pool goes to the end of a cell's list.
LEMMA ListsGet ==
    ASSUME NEW np, NEW pl \in [Threads -> Blocks \cup {NULL}], NEW us \in Nat, us <= MaxBlocks,
           NEW at, NEW lo, NEW hi,
           Lists(np, pl, us, at, lo, hi), NEW h \in Heads, NEW t \in Threads,
           lo[<<2, t>>] <= hi[<<2, t>>],
           NEW nq, NEW pq, Taken(np, pl, at, lo, hi, h, t, nq, pq)
    PROVE  Takes(nq, pq, us, at, lo, hi, h, pl[t])
<1> USE DEF Taken, Takes
<1> DEFINE m == <<2, t>>
           b == pl[t]
           l == hi[h] + 1
           at2 == [at EXCEPT ![h][l] = b]
           lo2 == [lo EXCEPT ![m] = @ + 1]
           hi2 == [hi EXCEPT ![h] = @ + 1]
<1>0. /\ h \in Owners /\ m \in Owners /\ h # m /\ Heads \subseteq Owners
      /\ \A g \in Heads : g # m
      /\ \A u \in Threads : <<2, u>> \in Owners /\ <<2, u>> # h /\ (<<2, u>> = m => u = t)
  <2>1. \A u \in Threads : <<2, u>> = m => u = t
    BY DEF m
  <2> QED
    BY <2>1, OwnerKinds DEF m
<1>1. /\ lo \in [Owners -> Int] /\ hi \in [Owners -> Int] /\ at \in [Owners -> [Int -> Nodes]]
      /\ \A o \in Owners : lo[o] <= hi[o] + 1
  BY DEF Lists, Numbered
<1>2. /\ lo[h] \in Int /\ hi[h] \in Int /\ lo[m] \in Int /\ hi[m] \in Int /\ l \in Int
      /\ lo[m] <= hi[m] /\ Listed(lo, hi, m, lo[m]) /\ b = at[m][lo[m]]
      /\ b \in UsedBlocks(us) /\ b \in Blocks /\ b \in Nodes /\ b # NULL
  <2>1. lo[h] \in Int /\ hi[h] \in Int /\ lo[m] \in Int /\ hi[m] \in Int /\ l \in Int
    BY <1>0, <1>1
  <2>2. lo[m] <= hi[m] /\ Listed(lo, hi, m, lo[m])
    BY <2>1 DEF Listed
  <2>3. b = at[m][lo[m]]
    BY <2>2 DEF Lists, Pooled, First
  <2>4. b \in UsedBlocks(us)
    BY <1>0, <2>1, <2>2, <2>3 DEF Lists, AllListed
  <2>5. b \in Blocks
    BY <2>4, UsedAreBlocks
  <2>6. b \in Nodes
    BY <2>5, OwnerKinds
  <2> QED
    BY <2>1, <2>2, <2>3, <2>4, <2>5, <2>6, OwnerKinds
<1>3. /\ at2 \in [Owners -> [Int -> Nodes]] /\ lo2 \in [Owners -> Int] /\ hi2 \in [Owners -> Int]
      /\ lo2[m] = lo[m] + 1 /\ hi2[h] = l /\ at2[h][l] = b
      /\ \A o \in Owners : o # m => lo2[o] = lo[o]
      /\ \A o \in Owners : o # h => hi2[o] = hi[o]
      /\ \A o \in Owners : o # h => at2[o] = at[o]
      /\ \A i \in Int : i # l => at2[h][i] = at[h][i]
      /\ at2[h] = [at[h] EXCEPT ![l] = b]
  <2>0. hi[h] + 1 = l
    OBVIOUS
  <2> HIDE DEF m, l, b
  <2>1. at2 \in [Owners -> [Int -> Nodes]]
    BY <1>0, <1>1, <1>2
  <2>2. at2[h][l] = b /\ \A i \in Int : i # l => at2[h][i] = at[h][i]
    BY <1>0, <1>1, <1>2
  <2>3. \A o \in Owners : o # h => at2[o] = at[o]
    BY <1>1
  <2>4. lo2 \in [Owners -> Int] /\ lo2[m] = lo[m] + 1
    BY <1>0, <1>1, <1>2
  <2>5. hi2 \in [Owners -> Int] /\ hi2[h] = l
    BY <1>0, <1>1, <1>2, <2>0
  <2>6. \A o \in Owners : o # m => lo2[o] = lo[o]
    BY <1>1
  <2>7. \A o \in Owners : o # h => hi2[o] = hi[o]
    BY <1>1
  <2>8. at2[h] = [at[h] EXCEPT ![l] = b]
    BY <1>0, <1>1
  <2> QED
    BY <2>1, <2>2, <2>3, <2>4, <2>5, <2>6, <2>7, <2>8
<1>4. l = hi[h] + 1 /\ b = pl[t] /\ m = <<2, t>>
  OBVIOUS
<1> HIDE DEF m, l, b, at2, lo2, hi2
<1>5. Numbered(at2, lo2, hi2)
  <2>1. ASSUME NEW o \in Owners PROVE lo2[o] <= hi2[o] + 1
    <3>1. CASE o = h
      BY <1>0, <1>1, <1>2, <1>3, <1>4, <3>1
    <3>2. CASE o = m
      BY <1>0, <1>1, <1>2, <1>3, <1>4, <3>2
    <3>3. CASE o # h /\ o # m
      BY <1>1, <1>3, <3>3
    <3> QED
      BY <3>1, <3>2, <3>3
  <2> QED
    BY <1>3, <2>1 DEF Numbered
<1>6. \A o \in Owners, i \in Int :
        Listed(lo2, hi2, o, i) <=> (o = h /\ i = l) \/ (Listed(lo, hi, o, i) /\ ~(o = m /\ i = lo[m]))
  <2> SUFFICES ASSUME NEW o \in Owners, NEW i \in Int
               PROVE  Listed(lo2, hi2, o, i) <=> (o = h /\ i = l) \/ (Listed(lo, hi, o, i) /\ ~(o = m /\ i = lo[m]))
    OBVIOUS
  <2>0. lo[o] \in Int /\ hi[o] \in Int
    BY <1>1
  <2>1. CASE o = m
    <3>1. lo2[o] = lo[o] + 1 /\ o # h /\ lo[m] = lo[o] /\ hi2[o] = hi[o]
      BY <1>0, <1>3, <2>1
    <3>2. lo[o] + 1 <= i <=> lo[o] <= i /\ i # lo[o]
      BY <2>0
    <3> QED
      BY <2>1, <3>1, <3>2 DEF Listed
  <2>2. CASE o = h
    <3>1. lo2[o] = lo[o] /\ o # m /\ hi2[o] = hi[o] + 1 /\ l = hi[o] + 1 /\ lo[o] <= hi[o] + 1
      BY <1>0, <1>1, <1>3, <1>4, <2>2
    <3>2. lo[o] <= i /\ i <= hi[o] + 1 <=> (i = hi[o] + 1) \/ (lo[o] <= i /\ i <= hi[o])
      BY <2>0, <3>1
    <3> QED
      BY <2>2, <3>1, <3>2 DEF Listed
  <2>3. CASE o # h /\ o # m
    BY <1>3, <2>3 DEF Listed
  <2> QED
    BY <2>1, <2>2, <2>3
<1>7. \A o \in Owners, i \in Int : Listed(lo, hi, o, i) => at2[o][i] = at[o][i]
  <2>1. \A i \in Int : Listed(lo, hi, h, i) => i # l
    BY <1>0, <1>1, <1>2, <1>4 DEF Listed
  <2> QED
    BY <1>3, <2>1
<1>8. \A o \in Owners, i \in Int : Listed(lo, hi, o, i) /\ at[o][i] = b => o = m /\ i = lo[m]
  BY <1>0, <1>2 DEF Lists, Disjoint
<1>9. Disjoint(at2, lo2, hi2)
  BY <1>3, <1>6, <1>7, <1>8 DEF Lists, Disjoint
<1>10. AllListed(us, at2, lo2, hi2)
  <2>1. \A o \in Owners, i \in Int : Listed(lo2, hi2, o, i) => at2[o][i] \in UsedBlocks(us)
    BY <1>2, <1>3, <1>6, <1>7 DEF Lists, AllListed
  <2>2. ASSUME NEW n \in UsedBlocks(us) PROVE \E o \in Owners, i \in Int : Listed(lo2, hi2, o, i) /\ at2[o][i] = n
    <3>1. PICK o \in Owners, i \in Int : Listed(lo, hi, o, i) /\ at[o][i] = n
      BY DEF Lists, AllListed
    <3>2. CASE o = m /\ i = lo[m]
      <4>1. Listed(lo2, hi2, h, l) /\ at2[h][l] = n
        BY <1>0, <1>2, <1>3, <1>6, <3>1, <3>2
      <4> QED
        BY <1>0, <1>2, <4>1
    <3>3. CASE ~(o = m /\ i = lo[m])
      BY <1>6, <1>7, <3>1, <3>3
    <3> QED
      BY <3>2, <3>3
  <2> QED
    BY <2>1, <2>2 DEF AllListed
<1>11. Linkage(nq, at2, lo2, hi2)
  <2> SUFFICES ASSUME NEW o \in Owners, NEW i \in Int, Listed(lo2, hi2, o, i)
               PROVE  nq[at2[o][i]] = IF i = hi2[o] THEN NULL ELSE at2[o][i + 1]
    BY DEF Linkage
  <2>1. CASE o = h /\ i = l
    BY <1>3, <1>4, <2>1
  <2>2. CASE ~(o = h /\ i = l)
    <3>1. Listed(lo, hi, o, i) /\ ~(o = m /\ i = lo[m])
      BY <1>6, <2>2
    <3>2. at2[o][i] = at[o][i] /\ at[o][i] # b /\ at[o][i] \in Blocks
      BY <1>7, <1>8, <3>1, UsedAreBlocks DEF Lists, AllListed
    <3>3. np[at[o][i]] = IF i = hi[o] THEN NULL ELSE at[o][i + 1]
      BY <3>1 DEF Lists, Linkage
    <3>4. lo[o] \in Int /\ hi[o] \in Int /\ lo[o] <= i /\ i <= hi[o]
      BY <1>1, <3>1 DEF Listed
    <3>5. CASE o = h /\ i = hi[h]
      <4>1. nq[at[h][hi[h]]] = b
        BY <1>4, <3>4, <3>5
      <4>2. i # hi2[o] /\ i + 1 = l
        BY <1>2, <1>3, <1>4, <3>5
      <4> QED
        BY <1>3, <3>2, <3>5, <4>1, <4>2
    <3>6. CASE ~(o = h /\ i = hi[h])
      <4>1. ~(lo[h] <= hi[h] /\ at[o][i] = at[h][hi[h]])
        <5>1. lo[h] <= hi[h] => Listed(lo, hi, h, hi[h])
          BY <1>2 DEF Listed
        <5> QED
          BY <1>0, <1>2, <3>1, <3>6, <5>1 DEF Lists, Disjoint
      <4>2. nq[at[o][i]] = np[at[o][i]]
        BY <1>4, <3>2, <4>1
      <4>3. i = hi2[o] <=> i = hi[o]
        <5>1. CASE o = h
          BY <1>3, <1>4, <2>2, <3>6, <5>1
        <5>2. CASE o # h
          BY <1>3, <5>2
        <5> QED
          BY <5>1, <5>2
      <4>4. i # hi[o] => Listed(lo, hi, o, i + 1) /\ i + 1 \in Int
        BY <3>4 DEF Listed
      <4> QED
        BY <1>7, <3>2, <3>3, <4>2, <4>3, <4>4
    <3> QED
      BY <3>5, <3>6
  <2> QED
    BY <2>1, <2>2
<1>12. Pooled(pq, at2, lo2, hi2)
  <2> SUFFICES ASSUME NEW u \in Threads PROVE pq[u] = First(at2, lo2, hi2, <<2, u>>)
    BY DEF Pooled
  <2>1. CASE u = t
    <3>1. pq[u] = IF lo[m] = hi[m] THEN NULL ELSE at[m][lo[m] + 1]
      <4>1. np[at[m][lo[m]]] = IF lo[m] = hi[m] THEN NULL ELSE at[m][lo[m] + 1]
        BY <1>0, <1>2 DEF Lists, Linkage
      <4> QED
        BY <1>2, <1>4, <2>1, <4>1
    <3>2. lo[m] + 1 <= hi[m] <=> lo[m] # hi[m]
      BY <1>2
    <3>3. lo2[m] = lo[m] + 1 /\ hi2[m] = hi[m] /\ at2[m] = at[m]
      BY <1>0, <1>3
    <3> QED
      BY <1>4, <2>1, <3>1, <3>2, <3>3 DEF First
  <2>2. CASE u # t
    <3>1. pq[u] = pl[u]
      BY <2>2
    <3>2. <<2, u>> # m /\ <<2, u>> # h /\ <<2, u>> \in Owners
      BY <1>0, <2>2
    <3>3. pl[u] = First(at, lo, hi, <<2, u>>)
      BY DEF Lists, Pooled
    <3> QED
      BY <1>3, <3>1, <3>2, <3>3 DEF First
  <2> QED
    BY <2>1, <2>2
<1>13. Lists(nq, pq, us, at2, lo2, hi2)
  BY <1>5, <1>9, <1>10, <1>11, <1>12 DEF Lists
<1>14. \A g \in Heads : lo2[g] = lo[g] /\ (g # h => at2[g] = at[g] /\ hi2[g] = hi[g])
  BY <1>0, <1>3
<1> QED
  BY <1>3, <1>4, <1>13, <1>14

\* An empty pool is given a new run of structures.
LEMMA ListsAllocate ==
    ASSUME NEW np, NEW pl \in [Threads -> Blocks \cup {NULL}], NEW us \in Nat,
           NEW at, NEW lo, NEW hi,
           Lists(np, pl, us, at, lo, hi), NEW t \in Threads, pl[t] = NULL,
           NEW k \in Nat, k # 0, us + k <= MaxBlocks,
           NEW nq, NEW pq, Run(np, pl, us, t, k, nq, pq)
    PROVE  Refills(nq, pq, us + k, at, lo, hi, t)
<1> USE DEF Run, Refills
<1> DEFINE m == <<2, t>>
           run == [i \in Int |-> IF i \in 0 .. k - 1 THEN <<2, us + i>> ELSE <<2, 0>>]
           at2 == [at EXCEPT ![m] = run]
           lo2 == [lo EXCEPT ![m] = 0]
           hi2 == [hi EXCEPT ![m] = k - 1]
<1>0. /\ m \in Owners /\ Heads \subseteq Owners /\ \A g \in Heads : g # m
      /\ \A u \in Threads : <<2, u>> \in Owners /\ (<<2, u>> = m => u = t)
  <2>1. \A u \in Threads : <<2, u>> = m => u = t
    BY DEF m
  <2> QED
    BY <2>1, OwnerKinds DEF m
<1>1. /\ lo \in [Owners -> Int] /\ hi \in [Owners -> Int] /\ at \in [Owners -> [Int -> Nodes]]
      /\ \A o \in Owners : lo[o] <= hi[o] + 1
      /\ MaxBlocks \in Nat /\ us + k \in Nat /\ us <= MaxBlocks /\ k - 1 \in Int
  BY Sizes DEF Lists, Numbered
<1>2. /\ run \in [Int -> Nodes]
      /\ \A i \in 0 .. k - 1 : run[i] = <<2, us + i>> /\ run[i] \in UsedBlocks(us + k) /\ run[i] \notin UsedBlocks(us)
      /\ UsedBlocks(us) \subseteq UsedBlocks(us + k)
  <2>1. ASSUME NEW i \in Int PROVE run[i] \in Nodes
    <3>1. 0 \in 0 .. MaxBlocks - 1
      BY <1>1
    <3>2. i \in 0 .. k - 1 => us + i \in 0 .. MaxBlocks - 1
      BY <1>1
    <3>3. run[i] \in Blocks
      BY <3>1, <3>2 DEF Blocks
    <3> QED
      BY <3>3, OwnerKinds
  <2>2. ASSUME NEW i \in 0 .. k - 1
        PROVE run[i] = <<2, us + i>> /\ run[i] \in UsedBlocks(us + k) /\ run[i] \notin UsedBlocks(us)
    <3>1. us + i \in 0 .. (us + k) - 1 /\ us + i \notin 0 .. us - 1 /\ i \in Int
      OBVIOUS
    <3> QED
      BY <3>1 DEF UsedBlocks
  <2>3. UsedBlocks(us) \subseteq UsedBlocks(us + k)
    <3>1. 0 .. us - 1 \subseteq 0 .. (us + k) - 1
      OBVIOUS
    <3> QED
      BY <3>1 DEF UsedBlocks
  <2> QED
    BY <2>1, <2>2, <2>3
<1>3. lo[m] = hi[m] + 1
  <2>1. First(at, lo, hi, m) = NULL
    BY DEF Lists, Pooled
  <2>2. CASE lo[m] <= hi[m]
    <3>1. Listed(lo, hi, m, lo[m]) /\ lo[m] \in Int
      BY <1>0, <1>1, <2>2 DEF Listed
    <3>2. at[m][lo[m]] \in Nodes
      BY <1>0, <1>1, <3>1
    <3> QED
      BY <2>1, <2>2, <3>2, OwnerKinds DEF First
  <2>3. CASE ~(lo[m] <= hi[m])
    BY <1>0, <1>1, <2>3
  <2> QED
    BY <2>2, <2>3
<1>4. /\ at2 \in [Owners -> [Int -> Nodes]] /\ lo2 \in [Owners -> Int] /\ hi2 \in [Owners -> Int]
      /\ lo2[m] = 0 /\ hi2[m] = k - 1 /\ at2[m] = run
      /\ \A o \in Owners : o # m => lo2[o] = lo[o] /\ hi2[o] = hi[o] /\ at2[o] = at[o]
  <2> HIDE DEF m, run
  <2> QED
    BY <1>0, <1>1, <1>2
<1>5. m = <<2, t>>
  OBVIOUS
<1> HIDE DEF m, run, at2, lo2, hi2
<1>6. Numbered(at2, lo2, hi2)
  <2>1. ASSUME NEW o \in Owners PROVE lo2[o] <= hi2[o] + 1
    <3>1. CASE o = m
      BY <1>1, <1>4, <3>1
    <3>2. CASE o # m
      BY <1>1, <1>4, <3>2
    <3> QED
      BY <3>1, <3>2
  <2> QED
    BY <1>4, <2>1 DEF Numbered
<1>7. \A o \in Owners, i \in Int :
         Listed(lo2, hi2, o, i) <=> (o = m /\ i \in 0 .. k - 1) \/ (o # m /\ Listed(lo, hi, o, i))
  BY <1>1, <1>4 DEF Listed
<1>8. \A i \in Int : ~Listed(lo, hi, m, i)
  BY <1>0, <1>1, <1>3 DEF Listed
<1>9. \A o \in Owners, i \in Int : Listed(lo, hi, o, i) => at[o][i] \in UsedBlocks(us)
  BY DEF Lists, AllListed
<1>10. Disjoint(at2, lo2, hi2)
  <2> SUFFICES ASSUME NEW o \in Owners, NEW n \in Owners, NEW i \in Int, NEW l \in Int,
                      Listed(lo2, hi2, o, i), Listed(lo2, hi2, n, l), at2[o][i] = at2[n][l]
               PROVE  o = n /\ i = l
    BY DEF Disjoint
  <2>1. CASE o = m /\ n = m
    <3>1. i \in 0 .. k - 1 /\ l \in 0 .. k - 1 /\ <<2, us + i>> = <<2, us + l>>
      BY <1>2, <1>4, <1>7, <2>1
    <3>2. us + i = us + l
      BY <3>1
    <3> QED
      BY <2>1, <3>1, <3>2
  <2>2. CASE o = m /\ n # m
    BY <1>2, <1>4, <1>7, <1>9, <2>2
  <2>3. CASE o # m /\ n = m
    BY <1>2, <1>4, <1>7, <1>9, <2>3
  <2>4. CASE o # m /\ n # m
    BY <1>4, <1>7, <2>4 DEF Lists, Disjoint
  <2> QED
    BY <2>1, <2>2, <2>3, <2>4
<1>11. AllListed(us + k, at2, lo2, hi2)
  <2>1. \A o \in Owners, i \in Int : Listed(lo2, hi2, o, i) => at2[o][i] \in UsedBlocks(us + k)
    BY <1>2, <1>4, <1>7, <1>9
  <2>2. ASSUME NEW n \in UsedBlocks(us + k)
        PROVE \E o \in Owners, i \in Int : Listed(lo2, hi2, o, i) /\ at2[o][i] = n
    <3>1. CASE n \in UsedBlocks(us)
      <4>1. PICK o \in Owners, i \in Int : Listed(lo, hi, o, i) /\ at[o][i] = n
        BY <3>1 DEF Lists, AllListed
      <4> QED
        BY <1>4, <1>7, <1>8, <4>1
    <3>2. CASE n \notin UsedBlocks(us)
      <4>1. PICK x \in 0 .. (us + k) - 1 : n = <<2, x>>
        BY DEF UsedBlocks
      <4>2. x \notin 0 .. us - 1
        BY <3>2, <4>1 DEF UsedBlocks
      <4>3. x - us \in 0 .. k - 1 /\ us + (x - us) = x /\ x - us \in Int
        BY <4>2
      <4>4. at2[m][x - us] = n /\ Listed(lo2, hi2, m, x - us)
        BY <1>0, <1>2, <1>4, <1>7, <4>1, <4>3
      <4> QED
        BY <1>0, <4>3, <4>4
    <3> QED
      BY <3>1, <3>2
  <2> QED
    BY <2>1, <2>2 DEF AllListed
<1>12. Linkage(nq, at2, lo2, hi2)
  <2> SUFFICES ASSUME NEW o \in Owners, NEW i \in Int, Listed(lo2, hi2, o, i)
               PROVE  nq[at2[o][i]] = IF i = hi2[o] THEN NULL ELSE at2[o][i + 1]
    BY DEF Linkage
  <2>1. CASE o = m
    <3>1. i \in 0 .. k - 1 /\ at2[o][i] = <<2, us + i>> /\ <<2, us + i>> \in Blocks
      BY <1>1, <1>2, <1>4, <1>7, <2>1, UsedAreBlocks
    <3>2. us + i \in us .. us + k - 1 /\ (us + i = us + k - 1 <=> i = k - 1) /\ (us + i) + 1 = us + (i + 1)
      BY <3>1
    <3>3. nq[at2[o][i]] = IF i = k - 1 THEN NULL ELSE <<2, us + (i + 1)>>
      BY <3>1, <3>2
    <3>4. i # k - 1 => i + 1 \in 0 .. k - 1
      BY <3>1
    <3> QED
      BY <1>2, <1>4, <2>1, <3>3, <3>4
  <2>2. CASE o # m
    <3>1. Listed(lo, hi, o, i) /\ at[o][i] \in UsedBlocks(us) /\ at[o][i] \in Blocks
      BY <1>1, <1>7, <1>9, <2>2, UsedAreBlocks
    <3>2. at[o][i][2] \in 0 .. us - 1
      BY <3>1 DEF UsedBlocks
    <3>3. at[o][i][2] \notin us .. us + k - 1
      BY <3>2
    <3>4. nq[at[o][i]] = np[at[o][i]]
      BY <3>1, <3>3
    <3> QED
      BY <1>4, <2>2, <3>1, <3>4 DEF Lists, Linkage
  <2> QED
    BY <2>1, <2>2
<1>13. Pooled(pq, at2, lo2, hi2)
  <2> SUFFICES ASSUME NEW u \in Threads PROVE pq[u] = First(at2, lo2, hi2, <<2, u>>)
    BY DEF Pooled
  <2>1. CASE u = t
    <3>1. 0 <= k - 1 /\ 0 \in 0 .. k - 1 /\ us + 0 = us
      OBVIOUS
    <3>2. run[0] = <<2, us>>
      BY <1>2, <3>1
    <3> QED
      BY <1>4, <1>5, <2>1, <3>1, <3>2 DEF First
  <2>2. CASE u # t
    <3>1. pq[u] = pl[u]
      BY <2>2
    <3>2. <<2, u>> # m /\ <<2, u>> \in Owners
      BY <1>0, <2>2
    <3>3. pl[u] = First(at, lo, hi, <<2, u>>)
      BY DEF Lists, Pooled
    <3> QED
      BY <1>4, <3>1, <3>2, <3>3 DEF First
  <2> QED
    BY <2>1, <2>2
<1>14. Lists(nq, pq, us + k, at2, lo2, hi2)
  BY <1>6, <1>10, <1>11, <1>12, <1>13 DEF Lists
<1>15. \A g \in Heads : lo2[g] = lo[g] /\ at2[g] = at[g] /\ hi2[g] = hi[g]
  BY <1>0, <1>4
<1>16. lo2[<<2, t>>] <= hi2[<<2, t>>]
  BY <1>4, <1>5
<1> QED
  BY <1>14, <1>15, <1>16

-----------------------------------------------------------------------------
(* Contents of the cells *)

\* who[h][i], for from[h] <= i < cnt[h], is the i-th particle of cell h of the
\* arrays: each of the n particles is in exactly one place.
Holds(from, cnt, h, i) == from[h] <= i /\ i < cnt[h]
Counts(who, from, cnt) ==
    /\ who \in [Heads -> [Int -> Int]] /\ from \in [Heads -> Nat] /\ cnt \in [Heads -> Nat]
    /\ \A h \in Heads : from[h] <= cnt[h]
Contents(who, from, cnt, n) ==
    /\ Counts(who, from, cnt)
    /\ \A h \in Heads, i \in Int : Holds(from, cnt, h, i) => who[h][i] \in 1 .. n
    /\ \A h, g \in Heads, i, k \in Int :
          Holds(from, cnt, h, i) /\ Holds(from, cnt, g, k) /\ who[h][i] = who[g][k] => h = g /\ i = k
    /\ \A p \in 1 .. n : \E h \in Heads, i \in Int : Holds(from, cnt, h, i) /\ who[h][i] = p

\* The contents after a particle has been read into h, or moved from g to h.
Adds(who, from, cnt, n, h) ==
    \E who2, cnt2 :
       /\ Contents(who2, from, cnt2, n + 1)
       /\ cnt2[h] = cnt[h] + 1 /\ who2[h][cnt[h]] = n + 1
       /\ \A g \in Heads : g # h => cnt2[g] = cnt[g]
       /\ \A g \in Heads, i \in Int : ~(g = h /\ i = cnt[h]) => who2[g][i] = who[g][i]
Moves(who, from, cnt, n, g, h) ==
    \E who2, from2, cnt2 :
       /\ Contents(who2, from2, cnt2, n)
       /\ from2[g] = from[g] + 1 /\ cnt2[h] = cnt[h] + 1
       /\ who2[h][cnt[h]] = who[g][from[g]]
       /\ \A f \in Heads : (f # g => from2[f] = from[f]) /\ (f # h => cnt2[f] = cnt[f])
       /\ \A f \in Heads, i \in Int : ~(f = h /\ i = cnt[h]) => who2[f][i] = who[f][i]

\* A particle is read into a cell.
LEMMA ContentsAdd ==
    ASSUME NEW who, NEW from, NEW cnt, NEW n \in Nat, Contents(who, from, cnt, n), NEW h \in Heads
    PROVE  Adds(who, from, cnt, n, h)
<1> USE DEF Adds
<1> DEFINE k == cnt[h]
           who2 == [who EXCEPT ![h][k] = n + 1]
           cnt2 == [cnt EXCEPT ![h] = @ + 1]
<1>1. /\ who \in [Heads -> [Int -> Int]] /\ from \in [Heads -> Nat] /\ cnt \in [Heads -> Nat]
      /\ \A g \in Heads : from[g] <= cnt[g]
      /\ k \in Nat /\ n + 1 \in Int
  BY DEF Contents, Counts
<1>2. /\ who2 \in [Heads -> [Int -> Int]] /\ cnt2 \in [Heads -> Nat]
      /\ cnt2[h] = k + 1 /\ who2[h][k] = n + 1
      /\ \A g \in Heads : g # h => cnt2[g] = cnt[g]
      /\ \A g \in Heads, i \in Int : ~(g = h /\ i = k) => who2[g][i] = who[g][i]
  BY <1>1
<1>3. k = cnt[h]
  OBVIOUS
<1> HIDE DEF k, who2, cnt2
<1>4. \A g \in Heads : from[g] <= cnt2[g]
  BY <1>1, <1>2, <1>3
<1>5. \A g \in Heads, i \in Int : Holds(from, cnt2, g, i) <=> Holds(from, cnt, g, i) \/ (g = h /\ i = k)
  <2> SUFFICES ASSUME NEW g \in Heads, NEW i \in Int
               PROVE  Holds(from, cnt2, g, i) <=> Holds(from, cnt, g, i) \/ (g = h /\ i = k)
    OBVIOUS
  <2>0. from[g] \in Nat /\ cnt[g] \in Nat /\ from[g] <= cnt[g]
    BY <1>1
  <2>1. CASE g = h
    <3>1. from[g] <= i /\ i < cnt[g] + 1 <=> (from[g] <= i /\ i < cnt[g]) \/ i = cnt[g]
      BY <2>0
    <3> QED
      BY <1>2, <1>3, <2>1, <3>1 DEF Holds
  <2>2. CASE g # h
    BY <1>2, <2>2 DEF Holds
  <2> QED
    BY <2>1, <2>2
<1>6. \A g \in Heads, i \in Int : Holds(from, cnt, g, i) => ~(g = h /\ i = k) /\ who2[g][i] = who[g][i]
  BY <1>1, <1>2, <1>3 DEF Holds
<1>7. \A g \in Heads, i \in Int : Holds(from, cnt, g, i) => who[g][i] \in 1 .. n /\ who[g][i] # n + 1 /\ who[g][i] \in 1 .. n + 1
  BY DEF Contents
<1>8. \A g \in Heads, i \in Int : Holds(from, cnt2, g, i) => who2[g][i] \in 1 .. n + 1
  <2> SUFFICES ASSUME NEW g \in Heads, NEW i \in Int, Holds(from, cnt2, g, i)
               PROVE  who2[g][i] \in 1 .. n + 1
    OBVIOUS
  <2>1. CASE g = h /\ i = k
    <3>1. n + 1 \in 1 .. n + 1
      OBVIOUS
    <3> QED
      BY <1>2, <2>1, <3>1
  <2>2. CASE Holds(from, cnt, g, i)
    <3>1. who2[g][i] = who[g][i]
      BY <1>6, <2>2
    <3>2. who[g][i] \in 1 .. n + 1
      BY <1>7, <2>2
    <3> QED
      BY <3>1, <3>2
  <2> QED
    BY <1>5, <2>1, <2>2
<1>9. \A f, g \in Heads, i, l \in Int :
         Holds(from, cnt2, f, i) /\ Holds(from, cnt2, g, l) /\ who2[f][i] = who2[g][l] => f = g /\ i = l
  <2> SUFFICES ASSUME NEW f \in Heads, NEW g \in Heads, NEW i \in Int, NEW l \in Int,
                      Holds(from, cnt2, f, i), Holds(from, cnt2, g, l), who2[f][i] = who2[g][l]
               PROVE  f = g /\ i = l
    OBVIOUS
  <2>1. CASE f = h /\ i = k
    <3>1. who2[g][l] = n + 1
      BY <1>2, <2>1
    <3>2. ASSUME Holds(from, cnt, g, l) PROVE FALSE
      <4>1. who2[g][l] = who[g][l]
        BY <1>6, <3>2
      <4>2. who[g][l] # n + 1
        BY <1>7, <3>2
      <4> QED
        BY <3>1, <4>1, <4>2
    <3> QED
      BY <1>5, <2>1, <3>2
  <2>2. CASE ~(f = h /\ i = k)
    <3>1. Holds(from, cnt, f, i) /\ who2[f][i] = who[f][i] /\ who[f][i] # n + 1
      BY <1>5, <1>6, <1>7, <2>2
    <3>2. ~(g = h /\ l = k)
      BY <1>2, <3>1
    <3>3. Holds(from, cnt, g, l) /\ who2[g][l] = who[g][l]
      BY <1>5, <1>6, <3>2
    <3> QED
      BY <3>1, <3>3 DEF Contents
  <2> QED
    BY <2>1, <2>2
<1>10. ASSUME NEW p \in 1 .. n + 1 PROVE \E g \in Heads, i \in Int : Holds(from, cnt2, g, i) /\ who2[g][i] = p
  <2>1. CASE p = n + 1
    <3>1. Holds(from, cnt2, h, k) /\ k \in Int
      BY <1>1, <1>5
    <3> QED
      BY <1>2, <2>1, <3>1
  <2>2. CASE p # n + 1
    <3>1. p \in 1 .. n
      BY <2>2
    <3>2. PICK g \in Heads, i \in Int : Holds(from, cnt, g, i) /\ who[g][i] = p
      BY <3>1 DEF Contents
    <3> QED
      BY <1>5, <1>6, <3>2
  <2> QED
    BY <2>1, <2>2
<1>11. Contents(who2, from, cnt2, n + 1)
  <2>1. Counts(who2, from, cnt2)
    BY <1>1, <1>2, <1>4 DEF Counts
  <2> QED
    BY <1>8, <1>9, <1>10, <2>1 DEF Contents
<1>12. /\ cnt2[h] = cnt[h] + 1 /\ who2[h][cnt[h]] = n + 1
       /\ \A g \in Heads : g # h => cnt2[g] = cnt[g]
       /\ \A g \in Heads, i \in Int : ~(g = h /\ i = cnt[h]) => who2[g][i] = who[g][i]
  BY <1>2, <1>3
<1> QED
  BY <1>11, <1>12

\* The first particle of a cell goes to the end of another.
LEMMA ContentsMove ==
    ASSUME NEW who, NEW from, NEW cnt, NEW n \in Nat, Contents(who, from, cnt, n),
           NEW g \in Heads, NEW h \in Heads, g # h, from[g] < cnt[g]
    PROVE  Moves(who, from, cnt, n, g, h)
<1> USE DEF Moves
<1> DEFINE k == cnt[h]
           l == from[g]
           who2 == [who EXCEPT ![h][k] = who[g][l]]
           from2 == [from EXCEPT ![g] = @ + 1]
           cnt2 == [cnt EXCEPT ![h] = @ + 1]
<1>1. /\ who \in [Heads -> [Int -> Int]] /\ from \in [Heads -> Nat] /\ cnt \in [Heads -> Nat]
      /\ \A f \in Heads : from[f] <= cnt[f]
      /\ k \in Nat /\ l \in Nat /\ who[g][l] \in Int
  BY DEF Contents, Counts
<1>2. /\ who2 \in [Heads -> [Int -> Int]] /\ cnt2 \in [Heads -> Nat] /\ from2 \in [Heads -> Nat]
      /\ cnt2[h] = k + 1 /\ from2[g] = l + 1 /\ who2[h][k] = who[g][l]
      /\ \A f \in Heads : (f # h => cnt2[f] = cnt[f]) /\ (f # g => from2[f] = from[f])
      /\ \A f \in Heads, i \in Int : ~(f = h /\ i = k) => who2[f][i] = who[f][i]
  <2>1. who2 \in [Heads -> [Int -> Int]] /\ who2[h][k] = who[g][l]
    BY <1>1
  <2>2. cnt2 \in [Heads -> Nat] /\ cnt2[h] = k + 1
    BY <1>1
  <2>3. from2 \in [Heads -> Nat] /\ from2[g] = l + 1
    BY <1>1
  <2>4. \A f \in Heads : (f # h => cnt2[f] = cnt[f]) /\ (f # g => from2[f] = from[f])
    BY <1>1
  <2>5. \A f \in Heads, i \in Int : ~(f = h /\ i = k) => who2[f][i] = who[f][i]
    BY <1>1
  <2> QED
    BY <2>1, <2>2, <2>3, <2>4, <2>5
<1>3. k = cnt[h] /\ l = from[g]
  OBVIOUS
<1> HIDE DEF k, l, who2, from2, cnt2
<1>4. \A f \in Heads : from2[f] <= cnt2[f]
  <2> SUFFICES ASSUME NEW f \in Heads PROVE from2[f] <= cnt2[f]
    OBVIOUS
  <2>0. from[f] \in Nat /\ cnt[f] \in Nat /\ from[f] <= cnt[f]
    BY <1>1
  <2>1. CASE f = g
    BY <1>1, <1>2, <1>3, <2>0, <2>1
  <2>2. CASE f = h
    BY <1>1, <1>2, <1>3, <2>0, <2>2
  <2>3. CASE f # g /\ f # h
    BY <1>2, <2>0, <2>3
  <2> QED
    BY <2>1, <2>2, <2>3
<1>5. \A f \in Heads, i \in Int : Holds(from2, cnt2, f, i) <=>
         (Holds(from, cnt, f, i) /\ ~(f = g /\ i = l)) \/ (f = h /\ i = k)
  <2> SUFFICES ASSUME NEW f \in Heads, NEW i \in Int
               PROVE  Holds(from2, cnt2, f, i) <=>
                         (Holds(from, cnt, f, i) /\ ~(f = g /\ i = l)) \/ (f = h /\ i = k)
    OBVIOUS
  <2>0. from[f] \in Nat /\ cnt[f] \in Nat /\ from[f] <= cnt[f]
    BY <1>1
  <2>1. CASE f = h
    <3>1. from[f] <= i /\ i < cnt[f] + 1 <=> (from[f] <= i /\ i < cnt[f]) \/ i = cnt[f]
      BY <2>0
    <3> QED
      BY <1>2, <1>3, <2>1, <3>1 DEF Holds
  <2>2. CASE f = g
    <3>1. from[f] + 1 <= i /\ i < cnt[f] <=> (from[f] <= i /\ i < cnt[f]) /\ i # from[f]
      BY <2>0
    <3> QED
      BY <1>2, <1>3, <2>2, <3>1 DEF Holds
  <2>3. CASE f # h /\ f # g
    BY <1>2, <2>3 DEF Holds
  <2> QED
    BY <2>1, <2>2, <2>3
<1>6. \A f \in Heads, i \in Int : Holds(from, cnt, f, i) => ~(f = h /\ i = k) /\ who2[f][i] = who[f][i]
  BY <1>1, <1>2, <1>3 DEF Holds
<1>7. Holds(from, cnt, g, l) /\ who[g][l] \in 1 .. n /\ l \in Int /\ k \in Int
  <2>1. Holds(from, cnt, g, l)
    BY <1>1, <1>3 DEF Holds
  <2> QED
    BY <1>1, <2>1 DEF Contents
<1>8. \A f \in Heads, i \in Int : Holds(from2, cnt2, f, i) => who2[f][i] \in 1 .. n
  <2>1. \A f \in Heads, i \in Int : Holds(from, cnt, f, i) => who2[f][i] \in 1 .. n
    BY <1>6 DEF Contents
  <2>2. who2[h][k] \in 1 .. n
    BY <1>2, <1>7
  <2> QED
    BY <1>5, <2>1, <2>2
<1>9. \A f \in Heads, i \in Int : Holds(from, cnt, f, i) /\ who[f][i] = who[g][l] => f = g /\ i = l
  BY <1>7 DEF Contents
<1>10. \A f, e \in Heads, i, m \in Int :
         Holds(from2, cnt2, f, i) /\ Holds(from2, cnt2, e, m) /\ who2[f][i] = who2[e][m] => f = e /\ i = m
  <2> SUFFICES ASSUME NEW f \in Heads, NEW e \in Heads, NEW i \in Int, NEW m \in Int,
                      Holds(from2, cnt2, f, i), Holds(from2, cnt2, e, m), who2[f][i] = who2[e][m]
               PROVE  f = e /\ i = m
    OBVIOUS
  <2>1. CASE f = h /\ i = k
    <3>1. who2[e][m] = who[g][l]
      BY <1>2, <2>1
    <3>2. ~(Holds(from, cnt, e, m) /\ ~(e = g /\ m = l))
      BY <1>6, <1>9, <3>1
    <3> QED
      BY <1>5, <2>1, <3>2
  <2>2. CASE ~(f = h /\ i = k)
    <3>1. Holds(from, cnt, f, i) /\ who2[f][i] = who[f][i] /\ ~(f = g /\ i = l)
      BY <1>5, <1>6, <2>2
    <3>2. who[f][i] # who[g][l]
      BY <1>9, <3>1
    <3>3. ~(e = h /\ m = k)
      BY <1>2, <3>1, <3>2
    <3>4. Holds(from, cnt, e, m) /\ who2[e][m] = who[e][m]
      BY <1>5, <1>6, <3>3
    <3> QED
      BY <3>1, <3>4 DEF Contents
  <2> QED
    BY <2>1, <2>2
<1>11. ASSUME NEW p \in 1 .. n PROVE \E f \in Heads, i \in Int : Holds(from2, cnt2, f, i) /\ who2[f][i] = p
  <2>1. PICK f \in Heads, i \in Int : Holds(from, cnt, f, i) /\ who[f][i] = p
    BY DEF Contents
  <2>2. CASE f = g /\ i = l
    <3>1. Holds(from2, cnt2, h, k) /\ who2[h][k] = p
      BY <1>2, <1>5, <1>7, <2>1, <2>2
    <3> QED
      BY <1>7, <3>1
  <2>3. CASE ~(f = g /\ i = l)
    BY <1>5, <1>6, <2>1, <2>3
  <2> QED
    BY <2>2, <2>3
<1>12. Contents(who2, from2, cnt2, n)
  BY <1>2, <1>4, <1>8, <1>10, <1>11 DEF Contents, Counts
<1>13. /\ from2[g] = from[g] + 1 /\ cnt2[h] = cnt[h] + 1
       /\ who2[h][cnt[h]] = who[g][from[g]]
       /\ \A f \in Heads : (f # g => from2[f] = from[f]) /\ (f # h => cnt2[f] = cnt[f])
       /\ \A f \in Heads, i \in Int : ~(f = h /\ i = cnt[h]) => who2[f][i] = who[f][i]
  BY <1>2, <1>3
<1> QED
  BY <1>12, <1>13

\* An empty cell is cleared.
LEMMA ContentsReset ==
    ASSUME NEW who, NEW from, NEW cnt, NEW n, Contents(who, from, cnt, n),
           NEW h \in Heads, from[h] = cnt[h]
    PROVE  Contents(who, [from EXCEPT ![h] = 0], [cnt EXCEPT ![h] = 0], n)
<1> DEFINE from2 == [from EXCEPT ![h] = 0]
           cnt2 == [cnt EXCEPT ![h] = 0]
<1>1. /\ who \in [Heads -> [Int -> Int]] /\ from \in [Heads -> Nat] /\ cnt \in [Heads -> Nat]
      /\ \A f \in Heads : from[f] <= cnt[f]
  BY DEF Contents, Counts
<1>2. /\ cnt2 \in [Heads -> Nat] /\ from2 \in [Heads -> Nat] /\ \A f \in Heads : from2[f] <= cnt2[f]
  BY <1>1
<1>3. \A f \in Heads, i \in Int : Holds(from2, cnt2, f, i) <=> Holds(from, cnt, f, i)
  <2>1. \A i \in Int : ~Holds(from2, cnt2, h, i) /\ ~Holds(from, cnt, h, i)
    BY <1>1 DEF Holds
  <2>2. \A f \in Heads : f # h => from2[f] = from[f] /\ cnt2[f] = cnt[f]
    BY <1>1
  <2> QED
    BY <2>1, <2>2 DEF Holds
<1> HIDE DEF from2, cnt2
<1>4. Contents(who, from2, cnt2, n)
  BY <1>1, <1>2, <1>3 DEF Contents, Counts
<1> QED
  BY <1>4 DEF from2, cnt2

\* No cell holds more particles than there are.
LEMMA ContentsBound ==
    ASSUME NEW who, NEW from, NEW cnt, NEW n \in Nat, Contents(who, from, cnt, n), NEW h \in Heads
    PROVE  cnt[h] - from[h] <= n
<1> DEFINE S == from[h] .. cnt[h] - 1
           f == [i \in S |-> who[h][i]]
<1>1. from[h] \in Nat /\ cnt[h] \in Nat /\ from[h] <= cnt[h]
  BY DEF Contents, Counts
<1>2. \A i \in S : i \in Int /\ Holds(from, cnt, h, i)
  BY <1>1 DEF Holds
<1>3. f \in [S -> 1 .. n] /\ \A i, k \in S : f[i] = f[k] => i = k
  <2> HIDE DEF S
  <2> QED BY <1>2 DEF Contents
<1>4. f \in Injection(S, 1 .. n)
  <2> HIDE DEF S, f
  <2> QED BY <1>3, Fun_IsInj
<1>5. IsFiniteSet(1 .. n) /\ Cardinality(1 .. n) = n
  BY FS_Interval
<1>6. Cardinality(S) <= Cardinality(1 .. n)
  <2> HIDE DEF S, f
  <2> QED BY <1>4, <1>5, FS_Injection
<1>7. Cardinality(S) = cnt[h] - from[h]
  <2>1. cnt[h] - 1 \in Int /\ from[h] \in Int
    BY <1>1
  <2>2. Cardinality(S) = IF from[h] > cnt[h] - 1 THEN 0 ELSE (cnt[h] - 1) - from[h] + 1
    BY <2>1, FS_Interval
  <2> QED
    BY <1>1, <2>2
<1> QED
  BY <1>5, <1>6, <1>7

\* The number of the last structure of a cell, the first being its head, and
\* where the i-th particle of cell h is stored.
Last(np) == IF np = 0 THEN 0 ELSE (np - 1) \div ParticlesPerCell
PlaceOf(at, h, i) == <<at[h][i \div ParticlesPerCell], i % ParticlesPerCell>>
Placed(lo, hi, h, i) ==
    i \in Nat /\ (i \div ParticlesPerCell = 0 \/ Listed(lo, hi, h, i \div ParticlesPerCell))
HeadsFirst(at) == \A h \in Heads : at[h][0] = h

\* Which structure of a cell the i-th particle is in, and which slot.
LEMMA SlotOf ==
    ASSUME NEW i \in Nat
    PROVE  /\ i \div ParticlesPerCell \in Nat /\ i % ParticlesPerCell \in Slots
           /\ i = ParticlesPerCell * (i \div ParticlesPerCell) + (i % ParticlesPerCell)
           /\ i \div ParticlesPerCell = 0 <=> i < ParticlesPerCell
           /\ i \div ParticlesPerCell # 0 => i \div ParticlesPerCell >= 1
<1> DEFINE P == ParticlesPerCell
           q == i \div P
           r == i % P
<1>0. P \in Nat /\ P # 0 /\ 0 \in Nat
  BY Sizes
<1>1. q \in Int /\ r \in Int /\ 0 <= r /\ r < P /\ i = P * q + r
  BY <1>0, DivMod
<1>2. 0 <= q
  <2>1. 0 \div P <= q
    BY <1>0, DivMonotone
  <2>2. 0 \div P = 0
    <3>1. 0 = P * 0 + 0 /\ 0 \in 0 .. P - 1
      BY <1>0
    <3> QED BY <1>0, <3>1, Quotient
  <2> QED
    BY <1>1, <2>1, <2>2
<1>3. i < P => q = 0
  <2> SUFFICES ASSUME i < P PROVE q = 0
    OBVIOUS
  <2>1. i = P * 0 + i /\ i \in 0 .. P - 1
    BY <1>0
  <2> QED BY <1>0, <2>1, Quotient
<1>4. q = 0 => i < P
  BY <1>0, <1>1
<1>5. q \in Nat /\ r \in 0 .. P - 1 /\ (q # 0 => q >= 1)
  BY <1>0, <1>1, <1>2
<1>6. /\ i \div P = q /\ i % P = r
  OBVIOUS
<1> HIDE DEF q, r
<1> QED
  BY <1>1, <1>3, <1>4, <1>5, <1>6 DEF Slots

\* Particles further on are not in earlier structures.
LEMMA SlotDivides ==
    ASSUME NEW i \in Nat, NEW k \in Nat, i <= k
    PROVE  i \div ParticlesPerCell <= k \div ParticlesPerCell
BY Sizes, DivMonotone

\* The particles of a cell are in the structures up to the last.
LEMMA LastOf ==
    ASSUME NEW np \in Nat
    PROVE  /\ Last(np) \in Nat
           /\ \A i \in Nat : i < np => i \div ParticlesPerCell <= Last(np)
           /\ np # 0 => \E i \in Nat : i < np /\ i \div ParticlesPerCell = Last(np)
<1>1. CASE np = 0
  BY <1>1 DEF Last
<1>2. CASE np # 0
  <2>1. np - 1 \in Nat /\ Last(np) = (np - 1) \div ParticlesPerCell /\ np - 1 < np
    BY <1>2 DEF Last
  <2>2. \A i \in Nat : i < np => i <= np - 1
    BY <2>1
  <2>3. Last(np) \in Nat
    BY <2>1, SlotOf
  <2> QED
    BY <2>1, <2>2, <2>3, SlotDivides
<1> QED
  BY <1>1, <1>2

\* The cell has another structure when the particles fill those it has.
LEMMA LastNext ==
    ASSUME NEW np \in Nat
    PROVE  /\ Last(np + 1) = np \div ParticlesPerCell
           /\ np % ParticlesPerCell = 0 /\ np # 0 => Last(np + 1) = Last(np) + 1
           /\ ~(np % ParticlesPerCell = 0 /\ np # 0) => Last(np + 1) = Last(np)
<1> DEFINE P == ParticlesPerCell
<1>0. P \in Nat /\ P # 0
  BY Sizes
<1>1. Last(np + 1) = np \div P
  <2>1. PICK m \in Nat : m = np + 1
    OBVIOUS
  <2>2. m # 0 /\ m - 1 = np
    BY <2>1
  <2>3. Last(m) = np \div P
    BY <2>2 DEF Last
  <2> QED
    BY <2>1, <2>3
<1>2. CASE np = 0
  <2>1. np < P => np \div P = 0
    BY SlotOf
  <2>2. np \div P = 0
    BY <1>0, <1>2, <2>1
  <2>3. Last(np) = 0
    BY <1>2 DEF Last
  <2> QED
    BY <1>1, <1>2, <2>2, <2>3
<1>3. CASE np # 0
  <2> DEFINE q == np \div P
             r == np % P
  <2>1. np - 1 \in Nat /\ Last(np) = (np - 1) \div P
    BY <1>3 DEF Last
  <2>2. q \in Nat /\ r \in 0 .. P - 1 /\ np = P * q + r
    BY SlotOf DEF Slots
  <2>3. CASE r = 0
    <3>1. np - 1 = P * (q - 1) + (P - 1) /\ P - 1 \in 0 .. P - 1 /\ q - 1 \in Int
      <4> HIDE DEF q, r
      <4>1. P * (q - 1) = P * q - P
        BY <1>0, <2>2
      <4>2. P * q \in Int
        BY <1>0, <2>2
      <4> QED BY <1>0, <2>2, <2>3, <4>1, <4>2
    <3>2. (np - 1) \div P = q - 1
      <4> HIDE DEF q, r, P
      <4>1. np - 1 \in Int
        BY <2>1
      <4> QED BY <1>0, <3>1, <4>1, Quotient
    <3>3. (np \div P) = ((np - 1) \div P) + 1
      BY <2>2, <3>2
    <3>4. Last(np + 1) = Last(np) + 1
      BY <1>1, <2>1, <3>3
    <3> QED
      BY <1>1, <1>3, <2>3, <3>4
  <2>4. CASE r # 0
    <3>1. np - 1 = P * q + (r - 1) /\ r - 1 \in 0 .. P - 1
      <4> HIDE DEF q, r
      <4>2. P * q \in Int
        BY <1>0, <2>2
      <4> QED BY <1>0, <2>2, <2>4, <4>2
    <3>2. (np - 1) \div P = q
      <4> HIDE DEF q, r, P
      <4>1. np - 1 \in Int /\ q \in Int
        BY <2>1, <2>2
      <4> QED BY <1>0, <3>1, <4>1, Quotient
    <3>3. (np \div P) = ((np - 1) \div P)
      BY <3>2
    <3>4. Last(np + 1) = Last(np)
      BY <1>1, <2>1, <3>3
    <3> QED
      BY <1>1, <2>4, <3>4
  <2> QED
    BY <2>3, <2>4
<1> QED
  BY <1>1, <1>2, <1>3

\* Two particles are never stored in the same place.
LEMMA PlacesDiffer ==
    ASSUME NEW np, NEW pl, NEW us \in Nat, us <= MaxBlocks, NEW at, NEW lo, NEW hi,
           Lists(np, pl, us, at, lo, hi), HeadsFirst(at),
           NEW h \in Heads, NEW g \in Heads, NEW i, NEW k, Placed(lo, hi, h, i), Placed(lo, hi, g, k)
    PROVE  /\ PlaceOf(at, h, i) = PlaceOf(at, g, k) => h = g /\ i = k
           /\ at[h][i \div ParticlesPerCell] \in Nodes /\ PlaceOf(at, h, i) \in Nodes \X Slots
           /\ PlaceOf(at, h, i) # NULL
<1> DEFINE P == ParticlesPerCell
           a == i \div P
           b == k \div P
<1>1. /\ i \in Nat /\ k \in Nat /\ a \in Nat /\ b \in Nat /\ i % P \in Slots
      /\ i = P * a + (i % P) /\ k = P * b + (k % P)
      /\ a = 0 \/ Listed(lo, hi, h, a)
      /\ b = 0 \/ Listed(lo, hi, g, b)
      /\ at[h][0] = h /\ at[g][0] = g
  BY SlotOf DEF Placed, HeadsFirst
<1>2. h \in Owners /\ g \in Owners /\ h \notin Blocks /\ g \notin Blocks
  BY OwnerKinds
<1>3. /\ Listed(lo, hi, h, a) => at[h][a] \in Blocks
      /\ Listed(lo, hi, g, b) => at[g][b] \in Blocks
  BY <1>1, <1>2, UsedAreBlocks DEF Lists, AllListed
<1>4. at[h][a] = at[g][b] => h = g /\ a = b
  <2>1. CASE a = 0 /\ b = 0
    BY <1>1, <2>1
  <2>2. CASE a = 0 /\ Listed(lo, hi, g, b)
    BY <1>1, <1>2, <1>3, <2>2
  <2>3. CASE Listed(lo, hi, h, a) /\ b = 0
    BY <1>1, <1>2, <1>3, <2>3
  <2>4. CASE Listed(lo, hi, h, a) /\ Listed(lo, hi, g, b)
    BY <1>1, <1>2, <2>4 DEF Lists, Disjoint
  <2> QED
    BY <1>1, <2>1, <2>2, <2>3, <2>4
<1>5. at[h][a] \in Nodes
  BY <1>1, <1>3, OwnerKinds
<1>6. PlaceOf(at, h, i) = <<at[h][a], i % P>> /\ PlaceOf(at, g, k) = <<at[g][b], k % P>>
  BY DEF PlaceOf
<1>7. PlaceOf(at, h, i) \in Nodes \X Slots
  BY <1>1, <1>5, <1>6
<1>8. PlaceOf(at, h, i) # NULL
  BY <1>7, NullAssumption
<1>9. PlaceOf(at, h, i) = PlaceOf(at, g, k) => at[h][a] = at[g][b] /\ i % P = k % P
  BY <1>6
<1> HIDE DEF P, a, b
<1>10. PlaceOf(at, h, i) = PlaceOf(at, g, k) => h = g /\ i = k
  BY <1>1, <1>4, <1>9
<1> QED
  BY <1>5, <1>7, <1>8, <1>10 DEF P, a

\* The structures behind one another are the solution of their recursion.
LEMMA ChainIs ==
    ASSUME NEW n, NEW k \in Nat, NEW f,
           f = [i \in 0 .. k |-> IF i = 0 THEN n ELSE nextp[f[i - 1]]]
    PROVE  Behind(n, k) = f[k]
<1> DEFINE Is(g) == g = [i \in 0 .. k |-> IF i = 0 THEN n ELSE nextp[g[i - 1]]]
           chain == CHOOSE g : Is(g)
           bad == {i \in 0 .. k : chain[i] # f[i]}
<1>1. Behind(n, k) = chain[k]
  BY DEF Behind
<1>2. Is(chain)
  <2>1. Is(f)
    OBVIOUS
  <2> QED BY <2>1
<1>3. /\ \A i \in 0 .. k : chain[i] = IF i = 0 THEN n ELSE nextp[chain[i - 1]]
      /\ \A i \in 0 .. k : f[i] = IF i = 0 THEN n ELSE nextp[f[i - 1]]
  <2> HIDE DEF chain
  <2>1. \A i \in 0 .. k : chain[i] = IF i = 0 THEN n ELSE nextp[chain[i - 1]]
    BY <1>2
  <2>2. \A i \in 0 .. k : f[i] = IF i = 0 THEN n ELSE nextp[f[i - 1]]
    OBVIOUS
  <2> QED BY <2>1, <2>2
<1> HIDE DEF chain, Is
<1>4. bad = {}
  <2> SUFFICES ASSUME bad # {} PROVE FALSE
    OBVIOUS
  <2>1. bad \in SUBSET Nat
    OBVIOUS
  <2>2. PICK i \in bad : \A x \in bad : i <= x
    <3> HIDE DEF bad
    <3> QED BY <2>1, LeastElement
  <2>3. i \in 0 .. k /\ chain[i] # f[i]
    OBVIOUS
  <2>4. i # 0
    BY <1>3, <2>3
  <2>5. i - 1 \in 0 .. k /\ ~(i <= i - 1)
    BY <2>3, <2>4
  <2>6. chain[i - 1] = f[i - 1]
    BY <2>2, <2>5
  <2> QED
    BY <1>3, <2>3, <2>4, <2>6
<1>5. k \in 0 .. k
  OBVIOUS
<1> QED
  BY <1>1, <1>4, <1>5

\* The list of a cell, from its head.
LEMMA BehindIs ==
    ASSUME NEW pl, NEW us, NEW at, NEW lo, NEW hi, Lists(nextp, pl, us, at, lo, hi), HeadsFirst(at),
           NEW h \in Heads, lo[h] = 1, nextp[h] = First(at, lo, hi, h), NEW k \in Nat, k <= hi[h] \/ k = 0
    PROVE  Behind(h, k) = at[h][k]
<1> DEFINE f == [i \in 0 .. k |-> at[h][i]]
<1>1. h \in Owners /\ hi[h] \in Int /\ at[h][0] = h
  BY OwnerKinds DEF Lists, Numbered, HeadsFirst
<1>2. ASSUME NEW i \in 0 .. k PROVE f[i] = IF i = 0 THEN h ELSE nextp[f[i - 1]]
  <2>1. CASE i = 0
    BY <1>1, <2>1
  <2>2. CASE i = 1
    <3>1. lo[h] <= hi[h]
      BY <1>1, <2>2
    <3>2. nextp[h] = at[h][1]
      BY <3>1 DEF First
    <3>3. f[1] = at[h][1] /\ f[0] = h /\ 1 - 1 = 0
      BY <1>1, <2>2
    <3> QED
      BY <2>2, <3>2, <3>3
  <2>3. CASE i # 0 /\ i # 1
    <3>1. i - 1 \in 0 .. k /\ i - 1 \in Int /\ Listed(lo, hi, h, i - 1) /\ i - 1 # hi[h] /\ (i - 1) + 1 = i
      BY <1>1, <2>3 DEF Listed
    <3>2. nextp[at[h][i - 1]] = at[h][(i - 1) + 1]
      BY <1>1, <3>1 DEF Lists, Linkage
    <3> QED
      BY <2>3, <3>1, <3>2
  <2> QED
    BY <2>1, <2>2, <2>3
<1>3. f = [i \in 0 .. k |-> IF i = 0 THEN h ELSE nextp[f[i - 1]]]
  <2>1. f = [i \in 0 .. k |-> f[i]]
    OBVIOUS
  <2> HIDE DEF f
  <2> QED BY <1>2, <2>1
<1>4. f[k] = at[h][k]
  OBVIOUS
<1> HIDE DEF f
<1>5. Behind(h, k) = f[k]
  BY <1>3, ChainIs
<1> QED
  BY <1>4, <1>5

-----------------------------------------------------------------------------
(* The grid *)

Cur(c) == todo[Owner(c)] # {} /\ c = Min(todo[Owner(c)])
\* How many particles of a source have been copied, and how many have a place.
Gone(c) == IF Cur(c) THEN j[Owner(c)] ELSE 0
Moved(c) == IF Cur(c) THEN j[Owner(c)] + (IF dest[Owner(c)] = NULL THEN 0 ELSE 1) ELSE 0

EmptyCell(from, cnt, lo, hi, h) == from[h] = cnt[h] /\ lo[h] = hi[h] + 1

LiveCell(c, at, lo, hi, from, cnt) ==
    LET h == <<cells, c>>
    IN  /\ from[h] = 0 /\ cnt[h] = cnumPars[cells][c]
        /\ lo[h] = 1 /\ hi[h] = Last(cnt[h])
        /\ nextp[h] = First(at, lo, hi, h)
SourceCell(c, at, lo, hi, from, cnt) ==
    LET h == <<1 - cells, c>>
    IN  /\ from[h] = Moved(c) /\ cnt[h] = cnumPars[1 - cells][c]
        /\ lo[h] = (IF Gone(c) < ParticlesPerCell THEN 1 ELSE Gone(c) \div ParticlesPerCell)
        /\ hi[h] = Last(cnt[h])
        /\ Gone(c) < ParticlesPerCell => nextp[h] = First(at, lo, hi, h)

\* A cell is in use in the array cells once it has been cleared, in the other
\* until it has been rebuilt.
CellsOk(at, lo, hi, from, cnt) ==
    \A c \in Cells :
        /\ Stage(c) >= 2 => LiveCell(c, at, lo, hi, from, cnt)
        /\ Stage(c) <= 1 => EmptyCell(from, cnt, lo, hi, <<cells, c>>)
        /\ Stage(c) <= 2 => SourceCell(c, at, lo, hi, from, cnt)
        /\ Stage(c) >= 3 => EmptyCell(from, cnt, lo, hi, <<1 - cells, c>>)
TailsOk(at, hi) ==
    \A c \in Cells : Stage(c) \in {2, 3} => last_cells[c] = at[<<cells, c>>][hi[<<cells, c>>]]

\* What is stored: in a source the particles not copied, in a cell of cells all
\* but those whose place is reserved.
SourcesOk(at, who, cnt) ==
    \A c \in Cells, i \in Nat : LET h == <<1 - cells, c>> IN
        Stage(c) <= 2 /\ Gone(c) <= i /\ i < cnt[h] => Held(PlaceOf(at, h, i)) = who[h][i]
StoredOk(at, who, cnt) ==
    \A c \in Cells, i \in Nat : LET h == <<cells, c>> IN
        Stage(c) >= 2 /\ i < cnt[h] =>
            \/ Held(PlaceOf(at, h, i)) = who[h][i]
            \/ \E t \in Threads : dest[t] = PlaceOf(at, h, i)
Reserved(t, at, who, cnt) ==
    \E d \in Cells, i \in Nat : LET h == <<cells, d>> IN
        /\ Stage(d) >= 2 /\ i < cnt[h] /\ dest[t] = PlaceOf(at, h, i)
        /\ who[h][i] = who[<<1 - cells, Min(todo[t])>>][j[t]]
ReservedOk(at, who, cnt) ==
    /\ \A t \in Threads : dest[t] # NULL => Reserved(t, at, who, cnt)
    /\ \A t, u \in Threads : t # u /\ dest[t] # NULL => dest[t] # dest[u]

\* Where the particles are: a particle is stored in its cell, or in a neighbour
\* from the time it moves until the grid is rebuilt.
PositionsOk(who, from, cnt) ==
    \A c \in Cells, i \in Nat :
        /\ Holds(from, cnt, <<cells, c>>, i) =>
              /\ pos[who[<<cells, c>>][i]] \in Neighbours(c)
              /\ Stage(c) <= 8 => pos[who[<<cells, c>>][i]] = c
        /\ Holds(from, cnt, <<1 - cells, c>>, i) => pos[who[<<1 - cells, c>>][i]] \in Neighbours(c)

\* A thread is between the particles of a cell only in RebuildGridMT.
RebuildOk(at, hi) ==
    \A t \in Threads :
        /\ j[t] \in Nat
        /\ j[t] # 0 \/ dest[t] # NULL => At(t, Min(todo[t]), "rebuild")
        /\ j[t] = 0 => cell2[t] = NULL
        /\ j[t] # 0 =>
              LET h == <<1 - cells, Min(todo[t])>>
                  k == j[t] \div ParticlesPerCell
              IN  cell2[t] = IF k <= hi[h] THEN at[h][k] ELSE NULL

Grid(at, lo, hi, who, from, cnt) ==
    /\ Lists(nextp, pool, used, at, lo, hi) /\ HeadsFirst(at)
    /\ Contents(who, from, cnt, loaded)
    /\ CellsOk(at, lo, hi, from, cnt) /\ TailsOk(at, hi)
    /\ SourcesOk(at, who, cnt) /\ StoredOk(at, who, cnt) /\ ReservedOk(at, who, cnt)
    /\ PositionsOk(who, from, cnt) /\ RebuildOk(at, hi)
Gridded == \E at, lo, hi, who, from, cnt : Grid(at, lo, hi, who, from, cnt)

Types ==
    /\ cells \in {0, 1}
    /\ cnumPars \in [{0, 1} -> [Cells -> -1 .. numParticles]]
    /\ nextp \in [Nodes -> Nodes \cup {NULL}]
    /\ slot \in [Nodes -> [Slots -> Particles \cup {NULL}]]
    /\ last_cells \in [Cells -> Nodes \cup {NULL}]
    /\ pool \in [Threads -> Blocks \cup {NULL}]
    /\ alloc \in [Threads -> Nat \ {0}] /\ used \in Nat /\ used <= MaxBlocks
    /\ loaded \in 0 .. numParticles /\ pool_id \in Threads
    /\ pos \in [Particles -> Cells]
    /\ density \in [Particles -> Nat] /\ force \in [Particles -> Nat]
    /\ j \in [Threads -> Nat]
    /\ cell2 \in [Threads -> Nodes \cup {NULL}]
    /\ dest \in [Threads -> (Nodes \X Slots) \cup {NULL}]

\* The heads of a cell in the two arrays.
LEMMA HeadsOf ==
    ASSUME NEW c \in Cells, cells \in {0, 1}
    PROVE  /\ <<cells, c>> \in Heads /\ <<1 - cells, c>> \in Heads
           /\ \A d : <<cells, c>> # <<1 - cells, d>>
           /\ <<cells, c>> \in Owners /\ <<1 - cells, c>> \in Owners
           /\ 1 - cells \in {0, 1} /\ cells # 1 - cells
<1>1. 1 - cells \in {0, 1} /\ cells # 1 - cells
  OBVIOUS
<1>2. <<cells, c>> \in Heads /\ <<1 - cells, c>> \in Heads
  BY <1>1 DEF Heads
<1> QED
  BY <1>1, <1>2, OwnerKinds

\* Every particle counted in a cell of cells has a place there.
LEMMA LivePlaced ==
    ASSUME NEW at, NEW lo, NEW hi, NEW who, NEW from, NEW cnt, Contents(who, from, cnt, loaded),
           CellsOk(at, lo, hi, from, cnt), cells \in {0, 1},
           NEW c \in Cells, Stage(c) >= 2, NEW i \in Nat, i < cnt[<<cells, c>>]
    PROVE  Placed(lo, hi, <<cells, c>>, i) /\ Holds(from, cnt, <<cells, c>>, i)
<1> DEFINE h == <<cells, c>>
<1>1. h \in Heads /\ cnt[h] \in Nat
  BY HeadsOf DEF Contents, Counts
<1>2. from[h] = 0 /\ lo[h] = 1 /\ hi[h] = Last(cnt[h])
  BY DEF CellsOk, LiveCell
<1>3. i \div ParticlesPerCell <= Last(cnt[h])
  BY <1>1, LastOf
<1>4. i \div ParticlesPerCell = 0 \/ i \div ParticlesPerCell >= 1
  BY SlotOf
<1> QED
  BY <1>2, <1>3, <1>4 DEF Placed, Listed, Holds

\* So has every one left in a source.
LEMMA SourcePlaced ==
    ASSUME NEW at, NEW lo, NEW hi, NEW who, NEW from, NEW cnt, Contents(who, from, cnt, loaded),
           CellsOk(at, lo, hi, from, cnt), cells \in {0, 1}, RebuildOk(at, hi),
           NEW c \in Cells, Stage(c) <= 2, NEW i \in Nat, Gone(c) <= i, i < cnt[<<1 - cells, c>>]
    PROVE  Placed(lo, hi, <<1 - cells, c>>, i)
<1> DEFINE h == <<1 - cells, c>>
<1>1. h \in Heads /\ cnt[h] \in Nat
  BY HeadsOf DEF Contents, Counts
<1>2. hi[h] = Last(cnt[h]) /\ lo[h] = (IF Gone(c) < ParticlesPerCell THEN 1 ELSE Gone(c) \div ParticlesPerCell)
  BY DEF CellsOk, SourceCell
<1>3. i \div ParticlesPerCell <= Last(cnt[h])
  BY <1>1, LastOf
<1>4. i \div ParticlesPerCell = 0 \/ i \div ParticlesPerCell >= 1
  BY SlotOf
<1>5. Gone(c) \in Nat
  BY OneOwner DEF RebuildOk, Gone
<1>6. Gone(c) \div ParticlesPerCell <= i \div ParticlesPerCell
  BY <1>5, SlotDivides
<1> QED
  BY <1>2, <1>3, <1>4, <1>6 DEF Placed, Listed

\* A step that goes no further with the particles of a thread in RebuildGridMT.
Unmoved(t) == \/ j[t] = 0 /\ dest[t] = NULL
              \/ todo'[t] = todo[t] /\ left'[t] = left[t] /\ entered'[t] = entered[t]
QuietStage(c) == \/ Stage(c)' = Stage(c)
                 \/ Stage(c) \in {0, 10} /\ Stage(c)' = Stage(c) + 1
                 \/ Stage(c) \in 3 .. 9 /\ Stage(c)' = Stage(c) + 1

\* The source cells are as far as they were.
LEMMA UnmovedCells ==
    ASSUME \A t \in Threads : Unmoved(t), UNCHANGED rebuildVars, NEW c \in Cells
    PROVE  Gone(c)' = Gone(c) /\ Moved(c)' = Moved(c)
<1>1. PICK t \in Threads : t = Owner(c)
  BY OneOwner
<1>2. j' = j /\ dest' = dest
  BY DEF rebuildVars
<1>3. CASE j[t] = 0 /\ dest[t] = NULL
  BY <1>1, <1>2, <1>3 DEF Gone, Moved
<1>4. CASE todo'[t] = todo[t]
  <2>1. Cur(c)' <=> Cur(c)
    BY <1>1, <1>4 DEF Cur
  <2> QED
    BY <1>1, <1>2, <2>1 DEF Gone, Moved
<1> QED
  BY <1>3, <1>4 DEF Unmoved

\* The thread in RebuildGridMT stays there.
LEMMA UnmovedAt ==
    ASSUME \A t \in Threads : Unmoved(t), UNCHANGED <<rebuildVars, loaded>>, NEW t \in Threads,
           j[t] # 0 \/ dest[t] # NULL
    PROVE  todo'[t] = todo[t] /\ (At(t, Min(todo[t]), "rebuild") => At(t, Min(todo[t]), "rebuild")')
<1>1. todo'[t] = todo[t] /\ left'[t] = left[t] /\ entered'[t] = entered[t] /\ loaded' = loaded
  BY DEF Unmoved
<1> QED
  BY <1>1 DEF At, Working, Started, Goal, Phase

\* A step that moves no particle and no structure keeps the grid.
LEMMA GridQuiet ==
    ASSUME RoundInv, NEW at, NEW lo, NEW hi, NEW who, NEW from, NEW cnt,
           Grid(at, lo, hi, who, from, cnt),
           UNCHANGED <<cells, gridVars, pool, used, rebuildVars, loaded>>,
           pos' = pos \/ PositionsOk(who, from, cnt)',
           \A t \in Threads : Unmoved(t), \A c \in Cells : QuietStage(c)
    PROVE  Grid(at, lo, hi, who, from, cnt)'
<1>0. /\ cells' = cells /\ cnumPars' = cnumPars /\ nextp' = nextp /\ slot' = slot /\ last_cells' = last_cells
      /\ pool' = pool /\ used' = used /\ j' = j /\ cell2' = cell2 /\ dest' = dest /\ loaded' = loaded
  BY DEF gridVars, rebuildVars
<1>1. \A c \in Cells : Gone(c)' = Gone(c) /\ Moved(c)' = Moved(c)
  BY UnmovedCells
<1>2. \A c \in Cells : /\ Stage(c)' >= 2 => Stage(c) >= 2
                       /\ Stage(c)' <= 1 => Stage(c) <= 1
                       /\ Stage(c)' <= 2 => Stage(c) <= 2
                       /\ Stage(c)' >= 3 => Stage(c) >= 3
                       /\ Stage(c)' \in {2, 3} => Stage(c) \in {2, 3}
                       /\ Stage(c)' <= 8 => Stage(c) <= 8
                       /\ Stage(c) >= 2 => Stage(c)' >= 2
  <2> SUFFICES ASSUME NEW c \in Cells
               PROVE  /\ Stage(c)' >= 2 => Stage(c) >= 2
                      /\ Stage(c)' <= 1 => Stage(c) <= 1
                      /\ Stage(c)' <= 2 => Stage(c) <= 2
                      /\ Stage(c)' >= 3 => Stage(c) >= 3
                      /\ Stage(c)' \in {2, 3} => Stage(c) \in {2, 3}
                      /\ Stage(c)' <= 8 => Stage(c) <= 8
                      /\ Stage(c) >= 2 => Stage(c)' >= 2
    OBVIOUS
  <2>1. Stage(c) \in 0 .. 11
    BY StageRange
  <2> QED
    BY <2>1 DEF QuietStage
<1>3. Lists(nextp, pool, used, at, lo, hi)' /\ HeadsFirst(at) /\ Contents(who, from, cnt, loaded)'
  BY <1>0 DEF Grid
<1>4. CellsOk(at, lo, hi, from, cnt)'
  <2> SUFFICES ASSUME NEW c \in Cells
               PROVE  /\ Stage(c)' >= 2 => LiveCell(c, at, lo, hi, from, cnt)'
                      /\ Stage(c)' <= 1 => EmptyCell(from, cnt, lo, hi, <<cells, c>>)'
                      /\ Stage(c)' <= 2 => SourceCell(c, at, lo, hi, from, cnt)'
                      /\ Stage(c)' >= 3 => EmptyCell(from, cnt, lo, hi, <<1 - cells, c>>)'
    BY DEF CellsOk
  <2>1. /\ Stage(c) >= 2 => LiveCell(c, at, lo, hi, from, cnt)
        /\ Stage(c) <= 1 => EmptyCell(from, cnt, lo, hi, <<cells, c>>)
        /\ Stage(c) <= 2 => SourceCell(c, at, lo, hi, from, cnt)
        /\ Stage(c) >= 3 => EmptyCell(from, cnt, lo, hi, <<1 - cells, c>>)
    BY DEF Grid, CellsOk
  <2>2. LiveCell(c, at, lo, hi, from, cnt) => LiveCell(c, at, lo, hi, from, cnt)'
    BY <1>0 DEF LiveCell
  <2>3. SourceCell(c, at, lo, hi, from, cnt) => SourceCell(c, at, lo, hi, from, cnt)'
    BY <1>0, <1>1 DEF SourceCell
  <2>4. /\ EmptyCell(from, cnt, lo, hi, <<cells, c>>) => EmptyCell(from, cnt, lo, hi, <<cells, c>>)'
        /\ EmptyCell(from, cnt, lo, hi, <<1 - cells, c>>) => EmptyCell(from, cnt, lo, hi, <<1 - cells, c>>)'
    BY <1>0
  <2> QED
    BY <1>2, <2>1, <2>2, <2>3, <2>4
<1>5. TailsOk(at, hi)'
  BY <1>0, <1>2 DEF Grid, TailsOk
<1>6. SourcesOk(at, who, cnt)'
  BY <1>0, <1>1, <1>2 DEF Grid, SourcesOk, Held
<1>7. StoredOk(at, who, cnt)'
  BY <1>0, <1>2 DEF Grid, StoredOk, Held
<1>8. ReservedOk(at, who, cnt)'
  <2> SUFFICES ASSUME NEW t \in Threads, dest[t] # NULL PROVE Reserved(t, at, who, cnt)'
    BY <1>0 DEF Grid, ReservedOk
  <2>1. todo'[t] = todo[t]
    BY <1>0, UnmovedAt
  <2>2. PICK d \in Cells, i \in Nat :
           /\ Stage(d) >= 2 /\ i < cnt[<<cells, d>>] /\ dest[t] = PlaceOf(at, <<cells, d>>, i)
           /\ who[<<cells, d>>][i] = who[<<1 - cells, Min(todo[t])>>][j[t]]
    BY DEF Grid, ReservedOk, Reserved
  <2> QED
    BY <1>0, <1>2, <2>1, <2>2 DEF Reserved
<1>9. PositionsOk(who, from, cnt)'
  BY <1>0, <1>2 DEF Grid, PositionsOk
<1>10. RebuildOk(at, hi)'
  <2> SUFFICES ASSUME NEW t \in Threads
               PROVE  /\ j[t] \in Nat
                      /\ j[t] # 0 \/ dest[t] # NULL => At(t, Min(todo[t]), "rebuild")'
                      /\ j[t] = 0 => cell2[t] = NULL
                      /\ j[t] # 0 =>
                            LET h == <<1 - cells, Min(todo'[t])>>
                                k == j[t] \div ParticlesPerCell
                            IN  cell2[t] = IF k <= hi[h] THEN at[h][k] ELSE NULL
    BY <1>0 DEF RebuildOk
  <2>1. j[t] # 0 \/ dest[t] # NULL => todo'[t] = todo[t] /\ At(t, Min(todo[t]), "rebuild")'
    BY <1>0, UnmovedAt DEF Grid, RebuildOk
  <2> QED
    BY <2>1 DEF Grid, RebuildOk
<1> QED
  BY <1>3, <1>4, <1>5, <1>6, <1>7, <1>8, <1>9, <1>10 DEF Grid, HeadsFirst

-----------------------------------------------------------------------------
(* The later phases *)

\* A thread in another phase has no particle under way.
LEMMA IdleElsewhere ==
    ASSUME NEW at, NEW hi, RebuildOk(at, hi), NEW t \in Threads, NEW c, NEW phase, At(t, c, phase),
           phase # "rebuild"
    PROVE  j[t] = 0 /\ dest[t] = NULL
BY DEF RebuildOk, At

LaterPhases == {"init", "densities", "densities2", "forces", "collisions", "advance", "collisions2"}

\* The phases after RebuildGridMT are those numbered 3 to 9.
LEMMA LaterNumbers ==
    ASSUME NEW r \in Nat, PhaseAfter(r) \in LaterPhases
    PROVE  r % 10 \in 3 .. 9
<1>1. r % 10 \in 0 .. 9 /\ r % 10 # 0 /\ r % 10 # 1 /\ r % 10 # 2
  BY PhaseNumbers DEF LaterPhases
<1> QED
  BY <1>1

\* The phases after RebuildGridMT leave the grid as it is.
LEMMA VisitQuiet ==
    ASSUME RoundInv, NEW at, NEW hi, RebuildOk(at, hi), NEW t \in Threads, NEW c, NEW phase,
           At(t, c, phase), phase \in LaterPhases, Visited(t, c), UNCHANGED barrierVars
    PROVE  (\A u \in Threads : Unmoved(u)) /\ (\A d \in Cells : QuietStage(d))
<1>1. j[t] = 0 /\ dest[t] = NULL
  BY IdleElsewhere DEF LaterPhases
<1>2. \A u \in Threads : Unmoved(u)
  BY <1>1 DEF Unmoved, Visited, barrierVars, RoundInv
<1>3. c \in Cells /\ left[t] \in Nat /\ PhaseAfter(left[t]) = phase
  BY AtOwn
<1>4. PICK n \in 3 .. 9 : left[t] % 10 = n
  BY <1>3, LaterNumbers
<1>5. Stage(c) = n
  BY <1>4, StageAt
<1>6. Stage(c)' = Stage(c) + 1 /\ \A d \in Cells \ {c} : Stage(d)' = Stage(d)
  BY StageAfter DEF LaterPhases
<1> QED
  BY <1>2, <1>4, <1>5, <1>6 DEF QuietStage

\* A thread enters or leaves a barrier with no particle under way.
LEMMA BarrierQuiet ==
    ASSUME RoundInv, NEW at, NEW hi, RebuildOk(at, hi), NEW t \in Threads, Enter(t) \/ Leave(t)
    PROVE  (\A u \in Threads : Unmoved(u)) /\ (\A d \in Cells : QuietStage(d))
<1>1. CASE Enter(t)
  <2>1. todo[t] = {} /\ left' = left /\ todo' = todo /\ entered' = [entered EXCEPT ![t] = @ + 1]
    BY <1>1 DEF Enter, B!Enter
  <2>2. j[t] = 0 /\ dest[t] = NULL
    BY <2>1 DEF RebuildOk, At
  <2>3. \A u \in Threads : Unmoved(u)
    BY <2>1, <2>2 DEF Unmoved, RoundInv
  <2>4. \A d \in Cells : QuietStage(d)
    BY <2>1, StageQuiet DEF QuietStage
  <2> QED
    BY <2>3, <2>4
<1>2. CASE Leave(t)
  <2>1. /\ todo[t] = {} /\ left' = [left EXCEPT ![t] = @ + 1] /\ entered' = entered
        /\ todo' = [todo EXCEPT ![t] = Work(t, left[t] + 1)]
    BY <1>2, LeaveRounds DEF Leave
  <2>2. j[t] = 0 /\ dest[t] = NULL
    BY <2>1 DEF RebuildOk, At
  <2>3. \A u \in Threads : Unmoved(u)
    BY <2>1, <2>2 DEF Unmoved, RoundInv
  <2>4. \A d \in Cells : QuietStage(d)
    BY <1>2, StageLeave DEF QuietStage
  <2> QED
    BY <2>3, <2>4
<1> QED
  BY <1>1, <1>2

\* The barriers keep the grid.
LEMMA EnterGrid ==
    ASSUME RoundInv, Types, Gridded, NEW t \in Threads, Enter(t) \/ Leave(t)
    PROVE  Types' /\ Gridded'
<1>0. UNCHANGED <<cells, gridVars, poolVars, initVars, particleVars, rebuildVars, saved>>
  BY DEF Enter, Leave
<1>1. PICK at, lo, hi, who, from, cnt : Grid(at, lo, hi, who, from, cnt)
  BY DEF Gridded
<1>2. (\A u \in Threads : Unmoved(u)) /\ (\A d \in Cells : QuietStage(d))
  BY <1>1, BarrierQuiet DEF Grid
<1>3. UNCHANGED <<cells, gridVars, pool, used, rebuildVars, loaded>> /\ pos' = pos
  BY <1>0 DEF poolVars, initVars, particleVars
<1>4. Grid(at, lo, hi, who, from, cnt)'
  BY <1>1, <1>2, <1>3, GridQuiet
<1>5. Gridded'
  BY <1>4 DEF Gridded
<1>6. Types'
  BY <1>0 DEF Types, gridVars, poolVars, initVars, particleVars, rebuildVars
<1> QED
  BY <1>5, <1>6

\* A visit of a later phase, with what is needed of the particles' values.
LEMMA LaterGrid ==
    ASSUME RoundInv, Types, NEW at, NEW lo, NEW hi, NEW who, NEW from, NEW cnt,
           Grid(at, lo, hi, who, from, cnt),
           NEW t \in Threads, NEW c, NEW phase, At(t, c, phase), phase \in LaterPhases, Visited(t, c),
           UNCHANGED <<barrierVars, cells, gridVars, poolVars, initVars, rebuildVars>>,
           pos' \in [Particles -> Cells], density' \in [Particles -> Nat], force' \in [Particles -> Nat],
           pos' = pos \/ PositionsOk(who, from, cnt)'
    PROVE  Types' /\ Gridded'
<1>1. (\A u \in Threads : Unmoved(u)) /\ (\A d \in Cells : QuietStage(d))
  BY VisitQuiet DEF Grid
<1>2. UNCHANGED <<cells, gridVars, pool, used, rebuildVars, loaded>>
  BY DEF poolVars, initVars
<1>3. Grid(at, lo, hi, who, from, cnt)'
  BY <1>1, <1>2, GridQuiet
<1>4. Gridded'
  BY <1>3 DEF Gridded
<1>5. Types'
  BY DEF Types, gridVars, poolVars, initVars, rebuildVars
<1> QED
  BY <1>4, <1>5

\* There are finitely many cells, threads, particles and slots.
LEMMA FiniteSlots ==
    /\ IsFiniteSet(Cells) /\ IsFiniteSet(Threads) /\ IsFiniteSet(Particles) /\ IsFiniteSet(Slots)
<1>1. nx * ny * nz - 1 \in Int /\ XDIVS * ZDIVS - 1 \in Int /\ ParticlesPerCell - 1 \in Int /\ numParticles \in Int
  <2>1. \A m, n \in Nat : m * n \in Nat
    OBVIOUS
  <2>2. nx * ny * nz \in Nat /\ XDIVS * ZDIVS \in Nat
    BY <2>1, Dimensions
  <2> QED
    BY <2>2, Sizes
<1> QED
  BY <1>1, FS_Interval DEF Cells, Threads, Particles, Slots

\* A function of finite domain has finitely many values.
LEMMA ImageFinite ==
    ASSUME NEW S, IsFiniteSet(S), NEW f, DOMAIN f = S
    PROVE  IsFiniteSet({f[x] : x \in S})
<1> DEFINE T == {f[x] : x \in S}
           g == [x \in S |-> f[x]]
<1>1. g \in [S -> T] /\ \A y \in T : \E x \in S : g[x] = y
  OBVIOUS
<1>2. g \in Surjection(S, T)
  <2> HIDE DEF g, T
  <2> QED BY <1>1, Fun_IsSurj
<1> HIDE DEF g, T
<1>3. IsFiniteSet(T)
  BY <1>2, FS_Surjection
<1> QED
  BY <1>3 DEF T

\* A cell has finitely many places and pairs.
LEMMA FinitePairs ==
    ASSUME Types
    PROVE  /\ \A c \in Cells : IsFiniteSet(Places(c)) /\ IsFiniteSet(Pairs(c))
           /\ \A c \in Cells : cnumPars[cells][c] \in Int
<1>1. \A c \in Cells : cnumPars[cells][c] \in Int
  BY Sizes DEF Types
<1>2. ASSUME NEW c \in Cells PROVE IsFiniteSet(Places(c))
  <2> DEFINE S == 0 .. cnumPars[cells][c] - 1
             f == [i \in S |-> Place(cells, c, i)]
  <2>1. IsFiniteSet(S)
    <3>1. cnumPars[cells][c] - 1 \in Int /\ 0 \in Int
      BY <1>1
    <3> QED BY <3>1, FS_Interval
  <2>2. DOMAIN f = S /\ Places(c) = {f[x] : x \in S}
    BY DEF Places
  <2> HIDE DEF S, f
  <2> QED
    BY <2>1, <2>2, ImageFinite
<1>3. ASSUME NEW c \in Cells PROVE IsFiniteSet(Pairs(c))
  <2> DEFINE F == {Places(d) : d \in NeighCells(c)}
             f == [d \in NeighCells(c) |-> Places(d)]
  <2>1. NeighCells(c) \in SUBSET Cells
    BY DEF NeighCells, Neighbours
  <2>2. IsFiniteSet(NeighCells(c))
    BY <2>1, FiniteSlots, FS_Subset
  <2>3. IsFiniteSet(F)
    <3>1. DOMAIN f = NeighCells(c) /\ F = {f[x] : x \in NeighCells(c)}
      OBVIOUS
    <3> HIDE DEF f, F
    <3> QED BY <2>2, <3>1, ImageFinite
  <2>4. \A T \in F : IsFiniteSet(T)
    BY <1>2, <2>1
  <2> HIDE DEF F
  <2>5. IsFiniteSet(UNION F)
    BY <2>3, <2>4, FS_UNION
  <2>6. IsFiniteSet(Places(c) \X UNION F)
    BY <1>2, <2>5, FS_Product
  <2>7. Pairs(c) \in SUBSET (Places(c) \X UNION F)
    BY DEF Pairs, F
  <2> QED
    BY <2>6, <2>7, FS_Subset
<1> QED
  BY <1>1, <1>2, <1>3

PairsOf(c, p) == {m \in Pairs(c) : p \in {Held(m[1]), Held(m[2])}}

\* The sums of a particle are numbers, and grow by its pairs.
LEMMA SumsAreNumbers ==
    ASSUME Types, NEW f \in [Particles -> Nat], NEW c \in Cells
    PROVE  /\ Zeroed(f, c) \in [Particles -> Nat]
           /\ Summed(f, c) \in [Particles -> Nat]
           /\ \A p \in Particles : /\ Summed(f, c)[p] = f[p] + Cardinality(PairsOf(c, p))
                                   /\ IsFiniteSet(PairsOf(c, p)) /\ Cardinality(PairsOf(c, p)) \in Nat
<1>1. ASSUME NEW p \in Particles
      PROVE  IsFiniteSet(PairsOf(c, p)) /\ Cardinality(PairsOf(c, p)) \in Nat
  <2>1. PairsOf(c, p) \in SUBSET Pairs(c)
    BY DEF PairsOf
  <2> QED
    BY <2>1, FinitePairs, FS_Subset, FS_CardinalityType
<1>2. Summed(f, c) = [p \in Particles |-> f[p] + Cardinality(PairsOf(c, p))]
  BY DEF Summed, PairsOf
<1>3. \A p \in Particles : f[p] \in Nat /\ f[p] + Cardinality(PairsOf(c, p)) \in Nat
  BY <1>1
<1>4. Zeroed(f, c) \in [Particles -> Nat]
  BY <1>3 DEF Zeroed
<1> QED
  BY <1>1, <1>2, <1>3, <1>4

\* The particles of a cell that is in use, when no place of it is reserved.
LEMMA MembersOf ==
    ASSUME Types, NEW at, NEW lo, NEW hi, NEW who, NEW from, NEW cnt,
           Grid(at, lo, hi, who, from, cnt), NEW c \in Cells, Stage(c) >= 2
    PROVE  /\ cnt[<<cells, c>>] = cnumPars[cells][c] /\ cnt[<<cells, c>>] \in Nat
           /\ \A i \in Nat : i < cnt[<<cells, c>>] =>
                /\ Behind(<<cells, c>>, i \div ParticlesPerCell) = at[<<cells, c>>][i \div ParticlesPerCell]
                /\ Place(cells, c, i) = PlaceOf(at, <<cells, c>>, i)
                /\ Placed(lo, hi, <<cells, c>>, i) /\ Holds(from, cnt, <<cells, c>>, i)
                /\ who[<<cells, c>>][i] \in Particles
           /\ Places(c) = {PlaceOf(at, <<cells, c>>, i) : i \in {k \in Nat : k < cnt[<<cells, c>>]}}
<1> DEFINE h == <<cells, c>>
<1>1. h \in Heads
  BY HeadsOf DEF Types
<1>2. lo[h] = 1 /\ hi[h] = Last(cnt[h]) /\ nextp[h] = First(at, lo, hi, h) /\ cnt[h] = cnumPars[cells][c] /\ cnt[h] \in Nat
  BY <1>1 DEF Grid, CellsOk, LiveCell, Contents, Counts
<1>3. ASSUME NEW i \in Nat, i < cnt[h]
      PROVE  /\ Behind(<<cells, c>>, i \div ParticlesPerCell) = at[<<cells, c>>][i \div ParticlesPerCell]
             /\ Place(cells, c, i) = PlaceOf(at, <<cells, c>>, i)
             /\ Placed(lo, hi, h, i) /\ Holds(from, cnt, h, i) /\ who[h][i] \in Particles
  <2>1. i \div ParticlesPerCell \in Nat /\ i \div ParticlesPerCell <= hi[h]
    BY <1>2, <1>3, LastOf, SlotOf
  <2>2. Behind(h, i \div ParticlesPerCell) = at[h][i \div ParticlesPerCell]
    BY <1>1, <1>2, <2>1, BehindIs DEF Grid
  <2>3. Placed(lo, hi, h, i) /\ Holds(from, cnt, h, i)
    BY <1>3, LivePlaced DEF Grid, Types
  <2>4. who[h][i] \in 1 .. loaded
    BY <1>1, <2>3 DEF Grid, Contents
  <2>5. 1 .. loaded \subseteq Particles
    BY Sizes DEF Types, Particles
  <2> QED
    BY <2>2, <2>3, <2>4, <2>5 DEF Place, PlaceOf
<1>4. Places(c) = {PlaceOf(at, h, i) : i \in {k \in Nat : k < cnt[h]}}
  <2>1. Places(c) = {Place(cells, c, i) : i \in 0 .. cnt[h] - 1}
    BY <1>2 DEF Places
  <2>2. \A i : i \in 0 .. cnt[h] - 1 <=> i \in Nat /\ i < cnt[h]
    BY <1>2
  <2> HIDE DEF h
  <2>3. \A i \in Nat : i < cnt[h] => Place(cells, c, i) = PlaceOf(at, h, i)
    BY <1>3 DEF h
  <2> QED
    BY <2>1, <2>2, <2>3
<1> QED
  BY <1>2, <1>3, <1>4

\* Threads at work are in the same phase.
LEMMA SamePhase ==
    ASSUME RoundInv, NEW t \in Threads, NEW u \in Threads, NEW c, NEW d, NEW phase, NEW phase2,
           At(t, c, phase), At(u, d, phase2)
    PROVE  left[t] = left[u] /\ phase = phase2
<1>1. left[t] \in Nat /\ left[u] \in Nat /\ entered[t] = left[t] /\ entered[u] = left[u]
  BY AtOwn
<1>2. left[t] <= entered[u] /\ left[u] <= entered[t]
  BY DEF RoundInv
<1>3. left[t] = left[u]
  BY <1>1, <1>2
<1> QED
  BY <1>3 DEF At, Phase

\* Outside RebuildGridMT no place is reserved.
LEMMA NoneReserved ==
    ASSUME RoundInv, NEW at, NEW hi, RebuildOk(at, hi), NEW t \in Threads, NEW c, NEW phase,
           At(t, c, phase), phase # "rebuild"
    PROVE  \A u \in Threads : j[u] = 0 /\ dest[u] = NULL /\ cell2[u] = NULL
<1> SUFFICES ASSUME NEW u \in Threads, j[u] # 0 \/ dest[u] # NULL PROVE FALSE
  BY DEF RebuildOk
<1>1. At(u, Min(todo[u]), "rebuild")
  BY DEF RebuildOk
<1> QED
  BY <1>1, SamePhase

\* The particles of the cell, when no place of it is reserved.
LEMMA MembersHeld ==
    ASSUME Types, NEW at, NEW lo, NEW hi, NEW who, NEW from, NEW cnt,
           Grid(at, lo, hi, who, from, cnt), NEW c \in Cells, Stage(c) >= 2,
           \A u \in Threads : dest[u] = NULL
    PROVE  /\ \A i \in Nat : i < cnt[<<cells, c>>] => Held(PlaceOf(at, <<cells, c>>, i)) = who[<<cells, c>>][i]
           /\ Members(c) = {who[<<cells, c>>][i] : i \in {k \in Nat : k < cnt[<<cells, c>>]}}
           /\ Members(c) \subseteq Particles
<1> DEFINE h == <<cells, c>>
<1>1. ASSUME NEW i \in Nat, i < cnt[h] PROVE Held(PlaceOf(at, h, i)) = who[h][i]
  <2>1. PlaceOf(at, h, i) # NULL
    <3>1. Placed(lo, hi, h, i) /\ h \in Heads /\ used \in Nat /\ used <= MaxBlocks
      BY <1>1, MembersOf, HeadsOf DEF Types
    <3> HIDE DEF h
    <3> QED BY <3>1, PlacesDiffer DEF Grid
  <2> QED
    BY <1>1, <2>1 DEF Grid, StoredOk
<1>2. Places(c) = {PlaceOf(at, h, i) : i \in {k \in Nat : k < cnt[h]}}
  BY MembersOf
<1>3. \A i \in {k \in Nat : k < cnt[h]} : who[h][i] \in Particles
  BY MembersOf
<1> HIDE DEF h
<1>4. Members(c) = {Held(PlaceOf(at, h, i)) : i \in {k \in Nat : k < cnt[h]}}
  BY <1>2 DEF Members
<1>5. Members(c) = {who[h][i] : i \in {k \in Nat : k < cnt[h]}}
  BY <1>1, <1>4
<1> QED
  BY <1>1, <1>3, <1>5 DEF h

\* AdvanceParticlesMT moves the particles of its cell to neighbours, if none
\* travels further.
LEMMA AdvancePositions ==
    ASSUME RoundInv, Types, NEW at, NEW lo, NEW hi, NEW who, NEW from, NEW cnt,
           Grid(at, lo, hi, who, from, cnt), NEW t \in Threads, NEW c, Advance(t, c), ~wide'
    PROVE  pos' \in [Particles -> Cells] /\ PositionsOk(who, from, cnt)'
<1>1. PICK to \in [Members(c) -> Neighbours(c)] :
         pos' = [p \in Particles |-> IF p \in Members(c) THEN to[p] ELSE pos[p]]
  <2>1. PICK to \in [Members(c) -> Cells] :
           /\ pos' = [p \in Particles |-> IF p \in Members(c) THEN to[p] ELSE pos[p]]
           /\ wide' = (wide \/ \E p \in Members(c) : to[p] \notin Neighbours(c))
    BY DEF Advance
  <2>2. \A p \in Members(c) : to[p] \in Neighbours(c)
    BY <2>1
  <2>3. to \in [Members(c) -> Neighbours(c)]
    BY <2>1, <2>2
  <2> QED
    BY <2>1, <2>3
<1>2. At(t, c, "advance") /\ Visited(t, c) /\ UNCHANGED barrierVars /\ cells' = cells
  BY DEF Advance
<1>3. c \in Cells /\ left[t] \in Nat /\ PhaseAfter(left[t]) = "advance"
  BY <1>2, AtOwn
<1>4. left[t] % 10 = 8
  BY <1>3, PhaseNumbers
<1>5. Stage(c) = 8 /\ Stage(c)' = 9 /\ \A d \in Cells \ {c} : Stage(d)' = Stage(d)
  BY <1>2, <1>4, StageAt, StageAfter
<1>6. \A u \in Threads : dest[u] = NULL
  BY <1>2, NoneReserved DEF Grid
<1> DEFINE h == <<cells, c>>
<1>7. h \in Heads /\ from[h] = 0
  <2>1. Stage(c) >= 2
    BY <1>5
  <2>2. LiveCell(c, at, lo, hi, from, cnt)
    BY <1>3, <2>1 DEF Grid, CellsOk
  <2> QED
    BY <1>3, <2>2, HeadsOf DEF Types, LiveCell
<1>8. Members(c) = {who[h][i] : i \in {k \in Nat : k < cnt[h]}} /\ Members(c) \subseteq Particles
  BY <1>3, <1>5, <1>6, MembersHeld
<1>9. Neighbours(c) \subseteq Cells
  BY <1>3, NeighboursMutual
<1>10. pos' \in [Particles -> Cells]
  BY <1>1, <1>8, <1>9 DEF Types
<1> HIDE DEF h
<1>11. \A i \in Nat : Holds(from, cnt, h, i) => who[h][i] \in Members(c)
  BY <1>8 DEF Holds
<1>12. \A g \in Heads, i \in Nat : Holds(from, cnt, g, i) /\ g # h => who[g][i] \notin Members(c) /\ who[g][i] \in Particles
  <2> SUFFICES ASSUME NEW g \in Heads, NEW i \in Nat, Holds(from, cnt, g, i), g # h
               PROVE  who[g][i] \notin Members(c) /\ who[g][i] \in Particles
    OBVIOUS
  <2>1. who[g][i] \in 1 .. loaded /\ 1 .. loaded \subseteq Particles
    BY Sizes DEF Grid, Contents, Types, Particles
  <2>2. ASSUME NEW k \in Nat, k < cnt[h] PROVE who[h][k] # who[g][i]
    <3>1. Holds(from, cnt, h, k)
      BY <1>7, <2>2 DEF Holds
    <3> QED
      BY <1>7, <3>1 DEF Grid, Contents
  <2> QED
    BY <1>8, <2>1, <2>2
<1>13. ASSUME NEW d \in Cells, NEW i \in Nat, Holds(from, cnt, <<cells, d>>, i)
       PROVE  /\ pos'[who[<<cells, d>>][i]] \in Neighbours(d)
              /\ Stage(d)' <= 8 => pos'[who[<<cells, d>>][i]] = d
  <2>1. CASE d = c
    <3>1. who[h][i] \in Members(c)
      BY <1>11, <1>13, <2>1 DEF h
    <3> QED
      BY <1>1, <1>5, <1>8, <2>1, <3>1 DEF h
  <2>2. CASE d # c
    <3>1. <<cells, d>> \in Heads /\ <<cells, d>> # h
      BY <2>2, HeadsOf DEF h, Types
    <3>2. who[<<cells, d>>][i] \notin Members(c) /\ who[<<cells, d>>][i] \in Particles
      BY <1>12, <1>13, <3>1
    <3>3. pos'[who[<<cells, d>>][i]] = pos[who[<<cells, d>>][i]]
      BY <1>1, <3>2
    <3> QED
      BY <1>5, <1>13, <2>2, <3>3 DEF Grid, PositionsOk
  <2> QED
    BY <2>1, <2>2
<1>14. ASSUME NEW d \in Cells, NEW i \in Nat, Holds(from, cnt, <<1 - cells, d>>, i)
       PROVE  pos'[who[<<1 - cells, d>>][i]] \in Neighbours(d)
  <2>1. <<1 - cells, d>> \in Heads /\ <<1 - cells, d>> # h
    BY <1>3, HeadsOf DEF h, Types
  <2>2. who[<<1 - cells, d>>][i] \notin Members(c) /\ who[<<1 - cells, d>>][i] \in Particles
    BY <1>12, <1>14, <2>1
  <2>3. pos'[who[<<1 - cells, d>>][i]] = pos[who[<<1 - cells, d>>][i]]
    BY <1>1, <2>2
  <2> QED
    BY <1>14, <2>3 DEF Grid, PositionsOk
<1>15. PositionsOk(who, from, cnt)'
  BY <1>2, <1>13, <1>14 DEF PositionsOk
<1> QED
  BY <1>10, <1>15

\* The phases after RebuildGridMT.
LEMMA LaterSteps ==
    ASSUME RoundInv, Types, Gridded, NEW t \in Threads, NEW c,
           \/ InitDensitiesAndForces(t, c) \/ ComputeDensities(t, c) \/ ComputeDensities2(t, c)
           \/ ComputeForces(t, c) \/ ProcessCollisions(t, c) \/ Advance(t, c) \/ ProcessCollisions2(t, c),
           ~wide'
    PROVE  Types' /\ Gridded'
<1>1. PICK at, lo, hi, who, from, cnt : Grid(at, lo, hi, who, from, cnt)
  BY DEF Gridded
<1>2. PICK phase \in LaterPhases : At(t, c, phase)
  BY DEF InitDensitiesAndForces, ComputeDensities, ComputeDensities2, ComputeForces, ProcessCollisions,
         Advance, ProcessCollisions2, Adjust, LaterPhases
<1>3. Visited(t, c) /\ UNCHANGED <<barrierVars, cells, gridVars, poolVars, initVars, rebuildVars>>
  BY DEF InitDensitiesAndForces, ComputeDensities, ComputeDensities2, ComputeForces, ProcessCollisions,
         Advance, ProcessCollisions2, Adjust
<1>4. c \in Cells
  BY <1>2, AtOwn
<1>5. /\ pos \in [Particles -> Cells] /\ density \in [Particles -> Nat] /\ force \in [Particles -> Nat]
  BY DEF Types
<1>6. density' \in [Particles -> Nat] /\ force' \in [Particles -> Nat]
  <2>1. CASE InitDensitiesAndForces(t, c)
    BY <1>4, <1>5, <2>1, SumsAreNumbers DEF InitDensitiesAndForces
  <2>2. CASE ComputeDensities(t, c)
    BY <1>4, <1>5, <2>2, SumsAreNumbers DEF ComputeDensities
  <2>3. CASE ComputeForces(t, c)
    BY <1>4, <1>5, <2>3, SumsAreNumbers DEF ComputeForces
  <2>4. CASE ComputeDensities2(t, c) \/ ProcessCollisions(t, c) \/ ProcessCollisions2(t, c)
    BY <1>5, <2>4 DEF ComputeDensities2, ProcessCollisions, ProcessCollisions2, Adjust, particleVars
  <2>5. CASE Advance(t, c)
    BY <1>5, <2>5 DEF Advance
  <2> QED
    BY <2>1, <2>2, <2>3, <2>4, <2>5
<1>7. pos' \in [Particles -> Cells] /\ (pos' = pos \/ PositionsOk(who, from, cnt)')
  <2>1. CASE Advance(t, c)
    BY <1>1, <2>1, AdvancePositions
  <2>2. CASE ~Advance(t, c)
    BY <1>5, <2>2 DEF InitDensitiesAndForces, ComputeDensities, ComputeDensities2, ComputeForces,
                      ProcessCollisions, ProcessCollisions2, Adjust, particleVars
  <2> QED
    BY <2>1, <2>2
<1> QED
  BY <1>1, <1>2, <1>3, <1>6, <1>7, LaterGrid

-----------------------------------------------------------------------------
(* Swap and ClearParticlesMT *)

\* The swap makes the cells of the last frame the source of the next.
LEMMA SwapGrid ==
    ASSUME RoundInv, Types, Gridded, Swap
    PROVE  Types' /\ Gridded'
<1>1. PICK at, lo, hi, who, from, cnt : Grid(at, lo, hi, who, from, cnt)
  BY DEF Gridded
<1>2. /\ At(0, 0, "swap") /\ cells' = 1 - cells /\ Visited(0, 0) /\ UNCHANGED barrierVars
      /\ cnumPars' = cnumPars /\ nextp' = nextp /\ slot' = slot /\ last_cells' = last_cells
      /\ pool' = pool /\ used' = used /\ alloc' = alloc /\ loaded' = loaded /\ pool_id' = pool_id
      /\ pos' = pos /\ density' = density /\ force' = force
      /\ j' = j /\ cell2' = cell2 /\ dest' = dest
  BY DEF Swap, gridVars, poolVars, initVars, particleVars, rebuildVars
<1>3. 0 \in Threads /\ 0 \in Cells
  BY Dimensions
<1>4. \A u \in Threads : j[u] = 0 /\ dest[u] = NULL /\ cell2[u] = NULL
  <2>1. RebuildOk(at, hi)
    BY <1>1 DEF Grid
  <2> QED BY <1>2, <1>3, <2>1, NoneReserved
<1>5. /\ \A c \in Cells : Stage(c) \in {10, 11}
      /\ Stage(0)' = 1 /\ \A c \in Cells \ {0} : Stage(c)' = Stage(c) - 10
  BY <1>2, StageSwap
<1>6. \A c \in Cells : Stage(c) >= 2 /\ Stage(c) >= 3 /\ Stage(c)' \in {0, 1}
  <2> SUFFICES ASSUME NEW c \in Cells PROVE Stage(c) >= 2 /\ Stage(c) >= 3 /\ Stage(c)' \in {0, 1}
    OBVIOUS
  <2>1. Stage(c) = 10 \/ Stage(c) = 11
    BY <1>5
  <2>2. CASE c = 0
    BY <1>5, <2>1, <2>2
  <2>3. CASE c # 0
    BY <1>5, <2>1, <2>3
  <2> QED
    BY <2>2, <2>3
<1>7. cells \in {0, 1} /\ cells' \in {0, 1} /\ 1 - cells' = cells
  <2>1. cells \in {0, 1}
    BY DEF Types
  <2> QED
    BY <1>2, <2>1
<1>8. \A c \in Cells : Gone(c)' = 0 /\ Moved(c)' = 0
  BY <1>2, <1>4, OneOwner DEF Gone, Moved
<1>9. \A c \in Cells : LiveCell(c, at, lo, hi, from, cnt) /\ EmptyCell(from, cnt, lo, hi, <<1 - cells, c>>)
  BY <1>1, <1>6 DEF Grid, CellsOk
<1>10. CellsOk(at, lo, hi, from, cnt)'
  <2> SUFFICES ASSUME NEW c \in Cells
               PROVE  /\ Stage(c)' >= 2 => LiveCell(c, at, lo, hi, from, cnt)'
                      /\ Stage(c)' <= 1 => EmptyCell(from, cnt, lo, hi, <<cells, c>>)'
                      /\ Stage(c)' <= 2 => SourceCell(c, at, lo, hi, from, cnt)'
                      /\ Stage(c)' >= 3 => EmptyCell(from, cnt, lo, hi, <<1 - cells, c>>)'
    BY DEF CellsOk
  <2>0. ~(Stage(c)' >= 2) /\ ~(Stage(c)' >= 3)
    BY <1>6
  <2>1. EmptyCell(from, cnt, lo, hi, <<cells, c>>)'
    BY <1>2, <1>9 DEF EmptyCell
  <2>2. 0 < ParticlesPerCell
    BY Sizes
  <2>3. SourceCell(c, at, lo, hi, from, cnt)'
    BY <1>2, <1>7, <1>8, <1>9, <2>2 DEF SourceCell, LiveCell
  <2> QED
    BY <2>0, <2>1, <2>3
<1>11. TailsOk(at, hi)' /\ StoredOk(at, who, cnt)'
  BY <1>6 DEF TailsOk, StoredOk
<1>12. SourcesOk(at, who, cnt)'
  <2> SUFFICES ASSUME NEW c \in Cells, NEW i \in Nat, (i < cnt[<<1 - cells, c>>])'
               PROVE  (Held(PlaceOf(at, <<1 - cells, c>>, i)) = who[<<1 - cells, c>>][i])'
    BY DEF SourcesOk
  <2>0. i < cnt[<<cells, c>>]
    BY <1>7
  <2>1. Held(PlaceOf(at, <<cells, c>>, i)) = who[<<cells, c>>][i]
    BY <1>1, <1>4, <1>6, <2>0, MembersHeld
  <2> QED
    BY <1>2, <1>7, <2>1 DEF Held
<1>13. ReservedOk(at, who, cnt)' /\ RebuildOk(at, hi)'
  BY <1>2, <1>4 DEF ReservedOk, RebuildOk
<1>14. PositionsOk(who, from, cnt)'
  <2> SUFFICES ASSUME NEW c \in Cells, NEW i \in Nat
               PROVE  /\ ~Holds(from, cnt, <<cells', c>>, i)
                      /\ Holds(from, cnt, <<cells, c>>, i) => pos[who[<<cells, c>>][i]] \in Neighbours(c)
    BY <1>2, <1>7 DEF PositionsOk
  <2>1. Holds(from, cnt, <<cells, c>>, i) => pos[who[<<cells, c>>][i]] \in Neighbours(c)
    BY <1>1 DEF Grid, PositionsOk
  <2>2. <<cells', c>> \in Heads /\ from[<<cells', c>>] = cnt[<<cells', c>>]
    BY <1>2, <1>7, <1>9, HeadsOf DEF EmptyCell
  <2>3. ~Holds(from, cnt, <<cells', c>>, i)
    <3> DEFINE x == <<cells', c>>
    <3>1. from[x] \in Nat /\ from[x] = cnt[x]
      BY <1>1, <2>2 DEF Grid, Contents, Counts
    <3> HIDE DEF x
    <3>2. ~Holds(from, cnt, x, i)
      BY <3>1 DEF Holds
    <3> QED
      BY <3>2 DEF x
  <2> QED
    BY <2>1, <2>3
<1>15. Lists(nextp, pool, used, at, lo, hi)' /\ HeadsFirst(at)' /\ Contents(who, from, cnt, loaded)'
  BY <1>1, <1>2 DEF Grid, HeadsFirst
<1>16. Grid(at, lo, hi, who, from, cnt)'
  BY <1>10, <1>11, <1>12, <1>13, <1>14, <1>15 DEF Grid
<1>17. Types'
  BY <1>2, <1>7 DEF Types
<1> QED
  BY <1>16, <1>17 DEF Gridded

\* ClearParticlesMT empties a cell, whose particles are all in the other array.
LEMMA ClearGrid ==
    ASSUME RoundInv, Types, Gridded, NEW t \in Threads, NEW c, Clear(t, c)
    PROVE  Types' /\ Gridded'
<1>1. PICK at, lo, hi, who, from, cnt : Grid(at, lo, hi, who, from, cnt)
  BY DEF Gridded
<1>a. PICK h : h = <<cells, c>>
  OBVIOUS
<1>b. PICK lo2, hi2, from2, cnt2 :
         /\ lo2 = [lo EXCEPT ![h] = 1] /\ hi2 = [hi EXCEPT ![h] = 0]
         /\ from2 = [from EXCEPT ![h] = 0] /\ cnt2 = [cnt EXCEPT ![h] = 0]
  OBVIOUS
<1>0. /\ At(t, c, "clear") /\ Visited(t, c) /\ UNCHANGED barrierVars
      /\ cnumPars' = [cnumPars EXCEPT ![cells][c] = 0]
      /\ nextp' = [nextp EXCEPT ![h] = NULL] /\ last_cells' = [last_cells EXCEPT ![c] = h]
  BY <1>a DEF Clear, CountCleared, HeadsCleared
<1>2. /\ cells' = cells /\ slot' = slot
      /\ pool' = pool /\ used' = used /\ alloc' = alloc /\ loaded' = loaded /\ pool_id' = pool_id
      /\ pos' = pos /\ density' = density /\ force' = force
      /\ j' = j /\ cell2' = cell2 /\ dest' = dest
  BY DEF Clear, poolVars, initVars, particleVars, rebuildVars
<1>3. c \in Cells /\ left[t] \in Nat /\ PhaseAfter(left[t]) = "clear"
  BY <1>0, AtOwn
<1>4. left[t] % 10 = 1
  BY <1>3, PhaseNumbers
<1>5. /\ Stage(c) = 1 /\ Stage(c)' = 2 /\ \A d \in Cells \ {c} : Stage(d)' = Stage(d)
      /\ \A d \in Cells : Stage(d) \in {1, 2}
  BY <1>0, <1>4, StageAt, StageAfter
<1>6. \A u \in Threads : j[u] = 0 /\ dest[u] = NULL /\ cell2[u] = NULL
  <2>1. RebuildOk(at, hi)
    BY <1>1 DEF Grid
  <2> QED BY <1>0, <2>1, NoneReserved
<1>7. h \in Heads /\ cells \in {0, 1} /\ (\A d \in Cells : <<1 - cells, d>> # h) /\ (\A d \in Cells : d # c => <<cells, d>> # h)
      /\ \A d \in Cells : <<cells, d>> \in Heads /\ <<1 - cells, d>> \in Heads
  BY <1>3, <1>a, HeadsOf DEF Types
<1>8. \A d \in Cells : Gone(d)' = 0 /\ Moved(d)' = 0 /\ Gone(d) = 0 /\ Moved(d) = 0
  BY <1>2, <1>6, OneOwner DEF Gone, Moved
<1>9. from[h] = cnt[h] /\ lo[h] = hi[h] + 1
  <2>1. Stage(c) <= 1
    BY <1>5
  <2>2. EmptyCell(from, cnt, lo, hi, h)
    BY <1>1, <1>3, <1>a, <2>1 DEF Grid, CellsOk
  <2> QED
    BY <2>2 DEF EmptyCell
<1>10. /\ lo \in [Owners -> Int] /\ hi \in [Owners -> Int] /\ h \in Owners
       /\ from \in [Heads -> Nat] /\ cnt \in [Heads -> Nat] /\ Heads \subseteq Owners
  BY <1>1, <1>7, OwnerKinds DEF Grid, Lists, Numbered, Contents, Counts
<1>11. /\ lo2[h] = 1 /\ hi2[h] = 0 /\ from2[h] = 0 /\ cnt2[h] = 0
       /\ \A g \in Heads : g # h => lo2[g] = lo[g] /\ hi2[g] = hi[g] /\ from2[g] = from[g] /\ cnt2[g] = cnt[g]
  <2> QED BY <1>7, <1>10, <1>b
<1>12. Contents(who, from2, cnt2, loaded)
  <2> QED BY <1>1, <1>7, <1>9, <1>b, ContentsReset DEF Grid
<1>13. Lists(nextp, pool, used, at, lo2, hi2)
  <2> QED BY <1>1, <1>7, <1>9, <1>b, ListsRenumber DEF Grid
<1>14. nextp'[h] = NULL /\ \A n \in Nodes : n # h => nextp'[n] = nextp[n]
  BY <1>0, <1>7, OwnerKinds DEF Types
<1>15. Lists(nextp', pool, used, at, lo2, hi2)
  <2>1. \A n \in Blocks : nextp'[n] = nextp[n]
    BY <1>7, <1>14, OwnerKinds
  <2>2. used \in Nat /\ used <= MaxBlocks
    BY DEF Types
  <2> QED
    BY <1>13, <2>1, <2>2, ListsOfBlocks
<1>16. cnumPars'[cells][c] = 0 /\ \A a \in {0, 1}, d \in Cells : ~(a = cells /\ d = c) => cnumPars'[a][d] = cnumPars[a][d]
  BY <1>0, <1>3, <1>7 DEF Types
<1>17. \A d \in Cells : /\ First(at, lo2, hi2, <<1 - cells, d>>) = First(at, lo, hi, <<1 - cells, d>>)
                        /\ d # c => First(at, lo2, hi2, <<cells, d>>) = First(at, lo, hi, <<cells, d>>)
  BY <1>7, <1>11 DEF First
<1>18. CellsOk(at, lo2, hi2, from2, cnt2)'
  <2> SUFFICES ASSUME NEW d \in Cells
               PROVE  /\ Stage(d)' >= 2 => LiveCell(d, at, lo2, hi2, from2, cnt2)'
                      /\ Stage(d)' <= 1 => EmptyCell(from2, cnt2, lo2, hi2, <<cells, d>>)'
                      /\ Stage(d)' <= 2 => SourceCell(d, at, lo2, hi2, from2, cnt2)'
                      /\ Stage(d)' >= 3 => EmptyCell(from2, cnt2, lo2, hi2, <<1 - cells, d>>)'
    BY DEF CellsOk
  <2>1. Stage(d) <= 2 /\ ~(Stage(d)' >= 3) /\ (d = c => ~(Stage(d)' <= 1)) /\ (d # c => Stage(d)' = Stage(d))
    <3>1. Stage(d) = 1 \/ Stage(d) = 2
      BY <1>5
    <3> QED
      BY <1>5, <3>1
  <2>2. SourceCell(d, at, lo2, hi2, from2, cnt2)'
    <3>1. SourceCell(d, at, lo, hi, from, cnt)
      BY <1>1, <2>1 DEF Grid, CellsOk
    <3>2. nextp'[<<1 - cells, d>>] = nextp[<<1 - cells, d>>] /\ cnumPars'[1 - cells][d] = cnumPars[1 - cells][d]
      BY <1>7, <1>14, <1>16, OwnerKinds, HeadsOf
    <3>3. /\ lo2[<<1 - cells, d>>] = lo[<<1 - cells, d>>] /\ hi2[<<1 - cells, d>>] = hi[<<1 - cells, d>>]
          /\ from2[<<1 - cells, d>>] = from[<<1 - cells, d>>] /\ cnt2[<<1 - cells, d>>] = cnt[<<1 - cells, d>>]
      BY <1>7, <1>11
    <3> QED
      BY <1>2, <1>8, <1>17, <3>1, <3>2, <3>3 DEF SourceCell
  <2>3. CASE d = c
    <3>1. First(at, lo2, hi2, h) = NULL /\ Last(0) = 0
      BY <1>11 DEF First, Last
    <3>2. LiveCell(c, at, lo2, hi2, from2, cnt2)'
      BY <1>2, <1>a, <1>11, <1>14, <1>16, <3>1 DEF LiveCell
    <3> QED
      BY <2>1, <2>2, <2>3, <3>2
  <2>4. CASE d # c
    <3>1. /\ Stage(d) >= 2 => LiveCell(d, at, lo, hi, from, cnt)
          /\ Stage(d) <= 1 => EmptyCell(from, cnt, lo, hi, <<cells, d>>)
      BY <1>1 DEF Grid, CellsOk
    <3>2. nextp'[<<cells, d>>] = nextp[<<cells, d>>] /\ cnumPars'[cells][d] = cnumPars[cells][d]
      BY <1>7, <1>14, <1>16, <2>4, OwnerKinds
    <3>3. /\ lo2[<<cells, d>>] = lo[<<cells, d>>] /\ hi2[<<cells, d>>] = hi[<<cells, d>>]
          /\ from2[<<cells, d>>] = from[<<cells, d>>] /\ cnt2[<<cells, d>>] = cnt[<<cells, d>>]
      BY <1>7, <1>11, <2>4
    <3>4. LiveCell(d, at, lo, hi, from, cnt) => LiveCell(d, at, lo2, hi2, from2, cnt2)'
      BY <1>2, <1>17, <2>4, <3>2, <3>3 DEF LiveCell
    <3>5. EmptyCell(from, cnt, lo, hi, <<cells, d>>) => EmptyCell(from2, cnt2, lo2, hi2, <<cells, d>>)'
      BY <1>2, <3>3 DEF EmptyCell
    <3> QED
      BY <2>1, <2>2, <2>4, <3>1, <3>4, <3>5
  <2> QED
    BY <2>3, <2>4
<1>19. TailsOk(at, hi2)'
  <2> SUFFICES ASSUME NEW d \in Cells, Stage(d)' \in {2, 3}
               PROVE  (last_cells[d] = at[<<cells, d>>][hi2[<<cells, d>>]])'
    BY DEF TailsOk
  <2>1. CASE d = c
    <3>1. last_cells'[c] = h
      BY <1>0, <1>3 DEF Types
    <3>2. at[h][hi2[h]] = h
      BY <1>1, <1>7, <1>11 DEF Grid, HeadsFirst
    <3> QED
      BY <1>2, <1>a, <2>1, <3>1, <3>2
  <2>2. CASE d # c
    <3>1. Stage(d) \in {2, 3} /\ last_cells'[d] = last_cells[d]
      BY <1>0, <1>5, <2>2 DEF Types
    <3>2. last_cells[d] = at[<<cells, d>>][hi[<<cells, d>>]]
      BY <1>1, <3>1 DEF Grid, TailsOk
    <3> QED
      BY <1>2, <1>7, <1>11, <2>2, <3>1, <3>2
  <2> QED
    BY <2>1, <2>2
<1>20. \A d \in Cells : cnt2[<<1 - cells, d>>] = cnt[<<1 - cells, d>>]
  BY <1>7, <1>11
<1>21. SourcesOk(at, who, cnt2)'
  <2> SUFFICES ASSUME NEW d \in Cells, NEW i \in Nat, (i < cnt2[<<1 - cells, d>>])'
               PROVE  (Held(PlaceOf(at, <<1 - cells, d>>, i)) = who[<<1 - cells, d>>][i])'
    BY DEF SourcesOk
  <2>1. Stage(d) <= 2 /\ Gone(d) <= i
    <3>1. Stage(d) = 1 \/ Stage(d) = 2
      BY <1>5
    <3> QED
      BY <1>8, <3>1
  <2> QED
    BY <1>1, <1>2, <1>20, <2>1 DEF Grid, SourcesOk, Held
<1>22. StoredOk(at, who, cnt2)'
  <2> SUFFICES ASSUME NEW d \in Cells, NEW i \in Nat, Stage(d)' >= 2, (i < cnt2[<<cells, d>>])'
               PROVE  (Held(PlaceOf(at, <<cells, d>>, i)) = who[<<cells, d>>][i])'
    BY DEF StoredOk
  <2>1. d # c
    BY <1>2, <1>a, <1>11
  <2>2. Stage(d) >= 2 /\ i < cnt[<<cells, d>>]
    BY <1>2, <1>5, <1>7, <1>11, <1>a, <2>1
  <2>3. Held(PlaceOf(at, <<cells, d>>, i)) = who[<<cells, d>>][i]
    BY <1>1, <1>6, <2>2, MembersHeld
  <2> QED
    BY <1>2, <2>3 DEF Held
<1>23. ReservedOk(at, who, cnt2)' /\ RebuildOk(at, hi2)'
  BY <1>2, <1>6 DEF ReservedOk, RebuildOk
<1>24. PositionsOk(who, from2, cnt2)'
  <2> SUFFICES ASSUME NEW d \in Cells, NEW i \in Nat
               PROVE  /\ Holds(from2, cnt2, <<cells, d>>, i) =>
                            /\ pos[who[<<cells, d>>][i]] \in Neighbours(d)
                            /\ Stage(d)' <= 8 => pos[who[<<cells, d>>][i]] = d
                      /\ Holds(from2, cnt2, <<1 - cells, d>>, i) => pos[who[<<1 - cells, d>>][i]] \in Neighbours(d)
    BY <1>2, <1>8 DEF PositionsOk
  <2>1. Holds(from2, cnt2, <<1 - cells, d>>, i) => Holds(from, cnt, <<1 - cells, d>>, i)
    BY <1>7, <1>11 DEF Holds
  <2>2. CASE d = c
    <3>1. ~Holds(from2, cnt2, <<cells, d>>, i)
      BY <1>11, <1>a, <2>2 DEF Holds
    <3> QED
      BY <1>1, <2>1, <3>1 DEF Grid, PositionsOk
  <2>3. CASE d # c
    <3>1. Holds(from2, cnt2, <<cells, d>>, i) => Holds(from, cnt, <<cells, d>>, i)
      BY <1>7, <1>11, <2>3 DEF Holds
    <3>2. Stage(d)' = Stage(d)
      BY <1>5, <2>3
    <3> QED
      BY <1>1, <2>1, <3>1, <3>2 DEF Grid, PositionsOk
  <2> QED
    BY <2>2, <2>3
<1>25. Grid(at, lo2, hi2, who, from2, cnt2)'
  BY <1>1, <1>2, <1>12, <1>15, <1>18, <1>19, <1>21, <1>22, <1>23, <1>24 DEF Grid, HeadsFirst
<1>26. Types'
  <2>1. 0 \in -1 .. numParticles /\ h \in Nodes
    BY <1>7, Sizes, OwnerKinds
  <2>2. cnumPars' \in [{0, 1} -> [Cells -> -1 .. numParticles]]
    BY <1>0, <1>3, <1>7, <2>1 DEF Types
  <2>3. nextp' \in [Nodes -> Nodes \cup {NULL}] /\ last_cells' \in [Cells -> Nodes \cup {NULL}]
    BY <1>0, <1>3, <2>1 DEF Types
  <2> QED
    BY <1>2, <2>2, <2>3 DEF Types
<1> QED
  BY <1>25, <1>26 DEF Gridded

-----------------------------------------------------------------------------
(* The initial state *)

\* At first nobody has reached a barrier.
LEMMA InitRounds == Init => RoundInv
<1> SUFFICES ASSUME Init PROVE RoundInv
  OBVIOUS
<1>1. \A t \in Threads : Work(t, 0) \in SUBSET Cells
  BY WorkIsOwn
<1>2. /\ entered = [t \in Threads |-> 0] /\ left = [t \in Threads |-> 0] /\ cells = 0 /\ loaded = 0
      /\ todo = [t \in Threads |-> Work(t, 0)]
  BY DEF Init
<1>3. 0 <= 10 * framenum /\ 0 \in 0 .. numParticles
  BY Sizes
<1>4. ASSUME NEW t \in Threads
      PROVE  /\ entered[t] \in {left[t], left[t] + 1} /\ entered[t] <= 10 * framenum
             /\ entered[t] = left[t]
             /\ todo[t] = Work(t, left[t])
  BY <1>2, <1>3
<1> QED
  BY <1>1, <1>2, <1>3, <1>4 DEF RoundInv

\* Pool t is given the run of structures from t * InitialAlloc.
LEMMA InitialRuns ==
    /\ XDIVS * ZDIVS * InitialAlloc \in Nat
    /\ \A t \in Threads : t * InitialAlloc \in Nat
    /\ \A t \in Threads, i \in Int :
          t * InitialAlloc <= i /\ i <= t * InitialAlloc + (InitialAlloc - 1) <=> i \in Nat /\ i \div InitialAlloc = t
    /\ \A i \in Nat : i < XDIVS * ZDIVS * InitialAlloc <=> i \div InitialAlloc \in Threads
    /\ \A t \in Threads, i \in Int : i \in Nat /\ i \div InitialAlloc = t =>
          ((i + 1) % InitialAlloc = 0 <=> i = t * InitialAlloc + (InitialAlloc - 1))
<1>1. PICK b \in Nat : b = InitialAlloc /\ b # 0
  BY Sizes
<1>2. PICK n \in Nat : n = XDIVS * ZDIVS
  BY Dimensions
<1>3. Threads = 0 .. n - 1
  BY <1>2 DEF Threads
<1>4. \A i \in Int : i \div b \in Int /\ i = b * (i \div b) + (i % b) /\ i % b \in 0 .. b - 1
  BY <1>1, DivMod
<1>5. \A t \in Int : t * b = b * t /\ b * t \in Int /\ b * (t + 1) = b * t + b
  BY <1>1
<1>6. \A t \in Nat : b * t \in Nat
  BY <1>1
<1>7. \A s, t \in Nat : s <= t => b * s <= b * t
  BY <1>1
<1>8. ASSUME NEW t \in Threads, NEW i \in Int
      PROVE  /\ b * t <= i /\ i <= b * t + (b - 1) => i \in Nat /\ i \div b = t
             /\ i \in Nat /\ i \div b = t => b * t <= i /\ i <= b * t + (b - 1)
  <2>1. t \in Nat /\ b * t \in Nat
    BY <1>3, <1>6
  <2>2. ASSUME b * t <= i, i <= b * t + (b - 1) PROVE i \in Nat /\ i \div b = t
    <3>1. PICK r \in 0 .. b - 1 : i = b * t + r
      <4>1. i - b * t \in 0 .. b - 1
        BY <1>1, <2>1, <2>2
      <4> QED
        BY <2>1, <4>1
    <3> QED
      BY <1>1, <2>1, <2>2, <3>1, Quotient
  <2>3. ASSUME i \in Nat, i \div b = t PROVE b * t <= i /\ i <= b * t + (b - 1)
    <3>1. i = b * t + (i % b) /\ i % b \in 0 .. b - 1
      BY <1>4, <2>3
    <3> QED
      BY <1>1, <2>1, <3>1
  <2> QED
    BY <2>2, <2>3
<1>9. ASSUME NEW i \in Nat
      PROVE  i < n * b <=> i \div b \in Threads
  <2>0. PICK q \in Nat : q = i \div b /\ b * q <= i /\ i < b * (q + 1)
    <3>1. i \div b \in Nat
      BY <1>1, DivMod
    <3>2. i = b * (i \div b) + (i % b) /\ i % b \in 0 .. b - 1
      BY <1>4
    <3>3. b * ((i \div b) + 1) = b * (i \div b) + b /\ b * (i \div b) \in Nat
      BY <1>5, <1>6, <3>1
    <3> QED
      BY <1>1, <3>1, <3>2, <3>3
  <2>1. ASSUME q <= n - 1 PROVE i < n * b
    <3>1. b * (q + 1) <= b * n
      BY <1>2, <1>7, <2>1
    <3> QED
      BY <1>1, <1>2, <1>5, <2>0, <3>1
  <2>2. ASSUME i < n * b PROVE q <= n - 1
    <3> SUFFICES ASSUME n <= q PROVE FALSE
      BY <1>2
    <3>1. b * n <= b * q
      BY <1>2, <1>7
    <3> QED
      BY <1>1, <1>2, <1>5, <2>0, <2>2, <3>1
  <2> QED
    BY <1>2, <1>3, <2>0, <2>1, <2>2
<1>10. ASSUME NEW t \in Threads, NEW i \in Nat, i \div b = t
       PROVE  (i + 1) % b = 0 <=> i = b * t + (b - 1)
  <2>0. t \in Nat /\ i = b * (i \div b) + (i % b) /\ i % b \in 0 .. b - 1 /\ b * t \in Nat
    BY <1>3, <1>4, <1>6
  <2>1. PICK m \in 0 .. b - 1 : i = b * t + m
    BY <1>10, <2>0
  <2> PICK e \in Nat : e = b * t
    BY <2>0
  <2>2. CASE m = b - 1
    <3>1. i + 1 = b * (t + 1) + 0 /\ t + 1 \in Int /\ i + 1 \in Int /\ 0 \in 0 .. b - 1
      BY <1>1, <1>5, <2>0, <2>1, <2>2
    <3>2. (i + 1) % b = 0
      BY <1>1, <3>1, Quotient
    <3> QED
      BY <2>1, <2>2, <3>2
  <2>3. CASE m # b - 1
    <3>1. PICK r \in 0 .. b - 1 : r = m + 1
      BY <1>1, <2>3
    <3>2. i + 1 = b * t + r /\ r # 0 /\ i + 1 \in Int
      <4>1. i = e + m /\ m \in Nat /\ r = m + 1
        BY <2>1, <3>1
      <4>2. i + 1 = e + r /\ r # 0
        BY <4>1
      <4> QED BY <4>2
    <3>3. (i + 1) % b = r
      <4>1. PICK a \in Int : a = i + 1
        BY <3>2
      <4>2. t \in Int /\ r \in 0 .. b - 1 /\ a = b * t + r
        BY <2>0, <3>1, <3>2, <4>1
      <4>3. a % b = r
        BY <1>1, <4>2, Quotient
      <4> QED BY <4>1, <4>3
    <3>4. i # b * t + (b - 1)
      <4>1. i = e + m /\ m \in Int /\ b \in Int
        BY <1>1, <2>1
      <4>2. i # e + (b - 1)
        BY <2>3, <4>1
      <4> QED BY <4>2
    <3> QED
      BY <3>2, <3>3, <3>4
  <2> QED
    BY <2>2, <2>3
<1>11. n * b \in Nat
  BY <1>1, <1>2
<1>12. \A t \in Threads : t * b \in Nat /\ t * b = b * t
  BY <1>3, <1>5, <1>6
<1> QED
  BY <1>1, <1>2, <1>8, <1>9, <1>10, <1>11, <1>12

\* The pools as InitSim fills them; the cells have no structure but their heads.
InitAt == [o \in Owners |-> IF o \in Heads THEN [i \in Int |-> o]
                            ELSE [i \in Int |-> IF i \in 0 .. MaxBlocks - 1 THEN <<2, i>> ELSE <<0, 0>>]]
InitLo == [o \in Owners |-> IF o \in Heads THEN 1 ELSE o[2] * InitialAlloc]
InitHi == [o \in Owners |-> IF o \in Heads THEN 0 ELSE o[2] * InitialAlloc + (InitialAlloc - 1)]

\* At first each pool lists its first allocation and no cell has a second structure.
LEMMA InitLists ==
    ASSUME Init
    PROVE  Lists(nextp, pool, used, InitAt, InitLo, InitHi) /\ HeadsFirst(InitAt)
<1>1. /\ used = XDIVS * ZDIVS * InitialAlloc /\ used \in Nat /\ used <= MaxBlocks /\ MaxBlocks \in Nat
      /\ InitialAlloc \in Nat /\ InitialAlloc # 0
  BY InitialRuns, SizesAssumption, Sizes DEF Init
<1>2. /\ \A h \in Heads : InitAt[h] = [i \in Int |-> h] /\ InitLo[h] = 1 /\ InitHi[h] = 0
      /\ \A t \in Threads : /\ \A i \in 0 .. MaxBlocks - 1 : InitAt[<<2, t>>][i] = <<2, i>>
                            /\ InitLo[<<2, t>>] = t * InitialAlloc
                            /\ InitHi[<<2, t>>] = t * InitialAlloc + (InitialAlloc - 1)
  <2>1. ASSUME NEW t \in Threads
        PROVE  /\ \A i \in 0 .. MaxBlocks - 1 : InitAt[<<2, t>>][i] = <<2, i>>
               /\ InitLo[<<2, t>>] = t * InitialAlloc
               /\ InitHi[<<2, t>>] = t * InitialAlloc + (InitialAlloc - 1)
    <3>1. <<2, t>> \in Owners /\ <<2, t>> \notin Heads
      BY OwnerKinds
    <3>2. InitAt[<<2, t>>] = [i \in Int |-> IF i \in 0 .. MaxBlocks - 1 THEN <<2, i>> ELSE <<0, 0>>]
      BY <3>1 DEF InitAt
    <3>3. \A i \in 0 .. MaxBlocks - 1 : InitAt[<<2, t>>][i] = <<2, i>>
      BY <1>1, <3>2
    <3>4. InitLo[<<2, t>>] = t * InitialAlloc
      BY <3>1 DEF InitLo
    <3>5. InitHi[<<2, t>>] = t * InitialAlloc + (InitialAlloc - 1)
      BY <3>1 DEF InitHi
    <3> QED BY <3>3, <3>4, <3>5
  <2>2. ASSUME NEW h \in Heads
        PROVE  InitAt[h] = [i \in Int |-> h] /\ InitLo[h] = 1 /\ InitHi[h] = 0
    BY OwnerKinds DEF InitAt, InitLo, InitHi
  <2> QED BY <2>1, <2>2
<1>3. \A o \in Owners : o \in Heads \/ \E t \in Threads : o = <<2, t>>
  BY DEF Owners
<1>4. \A o \in Owners, i \in Int : Listed(InitLo, InitHi, o, i) =>
         \E t \in Threads : /\ o = <<2, t>> /\ i \in Nat /\ i < used /\ i \div InitialAlloc = t
                            /\ InitAt[o][i] = <<2, i>> /\ i \in 0 .. MaxBlocks - 1
  <2> SUFFICES ASSUME NEW o \in Owners, NEW i \in Int, Listed(InitLo, InitHi, o, i)
               PROVE  \E t \in Threads : /\ o = <<2, t>> /\ i \in Nat /\ i < used /\ i \div InitialAlloc = t
                                         /\ InitAt[o][i] = <<2, i>> /\ i \in 0 .. MaxBlocks - 1
    OBVIOUS
  <2>1. InitLo[o] <= i /\ i <= InitHi[o]
    BY DEF Listed
  <2>2. o \notin Heads
    BY <1>2, <2>1
  <2>3. PICK t \in Threads : o = <<2, t>>
    BY <1>3, <2>2
  <2>4. t * InitialAlloc <= i /\ i <= t * InitialAlloc + (InitialAlloc - 1)
    BY <1>2, <2>1, <2>3
  <2>5. i \in Nat /\ i \div InitialAlloc = t
    BY <2>4, InitialRuns
  <2>6. i < used
    BY <1>1, <2>5, InitialRuns
  <2>7. i \in 0 .. MaxBlocks - 1
    BY <1>1, <2>5, <2>6
  <2> QED
    BY <1>2, <2>3, <2>5, <2>6, <2>7
<1>5. \A t \in Threads, i \in Nat : i \div InitialAlloc = t =>
         Listed(InitLo, InitHi, <<2, t>>, i) /\ InitAt[<<2, t>>][i] = <<2, i>> /\ i \in 0 .. MaxBlocks - 1
  <2> SUFFICES ASSUME NEW t \in Threads, NEW i \in Nat, i \div InitialAlloc = t
               PROVE  Listed(InitLo, InitHi, <<2, t>>, i) /\ InitAt[<<2, t>>][i] = <<2, i>> /\ i \in 0 .. MaxBlocks - 1
    OBVIOUS
  <2>1. t * InitialAlloc <= i /\ i <= t * InitialAlloc + (InitialAlloc - 1)
    BY InitialRuns
  <2>2. Listed(InitLo, InitHi, <<2, t>>, i)
    BY <1>2, <2>1 DEF Listed
  <2> QED
    BY <1>2, <1>4, <2>2, OwnerKinds
<1>6. Numbered(InitAt, InitLo, InitHi)
  <2>1. InitAt \in [Owners -> [Int -> Nodes]]
    <3>1. <<0, 0>> \in Nodes /\ \A i \in 0 .. MaxBlocks - 1 : <<2, i>> \in Nodes
      BY Dimensions DEF Nodes, Heads, Blocks
    <3>2. \A o \in Heads : o \in Nodes
      BY OwnerKinds
    <3>3. ASSUME NEW o \in Owners
          PROVE  (IF o \in Heads THEN [i \in Int |-> o]
                  ELSE [i \in Int |-> IF i \in 0 .. MaxBlocks - 1 THEN <<2, i>> ELSE <<0, 0>>]) \in [Int -> Nodes]
      BY <3>1, <3>2
    <3> QED
      BY <3>3 DEF InitAt
  <2>2. \A o \in Owners : InitLo[o] \in Int /\ InitHi[o] \in Int /\ InitLo[o] <= InitHi[o] + 1
    <3> SUFFICES ASSUME NEW o \in Owners
                 PROVE  InitLo[o] \in Int /\ InitHi[o] \in Int /\ InitLo[o] <= InitHi[o] + 1
      OBVIOUS
    <3>1. CASE o \in Heads
      BY <1>2, <3>1
    <3>2. CASE o \notin Heads
      <4>1. PICK t \in Threads : o = <<2, t>>
        BY <1>3, <3>2
      <4>2. PICK a \in Nat : a = t * InitialAlloc
        BY InitialRuns
      <4>3. InitLo[o] = a /\ InitHi[o] = a + (InitialAlloc - 1)
        BY <1>2, <4>1, <4>2
      <4> QED
        BY <1>1, <4>3
    <3> QED
      BY <3>1, <3>2
  <2>3. InitLo \in [Owners -> Int] /\ InitHi \in [Owners -> Int]
    <3>1. InitLo = [o \in Owners |-> InitLo[o]] /\ InitHi = [o \in Owners |-> InitHi[o]]
      BY DEF InitLo, InitHi
    <3> QED
      BY <2>2, <3>1
  <2> QED
    BY <2>1, <2>2, <2>3 DEF Numbered
<1>7. Linkage(nextp, InitAt, InitLo, InitHi)
  <2> SUFFICES ASSUME NEW o \in Owners, NEW i \in Int, Listed(InitLo, InitHi, o, i)
               PROVE  nextp[InitAt[o][i]] = IF i = InitHi[o] THEN NULL ELSE InitAt[o][i + 1]
    BY DEF Linkage
  <2>1. PICK t \in Threads : /\ o = <<2, t>> /\ i \in Nat /\ i < used /\ i \div InitialAlloc = t
                             /\ InitAt[o][i] = <<2, i>> /\ i \in 0 .. MaxBlocks - 1
    BY <1>4
  <2>2. nextp[<<2, i>>] = IF (i + 1) % InitialAlloc # 0 THEN <<2, i + 1>> ELSE NULL
    <3>1. <<2, i>> \in Nodes
      BY <2>1 DEF Nodes, Blocks
    <3>2. <<2, i>> \in {2} \X (0 .. used - 1) /\ <<2, i>>[2] = i
      BY <1>1, <2>1
    <3>3. nextp = [n \in Nodes |-> IF n \in {2} \X (0 .. used - 1) /\ (n[2] + 1) % InitialAlloc # 0
                                   THEN <<2, n[2] + 1>> ELSE NULL]
      BY DEF Init
    <3> QED
      BY <3>1, <3>2, <3>3
  <2>3. InitHi[o] = t * InitialAlloc + (InitialAlloc - 1)
    BY <1>2, <2>1
  <2>4. (i + 1) % InitialAlloc = 0 <=> i = InitHi[o]
    BY <2>1, <2>3, InitialRuns
  <2>5. ASSUME i # InitHi[o] PROVE InitAt[o][i + 1] = <<2, i + 1>>
    <3>1. PICK a \in Nat : a = t * InitialAlloc
      BY InitialRuns
    <3>2. a <= i /\ i <= a + (InitialAlloc - 1)
      BY <2>1, <3>1, InitialRuns
    <3>3. a <= i + 1 /\ i + 1 <= a + (InitialAlloc - 1) /\ i + 1 \in Int
      BY <1>1, <2>1, <2>3, <2>5, <3>1, <3>2
    <3>4. i + 1 \in Nat /\ (i + 1) \div InitialAlloc = t
      BY <3>1, <3>3, InitialRuns
    <3> QED
      BY <1>5, <2>1, <3>4
  <2> QED
    BY <2>1, <2>2, <2>4, <2>5
<1>8. Disjoint(InitAt, InitLo, InitHi)
  <2> SUFFICES ASSUME NEW o \in Owners, NEW m \in Owners, NEW i \in Int, NEW k \in Int,
                      Listed(InitLo, InitHi, o, i), Listed(InitLo, InitHi, m, k),
                      InitAt[o][i] = InitAt[m][k]
               PROVE  o = m /\ i = k
    BY DEF Disjoint
  <2>1. InitAt[o][i] = <<2, i>> /\ InitAt[m][k] = <<2, k>> /\ o = <<2, i \div InitialAlloc>> /\ m = <<2, k \div InitialAlloc>>
    BY <1>4
  <2>2. InitAt[o][i] = <<2, i>> /\ InitAt[m][k] = <<2, k>>
    BY <2>1
  <2>3. i = k
    <3>1. <<2, i>> = <<2, k>>
      BY <2>2
    <3> QED BY <3>1
  <2> QED
    BY <2>1, <2>3
<1>9. AllListed(used, InitAt, InitLo, InitHi)
  <2>1. ASSUME NEW o \in Owners, NEW i \in Int, Listed(InitLo, InitHi, o, i)
        PROVE  InitAt[o][i] \in UsedBlocks(used)
    <3>1. InitAt[o][i] = <<2, i>> /\ i \in Nat /\ i < used
      BY <1>4, <2>1
    <3>2. i \in 0 .. used - 1
      BY <1>1, <3>1
    <3> QED
      BY <3>1, <3>2 DEF UsedBlocks
  <2>2. ASSUME NEW b \in UsedBlocks(used)
        PROVE  \E o \in Owners, i \in Int : Listed(InitLo, InitHi, o, i) /\ InitAt[o][i] = b
    <3>1. PICK i \in 0 .. used - 1 : b = <<2, i>>
      BY DEF UsedBlocks
    <3>2. i \in Nat /\ i < XDIVS * ZDIVS * InitialAlloc
      BY <1>1
    <3>3. PICK t \in Threads : i \div InitialAlloc = t
      BY <3>2, InitialRuns
    <3>4. Listed(InitLo, InitHi, <<2, t>>, i) /\ InitAt[<<2, t>>][i] = <<2, i>>
      BY <1>5, <3>2, <3>3
    <3>5. <<2, t>> \in Owners /\ i \in Int
      BY <3>2, OwnerKinds
    <3> QED
      BY <3>1, <3>4, <3>5
  <2> QED
    BY <2>1, <2>2 DEF AllListed
<1>10. Pooled(pool, InitAt, InitLo, InitHi)
  <2> SUFFICES ASSUME NEW t \in Threads PROVE pool[t] = First(InitAt, InitLo, InitHi, <<2, t>>)
    BY DEF Pooled
  <2>1. PICK a \in Nat : a = t * InitialAlloc
    BY InitialRuns
  <2>2. InitLo[<<2, t>>] = a /\ InitHi[<<2, t>>] = a + (InitialAlloc - 1) /\ a <= a + (InitialAlloc - 1)
    BY <1>1, <1>2, <2>1
  <2>3. a \div InitialAlloc = t
    BY <1>1, <2>1, <2>2, InitialRuns
  <2>4. InitAt[<<2, t>>][a] = <<2, a>>
    BY <1>5, <2>3
  <2>5. pool[t] = <<2, a>>
    BY <2>1 DEF Init
  <2> QED
    BY <2>2, <2>4, <2>5 DEF First
<1>11. HeadsFirst(InitAt)
  <2>1. \A h \in Heads : InitAt[h] = [i \in Int |-> h]
    BY <1>2
  <2>2. \A h \in Heads : [i \in Int |-> h][0] = h
    OBVIOUS
  <2> QED
    BY <2>1, <2>2 DEF HeadsFirst
<1> QED
  BY <1>6, <1>7, <1>8, <1>9, <1>10, <1>11 DEF Lists

\* The grid is empty before the first particle is read.
LEMMA InitGrid == Init => Types /\ Gridded
<1> SUFFICES ASSUME Init PROVE Types /\ Gridded
  OBVIOUS
<1>1. PICK zero : zero = [h \in Heads |-> 0]
  OBVIOUS
<1>2. PICK who : who = [h \in Heads |-> [i \in Int |-> 0]]
  OBVIOUS
<1>3. PICK at, lo, hi : at = InitAt /\ lo = InitLo /\ hi = InitHi
  OBVIOUS
<1>4. /\ cells = 0 /\ loaded = 0 /\ dest = [t \in Threads |-> NULL] /\ j = [t \in Threads |-> 0]
      /\ cell2 = [t \in Threads |-> NULL] /\ slot = [n \in Nodes |-> [i \in Slots |-> NULL]]
      /\ cnumPars = [a \in {0, 1} |-> [c \in Cells |-> IF a = 0 THEN 0 ELSE -1]]
      /\ last_cells = [c \in Cells |-> NULL]
      /\ pool = [t \in Threads |-> <<2, t * InitialAlloc>>]
      /\ alloc = [t \in Threads |-> InitialAlloc] /\ pool_id = 0
      /\ used = XDIVS * ZDIVS * InitialAlloc
      /\ pos = [p \in Particles |-> 0]
      /\ density = [p \in Particles |-> 0] /\ force = [p \in Particles |-> 0]
      /\ nextp = [n \in Nodes |-> IF n \in {2} \X (0 .. used - 1) /\ (n[2] + 1) % InitialAlloc # 0
                                  THEN <<2, n[2] + 1>> ELSE NULL]
  BY DEF Init
<1>5. Lists(nextp, pool, used, at, lo, hi) /\ HeadsFirst(at)
  BY <1>3, InitLists
<1>6. /\ \A h \in Heads : zero[h] = 0 /\ lo[h] = 1 /\ hi[h] = 0
      /\ \A i \in Int, h \in Heads : ~Holds(zero, zero, h, i)
  <2>1. \A h \in Heads : zero[h] = 0 /\ lo[h] = 1 /\ hi[h] = 0
    BY <1>1, <1>3, OwnerKinds DEF InitLo, InitHi
  <2> QED
    BY <2>1 DEF Holds
<1>7. Contents(who, zero, zero, loaded)
  <2>1. Counts(who, zero, zero)
    BY <1>1, <1>2 DEF Counts
  <2> QED
    BY <1>4, <1>6, <2>1 DEF Contents
<1>8. \A c \in Cells : Stage(c) >= 3 /\ Stage(c) >= 2 /\ ~(Stage(c) <= 2) /\ ~(Stage(c) <= 1) /\ ~(Stage(c) \in {2, 3})
  <2> SUFFICES ASSUME NEW c \in Cells
               PROVE  Stage(c) >= 3 /\ Stage(c) >= 2 /\ ~(Stage(c) <= 2) /\ ~(Stage(c) <= 1) /\ ~(Stage(c) \in {2, 3})
    OBVIOUS
  <2>1. \A t \in Threads : left[t] = 0 /\ todo[t] = Work(t, 0)
    BY DEF Init
  <2>2. 0 \in Nat /\ 0 % 10 = 0
    OBVIOUS
  <2>3. Stage(c) = 10 \/ Stage(c) = 11
    BY <2>1, <2>2, StageDue
  <2> QED
    BY <2>3
<1>9. CellsOk(at, lo, hi, zero, zero)
  <2> SUFFICES ASSUME NEW c \in Cells
               PROVE  LiveCell(c, at, lo, hi, zero, zero) /\ EmptyCell(zero, zero, lo, hi, <<1 - cells, c>>)
    BY <1>8 DEF CellsOk
  <2>1. <<0, c>> \in Heads /\ <<1 - 0, c>> \in Heads
    BY DEF Heads
  <2>2. nextp[<<0, c>>] = NULL /\ cnumPars[0][c] = 0 /\ First(at, lo, hi, <<0, c>>) = NULL
    <3>1. <<0, c>> \in Nodes /\ <<0, c>> \notin {2} \X (0 .. used - 1)
      BY <2>1, OwnerKinds
    <3>2. nextp[<<0, c>>] = NULL
      BY <1>4, <3>1
    <3> QED
      BY <1>4, <1>6, <2>1, <3>2 DEF First
  <2>3. LiveCell(c, at, lo, hi, zero, zero)
    BY <1>4, <1>6, <2>1, <2>2 DEF LiveCell, Last
  <2>4. EmptyCell(zero, zero, lo, hi, <<1 - cells, c>>)
    BY <1>4, <1>6, <2>1 DEF EmptyCell
  <2> QED
    BY <2>3, <2>4
<1>10. TailsOk(at, hi) /\ SourcesOk(at, who, zero)
  BY <1>8 DEF TailsOk, SourcesOk
<1>11. StoredOk(at, who, zero)
  <2> SUFFICES ASSUME NEW c \in Cells, NEW i \in Nat, i < zero[<<cells, c>>] PROVE FALSE
    BY DEF StoredOk
  <2>1. <<cells, c>> \in Heads
    BY <1>4 DEF Heads
  <2> QED
    BY <1>6, <2>1
<1>12. ReservedOk(at, who, zero)
  BY <1>4 DEF ReservedOk
<1>13. PositionsOk(who, zero, zero)
  <2> SUFFICES ASSUME NEW c \in Cells, NEW i \in Nat
               PROVE  ~Holds(zero, zero, <<cells, c>>, i) /\ ~Holds(zero, zero, <<1 - cells, c>>, i)
    BY DEF PositionsOk
  <2>1. <<cells, c>> \in Heads /\ <<1 - cells, c>> \in Heads
    BY <1>4 DEF Heads
  <2> QED
    BY <1>6, <2>1
<1>14. RebuildOk(at, hi)
  BY <1>4 DEF RebuildOk
<1>15. Gridded
  BY <1>5, <1>7, <1>9, <1>10, <1>11, <1>12, <1>13, <1>14 DEF Gridded, Grid
<1>16. Types
  <2>1. used \in Nat /\ used <= MaxBlocks
    BY <1>4, InitialRuns, SizesAssumption
  <2>2. pool \in [Threads -> Blocks \cup {NULL}]
    <3> SUFFICES ASSUME NEW t \in Threads PROVE <<2, t * InitialAlloc>> \in Blocks
      BY <1>4
    <3>1. PICK a \in Nat : a = t * InitialAlloc
      BY InitialRuns
    <3>2. a \div InitialAlloc = t
      <4>1. a <= a /\ a <= a + (InitialAlloc - 1)
        BY Sizes
      <4> QED BY <3>1, <4>1, InitialRuns
    <3>3. a < used
      BY <1>4, <3>2, InitialRuns
    <3>4. a \in 0 .. MaxBlocks - 1
      BY <2>1, <3>3, Sizes
    <3> QED
      BY <3>1, <3>4 DEF Blocks
  <2>3. nextp \in [Nodes -> Nodes \cup {NULL}]
    <3> SUFFICES ASSUME NEW n \in Nodes, n \in {2} \X (0 .. used - 1), (n[2] + 1) % InitialAlloc # 0
                 PROVE  <<2, n[2] + 1>> \in Nodes
      BY <1>4
    <3>1. PICK i \in 0 .. used - 1 : n = <<2, i>>
      OBVIOUS
    <3>2. i \in Nat /\ i < XDIVS * ZDIVS * InitialAlloc /\ (i + 1) % InitialAlloc # 0
      BY <1>4, <2>1, <3>1
    <3>3. PICK t \in Threads : t = i \div InitialAlloc
      BY <3>2, InitialRuns
    <3>4. PICK a \in Nat : a = t * InitialAlloc
      BY InitialRuns
    <3>5. a <= i /\ i <= a + (InitialAlloc - 1) /\ i # a + (InitialAlloc - 1)
      BY <3>2, <3>3, <3>4, InitialRuns
    <3>6. a <= i + 1 /\ i + 1 <= a + (InitialAlloc - 1) /\ i + 1 \in Int
      BY <3>2, <3>5, Sizes
    <3>7. i + 1 \in Nat /\ (i + 1) \div InitialAlloc = t
      BY <3>4, <3>6, InitialRuns
    <3>8. i + 1 < used
      BY <1>4, <3>7, InitialRuns
    <3>9. i + 1 \in 0 .. MaxBlocks - 1
      BY <2>1, <3>7, <3>8, Sizes
    <3> QED
      BY <3>1, <3>9 DEF Nodes, Blocks
  <2>4. cnumPars \in [{0, 1} -> [Cells -> -1 .. numParticles]]
    BY <1>4, Sizes
  <2>5. 0 \in Threads /\ 0 \in Cells /\ InitialAlloc \in Nat \ {0} /\ 0 \in 0 .. numParticles
    BY Dimensions, Sizes
  <2>6. slot \in [Nodes -> [Slots -> Particles \cup {NULL}]] /\ dest \in [Threads -> (Nodes \X Slots) \cup {NULL}]
    BY <1>4
  <2>7. /\ last_cells \in [Cells -> Nodes \cup {NULL}] /\ alloc \in [Threads -> Nat \ {0}]
        /\ pos \in [Particles -> Cells] /\ density \in [Particles -> Nat] /\ force \in [Particles -> Nat]
        /\ j \in [Threads -> Nat] /\ cell2 \in [Threads -> Nodes \cup {NULL}]
    BY <1>4, <2>5
  <2> QED
    BY <1>4, <2>1, <2>2, <2>3, <2>4, <2>5, <2>6, <2>7 DEF Types
<1> QED
  BY <1>15, <1>16

-----------------------------------------------------------------------------
(* InitSim *)

\* What an empty pool allocates, as a free list of this thread; another pool is
\* left as it is.
LEMMA PoolFilled ==
    ASSUME Types, NEW at, NEW lo, NEW hi, Lists(nextp, pool, used, at, lo, hi), NEW t \in Threads,
           pool[t] = NULL => used + alloc[t] <= MaxBlocks,
           NEW us, us = used + (IF pool[t] = NULL THEN alloc[t] ELSE 0),
           NEW pl, pl = [pool EXCEPT ![t] = FirstFree(t)]
    PROVE  /\ Linked(t) \in [Nodes -> Nodes \cup {NULL}] /\ FirstFree(t) \in Blocks
           /\ us \in Nat /\ us <= MaxBlocks
           /\ \A h \in Heads : Linked(t)[h] = nextp[h]
           /\ Refills(Linked(t), pl, us, at, lo, hi, t)
<1>1. /\ used \in Nat /\ used <= MaxBlocks /\ alloc[t] \in Nat /\ alloc[t] # 0 /\ MaxBlocks \in Nat
      /\ nextp \in [Nodes -> Nodes \cup {NULL}] /\ pool \in [Threads -> Blocks \cup {NULL}]
  BY Sizes DEF Types
<1>2. CASE pool[t] # NULL
  <2>1. Linked(t) = nextp /\ FirstFree(t) = pool[t] /\ us = used
    BY <1>1, <1>2 DEF Linked, FirstFree
  <2>2. pl = pool
    BY <1>1, <2>1
  <2>3. lo[<<2, t>>] <= hi[<<2, t>>]
    BY <1>2 DEF Lists, Pooled, First
  <2>4. FirstFree(t) \in Blocks
    BY <1>1, <1>2, <2>1
  <2>5. Refills(Linked(t), pl, us, at, lo, hi, t)
    BY <2>1, <2>2, <2>3 DEF Refills
  <2> QED
    BY <1>1, <2>1, <2>4, <2>5
<1>3. CASE pool[t] = NULL
  <2>1. PICK k \in Nat : k = alloc[t] /\ k # 0 /\ used + k <= MaxBlocks
    BY <1>1, <1>3
  <2>2. FirstFree(t) = <<2, used>> /\ us = used + k
    BY <1>3, <2>1 DEF FirstFree
  <2>3. Linked(t) = [n \in Nodes |-> IF n[1] # 2 \/ n[2] \notin used .. used + k - 1 THEN nextp[n]
                                     ELSE IF n[2] = used + k - 1 THEN NULL ELSE <<2, n[2] + 1>>]
    BY <1>3, <2>1 DEF Linked
  <2>4. /\ \A n \in Blocks : n[1] = 2 /\ n \in Nodes /\ n[2] \in 0 .. MaxBlocks - 1
        /\ \A h \in Heads : h[1] # 2 /\ h \in Nodes
        /\ \A i \in 0 .. MaxBlocks - 1 : <<2, i>> \in Blocks
        /\ \A n \in Nodes : n \in Blocks \/ n \in Heads
    BY OwnerKinds DEF Blocks, Heads, Nodes
  <2>5. \A n \in Blocks : Linked(t)[n] = IF n[2] \notin used .. used + k - 1 THEN nextp[n]
                                         ELSE IF n[2] = used + k - 1 THEN NULL ELSE <<2, n[2] + 1>>
    BY <2>3, <2>4
  <2>6. \A h \in Heads : Linked(t)[h] = nextp[h]
    BY <2>3, <2>4
  <2>7. Linked(t) \in [Nodes -> Nodes \cup {NULL}]
    <3>1. ASSUME NEW n \in Nodes
          PROVE  (IF n[1] # 2 \/ n[2] \notin used .. used + k - 1 THEN nextp[n]
                  ELSE IF n[2] = used + k - 1 THEN NULL ELSE <<2, n[2] + 1>>) \in Nodes \cup {NULL}
      <4>1. CASE n[1] # 2 \/ n[2] \notin used .. used + k - 1
        BY <1>1, <4>1
      <4>2. CASE n[1] = 2 /\ n[2] \in used .. used + k - 1 /\ n[2] # used + k - 1
        <5>1. n[2] + 1 \in 0 .. MaxBlocks - 1
          BY <1>1, <2>1, <4>2
        <5> QED
          BY <2>4, <4>2, <5>1
      <4> QED
        BY <4>1, <4>2
    <3> QED
      BY <2>3, <3>1
  <2>8. used \in 0 .. MaxBlocks - 1
    BY <1>1, <2>1
  <2>9. FirstFree(t) \in Blocks
    BY <2>2, <2>4, <2>8
  <2>11. PICK lk : lk = Linked(t)
    OBVIOUS
  <2>12. Refills(lk, pl, used + k, at, lo, hi, t)
    <3>1. \A n \in Blocks : lk[n] = IF n[2] \notin used .. used + k - 1 THEN nextp[n]
                                    ELSE IF n[2] = used + k - 1 THEN NULL ELSE <<2, n[2] + 1>>
      BY <2>5, <2>11
    <3>2. pl = [pool EXCEPT ![t] = <<2, used>>] /\ pool \in [Threads -> Blocks \cup {NULL}]
      BY <1>1, <2>2
    <3>3. PICK u \in Nat : u = used
      BY <1>1
    <3>4. Run(nextp, pool, u, t, k, lk, pl)
      BY <3>1, <3>2, <3>3 DEF Run
    <3>5. Lists(nextp, pool, u, at, lo, hi) /\ k # 0 /\ u + k <= MaxBlocks
      BY <2>1, <3>3
    <3>6. Refills(lk, pl, u + k, at, lo, hi, t)
      BY <1>3, <3>2, <3>4, <3>5, ListsAllocate
    <3> QED
      BY <3>3, <3>6
  <2>13. us \in Nat /\ us <= MaxBlocks
    BY <1>1, <2>1, <2>2
  <2> QED
    BY <2>2, <2>6, <2>7, <2>9, <2>11, <2>12, <2>13
<1> QED
  BY <1>2, <1>3

\* A cell is given a structure of the pool, behind its last.
LEMMA CellGrown ==
    ASSUME Types, NEW at, NEW lo, NEW hi, Lists(nextp, pool, used, at, lo, hi), HeadsFirst(at),
           NEW t \in Threads, NEW h \in Heads, lo[h] = 1, hi[h] \in Nat,
           NEW tail, tail = at[h][hi[h]], GetCell(t, tail)
    PROVE  /\ nextp' \in [Nodes -> Nodes \cup {NULL}] /\ pool' \in [Threads -> Blocks \cup {NULL}]
           /\ used' \in Nat /\ used' <= MaxBlocks /\ alloc' \in [Threads -> Nat \ {0}]
           /\ FirstFree(t) \in Blocks /\ nextp'[tail] = FirstFree(t)
           /\ \A g \in Heads : g # tail => nextp'[g] = nextp[g]
           /\ Takes(nextp', pool', used', at, lo, hi, h, FirstFree(t))
<1>1. PICK ff, lk, us : /\ ff = FirstFree(t) /\ lk = Linked(t)
                        /\ us = used + (IF pool[t] = NULL THEN alloc[t] ELSE 0)
  OBVIOUS
<1>2. /\ pool[t] = NULL => used + alloc[t] <= MaxBlocks
      /\ nextp' = [lk EXCEPT ![ff] = NULL, ![tail] = ff]
      /\ pool' = [pool EXCEPT ![t] = lk[ff]]
      /\ used' = us
      /\ alloc' = IF pool[t] = NULL THEN [alloc EXCEPT ![t] = 2 * @] ELSE alloc
  BY <1>1 DEF GetCell
<1>3. PICK pl : pl = [pool EXCEPT ![t] = ff]
  OBVIOUS
<1>4. /\ lk \in [Nodes -> Nodes \cup {NULL}] /\ ff \in Blocks /\ us \in Nat /\ us <= MaxBlocks
      /\ \A g \in Heads : lk[g] = nextp[g]
  <2>1. pl = [pool EXCEPT ![t] = FirstFree(t)]
    BY <1>1, <1>3
  <2>2. pool[t] = NULL => used + alloc[t] <= MaxBlocks
    BY <1>2
  <2>3. us = used + (IF pool[t] = NULL THEN alloc[t] ELSE 0)
    BY <1>1
  <2>4. /\ Linked(t) \in [Nodes -> Nodes \cup {NULL}] /\ FirstFree(t) \in Blocks
        /\ us \in Nat /\ us <= MaxBlocks
        /\ \A g \in Heads : Linked(t)[g] = nextp[g]
    BY <2>1, <2>2, <2>3, PoolFilled
  <2> QED
    BY <1>1, <2>4
<1>5. PICK at1, lo1, hi1 : /\ Lists(lk, pl, us, at1, lo1, hi1)
                           /\ lo1[<<2, t>>] <= hi1[<<2, t>>]
                           /\ \A g \in Heads : lo1[g] = lo[g] /\ at1[g] = at[g] /\ hi1[g] = hi[g]
  <2>1. pl = [pool EXCEPT ![t] = FirstFree(t)] /\ Linked(t) = lk
    BY <1>1, <1>3
  <2>2. pool[t] = NULL => used + alloc[t] <= MaxBlocks
    BY <1>2
  <2>3. us = used + (IF pool[t] = NULL THEN alloc[t] ELSE 0)
    BY <1>1
  <2>4. Refills(Linked(t), pl, us, at, lo, hi, t)
    BY <2>1, <2>2, <2>3, PoolFilled
  <2>5. Refills(lk, pl, us, at, lo, hi, t)
    BY <2>1, <2>4
  <2> QED
    BY <2>5 DEF Refills
<1>6. /\ pool \in [Threads -> Blocks \cup {NULL}] /\ pl \in [Threads -> Blocks \cup {NULL}] /\ pl[t] = ff
      /\ alloc \in [Threads -> Nat \ {0}]
  <2>1. pool \in [Threads -> Blocks \cup {NULL}] /\ alloc \in [Threads -> Nat \ {0}]
    BY DEF Types
  <2> QED
    BY <1>3, <1>4, <2>1
<1>7. tail \in Nodes /\ tail # ff /\ tail = at1[h][hi1[h]]
  <2>0. tail = at1[h][hi1[h]] /\ lo1[h] = 1 /\ hi1[h] = hi[h]
    BY <1>5
  <2>1. CASE hi[h] = 0
    <3>1. tail = h
      BY <2>1 DEF HeadsFirst
    <3> QED
      BY <1>4, <2>0, <3>1, OwnerKinds
  <2>2. CASE hi[h] # 0
    <3>1. h \in Owners /\ <<2, t>> \in Owners /\ h # <<2, t>>
      BY OwnerKinds
    <3>2. Listed(lo1, hi1, h, hi1[h]) /\ hi1[h] \in Int
      BY <2>0, <2>2 DEF Listed
    <3>3. ff = at1[<<2, t>>][lo1[<<2, t>>]]
      BY <1>5, <1>6, <3>1 DEF Lists, Pooled, First
    <3>4. Listed(lo1, hi1, <<2, t>>, lo1[<<2, t>>]) /\ lo1[<<2, t>>] \in Int
      BY <1>5, <3>1 DEF Lists, Numbered, Listed
    <3>5. tail # ff
      BY <1>5, <2>0, <3>1, <3>2, <3>3, <3>4 DEF Lists, Disjoint
    <3>6. tail \in Nodes
      BY <1>5, <2>0, <3>1, <3>2 DEF Lists, Numbered
    <3> QED
      BY <2>0, <3>5, <3>6
  <2> QED
    BY <2>1, <2>2
<1>8. ff \in Nodes
  BY <1>4, OwnerKinds
<1>9. /\ nextp'[ff] = NULL /\ nextp'[tail] = ff
      /\ \A n \in Nodes : n # ff /\ n # tail => nextp'[n] = lk[n]
  BY <1>2, <1>4, <1>7, <1>8
<1>10. nextp' \in [Nodes -> Nodes \cup {NULL}]
  BY <1>2, <1>4, <1>7, <1>8
<1>11. pool' = [pl EXCEPT ![t] = lk[pl[t]]]
  BY <1>2, <1>3, <1>6
<1>12. \A n \in Blocks : n # pl[t] /\ ~(lo1[h] <= hi1[h] /\ n = at1[h][hi1[h]]) => nextp'[n] = lk[n]
  <2> SUFFICES ASSUME NEW n \in Blocks, n # pl[t], ~(lo1[h] <= hi1[h] /\ n = at1[h][hi1[h]])
               PROVE  nextp'[n] = lk[n]
    OBVIOUS
  <2>1. n # tail
    <3>1. CASE hi[h] = 0
      <4>1. tail = h
        BY <3>1 DEF HeadsFirst
      <4> QED
        BY <4>1, OwnerKinds
    <3>2. CASE hi[h] # 0
      <4>1. lo1[h] <= hi1[h]
        BY <1>5, <3>2
      <4> QED
        BY <1>7, <4>1
    <3> QED
      BY <3>1, <3>2
  <2> QED
    BY <1>6, <1>9, <2>1, OwnerKinds
<1>13. PICK at2, lo2, hi2 :
          /\ Lists(nextp', pool', us, at2, lo2, hi2)
          /\ hi2[h] = hi1[h] + 1 /\ at2[h] = [at1[h] EXCEPT ![hi1[h] + 1] = pl[t]]
          /\ \A g \in Heads : /\ lo2[g] = lo1[g]
                              /\ g # h => at2[g] = at1[g] /\ hi2[g] = hi1[g]
  <2>1. nextp'[pl[t]] = NULL /\ (lo1[h] <= hi1[h] => nextp'[at1[h][hi1[h]]] = pl[t])
    BY <1>6, <1>7, <1>9
  <2>2. us \in Nat /\ us <= MaxBlocks /\ lo1[<<2, t>>] <= hi1[<<2, t>>] /\ Lists(lk, pl, us, at1, lo1, hi1)
    BY <1>4, <1>5
  <2>3. pl \in [Threads -> Blocks \cup {NULL}]
    BY <1>6
  <2>4. Taken(lk, pl, at1, lo1, hi1, h, t, nextp', pool')
    BY <1>11, <1>12, <2>1 DEF Taken
  <2>5. PICK u \in Nat : u = us
    BY <2>2
  <2>6. Lists(lk, pl, u, at1, lo1, hi1) /\ u <= MaxBlocks
    BY <2>2, <2>5
  <2>7. Takes(nextp', pool', u, at1, lo1, hi1, h, pl[t])
    BY <2>2, <2>3, <2>4, <2>6, ListsGet
  <2> QED
    BY <2>5, <2>7 DEF Takes
<1>15. alloc' \in [Threads -> Nat \ {0}]
  BY <1>2, <1>6
<1>16. pool' \in [Threads -> Blocks \cup {NULL}]
  <2>1. lk[ff] \in Blocks \cup {NULL}
    <3>1. <<2, t>> \in Owners
      BY OwnerKinds
    <3>2. First(at2, lo2, hi2, <<2, t>>) \in Blocks \cup {NULL}
      <4>1. \A i \in Int : Listed(lo2, hi2, <<2, t>>, i) => at2[<<2, t>>][i] \in Blocks
        BY <1>4, <1>13, <3>1, UsedAreBlocks DEF Lists, AllListed
      <4>2. lo2[<<2, t>>] \in Int /\ hi2[<<2, t>>] \in Int
        BY <1>13, <3>1 DEF Lists, Numbered
      <4> QED
        BY <4>1, <4>2 DEF First, Listed
    <3>3. pool'[t] = First(at2, lo2, hi2, <<2, t>>)
      BY <1>13 DEF Lists, Pooled
    <3>4. pool'[t] = lk[ff]
      BY <1>2, <1>6
    <3> QED
      BY <3>2, <3>3, <3>4
  <2> QED
    BY <1>2, <1>6, <2>1
<1>17. \A g \in Heads : g # tail => nextp'[g] = nextp[g]
  BY <1>4, <1>9, OwnerKinds
<1>18. Takes(nextp', pool', used', at, lo, hi, h, FirstFree(t))
  <2>1. /\ hi2[h] = hi[h] + 1 /\ at2[h] = [at[h] EXCEPT ![hi[h] + 1] = FirstFree(t)]
        /\ \A g \in Heads : /\ lo2[g] = lo[g]
                            /\ g # h => at2[g] = at[g] /\ hi2[g] = hi[g]
    BY <1>1, <1>5, <1>6, <1>13
  <2>2. used' = us
    BY <1>2
  <2> QED
    BY <1>13, <2>1, <2>2 DEF Takes
<1>19. used' \in Nat /\ used' <= MaxBlocks
  BY <1>2, <1>4
<1> QED
  BY <1>1, <1>4, <1>9, <1>10, <1>15, <1>16, <1>17, <1>18, <1>19

\* The place after the np particles of list h: in its last structure, or in one
\* taken from a pool.
Grows(t, np, tail, node) ==
    IF Full(np) THEN GetCell(t, tail) /\ node = FirstFree(t)
    ELSE UNCHANGED <<nextp, poolVars>> /\ node = tail
Longer(at, lo, hi, at2, lo2, hi2, h, np, node) ==
    /\ HeadsFirst(at2)
    /\ hi2[h] = np \div ParticlesPerCell /\ hi[h] <= hi2[h]
    /\ at2[h][np \div ParticlesPerCell] = node
    /\ \A k \in Int : k <= hi[h] => at2[h][k] = at[h][k]
    /\ \A g \in Heads : lo2[g] = lo[g] /\ (g # h => at2[g] = at[g] /\ hi2[g] = hi[g])
Lengthened(at, lo, hi, h, np, node) ==
    \E at2, lo2, hi2 :
       /\ Lists(nextp', pool', used', at2, lo2, hi2)
       /\ Longer(at, lo, hi, at2, lo2, hi2, h, np, node)
       /\ nextp'[h] = First(at2, lo2, hi2, h)
       /\ \A g \in Heads : g # h => nextp'[g] = nextp[g]

\* A place behind the last particle of a cell: in its last structure, or in one from the pool.
LEMMA NextPlace ==
    ASSUME Types, NEW at, NEW lo, NEW hi, Lists(nextp, pool, used, at, lo, hi), HeadsFirst(at),
           NEW t \in Threads, NEW h \in Heads, NEW np, np \in Nat, lo[h] = 1, hi[h] = Last(np),
           nextp[h] = First(at, lo, hi, h),
           NEW node, Grows(t, np, at[h][hi[h]], node)
    PROVE  /\ nextp' \in [Nodes -> Nodes \cup {NULL}] /\ pool' \in [Threads -> Blocks \cup {NULL}]
           /\ used' \in Nat /\ used' <= MaxBlocks /\ alloc' \in [Threads -> Nat \ {0}]
           /\ node \in Nodes
           /\ Lengthened(at, lo, hi, h, np, node)
<1>0. PICK n \in Nat : n = np
  OBVIOUS
<1>1. PICK k \in Nat : k = np \div ParticlesPerCell
  BY <1>0, SlotOf
<1>2. /\ Last(np + 1) = k
      /\ Full(np) => k = hi[h] + 1
      /\ ~Full(np) => k = hi[h]
      /\ hi[h] \in Nat
  <2>1. /\ Last(n + 1) = k
        /\ Full(n) => k = Last(n) + 1
        /\ ~Full(n) => k = Last(n)
        /\ Last(n) \in Nat
    BY <1>0, <1>1, LastNext, LastOf DEF Full
  <2> QED
    BY <1>0, <2>1
<1>3. /\ nextp \in [Nodes -> Nodes \cup {NULL}] /\ pool \in [Threads -> Blocks \cup {NULL}]
      /\ used \in Nat /\ used <= MaxBlocks /\ alloc \in [Threads -> Nat \ {0}]
  BY DEF Types
<1>4. h \in Owners /\ at \in [Owners -> [Int -> Nodes]] /\ h \in Nodes
  BY OwnerKinds DEF Lists, Numbered
<1>5. CASE Full(np)
  <2>1. PICK tail : tail = at[h][hi[h]]
    OBVIOUS
  <2>2. GetCell(t, tail) /\ node = FirstFree(t)
    BY <1>5, <2>1 DEF Grows
  <2>3. /\ nextp' \in [Nodes -> Nodes \cup {NULL}] /\ pool' \in [Threads -> Blocks \cup {NULL}]
        /\ used' \in Nat /\ used' <= MaxBlocks /\ alloc' \in [Threads -> Nat \ {0}]
        /\ FirstFree(t) \in Blocks /\ nextp'[tail] = FirstFree(t)
        /\ \A g \in Heads : g # tail => nextp'[g] = nextp[g]
        /\ Takes(nextp', pool', used', at, lo, hi, h, FirstFree(t))
    BY <1>2, <2>1, <2>2, CellGrown
  <2>4. PICK at2, lo2, hi2 :
           /\ Lists(nextp', pool', used', at2, lo2, hi2)
           /\ hi2[h] = hi[h] + 1 /\ at2[h] = [at[h] EXCEPT ![hi[h] + 1] = node]
           /\ \A g \in Heads : /\ lo2[g] = lo[g]
                               /\ g # h => at2[g] = at[g] /\ hi2[g] = hi[g]
    BY <2>2, <2>3 DEF Takes
  <2>5. node \in Nodes /\ node \in Blocks
    BY <2>2, <2>3, OwnerKinds
  <2>6. /\ at2[h][k] = node /\ k = hi[h] + 1
        /\ \A i \in Int : i # k => at2[h][i] = at[h][i]
    <3>1. at[h] \in [Int -> Nodes] /\ hi[h] + 1 = k /\ k \in Int
      BY <1>2, <1>4, <1>5
    <3> QED
      BY <2>4, <3>1
  <2>7. HeadsFirst(at2)
    <3> SUFFICES ASSUME NEW g \in Heads PROVE at2[g][0] = g
      BY DEF HeadsFirst
    <3>1. at[g][0] = g /\ 0 \in Int /\ 0 # k
      BY <1>2, <2>6 DEF HeadsFirst
    <3> QED
      BY <2>4, <2>6, <3>1
  <2>8. Longer(at, lo, hi, at2, lo2, hi2, h, np, node)
    <3>1. hi2[h] = k /\ hi[h] <= k /\ \A i \in Int : i <= hi[h] => at2[h][i] = at[h][i]
      BY <1>2, <2>4, <2>6
    <3> QED
      BY <1>1, <2>4, <2>6, <2>7, <3>1 DEF Longer
  <2>9. hi[h] = 0 => tail = h
    BY <2>1 DEF HeadsFirst
  <2>10. hi[h] # 0 => tail # h
    <3> SUFFICES ASSUME hi[h] # 0 PROVE tail \in Blocks
      BY OwnerKinds
    <3>1. Listed(lo, hi, h, hi[h]) /\ hi[h] \in Int
      BY <1>2 DEF Listed
    <3>2. UsedBlocks(used) \subseteq Blocks
      BY <1>3, UsedAreBlocks
    <3> QED
      BY <1>4, <2>1, <3>1, <3>2 DEF Lists, AllListed
  <2>11. lo2[h] = 1 /\ First(at2, lo2, hi2, h) = at2[h][1]
    BY <1>2, <2>4 DEF First
  <2>12. nextp'[h] = First(at2, lo2, hi2, h)
    <3>1. CASE hi[h] = 0
      BY <1>2, <2>2, <2>3, <2>6, <2>9, <2>11, <3>1
    <3>2. CASE hi[h] # 0
      <4>1. nextp'[h] = at[h][1]
        BY <1>2, <2>3, <2>10, <3>2 DEF First
      <4>2. 1 # k /\ 1 \in Int
        BY <1>2, <2>6, <3>2
      <4> QED
        BY <2>6, <2>11, <4>1, <4>2
    <3> QED
      BY <3>1, <3>2
  <2>13. \A g \in Heads : g # h => nextp'[g] = nextp[g]
    <3>1. \A g \in Heads : tail = g => g = h
      <4>1. CASE hi[h] = 0
        BY <2>9, <4>1
      <4>2. CASE hi[h] # 0
        <5>1. Listed(lo, hi, h, hi[h]) /\ hi[h] \in Int
          BY <1>2, <4>2 DEF Listed
        <5>2. UsedBlocks(used) \subseteq Blocks
          BY <1>3, UsedAreBlocks
        <5>3. tail \in Blocks
          BY <1>4, <2>1, <5>1, <5>2 DEF Lists, AllListed
        <5> QED
          BY <5>3, OwnerKinds
      <4> QED
        BY <4>1, <4>2
    <3> QED
      BY <2>3, <3>1
  <2> QED
    BY <2>3, <2>4, <2>5, <2>8, <2>12, <2>13 DEF Lengthened
<1>6. CASE ~Full(np)
  <2>1. nextp' = nextp /\ pool' = pool /\ alloc' = alloc /\ used' = used /\ node = at[h][hi[h]]
    BY <1>6 DEF Grows, poolVars
  <2>2. k = hi[h]
    BY <1>2, <1>6
  <2>3. Longer(at, lo, hi, at, lo, hi, h, np, node)
    BY <1>1, <1>2, <2>1, <2>2 DEF Longer
  <2>4. node \in Nodes
    BY <1>2, <1>4, <2>1
  <2>5. Lengthened(at, lo, hi, h, np, node)
    BY <2>1, <2>3 DEF Lengthened
  <2> QED
    BY <1>3, <2>1, <2>4, <2>5
<1> QED
  BY <1>5, <1>6

\* The places there were are where they were.
Staying(at, lo, hi, at2, lo2, hi2, h, np, node) ==
    /\ \A g \in Heads, i \in Nat :
          Placed(lo, hi, g, i) => Placed(lo2, hi2, g, i) /\ PlaceOf(at2, g, i) = PlaceOf(at, g, i)
    /\ Placed(lo2, hi2, h, np) /\ PlaceOf(at2, h, np) = <<node, np % ParticlesPerCell>>

\* The places of the particles stay where they were.
LEMMA PlacesStay ==
    ASSUME NEW at, NEW lo, NEW hi, NEW at2, NEW lo2, NEW hi2, NEW h \in Heads, NEW np, np \in Nat,
           NEW node, Longer(at, lo, hi, at2, lo2, hi2, h, np, node), hi[h] \in Nat, lo[h] = 1
    PROVE  Staying(at, lo, hi, at2, lo2, hi2, h, np, node)
<1>1. ASSUME NEW g \in Heads, NEW i \in Nat, Placed(lo, hi, g, i)
      PROVE  Placed(lo2, hi2, g, i) /\ PlaceOf(at2, g, i) = PlaceOf(at, g, i)
  <2>1. PICK k \in Nat : k = i \div ParticlesPerCell
    BY SlotOf
  <2>2. CASE g # h
    BY <1>1, <2>2 DEF Longer, Placed, Listed, PlaceOf
  <2>3. CASE g = h
    <3>1. k = 0 \/ (1 <= k /\ k <= hi[h])
      BY <1>1, <2>1, <2>3 DEF Placed, Listed
    <3>2. k <= hi[h] /\ k \in Int
      BY <3>1
    <3>3. at2[h][k] = at[h][k] /\ hi[h] <= hi2[h] /\ lo2[h] = 1 /\ hi2[h] = np \div ParticlesPerCell
      BY <3>2 DEF Longer
    <3>4. np \div ParticlesPerCell \in Nat
      BY SlotOf
    <3>5. k <= hi2[h]
      BY <3>2, <3>3, <3>4
    <3>6. PlaceOf(at2, g, i) = PlaceOf(at, g, i)
      BY <2>1, <2>3, <3>3 DEF PlaceOf
    <3>7. Placed(lo2, hi2, g, i)
      BY <2>1, <2>3, <3>1, <3>3, <3>5 DEF Placed, Listed
    <3> QED
      BY <3>6, <3>7
  <2> QED
    BY <2>2, <2>3
<1>2. Placed(lo2, hi2, h, np) /\ PlaceOf(at2, h, np) = <<node, np % ParticlesPerCell>>
  <2>1. PICK k \in Nat : k = np \div ParticlesPerCell
    BY SlotOf
  <2>2. hi2[h] = k /\ lo2[h] = 1 /\ at2[h][k] = node
    BY <2>1 DEF Longer
  <2>3. k = 0 \/ (lo2[h] <= k /\ k <= hi2[h])
    BY <2>2
  <2> QED
    BY <2>1, <2>2, <2>3 DEF Placed, Listed, PlaceOf
<1> QED
  BY <1>1, <1>2 DEF Staying

\* A particle is written at one place.
LEMMA SlotWritten ==
    ASSUME slot \in [Nodes -> [Slots -> Particles \cup {NULL}]], NEW n \in Nodes, NEW r \in Slots,
           NEW p \in Particles, slot' = [slot EXCEPT ![n][r] = p]
    PROVE  /\ slot' \in [Nodes -> [Slots -> Particles \cup {NULL}]]
           /\ Held(<<n, r>>)' = p
           /\ \A place \in Nodes \X Slots : place # <<n, r>> => Held(place)' = Held(place)
<1>1. slot' \in [Nodes -> [Slots -> Particles \cup {NULL}]]
  OBVIOUS
<1>2. slot'[n][r] = p
  OBVIOUS
<1>3. ASSUME NEW m \in Nodes, NEW s \in Slots, m # n \/ s # r PROVE slot'[m][s] = slot[m][s]
  <2>1. CASE m # n
    BY <2>1
  <2>2. CASE m = n
    BY <1>3, <2>2
  <2> QED
    BY <2>1, <2>2
<1>4. ASSUME NEW place \in Nodes \X Slots, place # <<n, r>> PROVE Held(place)' = Held(place)
  <2>1. PICK m \in Nodes, s \in Slots : place = <<m, s>>
    OBVIOUS
  <2>2. m # n \/ s # r
    BY <1>4, <2>1
  <2>3. slot'[m][s] = slot[m][s]
    BY <1>3, <2>2
  <2> QED
    BY <2>1, <2>3 DEF Held
<1> QED
  BY <1>1, <1>2, <1>4 DEF Held

\* A particle is read into a cell, before the threads start.
LEMMA LoadGrid ==
    ASSUME RoundInv, Types, Gridded, NEW c \in Cells, Load(c)
    PROVE  Types' /\ Gridded'
<1>1. PICK at, lo, hi, who, from, cnt : Grid(at, lo, hi, who, from, cnt)
  BY DEF Gridded
<1>2. /\ loaded < numParticles /\ loaded' = loaded + 1 /\ ~Started
      /\ pos' = [pos EXCEPT ![loaded + 1] = c]
      /\ entered' = entered /\ left' = left /\ cells' = cells /\ last_cells' = last_cells
      /\ density' = density /\ force' = force /\ todo' = todo
      /\ j' = j /\ cell2' = cell2 /\ dest' = dest
  <2>1. loaded \in Nat /\ numParticles \in Nat
    BY Sizes DEF Types
  <2> QED
    BY <2>1 DEF Load, Started, barrierVars, rebuildVars
<1>3. cells = 0 /\ cells' = 0
  BY <1>2 DEF RoundInv
<1>4. PICK h : h = <<0, c>>
  OBVIOUS
<1>5. h \in Heads /\ h = <<cells, c>> /\ h \in Owners /\ (\A d \in Cells : <<cells, d>> \in Heads /\ <<1 - cells, d>> \in Heads /\ <<1 - cells, d>> # h)
      /\ (\A d \in Cells : d # c => <<cells, d>> # h)
  BY <1>3, <1>4, HeadsOf
<1>6. \A d \in Cells : Stage(d) >= 3 /\ Stage(d) >= 2 /\ ~(Stage(d) <= 2) /\ ~(Stage(d) <= 1) /\ ~(Stage(d) \in {2, 3})
                       /\ Stage(d)' = Stage(d)
  <2> SUFFICES ASSUME NEW d \in Cells
               PROVE  Stage(d) >= 3 /\ Stage(d) >= 2 /\ ~(Stage(d) <= 2) /\ ~(Stage(d) <= 1) /\ ~(Stage(d) \in {2, 3})
                      /\ Stage(d)' = Stage(d)
    OBVIOUS
  <2>1. Stage(d) = 10 \/ Stage(d) = 11
    BY <1>2, StageIdle
  <2>2. Stage(d)' = Stage(d)
    BY <1>2, StageQuiet
  <2> QED
    BY <2>1, <2>2
<1>7. \A t \in Threads : j[t] = 0 /\ dest[t] = NULL /\ cell2[t] = NULL
  <2>1. RebuildOk(at, hi)
    BY <1>1 DEF Grid
  <2> SUFFICES ASSUME NEW t \in Threads PROVE j[t] = 0 /\ dest[t] = NULL /\ cell2[t] = NULL
    OBVIOUS
  <2>2. ~At(t, Min(todo[t]), "rebuild")
    BY <1>2 DEF At, Working
  <2> QED
    BY <2>1, <2>2 DEF RebuildOk
<1>8. LiveCell(c, at, lo, hi, from, cnt)
  BY <1>1, <1>6 DEF Grid, CellsOk
<1>9. PICK np \in Nat : np = cnt[h]
  <2>1. cnt[h] \in Nat
    BY <1>1, <1>5 DEF Grid, Contents, Counts
  <2> QED
    BY <2>1
<1>10. /\ from[h] = 0 /\ np = cnumPars[0][c] /\ lo[h] = 1 /\ hi[h] = Last(np)
       /\ nextp[h] = First(at, lo, hi, h) /\ hi[h] \in Nat
  <2>1. /\ from[h] = 0 /\ np = cnumPars[0][c] /\ lo[h] = 1 /\ hi[h] = Last(np)
        /\ nextp[h] = First(at, lo, hi, h)
    BY <1>3, <1>5, <1>8, <1>9 DEF LiveCell
  <2> QED
    BY <2>1, LastOf
<1>11. Lists(nextp, pool, used, at, lo, hi) /\ HeadsFirst(at) /\ Contents(who, from, cnt, loaded)
  BY <1>1 DEF Grid
<1>12. Behind(h, IF np = 0 THEN 0 ELSE (np - 1) \div ParticlesPerCell) = at[h][hi[h]]
  <2>1. Behind(h, Last(np)) = at[h][Last(np)]
    <3>1. PICK k \in Nat : k = Last(np)
      BY <1>10
    <3>2. k <= hi[h]
      BY <1>10, <3>1
    <3> QED
      BY <1>5, <1>10, <1>11, <3>1, <3>2, BehindIs
  <2> QED
    BY <1>10, <2>1 DEF Last
<1>13. PICK node : /\ Grows(pool_id, np, at[h][hi[h]], node)
                   /\ slot' = [slot EXCEPT ![node][np % ParticlesPerCell] = loaded + 1]
                   /\ cnumPars' = [cnumPars EXCEPT ![0][c] = np + 1]
                   /\ pool_id' = IF Full(np) THEN (pool_id + 1) % (XDIVS * ZDIVS) ELSE pool_id
  <2>1. PICK tail : tail = at[h][hi[h]]
    OBVIOUS
  <2>2. PICK node : node = IF Full(np) THEN FirstFree(pool_id) ELSE tail
    OBVIOUS
  <2>3. /\ IF Full(np)
           THEN GetCell(pool_id, tail) /\ pool_id' = (pool_id + 1) % (XDIVS * ZDIVS)
           ELSE UNCHANGED <<nextp, poolVars, pool_id>>
        /\ slot' = [slot EXCEPT ![node][np % ParticlesPerCell] = loaded + 1]
        /\ cnumPars' = [cnumPars EXCEPT ![0][c] = np + 1]
    BY <1>4, <1>10, <1>12, <2>1, <2>2 DEF Load
  <2>4. Grows(pool_id, np, tail, node)
    BY <2>2, <2>3 DEF Grows
  <2> QED
    BY <2>1, <2>3, <2>4
<1>14. /\ nextp' \in [Nodes -> Nodes \cup {NULL}] /\ pool' \in [Threads -> Blocks \cup {NULL}]
       /\ used' \in Nat /\ used' <= MaxBlocks /\ alloc' \in [Threads -> Nat \ {0}]
       /\ node \in Nodes /\ Lengthened(at, lo, hi, h, np, node)
  <2>1. pool_id \in Threads
    BY DEF Types
  <2> QED
    BY <1>5, <1>9, <1>10, <1>11, <1>13, <2>1, NextPlace
<1>15. PICK at2, lo2, hi2 :
          /\ Lists(nextp', pool', used', at2, lo2, hi2)
          /\ Longer(at, lo, hi, at2, lo2, hi2, h, np, node)
          /\ nextp'[h] = First(at2, lo2, hi2, h)
          /\ \A g \in Heads : g # h => nextp'[g] = nextp[g]
  BY <1>14 DEF Lengthened
<1>16. HeadsFirst(at2) /\ lo2[h] = 1 /\ hi2[h] = Last(np + 1)
       /\ \A g \in Heads : g # h => lo2[g] = lo[g] /\ at2[g] = at[g] /\ hi2[g] = hi[g]
  BY <1>5, <1>10, <1>15, LastNext DEF Longer
<1>17. PICK who2, cnt2 :
          /\ Contents(who2, from, cnt2, loaded + 1)
          /\ cnt2[h] = np + 1 /\ who2[h][np] = loaded + 1
          /\ \A g \in Heads : g # h => cnt2[g] = cnt[g]
          /\ \A g \in Heads, i \in Int : ~(g = h /\ i = np) => who2[g][i] = who[g][i]
  <2>1. PICK n \in Nat : n = loaded
    BY DEF Types
  <2>2. Contents(who, from, cnt, n)
    BY <1>11, <2>1
  <2>3. Adds(who, from, cnt, n, h)
    BY <1>5, <2>2, ContentsAdd
  <2> QED
    BY <1>9, <2>1, <2>3 DEF Adds
<1>18. /\ \A g \in Heads, i \in Nat :
             Placed(lo, hi, g, i) => Placed(lo2, hi2, g, i) /\ PlaceOf(at2, g, i) = PlaceOf(at, g, i)
       /\ Placed(lo2, hi2, h, np) /\ PlaceOf(at2, h, np) = <<node, np % ParticlesPerCell>>
  <2>1. /\ h \in Heads /\ np \in Nat /\ Longer(at, lo, hi, at2, lo2, hi2, h, np, node)
        /\ hi[h] \in Nat /\ lo[h] = 1
    BY <1>5, <1>10, <1>15
  <2>2. Staying(at, lo, hi, at2, lo2, hi2, h, np, node)
    BY <2>1, PlacesStay
  <2> QED
    BY <2>2 DEF Staying
<1>19. loaded + 1 \in Particles /\ np % ParticlesPerCell \in Slots /\ np + 1 <= numParticles
       /\ loaded \in Nat
  <2>1. PICK n \in Nat : n = loaded /\ n + 1 <= numParticles
    BY <1>2, Sizes DEF Types
  <2>2. Contents(who2, from, cnt2, n + 1) /\ n + 1 \in Nat
    BY <1>17, <2>1
  <2>3. cnt2[h] - from[h] <= n + 1
    BY <1>5, <2>2, ContentsBound
  <2>4. np + 1 <= numParticles
    BY <1>10, <1>17, <2>1, <2>3, Sizes
  <2> QED
    BY <2>1, <2>4, SlotOf, Sizes DEF Particles
<1>20. /\ slot' \in [Nodes -> [Slots -> Particles \cup {NULL}]]
       /\ Held(PlaceOf(at2, h, np))' = loaded + 1
       /\ \A place \in Nodes \X Slots : place # PlaceOf(at2, h, np) => Held(place)' = Held(place)
  <2>1. slot \in [Nodes -> [Slots -> Particles \cup {NULL}]]
    BY DEF Types
  <2>2. Held(<<node, np % ParticlesPerCell>>)' = loaded + 1
    BY <1>13, <1>14, <1>19, <2>1, SlotWritten
  <2>3. PICK n, r, p : n = node /\ r = np % ParticlesPerCell /\ p = loaded + 1
    OBVIOUS
  <2>4. /\ slot' \in [Nodes -> [Slots -> Particles \cup {NULL}]]
        /\ \A place \in Nodes \X Slots : place # <<n, r>> => Held(place)' = Held(place)
    BY <1>13, <1>14, <1>19, <2>1, <2>3, SlotWritten
  <2>5. PlaceOf(at2, h, np) = <<n, r>>
    BY <1>18, <2>3
  <2> QED
    BY <1>18, <2>2, <2>4, <2>5
<1>21. /\ cnumPars'[0][c] = np + 1 /\ cnumPars' \in [{0, 1} -> [Cells -> -1 .. numParticles]]
       /\ \A a \in {0, 1}, d \in Cells : ~(a = 0 /\ d = c) => cnumPars'[a][d] = cnumPars[a][d]
  <2>1. cnumPars \in [{0, 1} -> [Cells -> -1 .. numParticles]] /\ np + 1 \in -1 .. numParticles
    BY <1>19, Sizes DEF Types
  <2> QED
    BY <1>13, <2>1
<1>22. Types'
  <2>1. pool_id' \in Threads
    <3>1. PICK n \in Nat : n = XDIVS * ZDIVS /\ n # 0 /\ Threads = 0 .. n - 1
      BY Dimensions DEF Threads
    <3>2. pool_id \in Nat /\ pool_id \in Threads
      BY Dimensions DEF Types
    <3>3. (pool_id + 1) % n \in 0 .. n - 1
      <4>1. PICK a \in Nat : a = pool_id + 1
        BY <3>2
      <4>2. a % n \in 0 .. n - 1
        BY <3>1, DivMod
      <4> QED BY <4>1, <4>2
    <3> QED
      BY <1>13, <3>1, <3>2, <3>3
  <2>2. pos' \in [Particles -> Cells] /\ loaded' \in 0 .. numParticles
    BY <1>2, <1>19, Sizes DEF Types
  <2> QED
    BY <1>2, <1>14, <1>20, <1>21, <2>1, <2>2 DEF Types
<1>23. CellsOk(at2, lo2, hi2, from, cnt2)'
  <2> SUFFICES ASSUME NEW d \in Cells
               PROVE  /\ Stage(d)' >= 2 => LiveCell(d, at2, lo2, hi2, from, cnt2)'
                      /\ Stage(d)' <= 1 => EmptyCell(from, cnt2, lo2, hi2, <<cells, d>>)'
                      /\ Stage(d)' <= 2 => SourceCell(d, at2, lo2, hi2, from, cnt2)'
                      /\ Stage(d)' >= 3 => EmptyCell(from, cnt2, lo2, hi2, <<1 - cells, d>>)'
    BY DEF CellsOk
  <2>1. LiveCell(d, at, lo, hi, from, cnt) /\ EmptyCell(from, cnt, lo, hi, <<1 - cells, d>>)
    BY <1>1, <1>6 DEF Grid, CellsOk
  <2>2. EmptyCell(from, cnt2, lo2, hi2, <<1 - cells, d>>)'
    BY <1>3, <1>5, <1>16, <1>17, <2>1 DEF EmptyCell
  <2>3. CASE d = c
    <3>1. LiveCell(c, at2, lo2, hi2, from, cnt2)'
      BY <1>3, <1>5, <1>10, <1>15, <1>16, <1>17, <1>21 DEF LiveCell
    <3> QED
      BY <1>6, <2>2, <2>3, <3>1
  <2>4. CASE d # c
    <3>1. cnumPars'[0][d] = cnumPars[0][d] /\ nextp'[<<0, d>>] = nextp[<<0, d>>] /\ <<0, d>> # h /\ <<0, d>> \in Heads
      BY <1>3, <1>5, <1>15, <1>21, <2>4
    <3>2. First(at2, lo2, hi2, <<0, d>>) = First(at, lo, hi, <<0, d>>)
      BY <1>16, <3>1 DEF First
    <3>3. LiveCell(d, at2, lo2, hi2, from, cnt2)'
      BY <1>3, <1>16, <1>17, <2>1, <3>1, <3>2 DEF LiveCell
    <3> QED
      BY <1>6, <2>2, <3>3
  <2> QED
    BY <2>3, <2>4
<1>24. TailsOk(at2, hi2)' /\ SourcesOk(at2, who2, cnt2)'
  BY <1>6 DEF TailsOk, SourcesOk
<1>25. StoredOk(at2, who2, cnt2)'
  <2> SUFFICES ASSUME NEW d \in Cells, NEW i \in Nat, (i < cnt2[<<cells, d>>])'
               PROVE  (Held(PlaceOf(at2, <<cells, d>>, i)) = who2[<<cells, d>>][i])'
    BY DEF StoredOk
  <2>1. PICK g : g = <<cells, d>>
    OBVIOUS
  <2>2. g \in Heads /\ i < cnt2[g]
    BY <1>2, <1>5, <2>1
  <2>3. SUFFICES Held(PlaceOf(at2, g, i))' = who2[g][i]
    BY <1>2, <2>1
  <2>4. CASE g = h /\ i = np
    BY <1>17, <1>20, <2>4
  <2>5. CASE ~(g = h /\ i = np)
    <3>1. i < cnt[g]
      BY <1>9, <1>17, <2>2, <2>5
    <3>2. Placed(lo, hi, g, i)
      BY <1>1, <1>6, <2>1, <3>1, LivePlaced DEF Grid, Types
    <3>3. Held(PlaceOf(at, g, i)) = who[g][i]
      BY <1>1, <1>6, <1>7, <2>1, <3>1, MembersHeld
    <3>4. PlaceOf(at2, g, i) = PlaceOf(at, g, i) /\ Placed(lo2, hi2, g, i)
      BY <1>18, <2>2, <3>2
    <3>5. PICK us \in Nat : us = used' /\ us <= MaxBlocks /\ Lists(nextp', pool', us, at2, lo2, hi2)
      BY <1>14, <1>15
    <3>6. PlaceOf(at2, g, i) # PlaceOf(at2, h, np) /\ PlaceOf(at2, g, i) \in Nodes \X Slots
      BY <1>5, <1>16, <1>18, <2>2, <2>5, <3>4, <3>5, PlacesDiffer
    <3>7. Held(PlaceOf(at2, g, i))' = Held(PlaceOf(at, g, i))
      BY <1>20, <3>4, <3>6
    <3> QED
      BY <1>17, <2>2, <2>5, <3>3, <3>7
  <2> QED
    BY <2>4, <2>5
<1>26. ReservedOk(at2, who2, cnt2)' /\ RebuildOk(at2, hi2)'
  BY <1>2, <1>7 DEF ReservedOk, RebuildOk
<1>27. PositionsOk(who2, from, cnt2)'
  <2>1. ASSUME NEW d \in Cells, NEW i \in Nat
        PROVE  /\ Holds(from, cnt2, <<cells, d>>, i) =>
                     /\ pos'[who2[<<cells, d>>][i]] \in Neighbours(d)
                     /\ Stage(d) <= 8 => pos'[who2[<<cells, d>>][i]] = d
               /\ Holds(from, cnt2, <<1 - cells, d>>, i) => pos'[who2[<<1 - cells, d>>][i]] \in Neighbours(d)
    <3>2. \A g \in Heads : Holds(from, cnt2, g, i) => (g = h /\ i = np) \/ (Holds(from, cnt, g, i) /\ ~(g = h /\ i = np))
      <4> SUFFICES ASSUME NEW g \in Heads, from[g] <= i /\ i < cnt2[g]
                   PROVE  (g = h /\ i = np) \/ (from[g] <= i /\ i < cnt[g] /\ ~(g = h /\ i = np))
        BY DEF Holds
      <4>1. CASE g = h
        <5>1. i < np + 1 /\ cnt[h] = np
          BY <1>9, <1>17, <4>1
        <5>2. i = np \/ (i < np /\ i # np)
          BY <5>1
        <5> QED
          BY <4>1, <5>1, <5>2
      <4>2. CASE g # h
        BY <1>17, <4>2
      <4> QED
        BY <4>1, <4>2
    <3>3. \A g \in Heads : Holds(from, cnt, g, i) => who[g][i] \in 1 .. loaded /\ pos'[who[g][i]] = pos[who[g][i]]
      <4> SUFFICES ASSUME NEW g \in Heads, Holds(from, cnt, g, i)
                   PROVE  who[g][i] \in 1 .. loaded /\ pos'[who[g][i]] = pos[who[g][i]]
        OBVIOUS
      <4>1. who[g][i] \in 1 .. loaded
        BY <1>11 DEF Contents
      <4>2. who[g][i] # loaded + 1 /\ who[g][i] \in Particles
        BY <1>2, <1>19, <4>1, Sizes DEF Particles
      <4>3. pos \in [Particles -> Cells]
        BY DEF Types
      <4> QED
        BY <1>2, <4>1, <4>2, <4>3
    <3>4. pos'[loaded + 1] = c /\ c \in Neighbours(c)
      BY <1>2, <1>19, NeighboursMutual DEF Types
    <3>5. Holds(from, cnt, <<cells, d>>, i) => pos[who[<<cells, d>>][i]] \in Neighbours(d)
      BY <1>1 DEF Grid, PositionsOk
    <3>6. Holds(from, cnt, <<1 - cells, d>>, i) => pos[who[<<1 - cells, d>>][i]] \in Neighbours(d)
      BY <1>1 DEF Grid, PositionsOk
    <3>7. Holds(from, cnt2, <<cells, d>>, i) => pos'[who2[<<cells, d>>][i]] \in Neighbours(d)
      <4>0. PICK g : g = <<cells, d>> /\ g \in Heads
        BY <1>5
      <4>1. CASE g = h /\ i = np
        <5>1. d = c
          BY <1>5, <4>0, <4>1
        <5> QED
          BY <1>17, <3>4, <4>0, <4>1, <5>1
      <4>2. CASE ~(g = h /\ i = np)
        <5>1. who2[g][i] = who[g][i]
          BY <1>17, <4>0, <4>2
        <5> QED
          BY <3>2, <3>3, <3>5, <4>0, <4>2, <5>1
      <4> QED
        BY <4>1, <4>2
    <3>8. Holds(from, cnt2, <<1 - cells, d>>, i) => pos'[who2[<<1 - cells, d>>][i]] \in Neighbours(d)
      <4>0. PICK g : g = <<1 - cells, d>> /\ g \in Heads /\ g # h
        BY <1>5
      <4>1. who2[g][i] = who[g][i]
        BY <1>17, <4>0
      <4> QED
        BY <3>2, <3>3, <3>6, <4>0, <4>1
    <3>9. ~(Stage(d) <= 8)
      <4>1. Stage(d) = 10 \/ Stage(d) = 11
        BY <1>2, StageIdle
      <4> QED BY <4>1
    <3> QED
      BY <3>7, <3>8, <3>9
  <2> QED
    BY <1>2, <1>6, <2>1 DEF PositionsOk
<1>28. Contents(who2, from, cnt2, loaded)'
  BY <1>2, <1>17
<1>29. Grid(at2, lo2, hi2, who2, from, cnt2)'
  BY <1>15, <1>16, <1>23, <1>24, <1>25, <1>26, <1>27, <1>28 DEF Grid, HeadsFirst
<1> QED
  BY <1>22, <1>29 DEF Gridded

-----------------------------------------------------------------------------
(* RebuildGridMT *)

\* A thread in RebuildGridMT: the cell has been cleared and not been rebuilt.
LEMMA AtRebuild ==
    ASSUME RoundInv, Types, NEW at, NEW lo, NEW hi, NEW who, NEW from, NEW cnt,
           Grid(at, lo, hi, who, from, cnt), NEW t \in Threads, NEW c, At(t, c, "rebuild")
    PROVE  /\ c \in Cells /\ t = Owner(c) /\ c = Min(todo[t]) /\ c \in todo[t] /\ Cur(c)
           /\ Stage(c) = 2 /\ left[t] % 10 = 2
           /\ \A d \in Cells : Stage(d) = 2 \/ Stage(d) = 3
           /\ j[t] \in Nat /\ Gone(c) = j[t]
           /\ dest[t] = NULL => Moved(c) = j[t]
           /\ dest[t] # NULL => Moved(c) = j[t] + 1
           /\ SourceCell(c, at, lo, hi, from, cnt)
<1>1. /\ c \in Cells /\ t = Owner(c) /\ c = Min(todo[t]) /\ c \in todo[t]
      /\ left[t] \in Nat /\ PhaseAfter(left[t]) = "rebuild"
  BY AtOwn
<1>2. left[t] % 10 = 2
  BY <1>1, PhaseNumbers
<1>3. Stage(c) = 2 /\ \A d \in Cells : Stage(d) = 2 \/ Stage(d) = 3
  <2>1. 2 \in 1 .. 9
    OBVIOUS
  <2>2. Stage(c) = 2 /\ \A d \in Cells : Stage(d) \in {2, 2 + 1}
    BY <1>2, <2>1, StageAt
  <2> QED
    BY <2>2
<1>4. Cur(c) /\ j[t] \in Nat
  <2>1. RebuildOk(at, hi)
    BY DEF Grid
  <2> QED
    BY <1>1, <2>1 DEF Cur, RebuildOk
<1>5. Gone(c) = j[t] /\ (dest[t] = NULL => Moved(c) = j[t]) /\ (dest[t] # NULL => Moved(c) = j[t] + 1)
  <2>1. Gone(c) = j[Owner(c)] /\ Moved(c) = j[Owner(c)] + (IF dest[Owner(c)] = NULL THEN 0 ELSE 1)
    BY <1>4 DEF Gone, Moved
  <2>2. Gone(c) = j[t] /\ Moved(c) = j[t] + (IF dest[t] = NULL THEN 0 ELSE 1)
    BY <1>1, <2>1
  <2> QED
    BY <1>4, <2>2
<1>6. SourceCell(c, at, lo, hi, from, cnt)
  <2>1. CellsOk(at, lo, hi, from, cnt) /\ Stage(c) <= 2
    BY <1>3 DEF Grid
  <2> QED
    BY <1>1, <2>1 DEF CellsOk
<1> QED
  BY <1>1, <1>2, <1>3, <1>4, <1>5, <1>6

\* Where the thread is in the source, and which particle it finds there.
LEMMA SourceAt ==
    ASSUME RoundInv, Types, NEW at, NEW lo, NEW hi, NEW who, NEW from, NEW cnt,
           Grid(at, lo, hi, who, from, cnt), NEW t \in Threads, NEW c, At(t, c, "rebuild"),
           NEW g, g = <<1 - cells, c>>, j[t] < cnt[g]
    PROVE  /\ g \in Heads /\ cnt[g] \in Nat /\ cnt[g] = cnumPars[1 - cells][c]
           /\ j[t] \div ParticlesPerCell <= hi[g] /\ hi[g] = Last(cnt[g])
           /\ Source(t, c) = at[g][j[t] \div ParticlesPerCell]
           /\ SourceSlot(t, c) = PlaceOf(at, g, j[t])
           /\ Placed(lo, hi, g, j[t])
           /\ Held(SourceSlot(t, c)) = who[g][j[t]]
<1>1. /\ c \in Cells /\ t = Owner(c) /\ c = Min(todo[t]) /\ Stage(c) = 2
      /\ j[t] \in Nat /\ Gone(c) = j[t] /\ SourceCell(c, at, lo, hi, from, cnt)
  BY AtRebuild
<1>2. cells \in {0, 1}
  BY DEF Types
<1>3. g \in Heads /\ cnt[g] \in Nat
  <2>1. g \in Heads
    BY <1>1, <1>2, HeadsOf
  <2> QED
    BY <2>1 DEF Grid, Contents, Counts
<1>4. hi[g] = Last(cnt[g]) /\ cnt[g] = cnumPars[1 - cells][c]
  BY <1>1 DEF SourceCell
<1>5. j[t] \div ParticlesPerCell <= hi[g]
  BY <1>1, <1>3, <1>4, LastOf
<1>6. Source(t, c) = at[g][j[t] \div ParticlesPerCell]
  <2>1. CASE j[t] = 0
    <3>1. 0 \div ParticlesPerCell = 0
      BY Sizes
    <3>2. at[g][0] = g
      BY <1>3 DEF Grid, HeadsFirst
    <3>3. Source(t, c) = g
      BY <2>1 DEF Source
    <3> QED
      BY <2>1, <3>1, <3>2, <3>3
  <2>2. CASE j[t] # 0
    <3>1. RebuildOk(at, hi)
      BY DEF Grid
    <3>2. cell2[t] = IF j[t] \div ParticlesPerCell <= hi[<<1 - cells, Min(todo[t])>>]
                     THEN at[<<1 - cells, Min(todo[t])>>][j[t] \div ParticlesPerCell] ELSE NULL
      BY <2>2, <3>1 DEF RebuildOk
    <3> QED
      BY <1>1, <1>5, <2>2, <3>2 DEF Source
  <2> QED
    BY <2>1, <2>2
<1>7. SourceSlot(t, c) = PlaceOf(at, g, j[t])
  BY <1>6 DEF SourceSlot, PlaceOf
<1>8. Placed(lo, hi, g, j[t])
  <2>1. Contents(who, from, cnt, loaded) /\ CellsOk(at, lo, hi, from, cnt) /\ RebuildOk(at, hi)
    BY DEF Grid
  <2>2. PICK i \in Nat : i = j[t]
    BY <1>1
  <2>3. Stage(c) <= 2 /\ Gone(c) <= i
    BY <1>1, <2>2
  <2>5. i < cnt[<<1 - cells, c>>]
    BY <2>2
  <2>4. Placed(lo, hi, <<1 - cells, c>>, i)
    BY <1>1, <1>2, <2>1, <2>3, <2>5, SourcePlaced
  <2> QED
    BY <2>2, <2>4
<1>9. Held(PlaceOf(at, g, j[t])) = who[g][j[t]]
  <2>1. SourcesOk(at, who, cnt)
    BY DEF Grid
  <2>2. PICK i \in Nat : i = j[t]
    BY <1>1
  <2>3. Stage(c) <= 2 /\ Gone(c) <= i
    BY <1>1, <2>2
  <2>4. i < cnt[<<1 - cells, c>>]
    BY <2>2
  <2>5. Held(PlaceOf(at, <<1 - cells, c>>, i)) = who[<<1 - cells, c>>][i]
    BY <1>1, <2>1, <2>3, <2>4 DEF SourcesOk
  <2> QED
    BY <2>2, <2>5
<1> QED
  BY <1>3, <1>4, <1>5, <1>6, <1>7, <1>8, <1>9

\* The other cells do not notice.
LEMMA OthersGone ==
    ASSUME RoundInv, NEW t \in Threads, NEW c, NEW phase, At(t, c, phase), dest[t] = NULL \/ todo'[t] = todo[t],
           \A u \in Threads : u # t => todo'[u] = todo[u] /\ j'[u] = j[u] /\ dest'[u] = dest[u],
           todo'[t] = todo[t] \/ (j'[t] = 0 /\ dest'[t] = NULL),
           NEW d \in Cells, d # c
    PROVE  Gone(d)' = Gone(d) /\ Moved(d)' = Moved(d)
<1>1. t = Owner(c) /\ c = Min(todo[t])
  BY AtOwn
<1>2. PICK u \in Threads : u = Owner(d)
  BY OneOwner
<1>3. CASE u # t
  <2>1. Cur(d)' <=> Cur(d)
    BY <1>2, <1>3 DEF Cur
  <2> QED
    BY <1>2, <1>3, <2>1 DEF Gone, Moved
<1>4. CASE u = t
  <2>1. ~Cur(d)
    BY <1>1, <1>2, <1>4 DEF Cur
  <2>2. CASE todo'[t] = todo[t]
    <3>1. ~Cur(d)'
      BY <1>2, <1>4, <2>1, <2>2 DEF Cur
    <3> QED
      BY <2>1, <3>1 DEF Gone, Moved
  <2>3. CASE j'[t] = 0 /\ dest'[t] = NULL
    BY <1>2, <1>4, <2>1, <2>3 DEF Gone, Moved
  <2> QED
    BY <2>2, <2>3
<1> QED
  BY <1>3, <1>4

\* Where a particle of the source goes: to the cell of its position.
LEMMA DestinationAt ==
    ASSUME RoundInv, Types, NEW at, NEW lo, NEW hi, NEW who, NEW from, NEW cnt,
           Grid(at, lo, hi, who, from, cnt), NEW t \in Threads, NEW c, At(t, c, "rebuild"),
           NEW g, g = <<1 - cells, c>>, j[t] < cnt[g], from[g] = j[t],
           NEW d, d = Destination(t, c), NEW h, h = <<cells, d>>
    PROVE  /\ d \in Cells /\ d = pos[who[g][j[t]]] /\ who[g][j[t]] \in Particles
           /\ h \in Heads /\ g \in Heads /\ g # h
           /\ LiveCell(d, at, lo, hi, from, cnt)
           /\ last_cells[d] = at[h][hi[h]]
           /\ cnt[h] \in Nat /\ cnt[h] = cnumPars[cells][d] /\ from[h] = 0 /\ lo[h] = 1
           /\ hi[h] = Last(cnt[h]) /\ hi[h] \in Nat /\ nextp[h] = First(at, lo, hi, h)
<1>1. g \in Heads /\ cnt[g] \in Nat /\ Held(SourceSlot(t, c)) = who[g][j[t]]
  BY SourceAt
<1>2. j[t] \in Nat /\ \A b \in Cells : Stage(b) = 2 \/ Stage(b) = 3
  BY AtRebuild
<1>3. Contents(who, from, cnt, loaded)
  BY DEF Grid
<1>4. who[g][j[t]] \in Particles
  <2>1. j[t] \in Int /\ Holds(from, cnt, g, j[t])
    BY <1>2 DEF Holds
  <2>2. who[g][j[t]] \in 1 .. loaded
    BY <1>1, <1>3, <2>1 DEF Contents
  <2>3. loaded \in Nat /\ loaded <= numParticles
    BY Sizes DEF Types
  <2> QED
    BY <2>2, <2>3, Sizes DEF Particles
<1>5. d = pos[who[g][j[t]]] /\ d \in Cells
  <2>1. d = pos[who[g][j[t]]]
    BY <1>1 DEF Destination
  <2> QED
    BY <1>4, <2>1 DEF Types
<1>6. h \in Heads /\ g # h
  <2>1. cells \in {0, 1}
    BY DEF Types
  <2> QED
    BY <1>5, <2>1, HeadsOf
<1>7. LiveCell(d, at, lo, hi, from, cnt)
  <2>1. CellsOk(at, lo, hi, from, cnt) /\ Stage(d) >= 2
    BY <1>2, <1>5 DEF Grid
  <2> QED
    BY <1>5, <2>1 DEF CellsOk
<1>8. last_cells[d] = at[h][hi[h]]
  <2>1. TailsOk(at, hi)
    BY DEF Grid
  <2> QED
    BY <1>2, <1>5, <2>1 DEF TailsOk
<1>9. cnt[h] \in Nat
  BY <1>3, <1>6 DEF Contents, Counts
<1>10. /\ cnt[h] = cnumPars[cells][d] /\ from[h] = 0 /\ lo[h] = 1
       /\ hi[h] = Last(cnt[h]) /\ nextp[h] = First(at, lo, hi, h)
  BY <1>7 DEF LiveCell
<1>11. hi[h] \in Nat
  BY <1>9, <1>10, LastOf
<1> QED
  BY <1>1, <1>4, <1>5, <1>6, <1>7, <1>8, <1>9, <1>10, <1>11

\* A place in the destination is reserved for the next particle of the source.
LEMMA ReserveGrid ==
    ASSUME RoundInv, Types, Gridded, NEW t \in Threads, NEW c, Reserve(t, c)
    PROVE  Types' /\ Gridded'
<1>1. PICK at, lo, hi, who, from, cnt : Grid(at, lo, hi, who, from, cnt)
  BY DEF Gridded
<1>2. /\ At(t, c, "rebuild") /\ dest[t] = NULL /\ j[t] < cnumPars[1 - cells][c]
      /\ entered' = entered /\ left' = left /\ cells' = cells /\ slot' = slot
      /\ loaded' = loaded /\ pool_id' = pool_id
      /\ pos' = pos /\ density' = density /\ force' = force
      /\ todo' = todo /\ j' = j /\ cell2' = cell2
  BY DEF Reserve, barrierVars, initVars, particleVars
<1>3. /\ c \in Cells /\ t = Owner(c) /\ c = Min(todo[t]) /\ c \in todo[t]
      /\ Stage(c) = 2 /\ j[t] \in Nat /\ Moved(c) = j[t]
      /\ SourceCell(c, at, lo, hi, from, cnt)
      /\ \A b \in Cells : Stage(b) = 2 \/ Stage(b) = 3
  BY <1>1, <1>2, AtRebuild
<1>4. PICK g : g = <<1 - cells, c>>
  OBVIOUS
<1>5. from[g] = j[t] /\ cnt[g] = cnumPars[1 - cells][c] /\ j[t] < cnt[g]
  BY <1>2, <1>3, <1>4 DEF SourceCell
<1>6. PICK d : d = Destination(t, c)
  OBVIOUS
<1>7. PICK h : h = <<cells, d>>
  OBVIOUS
<1>8. /\ d \in Cells /\ d = pos[who[g][j[t]]] /\ who[g][j[t]] \in Particles
      /\ h \in Heads /\ g \in Heads /\ g # h
      /\ last_cells[d] = at[h][hi[h]]
      /\ cnt[h] \in Nat /\ cnt[h] = cnumPars[cells][d] /\ from[h] = 0 /\ lo[h] = 1
      /\ hi[h] = Last(cnt[h]) /\ hi[h] \in Nat /\ nextp[h] = First(at, lo, hi, h)
  BY <1>1, <1>2, <1>4, <1>5, <1>6, <1>7, DestinationAt
<1>9. cells \in {0, 1} /\ 1 - cells \in {0, 1} /\ cells # 1 - cells
  BY DEF Types
<1>10. \A b \in Cells : /\ <<cells, b>> \in Heads /\ <<1 - cells, b>> \in Heads /\ <<1 - cells, b>> # h
                        /\ <<cells, b>> # g
                        /\ (b # d => <<cells, b>> # h) /\ (b # c => <<1 - cells, b>> # g)
  <2> SUFFICES ASSUME NEW b \in Cells
               PROVE  /\ <<cells, b>> \in Heads /\ <<1 - cells, b>> \in Heads /\ <<1 - cells, b>> # h
                      /\ <<cells, b>> # g
                      /\ (b # d => <<cells, b>> # h) /\ (b # c => <<1 - cells, b>> # g)
    OBVIOUS
  <2>1. <<cells, b>> \in Heads /\ <<1 - cells, b>> \in Heads
    BY <1>9, HeadsOf
  <2>2. <<1 - cells, b>> # h /\ <<cells, b>> # g /\ (b # d => <<cells, b>> # h)
    BY <1>4, <1>7, <1>9
  <2>3. b # c => <<1 - cells, b>> # g
    BY <1>4
  <2> QED
    BY <2>1, <2>2, <2>3
<1>11. PICK np \in Nat : np = cnt[h]
  BY <1>8
<1>12. PICK node : /\ Grows(t, np, at[h][hi[h]], node)
                   /\ last_cells' = [last_cells EXCEPT ![d] = node]
                   /\ cnumPars' = [cnumPars EXCEPT ![cells][d] = np + 1]
                   /\ dest' = [dest EXCEPT ![t] = <<node, np % ParticlesPerCell>>]
  <2>1. PICK node : node = IF Full(np) THEN FirstFree(t) ELSE last_cells[d]
    OBVIOUS
  <2>2. /\ IF Full(np) THEN GetCell(t, last_cells[d]) ELSE UNCHANGED <<nextp, poolVars>>
        /\ last_cells' = [last_cells EXCEPT ![d] = node]
        /\ cnumPars' = [cnumPars EXCEPT ![cells][d] = np + 1]
        /\ dest' = [dest EXCEPT ![t] = <<node, np % ParticlesPerCell>>]
    BY <1>6, <1>8, <1>11, <2>1 DEF Reserve
  <2>3. Grows(t, np, last_cells[d], node)
    BY <2>1, <2>2 DEF Grows
  <2> QED
    BY <1>8, <2>2, <2>3
<1>13. Lists(nextp, pool, used, at, lo, hi) /\ HeadsFirst(at) /\ Contents(who, from, cnt, loaded)
  BY <1>1 DEF Grid
<1>14. /\ nextp' \in [Nodes -> Nodes \cup {NULL}] /\ pool' \in [Threads -> Blocks \cup {NULL}]
       /\ used' \in Nat /\ used' <= MaxBlocks /\ alloc' \in [Threads -> Nat \ {0}]
       /\ node \in Nodes /\ Lengthened(at, lo, hi, h, np, node)
  BY <1>8, <1>11, <1>12, <1>13, NextPlace
<1>15. PICK at2, lo2, hi2 :
          /\ Lists(nextp', pool', used', at2, lo2, hi2)
          /\ Longer(at, lo, hi, at2, lo2, hi2, h, np, node)
          /\ nextp'[h] = First(at2, lo2, hi2, h)
          /\ \A f \in Heads : f # h => nextp'[f] = nextp[f]
  BY <1>14 DEF Lengthened
<1>16. HeadsFirst(at2) /\ lo2[h] = 1 /\ hi2[h] = Last(np + 1) /\ at2[h][hi2[h]] = node
       /\ \A f \in Heads : f # h => lo2[f] = lo[f] /\ at2[f] = at[f] /\ hi2[f] = hi[f]
  BY <1>8, <1>15, LastNext DEF Longer
<1>17. PICK who2, from2, cnt2 :
          /\ Contents(who2, from2, cnt2, loaded)
          /\ from2[g] = j[t] + 1 /\ cnt2[h] = np + 1
          /\ who2[h][np] = who[g][j[t]]
          /\ \A f \in Heads : (f # g => from2[f] = from[f]) /\ (f # h => cnt2[f] = cnt[f])
          /\ \A f \in Heads, i \in Int : ~(f = h /\ i = np) => who2[f][i] = who[f][i]
  <2>1. PICK n \in Nat : n = loaded
    BY DEF Types
  <2>2. Contents(who, from, cnt, n) /\ from[g] < cnt[g]
    BY <1>5, <1>13, <2>1
  <2>3. Moves(who, from, cnt, n, g, h)
    BY <1>8, <2>2, ContentsMove
  <2> QED
    BY <1>5, <1>11, <2>1, <2>3 DEF Moves
<1>18. /\ \A f \in Heads, i \in Nat :
             Placed(lo, hi, f, i) => Placed(lo2, hi2, f, i) /\ PlaceOf(at2, f, i) = PlaceOf(at, f, i)
       /\ Placed(lo2, hi2, h, np) /\ PlaceOf(at2, h, np) = <<node, np % ParticlesPerCell>>
  <2>2. Staying(at, lo, hi, at2, lo2, hi2, h, np, node)
    BY <1>8, <1>15, PlacesStay
  <2> QED
    BY <2>2 DEF Staying
<1>19. np % ParticlesPerCell \in Slots /\ np + 1 <= numParticles
  <2>1. PICK n \in Nat : n = loaded /\ n <= numParticles
    BY Sizes DEF Types
  <2>2. Contents(who2, from2, cnt2, n)
    BY <1>17, <2>1
  <2>3. cnt2[h] - from2[h] <= n /\ from2[h] = 0
    BY <1>8, <1>17, <2>2, ContentsBound
  <2>4. np + 1 <= numParticles
    BY <1>17, <2>1, <2>3, Sizes
  <2> QED
    BY <2>4, SlotOf
<1>20. /\ cnumPars'[cells][d] = np + 1 /\ cnumPars' \in [{0, 1} -> [Cells -> -1 .. numParticles]]
       /\ \A a \in {0, 1}, b \in Cells : ~(a = cells /\ b = d) => cnumPars'[a][b] = cnumPars[a][b]
  <2>1. cnumPars \in [{0, 1} -> [Cells -> -1 .. numParticles]] /\ np + 1 \in -1 .. numParticles
    BY <1>19, Sizes DEF Types
  <2> QED
    BY <1>8, <1>9, <1>12, <2>1
<1>21. /\ last_cells' \in [Cells -> Nodes \cup {NULL}]
       /\ last_cells'[d] = node /\ \A b \in Cells : b # d => last_cells'[b] = last_cells[b]
  <2>1. last_cells \in [Cells -> Nodes \cup {NULL}]
    BY DEF Types
  <2> QED
    BY <1>8, <1>12, <1>14, <2>1
<1>22. /\ dest' \in [Threads -> (Nodes \X Slots) \cup {NULL}]
       /\ dest'[t] = PlaceOf(at2, h, np) /\ dest'[t] # NULL
       /\ \A u \in Threads : u # t => dest'[u] = dest[u]
  <2>1. dest \in [Threads -> (Nodes \X Slots) \cup {NULL}]
    BY DEF Types
  <2>2. <<node, np % ParticlesPerCell>> \in Nodes \X Slots
    BY <1>14, <1>19
  <2>3. <<node, np % ParticlesPerCell>> # NULL
    BY <2>2, NullAssumption
  <2> QED
    BY <1>12, <1>18, <2>1, <2>2, <2>3
<1>23. Types'
  <2>1. /\ cells' \in {0, 1} /\ slot' \in [Nodes -> [Slots -> Particles \cup {NULL}]]
        /\ loaded' \in 0 .. numParticles /\ pool_id' \in Threads
        /\ pos' \in [Particles -> Cells]
        /\ density' \in [Particles -> Nat] /\ force' \in [Particles -> Nat]
        /\ j' \in [Threads -> Nat] /\ cell2' \in [Threads -> Nodes \cup {NULL}]
    BY <1>2 DEF Types
  <2> QED
    BY <1>14, <1>20, <1>21, <1>22, <2>1 DEF Types
<1>24. /\ \A b \in Cells : Stage(b)' = Stage(b)
       /\ \A b \in Cells : Gone(b)' = Gone(b)
       /\ Moved(c)' = j[t] + 1
       /\ \A b \in Cells : b # c => Moved(b)' = Moved(b)
  <2>1. \A b \in Cells : Stage(b)' = Stage(b)
    BY <1>2, StageQuiet
  <2>2. \A b \in Cells : Cur(b)' <=> Cur(b)
    BY <1>2 DEF Cur
  <2>3. \A b \in Cells : Gone(b)' = Gone(b)
    BY <1>2, <2>2 DEF Gone
  <2>4. Cur(c)
    BY <1>3 DEF Cur
  <2>5. Moved(c)' = j[t] + 1
    BY <1>2, <1>3, <1>22, <2>2, <2>4 DEF Moved
  <2>6. \A b \in Cells : b # c => Moved(b)' = Moved(b)
    <3> SUFFICES ASSUME NEW b \in Cells, b # c PROVE Moved(b)' = Moved(b)
      OBVIOUS
    <3> QED
      BY <1>2, <1>22, OthersGone
  <2> QED
    BY <2>1, <2>3, <2>5, <2>6
<1>25. CellsOk(at2, lo2, hi2, from2, cnt2)'
  <2> SUFFICES ASSUME NEW b \in Cells
               PROVE  /\ Stage(b)' >= 2 => LiveCell(b, at2, lo2, hi2, from2, cnt2)'
                      /\ Stage(b)' <= 1 => EmptyCell(from2, cnt2, lo2, hi2, <<cells, b>>)'
                      /\ Stage(b)' <= 2 => SourceCell(b, at2, lo2, hi2, from2, cnt2)'
                      /\ Stage(b)' >= 3 => EmptyCell(from2, cnt2, lo2, hi2, <<1 - cells, b>>)'
    BY DEF CellsOk
  <2>1. CellsOk(at, lo, hi, from, cnt)
    BY <1>1 DEF Grid
  <2>2. LiveCell(b, at2, lo2, hi2, from2, cnt2)'
    <3>1. CASE b = d
      <4>1. cnumPars'[cells][b] = np + 1 /\ from2[h] = 0 /\ h = <<cells, b>>
        BY <1>7, <1>8, <1>17, <1>20, <3>1
      <4> QED
        BY <1>2, <1>15, <1>16, <1>17, <4>1 DEF LiveCell
    <3>2. CASE b # d
      <4>1. PICK f : f = <<cells, b>>
        OBVIOUS
      <4>2. f \in Heads /\ f # h /\ f # g
        BY <1>10, <3>2, <4>1
      <4>3. cnumPars'[cells][b] = cnumPars[cells][b] /\ nextp'[f] = nextp[f]
        BY <1>9, <1>15, <1>20, <3>2, <4>2
      <4>4. First(at2, lo2, hi2, f) = First(at, lo, hi, f)
        BY <1>16, <4>2 DEF First
      <4>5. LiveCell(b, at, lo, hi, from, cnt)
        <5>1. Stage(b) >= 2
          BY <1>3
        <5> QED
          BY <2>1, <5>1 DEF CellsOk
      <4>6. /\ from[f] = 0 /\ cnt[f] = cnumPars[cells][b] /\ lo[f] = 1 /\ hi[f] = Last(cnt[f])
            /\ nextp[f] = First(at, lo, hi, f)
        BY <4>1, <4>5 DEF LiveCell
      <4>7. /\ from2[f] = 0 /\ cnt2[f] = cnumPars'[cells][b] /\ lo2[f] = 1 /\ hi2[f] = Last(cnt2[f])
            /\ nextp'[f] = First(at2, lo2, hi2, f)
        BY <1>16, <1>17, <4>2, <4>3, <4>4, <4>6
      <4> QED
        BY <1>2, <4>1, <4>7 DEF LiveCell
    <3> QED
      BY <3>1, <3>2
  <2>3. PICK f : f = <<1 - cells, b>>
    OBVIOUS
  <2>4. f \in Heads /\ f # h /\ (b # c => f # g)
    BY <1>10, <2>3
  <2>5. Stage(b) <= 2 => SourceCell(b, at2, lo2, hi2, from2, cnt2)'
    <3> SUFFICES ASSUME Stage(b) <= 2 PROVE SourceCell(b, at2, lo2, hi2, from2, cnt2)'
      OBVIOUS
    <3>1. SourceCell(b, at, lo, hi, from, cnt)
      BY <2>1 DEF CellsOk
    <3>2. /\ from[f] = Moved(b) /\ cnt[f] = cnumPars[1 - cells][b]
          /\ lo[f] = (IF Gone(b) < ParticlesPerCell THEN 1 ELSE Gone(b) \div ParticlesPerCell)
          /\ hi[f] = Last(cnt[f])
          /\ Gone(b) < ParticlesPerCell => nextp[f] = First(at, lo, hi, f)
      BY <2>3, <3>1 DEF SourceCell
    <3>3. from2[f] = Moved(b)'
      <4>1. CASE b = c
        BY <1>4, <1>17, <1>24, <2>3, <4>1
      <4>2. CASE b # c
        BY <1>17, <1>24, <2>4, <3>2, <4>2
      <4> QED
        BY <4>1, <4>2
    <3>4. cnumPars'[1 - cells][b] = cnumPars[1 - cells][b] /\ nextp'[f] = nextp[f]
      BY <1>9, <1>15, <1>20, <2>4
    <3>5. First(at2, lo2, hi2, f) = First(at, lo, hi, f)
      BY <1>16, <2>4 DEF First
    <3>6. /\ cnt2[f] = cnumPars'[1 - cells][b]
          /\ lo2[f] = (IF Gone(b)' < ParticlesPerCell THEN 1 ELSE Gone(b)' \div ParticlesPerCell)
          /\ hi2[f] = Last(cnt2[f])
      BY <1>16, <1>17, <1>24, <2>4, <3>2, <3>4
    <3>7. Gone(b)' < ParticlesPerCell => nextp'[f] = First(at2, lo2, hi2, f)
      BY <1>24, <3>2, <3>4, <3>5
    <3> QED
      BY <1>2, <2>3, <3>3, <3>6, <3>7 DEF SourceCell
  <2>6. Stage(b) >= 3 => EmptyCell(from2, cnt2, lo2, hi2, <<1 - cells, b>>)'
    <3> SUFFICES ASSUME Stage(b) >= 3 PROVE EmptyCell(from2, cnt2, lo2, hi2, <<1 - cells, b>>)'
      OBVIOUS
    <3>1. EmptyCell(from, cnt, lo, hi, f)
      BY <2>1, <2>3 DEF CellsOk
    <3>2. b # c
      BY <1>3
    <3>3. EmptyCell(from2, cnt2, lo2, hi2, f)
      BY <1>16, <1>17, <2>4, <3>1, <3>2 DEF EmptyCell
    <3> QED
      BY <1>2, <2>3, <3>3 DEF EmptyCell
  <2>7. Stage(b)' = Stage(b) /\ ~(Stage(b) <= 1)
    BY <1>3, <1>24
  <2> QED
    BY <2>2, <2>5, <2>6, <2>7
<1>26. TailsOk(at2, hi2)'
  <2> SUFFICES ASSUME NEW b \in Cells, (Stage(b) \in {2, 3})'
               PROVE  (last_cells[b] = at2[<<cells, b>>][hi2[<<cells, b>>]])'
    BY DEF TailsOk
  <2>1. PICK f : f = <<cells, b>> /\ f \in Heads /\ (b # d => f # h)
    BY <1>10
  <2>2. SUFFICES last_cells'[b] = at2[f][hi2[f]]
    BY <1>2, <2>1
  <2>3. CASE b = d
    BY <1>7, <1>16, <1>21, <2>1, <2>3
  <2>4. CASE b # d
    <3>1. TailsOk(at, hi) /\ (Stage(b) = 2 \/ Stage(b) = 3)
      BY <1>1, <1>3 DEF Grid
    <3>2. last_cells[b] = at[f][hi[f]]
      BY <2>1, <3>1 DEF TailsOk
    <3> QED
      BY <1>16, <1>21, <2>1, <2>4, <3>2
  <2> QED
    BY <2>3, <2>4
<1>27. \A place : Held(place)' = Held(place)
  BY <1>2 DEF Held
<1>28. SourcesOk(at2, who2, cnt2)'
  <2> SUFFICES ASSUME NEW b \in Cells, NEW i \in Nat,
                      (Stage(b) <= 2 /\ Gone(b) <= i /\ i < cnt2[<<1 - cells, b>>])'
               PROVE  (Held(PlaceOf(at2, <<1 - cells, b>>, i)) = who2[<<1 - cells, b>>][i])'
    BY DEF SourcesOk
  <2>0. PICK f : f = <<1 - cells, b>>
    OBVIOUS
  <2>1. f = <<1 - cells, b>> /\ f \in Heads /\ f # h
    BY <1>10, <2>0
  <2>2. Stage(b) <= 2 /\ Gone(b) <= i /\ i < cnt[f]
    BY <1>2, <1>17, <1>24, <2>1
  <2>3. SourcesOk(at, who, cnt)
    BY <1>1 DEF Grid
  <2>4. Held(PlaceOf(at, f, i)) = who[f][i]
    BY <2>1, <2>2, <2>3 DEF SourcesOk
  <2>5. PlaceOf(at2, f, i) = PlaceOf(at, f, i) /\ who2[f][i] = who[f][i]
    BY <1>16, <1>17, <2>1 DEF PlaceOf
  <2> QED
    BY <1>2, <1>27, <2>1, <2>4, <2>5
<1>29. ASSUME NEW b \in Cells, NEW i \in Nat, NEW f, f = <<cells, b>>, i < cnt[f]
       PROVE  /\ f \in Heads /\ ~(f = h /\ i = np) /\ i < cnt2[f]
              /\ PlaceOf(at2, f, i) = PlaceOf(at, f, i) /\ Placed(lo2, hi2, f, i)
              /\ who2[f][i] = who[f][i]
  <2>1. f \in Heads
    BY <1>10, <1>29
  <2>2. ~(f = h /\ i = np) /\ i < cnt2[f]
    <3>1. CASE f = h
      BY <1>11, <1>17, <1>29, <3>1
    <3>2. CASE f # h
      BY <1>17, <1>29, <2>1, <3>2
    <3> QED
      BY <3>1, <3>2
  <2>3. Placed(lo, hi, f, i)
    <3>1. CellsOk(at, lo, hi, from, cnt) /\ Stage(b) >= 2
      BY <1>1, <1>3 DEF Grid
    <3> QED
      BY <1>9, <1>13, <1>29, <3>1, LivePlaced
  <2> QED
    BY <1>17, <1>18, <2>1, <2>2, <2>3
<1>30. StoredOk(at2, who2, cnt2)'
  <2> SUFFICES ASSUME NEW b \in Cells, NEW i \in Nat, (i < cnt2[<<cells, b>>])'
               PROVE  (\/ Held(PlaceOf(at2, <<cells, b>>, i)) = who2[<<cells, b>>][i]
                       \/ \E u \in Threads : dest[u] = PlaceOf(at2, <<cells, b>>, i))'
    BY DEF StoredOk
  <2>1. PICK f : f = <<cells, b>> /\ f \in Heads
    BY <1>10
  <2>2. i < cnt2[f]
    BY <1>2, <2>1
  <2>3. SUFFICES \/ Held(PlaceOf(at2, f, i))' = who2[f][i]
                 \/ \E u \in Threads : dest'[u] = PlaceOf(at2, f, i)
    BY <1>2, <2>1
  <2>4. CASE f = h /\ i = np
    BY <1>22, <2>4
  <2>5. CASE ~(f = h /\ i = np)
    <3>1. i < cnt[f]
      <4>1. CASE f = h
        BY <1>11, <1>17, <2>2, <2>5, <4>1
      <4>2. CASE f # h
        BY <1>17, <2>1, <2>2, <4>2
      <4> QED
        BY <4>1, <4>2
    <3>2. StoredOk(at, who, cnt) /\ Stage(b) >= 2
      BY <1>1, <1>3 DEF Grid
    <3>3. \/ Held(PlaceOf(at, f, i)) = who[f][i]
          \/ \E u \in Threads : dest[u] = PlaceOf(at, f, i)
      BY <2>1, <3>1, <3>2 DEF StoredOk
    <3>4. PlaceOf(at2, f, i) = PlaceOf(at, f, i) /\ who2[f][i] = who[f][i] /\ Placed(lo2, hi2, f, i)
      BY <1>29, <2>1, <3>1
    <3>5. PlaceOf(at2, f, i) # NULL
      <4>1. PICK us \in Nat : us = used' /\ us <= MaxBlocks /\ Lists(nextp', pool', us, at2, lo2, hi2)
        BY <1>14, <1>15
      <4> QED
        BY <1>16, <2>1, <3>4, <4>1, PlacesDiffer
    <3>6. CASE \E u \in Threads : dest[u] = PlaceOf(at, f, i)
      <4>1. PICK u \in Threads : dest[u] = PlaceOf(at, f, i)
        BY <3>6
      <4>2. u # t
        BY <1>2, <3>4, <3>5, <4>1
      <4> QED
        BY <1>22, <3>4, <4>1, <4>2
    <3>7. CASE Held(PlaceOf(at, f, i)) = who[f][i]
      BY <1>27, <3>4, <3>7
    <3> QED
      BY <3>3, <3>6, <3>7
  <2> QED
    BY <2>4, <2>5
<1>31. ReservedOk(at, who, cnt)
  BY <1>1 DEF Grid
<1>32. ASSUME NEW u \in Threads, u # t, dest[u] # NULL
       PROVE  Reserved(u, at2, who2, cnt2)' /\ dest[u] # dest'[t]
  <2>1. Reserved(u, at, who, cnt)
    BY <1>31, <1>32 DEF ReservedOk
  <2>2. PICK b \in Cells, i \in Nat :
           /\ Stage(b) >= 2 /\ i < cnt[<<cells, b>>] /\ dest[u] = PlaceOf(at, <<cells, b>>, i)
           /\ who[<<cells, b>>][i] = who[<<1 - cells, Min(todo[u])>>][j[u]]
    BY <2>1 DEF Reserved
  <2>3. PICK f : f = <<cells, b>>
    OBVIOUS
  <2>4. /\ f \in Heads /\ ~(f = h /\ i = np) /\ i < cnt2[f]
        /\ PlaceOf(at2, f, i) = PlaceOf(at, f, i) /\ Placed(lo2, hi2, f, i)
        /\ who2[f][i] = who[f][i]
    BY <1>29, <2>2, <2>3
  <2>5. who2[<<1 - cells, Min(todo[u])>>][j[u]] = who[<<1 - cells, Min(todo[u])>>][j[u]]
    <3>1. RebuildOk(at, hi)
      BY <1>1 DEF Grid
    <3>8. j[u] # 0 \/ dest[u] # NULL => At(u, Min(todo[u]), "rebuild")
      BY <3>1 DEF RebuildOk
    <3>6. At(u, Min(todo[u]), "rebuild")
      BY <1>32, <3>8
    <3>7. j[u] \in Nat
      BY <3>1 DEF RebuildOk
    <3>9. j[u] \in Int
      BY <3>7
    <3>2. At(u, Min(todo[u]), "rebuild") /\ j[u] \in Int
      BY <3>6, <3>9
    <3>3. PICK m : m = Min(todo[u])
      OBVIOUS
    <3>4. m \in Cells
      BY <3>2, <3>3, AtOwn
    <3>5. <<1 - cells, m>> \in Heads /\ <<1 - cells, m>> # h
      BY <1>10, <3>4
    <3> QED
      BY <1>17, <3>2, <3>3, <3>5
  <2>6. /\ Stage(b)' >= 2 /\ i < cnt2[f] /\ dest'[u] = PlaceOf(at2, f, i)
        /\ who2[f][i] = who2[<<1 - cells, Min(todo[u])>>][j[u]]
    BY <1>22, <1>24, <1>32, <2>2, <2>3, <2>4, <2>5
  <2>7. Reserved(u, at2, who2, cnt2)'
    BY <1>2, <2>3, <2>6 DEF Reserved
  <2>8. PlaceOf(at2, f, i) # PlaceOf(at2, h, np)
    <3>1. PICK us \in Nat : us = used' /\ us <= MaxBlocks /\ Lists(nextp', pool', us, at2, lo2, hi2)
      BY <1>14, <1>15
    <3>2. HeadsFirst(at2) /\ h \in Heads /\ Placed(lo2, hi2, h, np)
      BY <1>8, <1>16, <1>18
    <3>3. f \in Heads /\ Placed(lo2, hi2, f, i) /\ ~(f = h /\ i = np)
      BY <2>4
    <3>4. PlaceOf(at2, f, i) = PlaceOf(at2, h, np) => f = h /\ i = np
      BY <3>1, <3>2, <3>3, PlacesDiffer
    <3> QED
      BY <3>3, <3>4
  <2> QED
    BY <1>22, <2>2, <2>3, <2>4, <2>7, <2>8
<1>33. Reserved(t, at2, who2, cnt2)'
  <2>1. /\ Stage(d)' >= 2 /\ np < cnt2[h] /\ dest'[t] = PlaceOf(at2, h, np)
        /\ who2[h][np] = who2[<<1 - cells, Min(todo[t])>>][j[t]]
    <3>2. g = <<1 - cells, Min(todo[t])>>
      BY <1>3, <1>4
    <3>4. PICK k \in Int : k = j[t]
      BY <1>3
    <3>3. who2[g][j[t]] = who[g][j[t]]
      <4>1. ~(g = h /\ k = np)
        BY <1>8
      <4>2. who2[g][k] = who[g][k]
        BY <1>8, <1>17, <4>1
      <4> QED
        BY <3>4, <4>2
    <3>1. who2[g][j[t]] = who[g][j[t]] /\ g = <<1 - cells, Min(todo[t])>>
      BY <3>2, <3>3
    <3>5. Stage(d)' >= 2
      BY <1>3, <1>8, <1>24
    <3>6. np < cnt2[h] /\ dest'[t] = PlaceOf(at2, h, np) /\ who2[h][np] = who[g][j[t]]
      BY <1>17, <1>22
    <3> QED
      BY <3>1, <3>5, <3>6
  <2> QED
    BY <1>2, <1>7, <1>8, <2>1 DEF Reserved
<1>34. ReservedOk(at2, who2, cnt2)'
  <2>1. ASSUME NEW u \in Threads, dest'[u] # NULL PROVE Reserved(u, at2, who2, cnt2)'
    BY <1>22, <1>32, <1>33, <2>1
  <2>2. ASSUME NEW u \in Threads, NEW v \in Threads, u # v, dest'[u] # NULL PROVE dest'[u] # dest'[v]
    <3>1. CASE u = t
      <4>1. dest'[v] = dest[v]
        BY <1>22, <2>2, <3>1
      <4>2. CASE dest[v] = NULL
        BY <2>2, <4>1, <4>2
      <4>3. CASE dest[v] # NULL
        BY <1>32, <2>2, <3>1, <4>1, <4>3
      <4> QED
        BY <4>2, <4>3
    <3>2. CASE v = t
      BY <1>22, <1>32, <2>2, <3>2
    <3>3. CASE u # t /\ v # t
      BY <1>22, <1>31, <2>2, <3>3 DEF ReservedOk
    <3> QED
      BY <3>1, <3>2, <3>3
  <2> QED
    BY <2>1, <2>2 DEF ReservedOk
<1>35. PositionsOk(who2, from2, cnt2)'
  <2>0. PositionsOk(who, from, cnt)
    BY <1>1 DEF Grid
  <2>1. ASSUME NEW b \in Cells, NEW i \in Nat
        PROVE  /\ Holds(from2, cnt2, <<cells, b>>, i) =>
                     /\ pos[who2[<<cells, b>>][i]] \in Neighbours(b)
                     /\ Stage(b) <= 8 => pos[who2[<<cells, b>>][i]] = b
               /\ Holds(from2, cnt2, <<1 - cells, b>>, i) => pos[who2[<<1 - cells, b>>][i]] \in Neighbours(b)
    <3>1. PICK f : f = <<cells, b>> /\ f \in Heads /\ f # g /\ (b # d => f # h)
      BY <1>10
    <3>2. ASSUME Holds(from2, cnt2, f, i)
          PROVE  pos[who2[f][i]] \in Neighbours(b) /\ (Stage(b) <= 8 => pos[who2[f][i]] = b)
      <4>1. CASE f = h /\ i = np
        <5>1. b = d
          BY <3>1, <4>1
        <5>2. pos[who2[f][i]] = d /\ d \in Neighbours(d)
          BY <1>8, <1>17, <4>1, NeighboursMutual
        <5> QED
          BY <5>1, <5>2
      <4>2. CASE ~(f = h /\ i = np)
        <5>1. Holds(from, cnt, f, i)
          <6>1. from2[f] <= i /\ i < cnt2[f] /\ from2[f] = from[f]
            BY <1>17, <3>1, <3>2 DEF Holds
          <6>2. CASE f = h
            <7>1. i < np + 1 /\ i # np
              BY <1>17, <4>2, <6>1, <6>2
            <7> QED
              BY <1>11, <6>1, <6>2, <7>1 DEF Holds
          <6>3. CASE f # h
            BY <1>17, <3>1, <6>1, <6>3 DEF Holds
          <6> QED
            BY <6>2, <6>3
        <5>2. who2[f][i] = who[f][i]
          BY <1>17, <3>1, <4>2
        <5>3. pos[who[f][i]] \in Neighbours(b) /\ (Stage(b) <= 8 => pos[who[f][i]] = b)
          BY <2>0, <3>1, <5>1 DEF PositionsOk
        <5> QED
          BY <5>2, <5>3
      <4> QED
        BY <4>1, <4>2
    <3>5. PICK e : e = <<1 - cells, b>>
      OBVIOUS
    <3>3. e = <<1 - cells, b>> /\ e \in Heads /\ e # h
      BY <1>10, <3>5
    <3>4. ASSUME Holds(from2, cnt2, e, i) PROVE pos[who2[e][i]] \in Neighbours(b)
      <4>1. from2[e] <= i /\ i < cnt2[e] /\ cnt2[e] = cnt[e] /\ who2[e][i] = who[e][i]
        BY <1>17, <3>3, <3>4 DEF Holds
      <4>2. from[e] <= i
        BY <1>3, <1>5, <1>17, <3>3, <4>1
      <4>3. Holds(from, cnt, e, i)
        BY <4>1, <4>2 DEF Holds
      <4> QED
        BY <2>0, <3>3, <4>1, <4>3 DEF PositionsOk
    <3> QED
      BY <3>1, <3>2, <3>3, <3>4
  <2> QED
    BY <1>2, <1>24, <2>1 DEF PositionsOk
<1>36. RebuildOk(at2, hi2)'
  <2>0. RebuildOk(at, hi)
    BY <1>1 DEF Grid
  <2> SUFFICES ASSUME NEW u \in Threads
               PROVE  (/\ j[u] \in Nat
                       /\ j[u] # 0 \/ dest[u] # NULL => At(u, Min(todo[u]), "rebuild")
                       /\ j[u] = 0 => cell2[u] = NULL
                       /\ j[u] # 0 => cell2[u] = IF j[u] \div ParticlesPerCell <= hi2[<<1 - cells, Min(todo[u])>>]
                                                 THEN at2[<<1 - cells, Min(todo[u])>>][j[u] \div ParticlesPerCell]
                                                 ELSE NULL)'
    BY DEF RebuildOk
  <2>1. PICK m : m = Min(todo[u])
    OBVIOUS
  <2>2. j[u] # 0 \/ dest'[u] # NULL => At(u, m, "rebuild")
    <3>1. CASE u = t
      BY <1>2, <1>3, <2>1, <3>1
    <3>2. CASE u # t
      BY <1>22, <2>0, <2>1, <3>2 DEF RebuildOk
    <3> QED
      BY <3>1, <3>2
  <2>3. At(u, m, "rebuild") => At(u, m, "rebuild")'
    BY <1>2 DEF At, Working, Started, Phase
  <2>4. j[u] # 0 => cell2[u] = IF j[u] \div ParticlesPerCell <= hi2[<<1 - cells, m>>]
                               THEN at2[<<1 - cells, m>>][j[u] \div ParticlesPerCell] ELSE NULL
    <3> SUFFICES ASSUME j[u] # 0
                 PROVE  cell2[u] = IF j[u] \div ParticlesPerCell <= hi2[<<1 - cells, m>>]
                                   THEN at2[<<1 - cells, m>>][j[u] \div ParticlesPerCell] ELSE NULL
      OBVIOUS
    <3>1. cell2[u] = IF j[u] \div ParticlesPerCell <= hi[<<1 - cells, m>>]
                     THEN at[<<1 - cells, m>>][j[u] \div ParticlesPerCell] ELSE NULL
      BY <2>0, <2>1 DEF RebuildOk
    <3>2. m \in Cells
      BY <2>2, AtOwn
    <3>3. hi2[<<1 - cells, m>>] = hi[<<1 - cells, m>>] /\ at2[<<1 - cells, m>>] = at[<<1 - cells, m>>]
      BY <1>10, <1>16, <3>2
    <3> QED
      BY <3>1, <3>3
  <2>5. j[u] \in Nat /\ (j[u] = 0 => cell2[u] = NULL)
    BY <2>0 DEF RebuildOk
  <2> QED
    BY <1>2, <2>1, <2>2, <2>3, <2>4, <2>5
<1>37. Contents(who2, from2, cnt2, loaded)'
  BY <1>2, <1>17
<1>38. Lists(nextp, pool, used, at2, lo2, hi2)' /\ HeadsFirst(at2)'
  BY <1>15, <1>16 DEF HeadsFirst
<1>39. Grid(at2, lo2, hi2, who2, from2, cnt2)'
  BY <1>25, <1>26, <1>28, <1>30, <1>34, <1>35, <1>36, <1>37, <1>38 DEF Grid
<1> QED
  BY <1>23, <1>39 DEF Gridded

\* The place after the i-th is in the same structure or begins the next.
LEMMA SlotNext ==
    ASSUME NEW i \in Nat
    PROVE  (i + 1) \div ParticlesPerCell =
               IF i % ParticlesPerCell = ParticlesPerCell - 1
               THEN (i \div ParticlesPerCell) + 1 ELSE i \div ParticlesPerCell
<1>1. PICK P \in Nat : P = ParticlesPerCell /\ P # 0
  BY Sizes
<1>2. PICK q \in Nat : q = i \div ParticlesPerCell
  BY SlotOf
<1>3. PICK r \in Nat : r = i % ParticlesPerCell /\ r < P /\ i = P * q + r
  <2>1. i % ParticlesPerCell \in Slots /\ i = ParticlesPerCell * (i \div ParticlesPerCell) + (i % ParticlesPerCell)
    BY SlotOf
  <2> QED
    BY <1>1, <1>2, <2>1 DEF Slots
<1>4. PICK k \in Int : k = i + 1
  OBVIOUS
<1>5. CASE r = P - 1
  <2>1. k = P * (q + 1) + 0 /\ 0 \in 0 .. P - 1 /\ q + 1 \in Int
    BY <1>1, <1>3, <1>4, <1>5
  <2>2. k \div P = q + 1
    BY <1>1, <2>1, Quotient
  <2> QED
    BY <1>1, <1>2, <1>3, <1>4, <1>5, <2>2
<1>6. CASE r # P - 1
  <2>1. k = P * q + (r + 1) /\ r + 1 \in 0 .. P - 1
    BY <1>1, <1>3, <1>4, <1>6
  <2>2. k \div P = q
    BY <1>1, <2>1, Quotient
  <2> QED
    BY <1>1, <1>2, <1>3, <1>4, <1>6, <2>2
<1> QED
  BY <1>5, <1>6

\* The lists after structures of g have gone to a pool: they begin at v.
Freed(at, lo, hi, g, v) ==
    \E at2, lo2 :
       /\ Lists(nextp', pool', used, at2, lo2, hi)
       /\ lo2[g] = v
       /\ \A f \in Heads : /\ at2[f] = at[f] /\ nextp'[f] = nextp[f]
                           /\ f # g => lo2[f] = lo[f]

\* The first structure behind a head goes to a pool.
LEMMA SourceReturn ==
    ASSUME Types, NEW at, NEW lo, NEW hi, Lists(nextp, pool, used, at, lo, hi),
           NEW g \in Heads, NEW t \in Threads, lo[g] <= hi[g], ReturnCell(t, at[g][lo[g]])
    PROVE  /\ nextp' \in [Nodes -> Nodes \cup {NULL}] /\ pool' \in [Threads -> Blocks \cup {NULL}]
           /\ Freed(at, lo, hi, g, lo[g] + 1)
<1>1. PICK b : b = at[g][lo[g]]
  OBVIOUS
<1>2. nextp' = [nextp EXCEPT ![b] = pool[t]] /\ pool' = [pool EXCEPT ![t] = b]
  BY <1>1 DEF ReturnCell
<1>3. /\ nextp \in [Nodes -> Nodes \cup {NULL}] /\ pool \in [Threads -> Blocks \cup {NULL}]
      /\ used \in Nat /\ used <= MaxBlocks
  BY DEF Types
<1>4. b \in Blocks
  <2>1. g \in Owners /\ lo[g] \in Int /\ hi[g] \in Int
    BY OwnerKinds DEF Lists, Numbered
  <2>2. Listed(lo, hi, g, lo[g])
    BY <2>1 DEF Listed
  <2>3. b \in UsedBlocks(used)
    BY <1>1, <2>1, <2>2 DEF Lists, AllListed
  <2> QED
    BY <1>3, <2>3, UsedAreBlocks
<1>5. Blocks \subseteq Nodes /\ pool[t] \in Nodes \cup {NULL} /\ b \in Nodes /\ b \notin Heads
  BY <1>3, <1>4, OwnerKinds
<1>6. nextp' \in [Nodes -> Nodes \cup {NULL}] /\ pool' \in [Threads -> Blocks \cup {NULL}]
  BY <1>2, <1>3, <1>4, <1>5
<1>7. Returned(nextp, pool, at, lo, g, t, nextp', pool')
  <2>1. nextp'[b] = pool[t] /\ \A n \in Blocks : n # b => nextp'[n] = nextp[n]
    BY <1>2, <1>3, <1>5
  <2> QED
    BY <1>1, <1>2, <2>1 DEF Returned
<1>8. PICK us \in Nat : us = used /\ us <= MaxBlocks
  BY <1>3
<1>9. Returns(nextp', pool', us, at, lo, hi, g)
  <2>1. Lists(nextp, pool, us, at, lo, hi)
    BY <1>8
  <2> QED
    BY <1>3, <1>7, <1>8, <2>1, ListsReturn
<1>10. PICK at2, lo2 :
          /\ Lists(nextp', pool', us, at2, lo2, hi)
          /\ lo2[g] = lo[g] + 1
          /\ \A f \in Heads : at2[f] = at[f] /\ (f # g => lo2[f] = lo[f])
  BY <1>9 DEF Returns
<1>11. \A f \in Heads : nextp'[f] = nextp[f]
  BY <1>2, <1>3, <1>5, OwnerKinds
<1> QED
  BY <1>6, <1>8, <1>10, <1>11 DEF Freed

\* How far the list of a source reaches from, the particles before the n-th copied.
From(n) == IF n < ParticlesPerCell THEN 1 ELSE n \div ParticlesPerCell

\* A source structure whose particles are all copied goes to the pool of the thread.
LEMMA CopyLists ==
    ASSUME RoundInv, Types, NEW at, NEW lo, NEW hi, NEW who, NEW from, NEW cnt,
           Grid(at, lo, hi, who, from, cnt), NEW t \in Threads, NEW c, Copy(t, c),
           NEW g, g = <<1 - cells, c>>, j[t] < cnt[g]
    PROVE  /\ nextp' \in [Nodes -> Nodes \cup {NULL}] /\ pool' \in [Threads -> Blocks \cup {NULL}]
           /\ Freed(at, lo, hi, g, From(j[t] + 1))
           /\ j[t] + 1 < ParticlesPerCell => From(j[t] + 1) = lo[g] /\ j[t] < ParticlesPerCell
           /\ cell2'[t] = IF (j[t] + 1) \div ParticlesPerCell <= hi[g]
                          THEN at[g][(j[t] + 1) \div ParticlesPerCell] ELSE NULL
<1>1. At(t, c, "rebuild")
  BY DEF Copy
<1>2. /\ g \in Heads /\ cnt[g] \in Nat
      /\ j[t] \div ParticlesPerCell <= hi[g] /\ hi[g] = Last(cnt[g])
      /\ Source(t, c) = at[g][j[t] \div ParticlesPerCell]
  BY <1>1, SourceAt
<1>3. j[t] \in Nat /\ Gone(c) = j[t] /\ SourceCell(c, at, lo, hi, from, cnt)
  BY <1>1, AtRebuild
<1>4. PICK i \in Nat : i = j[t]
  BY <1>3
<1>5. PICK q \in Nat : q = i \div ParticlesPerCell
  BY SlotOf
<1>6. PICK k \in Nat : k = (i + 1) \div ParticlesPerCell
  BY SlotOf
<1>7. PICK P \in Nat : P = ParticlesPerCell /\ P # 0
  BY Sizes
<1>8. /\ (q = 0 <=> i < P) /\ (k = 0 <=> i + 1 < P)
      /\ k = IF i % ParticlesPerCell = ParticlesPerCell - 1 THEN q + 1 ELSE q
  <2>1. q = 0 <=> i < P
    BY <1>5, <1>7, SlotOf
  <2>2. PICK n \in Nat : n = i + 1
    OBVIOUS
  <2>3. n \div ParticlesPerCell = 0 <=> n < ParticlesPerCell
    BY <2>2, SlotOf
  <2>4. k = 0 <=> i + 1 < P
    BY <1>6, <1>7, <2>2, <2>3
  <2>5. k = IF i % ParticlesPerCell = ParticlesPerCell - 1 THEN q + 1 ELSE q
    BY <1>5, <1>6, SlotNext
  <2> QED
    BY <2>1, <2>4, <2>5
<1>9. /\ lo[g] = (IF i < P THEN 1 ELSE q) /\ (i < P => nextp[g] = First(at, lo, hi, g))
      /\ hi[g] \in Nat /\ q <= hi[g]
  <2>1. /\ lo[g] = (IF Gone(c) < ParticlesPerCell THEN 1 ELSE Gone(c) \div ParticlesPerCell)
        /\ Gone(c) < ParticlesPerCell => nextp[g] = First(at, lo, hi, g)
    BY <1>3 DEF SourceCell
  <2>2. hi[g] \in Nat
    BY <1>2, LastOf
  <2> QED
    BY <1>2, <1>3, <1>4, <1>5, <1>7, <2>1, <2>2
<1>10. From(j[t] + 1) = (IF i + 1 < P THEN 1 ELSE k)
  BY <1>4, <1>6, <1>7 DEF From
<1>11. Lists(nextp, pool, used, at, lo, hi) /\ HeadsFirst(at)
  BY DEF Grid
<1>12. /\ nextp \in [Nodes -> Nodes \cup {NULL}] /\ pool \in [Threads -> Blocks \cup {NULL}]
       /\ cell2 \in [Threads -> Nodes \cup {NULL}] /\ used \in Nat /\ used <= MaxBlocks
  BY DEF Types
<1>13. PICK src : src = at[g][q] /\ src = Source(t, c)
  BY <1>2, <1>4, <1>5
<1>14. PICK emptied : emptied = (i % ParticlesPerCell = ParticlesPerCell - 1)
  OBVIOUS
<1>15. /\ cell2'[t] = IF emptied THEN nextp[src] ELSE src
       /\ IF emptied /\ src \notin Heads THEN ReturnCell(t, src) ELSE UNCHANGED <<nextp, pool>>
  <2>1. /\ cell2' = [cell2 EXCEPT ![t] = IF emptied THEN nextp[src] ELSE src]
        /\ IF emptied /\ src \notin Heads THEN ReturnCell(t, src) ELSE UNCHANGED <<nextp, pool>>
    BY <1>4, <1>13, <1>14 DEF Copy
  <2> QED
    BY <1>12, <2>1
<1>16. q = 0 => src = g
  BY <1>2, <1>11, <1>13 DEF HeadsFirst
<1>17. q # 0 => src \notin Heads /\ Listed(lo, hi, g, q)
  <2> SUFFICES ASSUME q # 0 PROVE src \notin Heads /\ Listed(lo, hi, g, q)
    OBVIOUS
  <2>1. lo[g] = q
    BY <1>8, <1>9
  <2>2. Listed(lo, hi, g, q) /\ g \in Owners /\ q \in Int
    BY <1>2, <1>9, <2>1, OwnerKinds DEF Listed
  <2>3. src \in UsedBlocks(used)
    BY <1>11, <1>13, <2>2 DEF Lists, AllListed
  <2> QED
    BY <1>12, <2>2, <2>3, UsedAreBlocks, OwnerKinds
<1>18. CASE ~emptied
  <2>1. k = q /\ nextp' = nextp /\ pool' = pool /\ cell2'[t] = at[g][q]
    BY <1>8, <1>13, <1>14, <1>15, <1>18
  <2>2. lo[g] = (IF i + 1 < P THEN 1 ELSE k) /\ (i + 1 < P => i < P)
    BY <1>8, <1>9, <2>1
  <2>3. Freed(at, lo, hi, g, lo[g])
    BY <1>11, <2>1 DEF Freed
  <2>4. From(j[t] + 1) = lo[g]
    BY <1>10, <2>2
  <2>5. cell2'[t] = IF k <= hi[g] THEN at[g][k] ELSE NULL
    BY <1>9, <2>1
  <2>6. j[t] + 1 < ParticlesPerCell => j[t] < ParticlesPerCell
    BY <1>4, <1>7, <2>2
  <2> QED
    BY <1>4, <1>6, <1>12, <2>1, <2>3, <2>4, <2>5, <2>6
<1>19. CASE emptied /\ q = 0
  <2>6. i % ParticlesPerCell = ParticlesPerCell - 1
    BY <1>14, <1>19
  <2>7. k = 1
    BY <1>8, <1>19, <2>6
  <2>8. src = g /\ src \in Heads
    BY <1>2, <1>16, <1>19
  <2>9. nextp' = nextp /\ pool' = pool /\ cell2'[t] = nextp[g]
    BY <1>15, <1>19, <2>8
  <2>1. k = 1 /\ nextp' = nextp /\ pool' = pool /\ cell2'[t] = nextp[g]
    BY <2>7, <2>9
  <2>2. i < P /\ ~(i + 1 < P)
    BY <1>8, <1>19, <2>1
  <2>3. lo[g] = 1 /\ nextp[g] = First(at, lo, hi, g) /\ From(j[t] + 1) = 1
    BY <1>9, <1>10, <2>1, <2>2
  <2>4. Freed(at, lo, hi, g, lo[g])
    BY <1>11, <2>1 DEF Freed
  <2>5. cell2'[t] = IF k <= hi[g] THEN at[g][k] ELSE NULL
    BY <2>1, <2>3 DEF First
  <2>10. ~(j[t] + 1 < ParticlesPerCell)
    BY <1>4, <1>7, <2>2
  <2> QED
    BY <1>4, <1>6, <1>12, <2>1, <2>3, <2>4, <2>5, <2>10
<1>20. CASE emptied /\ q # 0
  <2>1. k = q + 1 /\ cell2'[t] = nextp[src] /\ ReturnCell(t, src) /\ lo[g] = q
    BY <1>8, <1>9, <1>14, <1>15, <1>17, <1>20
  <2>2. ~(i + 1 < P)
    BY <1>8, <2>1
  <2>3. lo[g] <= hi[g] /\ ReturnCell(t, at[g][lo[g]])
    BY <1>9, <1>13, <2>1
  <2>4. /\ nextp' \in [Nodes -> Nodes \cup {NULL}] /\ pool' \in [Threads -> Blocks \cup {NULL}]
        /\ Freed(at, lo, hi, g, lo[g] + 1)
    BY <1>2, <1>11, <2>3, SourceReturn
  <2>5. From(j[t] + 1) = lo[g] + 1
    BY <1>10, <2>1, <2>2
  <2>6. nextp[src] = IF q = hi[g] THEN NULL ELSE at[g][q + 1]
    <3>1. g \in Owners /\ q \in Int /\ Listed(lo, hi, g, q)
      BY <1>2, <1>17, <1>20, OwnerKinds
    <3>2. nextp[at[g][q]] = IF q = hi[g] THEN NULL ELSE at[g][q + 1]
      BY <1>11, <3>1 DEF Lists, Linkage
    <3> QED
      BY <1>13, <3>2
  <2>7. cell2'[t] = IF k <= hi[g] THEN at[g][k] ELSE NULL
    <3>1. q = hi[g] <=> ~(k <= hi[g])
      BY <1>9, <2>1
    <3> QED
      BY <2>1, <2>6, <3>1
  <2>8. ~(j[t] + 1 < ParticlesPerCell)
    BY <1>4, <1>7, <2>2
  <2> QED
    BY <1>4, <1>6, <2>4, <2>5, <2>7, <2>8
<1> QED
  BY <1>18, <1>19, <1>20

\* The particle is written to its place, and the source is one particle shorter.
LEMMA CopyGrid ==
    ASSUME RoundInv, Types, Gridded, NEW t \in Threads, NEW c, Copy(t, c)
    PROVE  Types' /\ Gridded'
<1>1. PICK at, lo, hi, who, from, cnt : Grid(at, lo, hi, who, from, cnt)
  BY DEF Gridded
<1>2. /\ At(t, c, "rebuild") /\ dest[t] # NULL
      /\ slot' = [slot EXCEPT ![dest[t][1]][dest[t][2]] = Held(SourceSlot(t, c))]
      /\ dest' = [dest EXCEPT ![t] = NULL] /\ j' = [j EXCEPT ![t] = @ + 1]
      /\ \E x : cell2' = [cell2 EXCEPT ![t] = x]
      /\ entered' = entered /\ left' = left /\ cells' = cells /\ cnumPars' = cnumPars
      /\ last_cells' = last_cells /\ alloc' = alloc /\ used' = used
      /\ loaded' = loaded /\ pool_id' = pool_id
      /\ pos' = pos /\ density' = density /\ force' = force /\ todo' = todo
  BY DEF Copy, barrierVars, initVars, particleVars
<1>3. /\ c \in Cells /\ t = Owner(c) /\ c = Min(todo[t]) /\ c \in todo[t] /\ Cur(c)
      /\ Stage(c) = 2 /\ j[t] \in Nat /\ Gone(c) = j[t] /\ Moved(c) = j[t] + 1
      /\ SourceCell(c, at, lo, hi, from, cnt)
      /\ \A b \in Cells : Stage(b) = 2 \/ Stage(b) = 3
  BY <1>1, <1>2, AtRebuild
<1>4. PICK g : g = <<1 - cells, c>>
  OBVIOUS
<1>5. cells \in {0, 1} /\ 1 - cells \in {0, 1} /\ cells # 1 - cells
  BY DEF Types
<1>6. \A b \in Cells : /\ <<cells, b>> \in Heads /\ <<1 - cells, b>> \in Heads
                       /\ <<cells, b>> # g /\ (b # c => <<1 - cells, b>> # g)
  <2> SUFFICES ASSUME NEW b \in Cells
               PROVE  /\ <<cells, b>> \in Heads /\ <<1 - cells, b>> \in Heads
                      /\ <<cells, b>> # g /\ (b # c => <<1 - cells, b>> # g)
    OBVIOUS
  <2>1. <<cells, b>> \in Heads /\ <<1 - cells, b>> \in Heads
    BY <1>5, HeadsOf
  <2>2. <<cells, b>> # g /\ (b # c => <<1 - cells, b>> # g)
    BY <1>4, <1>5
  <2> QED
    BY <2>1, <2>2
<1>7. Contents(who, from, cnt, loaded) /\ Lists(nextp, pool, used, at, lo, hi) /\ HeadsFirst(at)
  BY <1>1 DEF Grid
<1>8. PICK i \in Nat : i = j[t]
  BY <1>3
<1>9. g \in Heads /\ from[g] = i + 1 /\ cnt[g] = cnumPars[1 - cells][c] /\ i < cnt[g] /\ cnt[g] \in Nat
  <2>1. g \in Heads
    BY <1>3, <1>4, <1>6
  <2>2. from[g] = i + 1 /\ cnt[g] = cnumPars[1 - cells][c]
    BY <1>3, <1>4, <1>8 DEF SourceCell
  <2>3. cnt[g] \in Nat /\ from[g] <= cnt[g]
    BY <1>7, <2>1 DEF Contents, Counts
  <2> QED
    BY <2>1, <2>2, <2>3
<1>10. j[t] < cnt[g]
  BY <1>8, <1>9
<1>11. Placed(lo, hi, g, i) /\ Held(SourceSlot(t, c)) = who[g][i]
  BY <1>1, <1>2, <1>4, <1>8, <1>10, SourceAt
<1>12. /\ nextp' \in [Nodes -> Nodes \cup {NULL}] /\ pool' \in [Threads -> Blocks \cup {NULL}]
       /\ Freed(at, lo, hi, g, From(j[t] + 1))
       /\ j[t] + 1 < ParticlesPerCell => From(j[t] + 1) = lo[g] /\ j[t] < ParticlesPerCell
       /\ cell2'[t] = IF (j[t] + 1) \div ParticlesPerCell <= hi[g]
                      THEN at[g][(j[t] + 1) \div ParticlesPerCell] ELSE NULL
  <2>1. Copy(t, c)
    OBVIOUS
  <2> QED
    BY <1>1, <1>4, <1>10, <2>1, CopyLists
<1>13. PICK at2, lo2 :
          /\ Lists(nextp', pool', used, at2, lo2, hi)
          /\ lo2[g] = From(i + 1)
          /\ \A f \in Heads : /\ at2[f] = at[f] /\ nextp'[f] = nextp[f]
                              /\ f # g => lo2[f] = lo[f]
  BY <1>8, <1>12 DEF Freed
<1>14. /\ \A f \in Heads, k \in Int : PlaceOf(at2, f, k) = PlaceOf(at, f, k)
       /\ HeadsFirst(at2)
  BY <1>7, <1>13 DEF PlaceOf, HeadsFirst
<1>15. PICK us \in Nat : us = used /\ us <= MaxBlocks /\ Lists(nextp, pool, us, at, lo, hi)
  BY <1>7 DEF Types
<1>16. \A f, e \in Heads, k, m \in Nat :
          Placed(lo, hi, f, k) /\ Placed(lo, hi, e, m) /\ PlaceOf(at, f, k) = PlaceOf(at, e, m) => f = e /\ k = m
  BY <1>7, <1>15, PlacesDiffer
<1>17. \A f \in Heads, k \in Nat : Placed(lo, hi, f, k) => PlaceOf(at, f, k) # NULL /\ PlaceOf(at, f, k) \in Nodes \X Slots
  BY <1>7, <1>15, PlacesDiffer
<1>18. \A b \in Cells, k \in Nat : k < cnt[<<cells, b>>] => Placed(lo, hi, <<cells, b>>, k)
  <2> SUFFICES ASSUME NEW b \in Cells, NEW k \in Nat, k < cnt[<<cells, b>>]
               PROVE  Placed(lo, hi, <<cells, b>>, k)
    OBVIOUS
  <2>1. CellsOk(at, lo, hi, from, cnt) /\ Stage(b) >= 2
    BY <1>1, <1>3 DEF Grid
  <2> QED
    BY <1>5, <1>7, <2>1, LivePlaced
<1>19. PICK d \in Cells, n \in Nat :
          /\ n < cnt[<<cells, d>>] /\ dest[t] = PlaceOf(at, <<cells, d>>, n)
          /\ who[<<cells, d>>][n] = who[g][i]
  <2>1. Reserved(t, at, who, cnt)
    BY <1>1, <1>2 DEF Grid, ReservedOk
  <2>2. <<1 - cells, Min(todo[t])>> = g
    BY <1>3, <1>4
  <2> QED
    BY <1>8, <2>1, <2>2 DEF Reserved
<1>20. PICK h : h = <<cells, d>>
  OBVIOUS
<1>21. h \in Heads /\ h # g /\ n < cnt[h] /\ dest[t] = PlaceOf(at, h, n) /\ who[h][n] = who[g][i] /\ Placed(lo, hi, h, n)
  BY <1>6, <1>18, <1>19, <1>20
<1>22. who[g][i] \in Particles
  <2>1. n \in Int /\ Holds(from, cnt, h, n)
    <3>1. CellsOk(at, lo, hi, from, cnt) /\ Stage(d) >= 2
      BY <1>1, <1>3 DEF Grid
    <3>2. Holds(from, cnt, <<cells, d>>, n)
      BY <1>5, <1>7, <1>19, <3>1, LivePlaced
    <3> QED
      BY <1>20, <3>2
  <2>2. who[h][n] \in 1 .. loaded
    BY <1>7, <1>21, <2>1 DEF Contents
  <2>3. loaded \in Nat /\ loaded <= numParticles
    BY Sizes DEF Types
  <2> QED
    BY <1>21, <2>2, <2>3, Sizes DEF Particles
<1>23. /\ slot' \in [Nodes -> [Slots -> Particles \cup {NULL}]]
       /\ Held(PlaceOf(at, h, n))' = who[g][i]
       /\ \A place \in Nodes \X Slots : place # PlaceOf(at, h, n) => Held(place)' = Held(place)
  <2>1. slot \in [Nodes -> [Slots -> Particles \cup {NULL}]]
    BY DEF Types
  <2>2. PICK m \in Nodes, s \in Slots : dest[t] = <<m, s>>
    BY <1>17, <1>21
  <2>3. slot' = [slot EXCEPT ![m][s] = who[g][i]]
    BY <1>2, <1>11, <2>2
  <2>4. PICK p \in Particles : p = who[g][i]
    BY <1>22
  <2>5. slot' = [slot EXCEPT ![m][s] = p]
    BY <2>3, <2>4
  <2>6. /\ slot' \in [Nodes -> [Slots -> Particles \cup {NULL}]]
        /\ Held(<<m, s>>)' = p
        /\ \A place \in Nodes \X Slots : place # <<m, s>> => Held(place)' = Held(place)
    BY <2>1, <2>5, SlotWritten
  <2>7. PlaceOf(at, h, n) = <<m, s>>
    BY <1>21, <2>2
  <2> QED
    BY <2>4, <2>6, <2>7
<1>24. \A f \in Heads, k \in Nat : Placed(lo, hi, f, k) /\ ~(f = h /\ k = n) =>
          Held(PlaceOf(at, f, k))' = Held(PlaceOf(at, f, k))
  BY <1>16, <1>17, <1>21, <1>23
<1>25. /\ j' \in [Threads -> Nat] /\ j'[t] = i + 1
       /\ dest' \in [Threads -> (Nodes \X Slots) \cup {NULL}] /\ dest'[t] = NULL
       /\ \A u \in Threads : u # t => j'[u] = j[u] /\ dest'[u] = dest[u] /\ cell2'[u] = cell2[u]
  <2>1. j \in [Threads -> Nat] /\ dest \in [Threads -> (Nodes \X Slots) \cup {NULL}]
        /\ cell2 \in [Threads -> Nodes \cup {NULL}]
    BY DEF Types
  <2>2. /\ j' \in [Threads -> Nat] /\ j'[t] = i + 1 /\ \A u \in Threads : u # t => j'[u] = j[u]
    BY <1>2, <1>8, <2>1
  <2>3. /\ dest' \in [Threads -> (Nodes \X Slots) \cup {NULL}] /\ dest'[t] = NULL
        /\ \A u \in Threads : u # t => dest'[u] = dest[u]
    BY <1>2, <2>1
  <2>4. \A u \in Threads : u # t => cell2'[u] = cell2[u]
    BY <1>2, <2>1
  <2> QED
    BY <2>2, <2>3, <2>4
<1>26. cell2' \in [Threads -> Nodes \cup {NULL}]
  <2>1. cell2 \in [Threads -> Nodes \cup {NULL}]
    BY DEF Types
  <2>2. PICK x : cell2' = [cell2 EXCEPT ![t] = x]
    BY <1>2
  <2>3. cell2'[t] = x
    BY <2>1, <2>2
  <2>4. PICK k \in Nat : k = (i + 1) \div ParticlesPerCell
    BY SlotOf
  <2>5. at[g][k] \in Nodes
    <3>1. at \in [Owners -> [Int -> Nodes]] /\ g \in Owners
      BY <1>7, <1>9, OwnerKinds DEF Lists, Numbered
    <3> QED
      BY <3>1
  <2>6. x \in Nodes \cup {NULL}
    BY <1>8, <1>12, <2>3, <2>4, <2>5
  <2> QED
    BY <2>1, <2>2, <2>6
<1>27. Types'
  <2>1. /\ cells' \in {0, 1} /\ cnumPars' \in [{0, 1} -> [Cells -> -1 .. numParticles]]
        /\ last_cells' \in [Cells -> Nodes \cup {NULL}]
        /\ alloc' \in [Threads -> Nat \ {0}] /\ used' \in Nat /\ used' <= MaxBlocks
        /\ loaded' \in 0 .. numParticles /\ pool_id' \in Threads
        /\ pos' \in [Particles -> Cells]
        /\ density' \in [Particles -> Nat] /\ force' \in [Particles -> Nat]
    BY <1>2 DEF Types
  <2> QED
    BY <1>12, <1>23, <1>25, <1>26, <2>1 DEF Types
<1>28. /\ \A b \in Cells : Stage(b)' = Stage(b)
       /\ Gone(c)' = i + 1 /\ Moved(c)' = i + 1
       /\ \A b \in Cells : b # c => Gone(b)' = Gone(b) /\ Moved(b)' = Moved(b)
  <2>1. \A b \in Cells : Stage(b)' = Stage(b)
    BY <1>2, StageQuiet
  <2>2. Cur(c)'
    BY <1>2, <1>3 DEF Cur
  <2>3. Gone(c)' = j'[Owner(c)] /\ Moved(c)' = j'[Owner(c)] + (IF dest'[Owner(c)] = NULL THEN 0 ELSE 1)
    BY <2>2 DEF Gone, Moved
  <2>4. Gone(c)' = i + 1 /\ Moved(c)' = i + 1
    BY <1>3, <1>25, <2>3
  <2>5. \A b \in Cells : b # c => Gone(b)' = Gone(b) /\ Moved(b)' = Moved(b)
    <3> SUFFICES ASSUME NEW b \in Cells, b # c PROVE Gone(b)' = Gone(b) /\ Moved(b)' = Moved(b)
      OBVIOUS
    <3>1. todo'[t] = todo[t] /\ \A u \in Threads : u # t => todo'[u] = todo[u] /\ j'[u] = j[u] /\ dest'[u] = dest[u]
      BY <1>2, <1>25
    <3> QED
      BY <1>2, <3>1, OthersGone
  <2> QED
    BY <2>1, <2>4, <2>5
<1>29. CellsOk(at2, lo2, hi, from, cnt)'
  <2> SUFFICES ASSUME NEW b \in Cells
               PROVE  /\ Stage(b)' >= 2 => LiveCell(b, at2, lo2, hi, from, cnt)'
                      /\ Stage(b)' <= 1 => EmptyCell(from, cnt, lo2, hi, <<cells, b>>)'
                      /\ Stage(b)' <= 2 => SourceCell(b, at2, lo2, hi, from, cnt)'
                      /\ Stage(b)' >= 3 => EmptyCell(from, cnt, lo2, hi, <<1 - cells, b>>)'
    BY DEF CellsOk
  <2>1. CellsOk(at, lo, hi, from, cnt)
    BY <1>1 DEF Grid
  <2>2. LiveCell(b, at2, lo2, hi, from, cnt)'
    <3>1. PICK f : f = <<cells, b>>
      OBVIOUS
    <3>2. f \in Heads /\ f # g
      BY <1>6, <3>1
    <3>3. Stage(b) >= 2
      BY <1>3
    <3>4. LiveCell(b, at, lo, hi, from, cnt)
      BY <2>1, <3>3 DEF CellsOk
    <3>5. /\ from[f] = 0 /\ cnt[f] = cnumPars[cells][b] /\ lo[f] = 1 /\ hi[f] = Last(cnt[f])
          /\ nextp[f] = First(at, lo, hi, f)
      BY <3>1, <3>4 DEF LiveCell
    <3>6. lo2[f] = 1 /\ nextp'[f] = First(at2, lo2, hi, f)
      BY <1>13, <3>2, <3>5 DEF First
    <3> QED
      BY <1>2, <3>1, <3>5, <3>6 DEF LiveCell
  <2>3. PICK f : f = <<1 - cells, b>>
    OBVIOUS
  <2>4. f \in Heads /\ (b # c => f # g)
    BY <1>6, <2>3
  <2>5. Stage(b) <= 2 => SourceCell(b, at2, lo2, hi, from, cnt)'
    <3> SUFFICES ASSUME Stage(b) <= 2 PROVE SourceCell(b, at2, lo2, hi, from, cnt)'
      OBVIOUS
    <3>1. SourceCell(b, at, lo, hi, from, cnt)
      BY <2>1 DEF CellsOk
    <3>2. /\ from[f] = Moved(b) /\ cnt[f] = cnumPars[1 - cells][b]
          /\ lo[f] = From(Gone(b))
          /\ hi[f] = Last(cnt[f])
          /\ Gone(b) < ParticlesPerCell => nextp[f] = First(at, lo, hi, f)
      BY <2>3, <3>1 DEF SourceCell, From
    <3>3. from[f] = Moved(b)' /\ lo2[f] = From(Gone(b)')
      <4>1. CASE b = c
        BY <1>4, <1>9, <1>13, <1>28, <2>3, <4>1
      <4>2. CASE b # c
        BY <1>13, <1>28, <2>4, <3>2, <4>2
      <4> QED
        BY <4>1, <4>2
    <3>4. Gone(b)' < ParticlesPerCell => nextp'[f] = First(at2, lo2, hi, f)
      <4> SUFFICES ASSUME Gone(b)' < ParticlesPerCell PROVE nextp'[f] = First(at2, lo2, hi, f)
        OBVIOUS
      <4>1. CASE b = c
        <5>1. f = g /\ i + 1 < ParticlesPerCell
          BY <1>4, <1>28, <2>3, <4>1
        <5>2. lo2[g] = lo[g] /\ i < ParticlesPerCell
          BY <1>8, <1>12, <1>13, <5>1
        <5>3. nextp[g] = First(at, lo, hi, g)
          BY <1>3, <1>8, <3>2, <4>1, <5>1, <5>2
        <5> QED
          BY <1>9, <1>13, <5>1, <5>2, <5>3 DEF First
      <4>2. CASE b # c
        <5>1. nextp[f] = First(at, lo, hi, f)
          BY <1>28, <3>2, <4>2
        <5> QED
          BY <1>13, <2>4, <4>2, <5>1 DEF First
      <4> QED
        BY <4>1, <4>2
    <3> QED
      BY <1>2, <2>3, <3>2, <3>3, <3>4 DEF SourceCell, From
  <2>6. Stage(b) >= 3 => EmptyCell(from, cnt, lo2, hi, <<1 - cells, b>>)'
    <3> SUFFICES ASSUME Stage(b) >= 3 PROVE EmptyCell(from, cnt, lo2, hi, <<1 - cells, b>>)'
      OBVIOUS
    <3>1. EmptyCell(from, cnt, lo, hi, f)
      BY <2>1, <2>3 DEF CellsOk
    <3>2. b # c
      BY <1>3
    <3>3. EmptyCell(from, cnt, lo2, hi, f)
      BY <1>13, <2>4, <3>1, <3>2 DEF EmptyCell
    <3> QED
      BY <1>2, <2>3, <3>3 DEF EmptyCell
  <2>7. Stage(b)' = Stage(b) /\ ~(Stage(b) <= 1)
    BY <1>3, <1>28
  <2> QED
    BY <2>2, <2>5, <2>6, <2>7
<1>30. TailsOk(at2, hi)'
  <2> SUFFICES ASSUME NEW b \in Cells, (Stage(b) \in {2, 3})'
               PROVE  (last_cells[b] = at2[<<cells, b>>][hi[<<cells, b>>]])'
    BY DEF TailsOk
  <2>1. PICK f : f = <<cells, b>>
    OBVIOUS
  <2>2. f \in Heads
    BY <1>6, <2>1
  <2>3. TailsOk(at, hi) /\ (Stage(b) = 2 \/ Stage(b) = 3)
    BY <1>1, <1>3 DEF Grid
  <2>4. last_cells[b] = at[f][hi[f]]
    BY <2>1, <2>3 DEF TailsOk
  <2> QED
    BY <1>2, <1>13, <2>1, <2>2, <2>4
<1>31. SourcesOk(at2, who, cnt)'
  <2> SUFFICES ASSUME NEW b \in Cells, NEW k \in Nat,
                      (Stage(b) <= 2 /\ Gone(b) <= k /\ k < cnt[<<1 - cells, b>>])'
               PROVE  (Held(PlaceOf(at2, <<1 - cells, b>>, k)) = who[<<1 - cells, b>>][k])'
    BY DEF SourcesOk
  <2>0. PICK f : f = <<1 - cells, b>>
    OBVIOUS
  <2>1. f \in Heads /\ f # h
    BY <1>5, <1>6, <1>20, <2>0
  <2>2. Stage(b) <= 2 /\ k < cnt[f]
    BY <1>2, <1>28, <2>0
  <2>3. Gone(b) <= k
    <3>3. Gone(b)' <= k
      OBVIOUS
    <3>1. CASE b = c
      <4>1. Gone(b) = i /\ Gone(b)' = i + 1
        BY <1>3, <1>8, <1>28, <3>1
      <4> QED
        BY <3>3, <4>1
    <3>2. CASE b # c
      BY <1>28, <3>2, <3>3
    <3> QED
      BY <3>1, <3>2
  <2>4. SourcesOk(at, who, cnt) /\ CellsOk(at, lo, hi, from, cnt) /\ RebuildOk(at, hi)
    BY <1>1 DEF Grid
  <2>5. Held(PlaceOf(at, f, k)) = who[f][k]
    BY <2>0, <2>2, <2>3, <2>4 DEF SourcesOk
  <2>6. Placed(lo, hi, f, k)
    <3>1. k < cnt[<<1 - cells, b>>]
      BY <2>0, <2>2
    <3>2. Placed(lo, hi, <<1 - cells, b>>, k)
      BY <1>5, <1>7, <2>2, <2>3, <2>4, <3>1, SourcePlaced
    <3> QED
      BY <2>0, <3>2
  <2>7. Held(PlaceOf(at, f, k))' = who[f][k]
    BY <1>24, <2>1, <2>5, <2>6
  <2>8. PlaceOf(at2, f, k) = PlaceOf(at, f, k)
    BY <1>14, <2>1
  <2> QED
    BY <1>2, <2>0, <2>7, <2>8
<1>32. StoredOk(at2, who, cnt)'
  <2> SUFFICES ASSUME NEW b \in Cells, NEW k \in Nat, (k < cnt[<<cells, b>>])'
               PROVE  (\/ Held(PlaceOf(at2, <<cells, b>>, k)) = who[<<cells, b>>][k]
                       \/ \E u \in Threads : dest[u] = PlaceOf(at2, <<cells, b>>, k))'
    BY DEF StoredOk
  <2>1. PICK f : f = <<cells, b>>
    OBVIOUS
  <2>2. f \in Heads /\ k < cnt[f] /\ Placed(lo, hi, f, k)
    BY <1>2, <1>6, <1>18, <2>1
  <2>3. SUFFICES \/ Held(PlaceOf(at, f, k))' = who[f][k]
                 \/ \E u \in Threads : dest'[u] = PlaceOf(at, f, k)
    BY <1>2, <1>14, <2>1, <2>2
  <2>4. CASE f = h /\ k = n
    BY <1>21, <1>23, <2>4
  <2>5. CASE ~(f = h /\ k = n)
    <3>1. StoredOk(at, who, cnt) /\ Stage(b) >= 2
      BY <1>1, <1>3 DEF Grid
    <3>2. \/ Held(PlaceOf(at, f, k)) = who[f][k]
          \/ \E u \in Threads : dest[u] = PlaceOf(at, f, k)
      BY <2>1, <2>2, <3>1 DEF StoredOk
    <3>3. CASE Held(PlaceOf(at, f, k)) = who[f][k]
      BY <1>24, <2>2, <2>5, <3>3
    <3>4. CASE \E u \in Threads : dest[u] = PlaceOf(at, f, k)
      <4>1. PICK u \in Threads : dest[u] = PlaceOf(at, f, k)
        BY <3>4
      <4>2. u # t
        BY <1>16, <1>21, <2>2, <2>5, <4>1
      <4> QED
        BY <1>25, <4>1, <4>2
    <3> QED
      BY <3>2, <3>3, <3>4
  <2> QED
    BY <2>4, <2>5
<1>33. ReservedOk(at2, who, cnt)'
  <2>1. ReservedOk(at, who, cnt)
    BY <1>1 DEF Grid
  <2>2. ASSUME NEW u \in Threads, dest'[u] # NULL PROVE Reserved(u, at2, who, cnt)'
    <3>1. u # t /\ dest[u] # NULL /\ dest'[u] = dest[u] /\ j'[u] = j[u]
      BY <1>25, <2>2
    <3>2. Reserved(u, at, who, cnt)
      BY <2>1, <3>1 DEF ReservedOk
    <3>3. PICK b \in Cells, k \in Nat :
             /\ Stage(b) >= 2 /\ k < cnt[<<cells, b>>] /\ dest[u] = PlaceOf(at, <<cells, b>>, k)
             /\ who[<<cells, b>>][k] = who[<<1 - cells, Min(todo[u])>>][j[u]]
      BY <3>2 DEF Reserved
    <3>4. PlaceOf(at2, <<cells, b>>, k) = PlaceOf(at, <<cells, b>>, k)
      <4>1. PICK f : f = <<cells, b>>
        OBVIOUS
      <4>2. f \in Heads
        BY <1>6, <4>1
      <4>3. PlaceOf(at2, f, k) = PlaceOf(at, f, k)
        BY <1>14, <4>2
      <4> QED
        BY <4>1, <4>3
    <3>5. Stage(b)' >= 2
      BY <1>28, <3>3
    <3>6. dest'[u] = PlaceOf(at2, <<cells, b>>, k)
      BY <3>1, <3>3, <3>4
    <3> QED
      BY <1>2, <3>1, <3>3, <3>5, <3>6 DEF Reserved
  <2>3. \A u, v \in Threads : u # v /\ dest'[u] # NULL => dest'[u] # dest'[v]
    BY <1>25, <2>1 DEF ReservedOk
  <2> QED
    BY <2>2, <2>3 DEF ReservedOk
<1>34. PositionsOk(who, from, cnt)'
  <2>1. PositionsOk(who, from, cnt)
    BY <1>1 DEF Grid
  <2> QED
    BY <1>2, <1>28, <2>1 DEF PositionsOk
<1>35. RebuildOk(at2, hi)'
  <2>0. RebuildOk(at, hi)
    BY <1>1 DEF Grid
  <2> SUFFICES ASSUME NEW u \in Threads
               PROVE  (/\ j[u] \in Nat
                       /\ j[u] # 0 \/ dest[u] # NULL => At(u, Min(todo[u]), "rebuild")
                       /\ j[u] = 0 => cell2[u] = NULL
                       /\ j[u] # 0 => cell2[u] = IF j[u] \div ParticlesPerCell <= hi[<<1 - cells, Min(todo[u])>>]
                                                 THEN at2[<<1 - cells, Min(todo[u])>>][j[u] \div ParticlesPerCell]
                                                 ELSE NULL)'
    BY DEF RebuildOk
  <2>1. PICK m : m = Min(todo[u])
    OBVIOUS
  <2>2. j'[u] # 0 \/ dest'[u] # NULL => At(u, m, "rebuild")
    <3>1. CASE u = t
      BY <1>2, <1>3, <2>1, <3>1
    <3>2. CASE u # t
      <4>1. j[u] # 0 \/ dest[u] # NULL => At(u, Min(todo[u]), "rebuild")
        BY <2>0 DEF RebuildOk
      <4> QED
        BY <1>25, <2>1, <3>2, <4>1
    <3> QED
      BY <3>1, <3>2
  <2>3. At(u, m, "rebuild") => At(u, m, "rebuild")'
    BY <1>2 DEF At, Working, Started, Phase
  <2>4. j'[u] # 0 => cell2'[u] = IF j'[u] \div ParticlesPerCell <= hi[<<1 - cells, m>>]
                                 THEN at2[<<1 - cells, m>>][j'[u] \div ParticlesPerCell] ELSE NULL
    <3> SUFFICES ASSUME j'[u] # 0
                 PROVE  cell2'[u] = IF j'[u] \div ParticlesPerCell <= hi[<<1 - cells, m>>]
                                    THEN at2[<<1 - cells, m>>][j'[u] \div ParticlesPerCell] ELSE NULL
      OBVIOUS
    <3>1. m \in Cells
      BY <2>2, AtOwn
    <3>2. at2[<<1 - cells, m>>] = at[<<1 - cells, m>>]
      BY <1>6, <1>13, <3>1
    <3>3. CASE u = t
      <4>1. <<1 - cells, m>> = g /\ j'[u] = i + 1
        BY <1>3, <1>4, <1>25, <2>1, <3>3
      <4> QED
        BY <1>8, <1>12, <3>2, <3>3, <4>1
    <3>4. CASE u # t
      <4>1. j'[u] = j[u] /\ cell2'[u] = cell2[u] /\ j[u] # 0
        BY <1>25, <3>4
      <4>2. cell2[u] = IF j[u] \div ParticlesPerCell <= hi[<<1 - cells, m>>]
                       THEN at[<<1 - cells, m>>][j[u] \div ParticlesPerCell] ELSE NULL
        BY <2>0, <2>1, <4>1 DEF RebuildOk
      <4> QED
        BY <3>2, <4>1, <4>2
    <3> QED
      BY <3>3, <3>4
  <2>5. j'[u] \in Nat
    BY <1>25
  <2>6. j'[u] = 0 => cell2'[u] = NULL
    <3>1. CASE u = t
      BY <1>25, <3>1
    <3>2. CASE u # t
      <4>1. j[u] = 0 => cell2[u] = NULL
        BY <2>0 DEF RebuildOk
      <4> QED
        BY <1>25, <3>2, <4>1
    <3> QED
      BY <3>1, <3>2
  <2> QED
    BY <1>2, <2>1, <2>2, <2>3, <2>4, <2>5, <2>6
<1>36. Contents(who, from, cnt, loaded)' /\ Lists(nextp, pool, used, at2, lo2, hi)' /\ HeadsFirst(at2)'
  BY <1>2, <1>7, <1>13, <1>14 DEF HeadsFirst
<1>37. Grid(at2, lo2, hi, who, from, cnt)'
  BY <1>29, <1>30, <1>31, <1>32, <1>33, <1>34, <1>35, <1>36 DEF Grid
<1> QED
  BY <1>27, <1>37 DEF Gridded

\* When all particles of a source have been copied its last structure, unless it
\* is the head or gone already, is returned, and none is left.
LEMMA DoneLists ==
    ASSUME RoundInv, Types, NEW at, NEW lo, NEW hi, NEW who, NEW from, NEW cnt,
           Grid(at, lo, hi, who, from, cnt), NEW t \in Threads, NEW c, SourceDone(t, c),
           NEW g, g = <<1 - cells, c>>
    PROVE  /\ g \in Heads /\ from[g] = cnt[g]
           /\ nextp' \in [Nodes -> Nodes \cup {NULL}] /\ pool' \in [Threads -> Blocks \cup {NULL}]
           /\ Freed(at, lo, hi, g, hi[g] + 1)
<1>1. /\ At(t, c, "rebuild") /\ dest[t] = NULL /\ j[t] = cnumPars[1 - cells][c]
      /\ IF Rest(Source(t, c)) THEN ReturnCell(t, Source(t, c)) ELSE UNCHANGED <<nextp, pool>>
  BY DEF SourceDone
<1>2. /\ c \in Cells /\ t = Owner(c) /\ c = Min(todo[t]) /\ j[t] \in Nat /\ Gone(c) = j[t] /\ Moved(c) = j[t]
      /\ SourceCell(c, at, lo, hi, from, cnt)
  BY <1>1, AtRebuild
<1>3. PICK i \in Nat : i = j[t]
  BY <1>2
<1>4. g \in Heads
  <2>1. cells \in {0, 1}
    BY DEF Types
  <2> QED
    BY <1>2, <2>1, HeadsOf
<1>5. from[g] = i /\ cnt[g] = i /\ hi[g] = Last(i) /\ lo[g] = From(i)
  BY <1>1, <1>2, <1>3 DEF SourceCell, From
<1>6. PICK q \in Nat : q = i \div ParticlesPerCell
  BY SlotOf
<1>7. PICK P \in Nat : P = ParticlesPerCell /\ P # 0
  BY Sizes
<1>8. PICK r \in Nat : r = i % ParticlesPerCell
  BY SlotOf DEF Slots
<1>9. (q = 0 <=> i < P) /\ i = P * q + r /\ lo[g] = IF i < P THEN 1 ELSE q
  BY <1>5, <1>6, <1>7, <1>8, SlotOf DEF From
<1>10. PICK l \in Nat : l = hi[g]
  BY <1>5, LastOf
<1>11. /\ i = 0 => l = 0
       /\ r = 0 /\ i # 0 => q = l + 1
       /\ r # 0 => q = l
  <2>1. i = 0 => l = 0
    BY <1>5, <1>10 DEF Last
  <2>2. /\ Last(i + 1) = q
        /\ r = 0 /\ i # 0 => Last(i + 1) = Last(i) + 1
        /\ ~(r = 0 /\ i # 0) => Last(i + 1) = Last(i)
    BY <1>6, <1>8, LastNext
  <2> QED
    BY <1>5, <1>10, <2>1, <2>2
<1>12. Lists(nextp, pool, used, at, lo, hi) /\ HeadsFirst(at) /\ RebuildOk(at, hi)
  BY DEF Grid
<1>13. /\ nextp \in [Nodes -> Nodes \cup {NULL}] /\ pool \in [Threads -> Blocks \cup {NULL}]
       /\ used \in Nat /\ used <= MaxBlocks
  BY DEF Types
<1>14. /\ i = 0 => Source(t, c) = g
       /\ i # 0 => Source(t, c) = IF q <= l THEN at[g][q] ELSE NULL
  <2>1. i = 0 => Source(t, c) = g
    BY <1>3 DEF Source
  <2>2. ASSUME i # 0 PROVE Source(t, c) = IF q <= l THEN at[g][q] ELSE NULL
    <3>1. cell2[t] = IF j[t] \div ParticlesPerCell <= hi[<<1 - cells, Min(todo[t])>>]
                     THEN at[<<1 - cells, Min(todo[t])>>][j[t] \div ParticlesPerCell] ELSE NULL
      BY <1>3, <1>12, <2>2 DEF RebuildOk
    <3>2. Source(t, c) = cell2[t] /\ <<1 - cells, Min(todo[t])>> = g
      BY <1>2, <1>3, <2>2 DEF Source
    <3> QED
      BY <1>3, <1>6, <1>10, <3>1, <3>2
  <2> QED
    BY <2>1, <2>2
<1>15. CASE ~Rest(Source(t, c))
  <2>1. nextp' = nextp /\ pool' = pool
    BY <1>1, <1>15
  <2>2. lo[g] = hi[g] + 1
    <3>1. CASE i = 0
      BY <1>7, <1>9, <1>10, <1>11, <3>1
    <3>2. CASE i # 0 /\ r = 0
      <4>1. q = l + 1
        BY <1>11, <3>2
      <4>2. q # 0
        BY <4>1
      <4> QED
        BY <1>9, <1>10, <4>1, <4>2
    <3>3. CASE i # 0 /\ r # 0
      <4>1. q = l
        BY <1>11, <3>3
      <4>2. Source(t, c) = at[g][q]
        BY <1>14, <3>3, <4>1
      <4>3. CASE q = 0
        BY <1>9, <1>10, <4>1, <4>3
      <4>4. CASE q # 0
        <5>1. lo[g] = q /\ Listed(lo, hi, g, q) /\ g \in Owners /\ q \in Int
          BY <1>4, <1>9, <1>10, <4>1, <4>4, OwnerKinds DEF Listed
        <5>2. at[g][q] \in UsedBlocks(used)
          BY <1>12, <5>1 DEF Lists, AllListed
        <5>3. at[g][q] \in Blocks
          BY <1>13, <5>2, UsedAreBlocks
        <5>4. Rest(Source(t, c))
          BY <4>2, <5>3, OwnerKinds DEF Rest
        <5> QED
          BY <1>15, <5>4
      <4> QED
        BY <4>3, <4>4
    <3> QED
      BY <3>1, <3>2, <3>3
  <2>3. Freed(at, lo, hi, g, lo[g])
    BY <1>12, <2>1 DEF Freed
  <2> QED
    BY <1>4, <1>5, <1>13, <2>1, <2>2, <2>3
<1>16. CASE Rest(Source(t, c))
  <2>1. Source(t, c) # NULL /\ Source(t, c) # g
    BY <1>4, <1>16 DEF Rest
  <2>2. i # 0
    BY <1>14, <2>1
  <2>3. q <= l /\ Source(t, c) = at[g][q]
    BY <1>14, <2>1, <2>2
  <2>4. r # 0 /\ q = l
    BY <1>11, <2>2, <2>3
  <2>5. q # 0
    BY <1>4, <1>12, <2>1, <2>3 DEF HeadsFirst
  <2>6. lo[g] = q /\ hi[g] = q
    BY <1>9, <1>10, <2>4, <2>5
  <2>7. lo[g] <= hi[g] /\ ReturnCell(t, at[g][lo[g]])
    BY <1>1, <1>16, <2>3, <2>6
  <2>8. /\ nextp' \in [Nodes -> Nodes \cup {NULL}] /\ pool' \in [Threads -> Blocks \cup {NULL}]
        /\ Freed(at, lo, hi, g, lo[g] + 1)
    BY <1>4, <1>12, <2>7, SourceReturn
  <2> QED
    BY <1>4, <1>5, <2>6, <2>8
<1> QED
  BY <1>15, <1>16

\* A source cell is done: the last of its structures has gone to the pool.
LEMMA SourceDoneGrid ==
    ASSUME RoundInv, Types, Gridded, NEW t \in Threads, NEW c, SourceDone(t, c)
    PROVE  Types' /\ Gridded'
<1>1. PICK at, lo, hi, who, from, cnt : Grid(at, lo, hi, who, from, cnt)
  BY DEF Gridded
<1>2. /\ At(t, c, "rebuild") /\ dest[t] = NULL /\ Visited(t, c)
      /\ j' = [j EXCEPT ![t] = 0] /\ cell2' = [cell2 EXCEPT ![t] = NULL]
      /\ entered' = entered /\ left' = left /\ cells' = cells /\ cnumPars' = cnumPars
      /\ slot' = slot /\ last_cells' = last_cells /\ alloc' = alloc /\ used' = used
      /\ loaded' = loaded /\ pool_id' = pool_id
      /\ pos' = pos /\ density' = density /\ force' = force /\ dest' = dest
  BY DEF SourceDone, barrierVars, initVars, particleVars
<1>3. /\ c \in Cells /\ t = Owner(c) /\ c = Min(todo[t]) /\ c \in todo[t]
      /\ Stage(c) = 2
      /\ \A b \in Cells : Stage(b) = 2 \/ Stage(b) = 3
  BY <1>1, <1>2, AtRebuild
<1>4. PICK g : g = <<1 - cells, c>>
  OBVIOUS
<1>5. cells \in {0, 1} /\ 1 - cells \in {0, 1} /\ cells # 1 - cells
  BY DEF Types
<1>6. \A b \in Cells : /\ <<cells, b>> \in Heads /\ <<1 - cells, b>> \in Heads
                       /\ <<cells, b>> # g /\ (b # c => <<1 - cells, b>> # g)
  <2> SUFFICES ASSUME NEW b \in Cells
               PROVE  /\ <<cells, b>> \in Heads /\ <<1 - cells, b>> \in Heads
                      /\ <<cells, b>> # g /\ (b # c => <<1 - cells, b>> # g)
    OBVIOUS
  <2>1. <<cells, b>> \in Heads /\ <<1 - cells, b>> \in Heads
    BY <1>5, HeadsOf
  <2>2. <<cells, b>> # g /\ (b # c => <<1 - cells, b>> # g)
    BY <1>4, <1>5
  <2> QED
    BY <2>1, <2>2
<1>7. Contents(who, from, cnt, loaded) /\ HeadsFirst(at)
  BY <1>1 DEF Grid
<1>8. /\ g \in Heads /\ from[g] = cnt[g]
      /\ nextp' \in [Nodes -> Nodes \cup {NULL}] /\ pool' \in [Threads -> Blocks \cup {NULL}]
      /\ Freed(at, lo, hi, g, hi[g] + 1)
  <2>1. SourceDone(t, c)
    OBVIOUS
  <2> QED
    BY <1>1, <1>4, <2>1, DoneLists
<1>9. PICK at2, lo2 :
          /\ Lists(nextp', pool', used, at2, lo2, hi)
          /\ lo2[g] = hi[g] + 1
          /\ \A f \in Heads : /\ at2[f] = at[f] /\ nextp'[f] = nextp[f]
                              /\ f # g => lo2[f] = lo[f]
  BY <1>8 DEF Freed
<1>10. /\ \A f \in Heads, k \in Int : PlaceOf(at2, f, k) = PlaceOf(at, f, k)
       /\ HeadsFirst(at2)
  BY <1>7, <1>9 DEF PlaceOf, HeadsFirst
<1>11. todo'[t] = todo[t] \ {c} /\ \A u \in Threads : u # t => todo'[u] = todo[u]
  BY <1>2 DEF Visited, RoundInv
<1>12. /\ j' \in [Threads -> Nat] /\ j'[t] = 0
       /\ cell2' \in [Threads -> Nodes \cup {NULL}] /\ cell2'[t] = NULL
       /\ \A u \in Threads : u # t => j'[u] = j[u] /\ cell2'[u] = cell2[u]
  <2>1. j \in [Threads -> Nat] /\ cell2 \in [Threads -> Nodes \cup {NULL}]
    BY DEF Types
  <2>2. j' \in [Threads -> Nat] /\ j'[t] = 0 /\ \A u \in Threads : u # t => j'[u] = j[u]
    BY <1>2, <2>1
  <2>3. /\ cell2' \in [Threads -> Nodes \cup {NULL}] /\ cell2'[t] = NULL
        /\ \A u \in Threads : u # t => cell2'[u] = cell2[u]
    BY <1>2, <2>1
  <2> QED
    BY <2>2, <2>3
<1>13. Types'
  <2>1. /\ cells' \in {0, 1} /\ cnumPars' \in [{0, 1} -> [Cells -> -1 .. numParticles]]
        /\ slot' \in [Nodes -> [Slots -> Particles \cup {NULL}]]
        /\ last_cells' \in [Cells -> Nodes \cup {NULL}]
        /\ alloc' \in [Threads -> Nat \ {0}] /\ used' \in Nat /\ used' <= MaxBlocks
        /\ loaded' \in 0 .. numParticles /\ pool_id' \in Threads
        /\ pos' \in [Particles -> Cells]
        /\ density' \in [Particles -> Nat] /\ force' \in [Particles -> Nat]
        /\ dest' \in [Threads -> (Nodes \X Slots) \cup {NULL}]
    BY <1>2 DEF Types
  <2> QED
    BY <1>8, <1>12, <2>1 DEF Types
<1>14. /\ Stage(c)' = 3 /\ \A b \in Cells : b # c => Stage(b)' = Stage(b)
       /\ \A b \in Cells : b # c => Gone(b)' = Gone(b) /\ Moved(b)' = Moved(b)
  <2>1. Stage(c)' = Stage(c) + 1 /\ \A b \in Cells \ {c} : Stage(b)' = Stage(b)
    <3>1. UNCHANGED barrierVars
      BY <1>2 DEF barrierVars
    <3> QED
      BY <1>2, <3>1, StageAfter
  <2>2. \A b \in Cells : b # c => Gone(b)' = Gone(b) /\ Moved(b)' = Moved(b)
    <3> SUFFICES ASSUME NEW b \in Cells, b # c PROVE Gone(b)' = Gone(b) /\ Moved(b)' = Moved(b)
      OBVIOUS
    <3>1. /\ j'[t] = 0 /\ dest'[t] = NULL
          /\ \A u \in Threads : u # t => todo'[u] = todo[u] /\ j'[u] = j[u] /\ dest'[u] = dest[u]
      BY <1>2, <1>11, <1>12
    <3> QED
      BY <1>2, <3>1, OthersGone
  <2> QED
    BY <1>3, <2>1, <2>2
<1>15. \A b \in Cells : (Stage(b)' = 2 \/ Stage(b)' = 3) /\ (b # c => Stage(b)' = Stage(b))
  BY <1>3, <1>14
<1>16. CellsOk(at2, lo2, hi, from, cnt)'
  <2> SUFFICES ASSUME NEW b \in Cells
               PROVE  /\ Stage(b)' >= 2 => LiveCell(b, at2, lo2, hi, from, cnt)'
                      /\ Stage(b)' <= 1 => EmptyCell(from, cnt, lo2, hi, <<cells, b>>)'
                      /\ Stage(b)' <= 2 => SourceCell(b, at2, lo2, hi, from, cnt)'
                      /\ Stage(b)' >= 3 => EmptyCell(from, cnt, lo2, hi, <<1 - cells, b>>)'
    BY DEF CellsOk
  <2>1. CellsOk(at, lo, hi, from, cnt)
    BY <1>1 DEF Grid
  <2>2. LiveCell(b, at2, lo2, hi, from, cnt)'
    <3>1. PICK f : f = <<cells, b>>
      OBVIOUS
    <3>2. f \in Heads /\ f # g
      BY <1>6, <3>1
    <3>3. Stage(b) >= 2
      BY <1>3
    <3>4. LiveCell(b, at, lo, hi, from, cnt)
      BY <2>1, <3>3 DEF CellsOk
    <3>5. /\ from[f] = 0 /\ cnt[f] = cnumPars[cells][b] /\ lo[f] = 1 /\ hi[f] = Last(cnt[f])
          /\ nextp[f] = First(at, lo, hi, f)
      BY <3>1, <3>4 DEF LiveCell
    <3>6. lo2[f] = 1 /\ nextp'[f] = First(at2, lo2, hi, f)
      BY <1>9, <3>2, <3>5 DEF First
    <3> QED
      BY <1>2, <3>1, <3>5, <3>6 DEF LiveCell
  <2>3. PICK f : f = <<1 - cells, b>>
    OBVIOUS
  <2>4. f \in Heads /\ (b # c => f # g)
    BY <1>6, <2>3
  <2>5. Stage(b)' <= 2 => SourceCell(b, at2, lo2, hi, from, cnt)'
    <3> SUFFICES ASSUME Stage(b)' <= 2 PROVE SourceCell(b, at2, lo2, hi, from, cnt)'
      OBVIOUS
    <3>0. b # c
      BY <1>14
    <3>1. Stage(b) <= 2
      BY <1>14, <3>0
    <3>2. SourceCell(b, at, lo, hi, from, cnt)
      BY <2>1, <3>1 DEF CellsOk
    <3>3. /\ from[f] = Moved(b) /\ cnt[f] = cnumPars[1 - cells][b]
          /\ lo[f] = From(Gone(b)) /\ hi[f] = Last(cnt[f])
          /\ Gone(b) < ParticlesPerCell => nextp[f] = First(at, lo, hi, f)
      BY <2>3, <3>2 DEF SourceCell, From
    <3>4. Gone(b)' = Gone(b) /\ Moved(b)' = Moved(b)
      BY <1>14, <3>0
    <3>5. First(at2, lo2, hi, f) = First(at, lo, hi, f) /\ lo2[f] = lo[f] /\ nextp'[f] = nextp[f]
      BY <1>9, <2>4, <3>0 DEF First
    <3>6. /\ from[f] = Moved(b)' /\ lo2[f] = From(Gone(b)')
          /\ Gone(b)' < ParticlesPerCell => nextp'[f] = First(at2, lo2, hi, f)
      BY <3>3, <3>4, <3>5
    <3> QED
      BY <1>2, <2>3, <3>3, <3>6 DEF SourceCell, From
  <2>6. Stage(b)' >= 3 => EmptyCell(from, cnt, lo2, hi, <<1 - cells, b>>)'
    <3> SUFFICES ASSUME Stage(b)' >= 3 PROVE EmptyCell(from, cnt, lo2, hi, <<1 - cells, b>>)'
      OBVIOUS
    <3>1. CASE b = c
      <4>1. f = g
        BY <1>4, <2>3, <3>1
      <4> QED
        BY <1>2, <1>8, <1>9, <2>3, <4>1 DEF EmptyCell
    <3>2. CASE b # c
      <4>1. Stage(b) >= 3
        BY <1>14, <3>2
      <4>2. EmptyCell(from, cnt, lo, hi, f)
        BY <2>1, <2>3, <4>1 DEF CellsOk
      <4>3. EmptyCell(from, cnt, lo2, hi, f)
        BY <1>9, <2>4, <3>2, <4>2 DEF EmptyCell
      <4> QED
        BY <1>2, <2>3, <4>3 DEF EmptyCell
    <3> QED
      BY <3>1, <3>2
  <2>7. ~(Stage(b)' <= 1)
    BY <1>15
  <2> QED
    BY <2>2, <2>5, <2>6, <2>7
<1>17. TailsOk(at2, hi)'
  <2> SUFFICES ASSUME NEW b \in Cells, (Stage(b) \in {2, 3})'
               PROVE  (last_cells[b] = at2[<<cells, b>>][hi[<<cells, b>>]])'
    BY DEF TailsOk
  <2>1. PICK f : f = <<cells, b>>
    OBVIOUS
  <2>2. f \in Heads
    BY <1>6, <2>1
  <2>3. TailsOk(at, hi) /\ (Stage(b) = 2 \/ Stage(b) = 3)
    BY <1>1, <1>3 DEF Grid
  <2>4. last_cells[b] = at[f][hi[f]]
    BY <2>1, <2>3 DEF TailsOk
  <2> QED
    BY <1>2, <1>9, <2>1, <2>2, <2>4
<1>18. \A place : Held(place)' = Held(place)
  BY <1>2 DEF Held
<1>19. SourcesOk(at2, who, cnt)'
  <2> SUFFICES ASSUME NEW b \in Cells, NEW k \in Nat,
                      (Stage(b) <= 2 /\ Gone(b) <= k /\ k < cnt[<<1 - cells, b>>])'
               PROVE  (Held(PlaceOf(at2, <<1 - cells, b>>, k)) = who[<<1 - cells, b>>][k])'
    BY DEF SourcesOk
  <2>0. PICK f : f = <<1 - cells, b>>
    OBVIOUS
  <2>1. f \in Heads
    BY <1>6, <2>0
  <2>2. b # c
    BY <1>14
  <2>3. Stage(b)' <= 2 /\ Gone(b)' <= k
    OBVIOUS
  <2>4. Stage(b) <= 2 /\ Gone(b) <= k /\ k < cnt[f]
    BY <1>2, <1>14, <2>0, <2>2, <2>3
  <2>5. SourcesOk(at, who, cnt)
    BY <1>1 DEF Grid
  <2>6. Held(PlaceOf(at, f, k)) = who[f][k]
    BY <2>0, <2>4, <2>5 DEF SourcesOk
  <2>7. PlaceOf(at2, f, k) = PlaceOf(at, f, k)
    BY <1>10, <2>1
  <2> QED
    BY <1>2, <1>18, <2>0, <2>6, <2>7
<1>20. StoredOk(at2, who, cnt)'
  <2> SUFFICES ASSUME NEW b \in Cells, NEW k \in Nat, (k < cnt[<<cells, b>>])'
               PROVE  (\/ Held(PlaceOf(at2, <<cells, b>>, k)) = who[<<cells, b>>][k]
                       \/ \E u \in Threads : dest[u] = PlaceOf(at2, <<cells, b>>, k))'
    BY DEF StoredOk
  <2>1. PICK f : f = <<cells, b>>
    OBVIOUS
  <2>2. f \in Heads /\ k < cnt[f]
    BY <1>2, <1>6, <2>1
  <2>3. StoredOk(at, who, cnt) /\ Stage(b) >= 2
    BY <1>1, <1>3 DEF Grid
  <2>4. \/ Held(PlaceOf(at, f, k)) = who[f][k]
        \/ \E u \in Threads : dest[u] = PlaceOf(at, f, k)
    BY <2>1, <2>2, <2>3 DEF StoredOk
  <2>5. PlaceOf(at2, f, k) = PlaceOf(at, f, k)
    BY <1>10, <2>2
  <2> QED
    BY <1>2, <1>18, <2>1, <2>4, <2>5
<1>21. ReservedOk(at2, who, cnt)'
  <2>1. ReservedOk(at, who, cnt)
    BY <1>1 DEF Grid
  <2>2. ASSUME NEW u \in Threads, dest'[u] # NULL PROVE Reserved(u, at2, who, cnt)'
    <3>1. u # t /\ dest[u] # NULL /\ todo'[u] = todo[u] /\ j'[u] = j[u]
      BY <1>2, <1>11, <1>12, <2>2
    <3>2. Reserved(u, at, who, cnt)
      BY <2>1, <3>1 DEF ReservedOk
    <3>3. PICK b \in Cells, k \in Nat :
             /\ Stage(b) >= 2 /\ k < cnt[<<cells, b>>] /\ dest[u] = PlaceOf(at, <<cells, b>>, k)
             /\ who[<<cells, b>>][k] = who[<<1 - cells, Min(todo[u])>>][j[u]]
      BY <3>2 DEF Reserved
    <3>4. PlaceOf(at2, <<cells, b>>, k) = PlaceOf(at, <<cells, b>>, k)
      <4>1. PICK f : f = <<cells, b>>
        OBVIOUS
      <4>2. f \in Heads
        BY <1>6, <4>1
      <4>3. PlaceOf(at2, f, k) = PlaceOf(at, f, k)
        BY <1>10, <4>2
      <4> QED
        BY <4>1, <4>3
    <3>5. Stage(b)' >= 2
      BY <1>15
    <3>6. dest'[u] = PlaceOf(at2, <<cells, b>>, k)
      BY <1>2, <3>3, <3>4
    <3> QED
      BY <1>2, <3>1, <3>3, <3>5, <3>6 DEF Reserved
  <2>3. \A u, v \in Threads : u # v /\ dest'[u] # NULL => dest'[u] # dest'[v]
    BY <1>2, <2>1 DEF ReservedOk
  <2> QED
    BY <2>2, <2>3 DEF ReservedOk
<1>22. PositionsOk(who, from, cnt)'
  <2>1. PositionsOk(who, from, cnt)
    BY <1>1 DEF Grid
  <2>2. \A b \in Cells : Stage(b) <= 8
    BY <1>3
  <2>3. \A b \in Cells, k \in Nat :
           /\ Holds(from, cnt, <<cells, b>>, k) =>
                 pos[who[<<cells, b>>][k]] \in Neighbours(b) /\ pos[who[<<cells, b>>][k]] = b
           /\ Holds(from, cnt, <<1 - cells, b>>, k) => pos[who[<<1 - cells, b>>][k]] \in Neighbours(b)
    BY <2>1, <2>2 DEF PositionsOk
  <2> QED
    BY <1>2, <2>3 DEF PositionsOk
<1>23. RebuildOk(at2, hi)'
  <2>0. RebuildOk(at, hi)
    BY <1>1 DEF Grid
  <2> SUFFICES ASSUME NEW u \in Threads
               PROVE  (/\ j[u] \in Nat
                       /\ j[u] # 0 \/ dest[u] # NULL => At(u, Min(todo[u]), "rebuild")
                       /\ j[u] = 0 => cell2[u] = NULL
                       /\ j[u] # 0 => cell2[u] = IF j[u] \div ParticlesPerCell <= hi[<<1 - cells, Min(todo[u])>>]
                                                 THEN at2[<<1 - cells, Min(todo[u])>>][j[u] \div ParticlesPerCell]
                                                 ELSE NULL)'
    BY DEF RebuildOk
  <2>1. CASE u = t
    BY <1>2, <1>12, <2>1
  <2>2. CASE u # t
    <3>1. PICK m : m = Min(todo[u])
      OBVIOUS
    <3>2. todo'[u] = todo[u] /\ j'[u] = j[u] /\ cell2'[u] = cell2[u] /\ dest'[u] = dest[u]
      BY <1>2, <1>11, <1>12, <2>2
    <3>3. j[u] # 0 \/ dest[u] # NULL => At(u, m, "rebuild")
      BY <2>0, <3>1 DEF RebuildOk
    <3>4. At(u, m, "rebuild") => At(u, m, "rebuild")'
      BY <1>2, <3>2 DEF At, Working, Started, Phase
    <3>5. j[u] # 0 => cell2[u] = IF j[u] \div ParticlesPerCell <= hi[<<1 - cells, m>>]
                                 THEN at2[<<1 - cells, m>>][j[u] \div ParticlesPerCell] ELSE NULL
      <4> SUFFICES ASSUME j[u] # 0
                   PROVE  cell2[u] = IF j[u] \div ParticlesPerCell <= hi[<<1 - cells, m>>]
                                     THEN at2[<<1 - cells, m>>][j[u] \div ParticlesPerCell] ELSE NULL
        OBVIOUS
      <4>1. m \in Cells
        BY <3>3, AtOwn
      <4>2. at2[<<1 - cells, m>>] = at[<<1 - cells, m>>]
        BY <1>6, <1>9, <4>1
      <4>3. cell2[u] = IF j[u] \div ParticlesPerCell <= hi[<<1 - cells, m>>]
                       THEN at[<<1 - cells, m>>][j[u] \div ParticlesPerCell] ELSE NULL
        BY <2>0, <3>1 DEF RebuildOk
      <4> QED
        BY <4>2, <4>3
    <3>6. j[u] \in Nat /\ (j[u] = 0 => cell2[u] = NULL)
      BY <2>0 DEF RebuildOk
    <3> QED
      BY <1>2, <3>1, <3>2, <3>3, <3>4, <3>5, <3>6
  <2> QED
    BY <2>1, <2>2
<1>24. Contents(who, from, cnt, loaded)' /\ Lists(nextp, pool, used, at2, lo2, hi)' /\ HeadsFirst(at2)'
  BY <1>2, <1>7, <1>9, <1>10 DEF HeadsFirst
<1>25. Grid(at2, lo2, hi, who, from, cnt)'
  BY <1>16, <1>17, <1>19, <1>20, <1>21, <1>22, <1>23, <1>24 DEF Grid
<1> QED
  BY <1>13, <1>25 DEF Gridded

-----------------------------------------------------------------------------
(* The complete grid *)

\* The stage of a cell follows from the phase its thread is in.
LEMMA StageOf ==
    ASSUME RoundInv, NEW c \in Cells, NEW t \in Threads, t = Owner(c)
    PROVE  /\ left[t] \in Nat /\ left[t] % 10 \in 0 .. 9
           /\ \E k \in Int : \/ c \in todo[t] /\ Stage(c) = 10 * k + (left[t] % 10)
                             \/ c \notin todo[t] /\ Stage(c) = 10 * k + (left[t] % 10) + 1
<1>1. PICK n \in Nat : n = left[t]
  BY DEF RoundInv
<1>2. PICK q \in Int, m \in 0 .. 9 : n = 10 * q + m /\ m = n % 10
  <2>1. n = 10 * (n \div 10) + (n % 10) /\ n \div 10 \in Int /\ n % 10 \in 0 .. 9
    OBVIOUS
  <2> QED
    BY <2>1
<1>3. PICK v \in Nat : v = Visits(0)
  <2>1. Visits(0) \in Nat
    BY Dimensions, VisitsClose
  <2> QED
    BY <2>1
<1>4. PICK s \in Int : s = (v - 1) \div 10
  <2>1. (v - 1) \div 10 \in Int
    OBVIOUS
  <2> QED
    BY <2>1
<1>5. FrameStart(Visits(0)) = 10 * s
  BY <1>3, <1>4 DEF FrameStart
<1>6. Visits(c) = IF c \in todo[t] THEN n ELSE n + 1
  BY <1>1 DEF Visits
<1>7. Stage(c) = (IF c \in todo[t] THEN n ELSE n + 1) - 10 * s
  BY <1>5, <1>6 DEF Stage
<1>8. PICK k \in Int : k = q - s
  OBVIOUS
<1>9. n - 10 * s = 10 * k + m /\ (n + 1) - 10 * s = 10 * k + m + 1
  BY <1>2, <1>8
<1> QED
  BY <1>1, <1>2, <1>7, <1>8, <1>9

\* In a phase between the swaps the cells of a thread are at its number or one on.
LEMMA StageInPhase ==
    ASSUME RoundInv, NEW c \in Cells, NEW t \in Threads, t = Owner(c),
           NEW m \in 3 .. 7, left[t] % 10 = m
    PROVE  Stage(c) = m \/ Stage(c) = m + 1
<1>1. PICK k \in Int : Stage(c) = 10 * k + m \/ Stage(c) = 10 * k + m + 1
  BY StageOf
<1>2. PICK s \in 0 .. 11 : s = Stage(c)
  BY StageRange
<1> QED
  BY <1>1, <1>2

\* A complete grid: every cell has been rebuilt and nothing is under way.
LEMMA SettledStages ==
    ASSUME RoundInv, Settled, NEW c \in Cells
    PROVE  Stage(c) >= 3
<1>0. 0 \in Cells /\ 0 \in Threads /\ Owner(0) = 0
  BY Dimensions, FirstCell
<1>1. \A t \in Threads : left[t] \in Nat /\ left[t] % 10 # 1 /\ left[t] % 10 # 2
  <2> SUFFICES ASSUME NEW t \in Threads PROVE left[t] \in Nat /\ left[t] % 10 # 1 /\ left[t] % 10 # 2
    OBVIOUS
  <2>1. PICK n \in Nat : n = left[t]
    BY DEF RoundInv
  <2>2. PhaseAfter(n) # "clear" /\ PhaseAfter(n) # "rebuild"
    BY <2>1 DEF Settled, Phase
  <2> QED
    BY <2>1, <2>2, PhaseNumbers
<1>2. ~(left[0] % 10 = 0 /\ 0 \notin todo[0])
  <2> SUFFICES ASSUME left[0] % 10 = 0, 0 \notin todo[0] PROVE FALSE
    OBVIOUS
  <2>1. PICK n \in Nat : n = left[0]
    BY <1>0, <1>1
  <2>2. PhaseAfter(n) = "swap" /\ Work(0, n) \subseteq {0}
    BY <1>0, <2>1, PhaseNumbers, WorkIsOwn
  <2>3. todo[0] = {}
    BY <1>0, <2>1, <2>2 DEF RoundInv
  <2> QED
    BY <2>1, <2>2, <2>3 DEF Settled, Swapped, Phase
<1>3. ASSUME NEW d \in Cells PROVE Stage(d) # 2
  <2>1. PICK t \in Threads : t = Owner(d)
    BY OneOwner
  <2>2. PICK m \in 0 .. 9 : m = left[t] % 10 /\ m # 1 /\ m # 2
    BY <1>1, <2>1, StageOf
  <2>3. PICK k \in Int : Stage(d) = 10 * k + m \/ Stage(d) = 10 * k + m + 1
    BY <2>1, <2>2, StageOf
  <2> QED
    BY <2>2, <2>3
<1>4. Stage(0) # 1
  <2>1. PICK m \in 0 .. 9 : m = left[0] % 10 /\ m # 1 /\ m # 2
    BY <1>0, <1>1, StageOf
  <2>2. PICK k \in Int : (0 \in todo[0] /\ Stage(0) = 10 * k + m) \/ (0 \notin todo[0] /\ Stage(0) = 10 * k + m + 1)
    BY <1>0, <2>1, StageOf
  <2>3. CASE m = 0
    <3>1. 0 \in todo[0]
      BY <1>2, <2>1, <2>3
    <3> QED
      BY <2>2, <2>3, <3>1
  <2>4. CASE m # 0
    BY <2>1, <2>2, <2>4
  <2> QED
    BY <2>3, <2>4
<1>5. PICK s \in 0 .. 11, z \in 1 .. 10 : /\ s = Stage(c) /\ z = Stage(0)
                                          /\ s = z - 1 \/ s = z \/ s = z + 1
  BY <1>0, StageRange
<1>6. z # 1 /\ z # 2 /\ s # 2
  BY <1>0, <1>3, <1>4, <1>5
<1> QED
  BY <1>5, <1>6

\* Then no place is reserved.
LEMMA SettledIdle ==
    ASSUME NEW at, NEW hi, RebuildOk(at, hi), Settled \/ Joined, NEW t \in Threads, RoundInv
    PROVE  j[t] = 0 /\ dest[t] = NULL
<1>1. ~At(t, Min(todo[t]), "rebuild")
  <2>1. CASE Settled
    BY <2>1 DEF Settled, At
  <2>2. CASE Joined
    <3>1. left[t] = 10 * framenum
      BY <2>2 DEF Joined
    <3>2. ~(10 * framenum < 10 * framenum)
      BY Sizes
    <3> QED
      BY <3>1, <3>2 DEF At, Working, Goal
  <2> QED
    BY <2>1, <2>2
<1> QED
  BY <1>1 DEF RebuildOk

\* In a complete grid a particle is in one place of one cell.
LEMMA StoredAt ==
    ASSUME RoundInv, Types, Started, NEW at, NEW lo, NEW hi, NEW who, NEW from, NEW cnt,
           Grid(at, lo, hi, who, from, cnt), \A c \in Cells : Stage(c) >= 3,
           \A t \in Threads : dest[t] = NULL, NEW p \in Particles
    PROVE  /\ StoredOnce(p)
           /\ \E c \in Cells : p \in Members(c) /\ \E i \in Nat : /\ Holds(from, cnt, <<cells, c>>, i)
                                                                  /\ who[<<cells, c>>][i] = p
<1>1. Contents(who, from, cnt, loaded) /\ CellsOk(at, lo, hi, from, cnt)
  BY DEF Grid
<1>2. cells \in {0, 1} /\ loaded = numParticles
  BY DEF Types, Started
<1>3. \A c \in Cells : Stage(c) >= 2
  <2> SUFFICES ASSUME NEW c \in Cells PROVE Stage(c) >= 2
    OBVIOUS
  <2>1. PICK s \in Int : s = Stage(c)
    BY StageRange
  <2> QED
    BY <2>1
<1>4. PICK h \in Heads, i \in Int : Holds(from, cnt, h, i) /\ who[h][i] = p
  <2>1. p \in 1 .. loaded
    BY <1>2 DEF Particles
  <2> QED
    BY <1>1, <2>1 DEF Contents
<1>5. from[h] \in Nat /\ cnt[h] \in Nat
  BY <1>1 DEF Contents, Counts
<1>6. i \in Nat /\ from[h] <= i /\ i < cnt[h]
  BY <1>4, <1>5 DEF Holds
<1>7. PICK a \in {0, 1}, c \in Cells : h = <<a, c>>
  BY DEF Heads
<1>8. a = cells
  <2> SUFFICES ASSUME a # cells PROVE FALSE
    OBVIOUS
  <2>1. h = <<1 - cells, c>>
    BY <1>2, <1>7
  <2>2. from[h] = cnt[h]
    BY <1>1, <2>1 DEF CellsOk, EmptyCell
  <2> QED
    BY <1>5, <1>6, <2>2
<1>9. ASSUME NEW d \in Cells, NEW k \in Nat
      PROVE  /\ cnt[<<cells, d>>] = cnumPars[cells][d] /\ cnt[<<cells, d>>] \in Nat
             /\ k < cnt[<<cells, d>>] => /\ Held(Place(cells, d, k)) = who[<<cells, d>>][k]
                                         /\ Holds(from, cnt, <<cells, d>>, k) /\ k \in Int
  <2>1. Stage(d) >= 2
    BY <1>3
  <2>2. cnt[<<cells, d>>] = cnumPars[cells][d] /\ cnt[<<cells, d>>] \in Nat
    BY <2>1, MembersOf
  <2>3. ASSUME k < cnt[<<cells, d>>]
        PROVE  Held(Place(cells, d, k)) = who[<<cells, d>>][k] /\ Holds(from, cnt, <<cells, d>>, k)
    <3>1. Place(cells, d, k) = PlaceOf(at, <<cells, d>>, k) /\ Holds(from, cnt, <<cells, d>>, k)
      BY <2>1, <2>3, MembersOf
    <3>2. Held(PlaceOf(at, <<cells, d>>, k)) = who[<<cells, d>>][k]
      BY <2>1, <2>3, MembersHeld
    <3> QED
      BY <3>1, <3>2
  <2> QED
    BY <2>2, <2>3
<1>10. cnt[h] <= numParticles
  <2>1. PICK n \in Nat : n = loaded
    BY DEF Types
  <2>2. cnt[h] - from[h] <= n
    BY <1>1, <2>1, ContentsBound
  <2>3. from[h] = 0
    BY <1>1, <1>3, <1>7, <1>8 DEF CellsOk, LiveCell
  <2> QED
    BY <1>2, <1>5, <2>1, <2>2, <2>3
<1>11. i \in 0 .. numParticles - 1
  BY <1>5, <1>6, <1>10, Sizes
<1> DEFINE S == {e \in Cells \X (0 .. numParticles - 1) :
                    e[2] < cnumPars[cells][e[1]] /\ Held(Place(cells, e[1], e[2])) = p}
<1>12. <<c, i>> \in S
  <2>1. cnt[h] = cnumPars[cells][c] /\ Held(Place(cells, c, i)) = p
    BY <1>4, <1>6, <1>7, <1>8, <1>9
  <2> QED
    BY <1>6, <1>11, <2>1
<1>13. ASSUME NEW e \in S PROVE e = <<c, i>>
  <2>1. PICK d \in Cells, k \in 0 .. numParticles - 1 : e = <<d, k>> /\ k < cnumPars[cells][d] /\ Held(Place(cells, d, k)) = p
    BY <1>13
  <2>2. k \in Nat
    BY <2>1
  <2>3. Holds(from, cnt, <<cells, d>>, k) /\ who[<<cells, d>>][k] = p
    BY <1>9, <2>1, <2>2
  <2>4. PICK g : g = <<cells, d>>
    OBVIOUS
  <2>5. g \in Heads
    BY <1>2, <2>4, HeadsOf
  <2>6. g = h /\ k = i
    BY <1>1, <1>4, <2>2, <2>3, <2>4, <2>5 DEF Contents
  <2> QED
    BY <1>7, <1>8, <2>1, <2>4, <2>6
<1>14. S = {<<c, i>>}
  BY <1>12, <1>13
<1>15. Cardinality(S) = 1
  BY <1>14, FS_Singleton
<1>16. StoredOnce(p)
  BY <1>15 DEF StoredOnce
<1>17. p \in Members(c)
  <2>1. Members(c) = {who[<<cells, c>>][k] : k \in {m \in Nat : m < cnt[<<cells, c>>]}}
    BY <1>3, MembersHeld
  <2> QED
    BY <1>4, <1>6, <1>7, <1>8, <2>1
<1>18. Holds(from, cnt, <<cells, c>>, i) /\ who[<<cells, c>>][i] = p
  BY <1>4, <1>7, <1>8
<1> QED
  BY <1>6, <1>16, <1>17, <1>18

\* Until it moves it is in the cell of its position.
LEMMA StoredInPlace ==
    ASSUME RoundInv, Types, Started, NEW at, NEW lo, NEW hi, NEW who, NEW from, NEW cnt,
           Grid(at, lo, hi, who, from, cnt), \A c \in Cells : Stage(c) >= 3,
           \A t \in Threads : dest[t] = NULL, NEW p \in Particles
    PROVE  InPlace(p)
<1>0. /\ StoredOnce(p)
      /\ \E c \in Cells : p \in Members(c) /\ \E i \in Nat : /\ Holds(from, cnt, <<cells, c>>, i)
                                                             /\ who[<<cells, c>>][i] = p
  BY StoredAt, SMTT(30)
<1>1. PICK c \in Cells, i \in Nat : p \in Members(c) /\ Holds(from, cnt, <<cells, c>>, i) /\ who[<<cells, c>>][i] = p
  BY <1>0
<1>2. ASSUME \A t \in Threads : Phase(t) \in {"init", "densities", "densities2", "forces", "collisions"}
      PROVE  c = pos[p]
  <2>1. PICK t \in Threads : t = Owner(c)
    BY OneOwner
  <2>2. PICK n \in Nat : n = left[t]
    BY DEF RoundInv
  <2>3. \/ PhaseAfter(n) = "init" \/ PhaseAfter(n) = "densities" \/ PhaseAfter(n) = "densities2"
        \/ PhaseAfter(n) = "forces" \/ PhaseAfter(n) = "collisions"
    BY <1>2, <2>2 DEF Phase
  <2>4. PICK m \in 3 .. 7 : left[t] % 10 = m
    BY <2>2, <2>3, PhaseNumbers
  <2>5. Stage(c) = m \/ Stage(c) = m + 1
    BY <2>1, <2>4, StageInPhase
  <2>6. Stage(c) <= 8
    BY <2>5
  <2>7. PositionsOk(who, from, cnt)
    BY DEF Grid
  <2>8. pos[who[<<cells, c>>][i]] = c
    BY <1>1, <2>6, <2>7 DEF PositionsOk
  <2> QED
    BY <1>1, <2>8
<1>3. (\A t \in Threads : Phase(t) \in {"init", "densities", "densities2", "forces", "collisions"}) => c = pos[p]
  BY <1>2
<1>4. c \in Cells /\ p \in Members(c)
  BY <1>1
<1> QED
  BY <1>3, <1>4, Zenon DEF InPlace

\* After SaveFile: the lists are those of the cells and of the pools, and what was
\* written is every particle once.
CleanLists(at, lo, hi) ==
    /\ Lists(nextp, pool, used, at, lo, hi)
    /\ \A c \in Cells : /\ nextp[<<cells, c>>] = First(at, lo, hi, <<cells, c>>)
                        /\ lo[<<1 - cells, c>>] = hi[<<1 - cells, c>>] + 1
Cleaned ==
    /\ Joined /\ \A t \in Threads : j[t] = 0
    /\ \E at, lo, hi : CleanLists(at, lo, hi)
    /\ \A p \in Particles : saved[p] = 1

FluidInv ==
    /\ RoundInv /\ Types
    /\ saved \in [Particles -> Nat] \cup {NULL}
    /\ saved = NULL => Gridded
    /\ saved # NULL => Cleaned

\* The lists of a complete grid.
LEMMA CompleteLists ==
    ASSUME RoundInv, Types, NEW at, NEW lo, NEW hi, NEW who, NEW from, NEW cnt,
           Grid(at, lo, hi, who, from, cnt), \A c \in Cells : Stage(c) >= 3
    PROVE  CleanLists(at, lo, hi)
<1>1. Lists(nextp, pool, used, at, lo, hi) /\ CellsOk(at, lo, hi, from, cnt)
  BY DEF Grid
<1>2. ASSUME NEW c \in Cells
      PROVE  /\ nextp[<<cells, c>>] = First(at, lo, hi, <<cells, c>>)
             /\ lo[<<1 - cells, c>>] = hi[<<1 - cells, c>>] + 1
  <2>1. PICK s \in Int : s = Stage(c)
    BY StageRange
  <2>2. Stage(c) >= 2 /\ Stage(c) >= 3
    BY <2>1
  <2>3. LiveCell(c, at, lo, hi, from, cnt) /\ EmptyCell(from, cnt, lo, hi, <<1 - cells, c>>)
    BY <1>1, <2>2 DEF CellsOk
  <2> QED
    BY <2>3 DEF LiveCell, EmptyCell
<1> QED
  BY <1>1, <1>2 DEF CleanLists

\* main writes the particles.
LEMMA SaveKeeps ==
    ASSUME FluidInv, SaveFile PROVE FluidInv'
<1>1. /\ RoundInv /\ Types /\ Gridded /\ Joined
      /\ saved' = [p \in Particles |->
                     Cardinality({at \in Cells \X (0 .. numParticles - 1) :
                         at[2] < cnumPars[cells][at[1]] /\ Held(Place(cells, at[1], at[2])) = p})]
  BY DEF FluidInv, SaveFile
<1>2. /\ entered' = entered /\ left' = left /\ cells' = cells /\ cnumPars' = cnumPars
      /\ nextp' = nextp /\ slot' = slot /\ last_cells' = last_cells
      /\ pool' = pool /\ alloc' = alloc /\ used' = used /\ loaded' = loaded /\ pool_id' = pool_id
      /\ pos' = pos /\ density' = density /\ force' = force /\ todo' = todo
      /\ j' = j /\ cell2' = cell2 /\ dest' = dest
  BY DEF SaveFile, barrierVars, gridVars, poolVars, initVars, particleVars, rebuildVars
<1>3. RoundInv' /\ Joined'
  <2>1. RoundInv'
    BY <1>1, <1>2 DEF RoundInv, Started
  <2>2. Joined'
    BY <1>1, <1>2 DEF Joined, Started
  <2> QED
    BY <2>1, <2>2
<1>4. Types'
  BY <1>1, <1>2 DEF Types
<1>5. PICK at, lo, hi, who, from, cnt : Grid(at, lo, hi, who, from, cnt)
  BY <1>1 DEF Gridded
<1>6. \A c \in Cells : Stage(c)' = Stage(c)
  BY <1>2, StageQuiet
<1>7. Gridded'
  <2>1. (\A t \in Threads : Unmoved(t)) /\ \A c \in Cells : QuietStage(c)
    BY <1>2, <1>6 DEF Unmoved, QuietStage
  <2>2. UNCHANGED <<cells, gridVars, pool, used, rebuildVars, loaded>>
    BY <1>2 DEF gridVars, rebuildVars
  <2>3. Grid(at, lo, hi, who, from, cnt)'
    BY <1>1, <1>2, <1>5, <2>1, <2>2, GridQuiet
  <2> QED
    BY <2>3 DEF Gridded
<1>8. \A c \in Cells : Stage(c) >= 3
  <2> SUFFICES ASSUME NEW c \in Cells PROVE Stage(c) >= 3
    OBVIOUS
  <2>1. Stage(c) = 10 \/ Stage(c) = 11
    BY <1>1, StageIdle
  <2> QED
    BY <2>1
<1>9. \A t \in Threads : j[t] = 0 /\ dest[t] = NULL
  <2>1. RebuildOk(at, hi)
    BY <1>5 DEF Grid
  <2> QED
    BY <1>1, <2>1, SettledIdle
<1>10. \A p \in Particles : StoredOnce(p)
  <2> SUFFICES ASSUME NEW p \in Particles PROVE StoredOnce(p)
    OBVIOUS
  <2>1. Started
    BY <1>1 DEF Joined
  <2> QED
    BY <1>1, <1>5, <1>8, <1>9, <2>1, StoredAt
<1>11. \A p \in Particles : saved'[p] = 1
  BY <1>1, <1>10 DEF StoredOnce
<1>12. saved' \in [Particles -> Nat]
  <2>1. saved' = [p \in Particles |-> saved'[p]]
    BY <1>1
  <2>2. \A p \in Particles : saved'[p] \in Nat
    BY <1>11
  <2> QED
    BY <2>1, <2>2
<1>13. Cleaned'
  <2>1. CleanLists(at, lo, hi)
    BY <1>1, <1>5, <1>8, CompleteLists
  <2>2. CleanLists(at, lo, hi)'
    BY <1>2, <2>1 DEF CleanLists
  <2> QED
    BY <1>2, <1>3, <1>9, <1>11, <2>2 DEF Cleaned
<1> QED
  BY <1>3, <1>4, <1>7, <1>12, <1>13 DEF FluidInv

\* main returns the structures of a cell to pool 0.
LEMMA CleanUpKeeps ==
    ASSUME FluidInv, NEW c \in Cells, CleanUpSim(c) PROVE FluidInv'
<1>1. RoundInv /\ Types /\ Cleaned /\ saved # NULL /\ saved \in [Particles -> Nat] \cup {NULL}
  BY DEF FluidInv, CleanUpSim
<1>2. PICK h : h = <<cells, c>>
  OBVIOUS
<1>3. PICK b : b = nextp[h]
  OBVIOUS
<1>4. /\ b # NULL
      /\ nextp' = [nextp EXCEPT ![h] = nextp[b], ![b] = pool[0]]
      /\ pool' = [pool EXCEPT ![0] = b]
      /\ entered' = entered /\ left' = left /\ cells' = cells /\ cnumPars' = cnumPars
      /\ slot' = slot /\ last_cells' = last_cells
      /\ alloc' = alloc /\ used' = used /\ loaded' = loaded /\ pool_id' = pool_id
      /\ pos' = pos /\ density' = density /\ force' = force /\ todo' = todo
      /\ j' = j /\ cell2' = cell2 /\ dest' = dest /\ saved' = saved
  BY <1>2, <1>3 DEF CleanUpSim, barrierVars, initVars, particleVars, rebuildVars
<1>5. PICK at, lo, hi : CleanLists(at, lo, hi)
  BY <1>1 DEF Cleaned
<1>6. /\ Lists(nextp, pool, used, at, lo, hi)
      /\ \A d \in Cells : /\ nextp[<<cells, d>>] = First(at, lo, hi, <<cells, d>>)
                          /\ lo[<<1 - cells, d>>] = hi[<<1 - cells, d>>] + 1
  BY <1>5 DEF CleanLists
<1>7. /\ nextp \in [Nodes -> Nodes \cup {NULL}] /\ pool \in [Threads -> Blocks \cup {NULL}]
      /\ used \in Nat /\ used <= MaxBlocks /\ cells \in {0, 1}
  BY <1>1 DEF Types
<1>8. h \in Heads /\ h \in Owners /\ h \in Nodes /\ 0 \in Threads
      /\ (\A d \in Cells : /\ <<cells, d>> \in Heads /\ <<1 - cells, d>> \in Heads /\ <<1 - cells, d>> # h
                           /\ d # c => <<cells, d>> # h)
  <2>1. \A d \in Cells : /\ <<cells, d>> \in Heads /\ <<1 - cells, d>> \in Heads /\ <<1 - cells, d>> # h
                         /\ d # c => <<cells, d>> # h
    BY <1>2, <1>7, HeadsOf
  <2> QED
    BY <1>2, <2>1, Dimensions, OwnerKinds
<1>9. lo[h] <= hi[h] /\ b = at[h][lo[h]]
  <2>1. b = First(at, lo, hi, h)
    BY <1>2, <1>3, <1>6
  <2> QED
    BY <1>4, <2>1 DEF First
<1>10. lo[h] \in Int /\ hi[h] \in Int /\ b \in Blocks /\ b \in Nodes
       /\ nextp[b] = IF lo[h] = hi[h] THEN NULL ELSE at[h][lo[h] + 1]
  <2>1. lo[h] \in Int /\ hi[h] \in Int
    BY <1>6, <1>8 DEF Lists, Numbered
  <2>2. Listed(lo, hi, h, lo[h])
    BY <1>9, <2>1 DEF Listed
  <2>3. b \in UsedBlocks(used)
    BY <1>6, <1>8, <1>9, <2>1, <2>2 DEF Lists, AllListed
  <2>4. nextp[at[h][lo[h]]] = IF lo[h] = hi[h] THEN NULL ELSE at[h][lo[h] + 1]
    BY <1>6, <1>8, <2>1, <2>2 DEF Lists, Linkage
  <2> QED
    BY <1>7, <1>9, <2>1, <2>3, <2>4, UsedAreBlocks, OwnerKinds
<1>11. b # h /\ (\A f \in Heads : f # b) /\ (\A n \in Blocks : n # h /\ n \in Nodes)
  BY <1>8, <1>10, OwnerKinds
<1>12. nextp[b] \in Nodes \cup {NULL} /\ pool[0] \in Nodes \cup {NULL}
  BY <1>7, <1>8, <1>10, OwnerKinds
<1>13. /\ nextp' \in [Nodes -> Nodes \cup {NULL}] /\ pool' \in [Threads -> Blocks \cup {NULL}]
       /\ nextp'[b] = pool[0] /\ nextp'[h] = nextp[b]
       /\ \A n \in Nodes : n # b /\ n # h => nextp'[n] = nextp[n]
  <2>1. pool' \in [Threads -> Blocks \cup {NULL}]
    BY <1>4, <1>7, <1>10
  <2>2. nextp' \in [Nodes -> Nodes \cup {NULL}]
    BY <1>4, <1>7, <1>12
  <2>3. nextp'[b] = pool[0] /\ nextp'[h] = nextp[b] /\ \A n \in Nodes : n # b /\ n # h => nextp'[n] = nextp[n]
    BY <1>4, <1>7, <1>8, <1>10, <1>11
  <2> QED
    BY <2>1, <2>2, <2>3
<1>14. PICK us \in Nat : us = used /\ us <= MaxBlocks
  BY <1>7
<1>15. Returned(nextp, pool, at, lo, h, 0, nextp', pool')
  <2>1. \A n \in Blocks : n # b => nextp'[n] = nextp[n]
    BY <1>11, <1>13
  <2> QED
    BY <1>4, <1>9, <1>13, <2>1 DEF Returned
<1>16. Returns(nextp', pool', us, at, lo, hi, h)
  <2>1. Lists(nextp, pool, us, at, lo, hi)
    BY <1>6, <1>14
  <2> QED
    BY <1>7, <1>8, <1>9, <1>14, <1>15, <2>1, ListsReturn
<1>17. PICK at2, lo2 :
          /\ Lists(nextp', pool', us, at2, lo2, hi)
          /\ lo2[h] = lo[h] + 1
          /\ \A f \in Heads : at2[f] = at[f] /\ (f # h => lo2[f] = lo[f])
  BY <1>16 DEF Returns
<1>18. nextp'[h] = First(at2, lo2, hi, h)
  <2>1. lo[h] + 1 <= hi[h] <=> lo[h] # hi[h]
    BY <1>9, <1>10
  <2> QED
    BY <1>8, <1>10, <1>13, <1>17, <2>1 DEF First
<1>19. CleanLists(at2, lo2, hi)'
  <2>1. ASSUME NEW d \in Cells
        PROVE  /\ nextp'[<<cells, d>>] = First(at2, lo2, hi, <<cells, d>>)
               /\ lo2[<<1 - cells, d>>] = hi[<<1 - cells, d>>] + 1
    <3>1. PICK f : f = <<cells, d>>
      OBVIOUS
    <3>2. f \in Heads /\ (d # c => f # h)
      BY <1>8, <3>1
    <3>3. nextp'[f] = First(at2, lo2, hi, f)
      <4>1. CASE d = c
        BY <1>2, <1>18, <3>1, <4>1
      <4>2. CASE d # c
        <5>1. nextp'[f] = nextp[f]
          BY <1>11, <1>13, <3>2, <4>2, OwnerKinds
        <5>2. nextp[f] = First(at, lo, hi, f)
          BY <1>6, <3>1
        <5> QED
          BY <1>17, <3>2, <4>2, <5>1, <5>2 DEF First
      <4> QED
        BY <4>1, <4>2
    <3>4. PICK e : e = <<1 - cells, d>>
      OBVIOUS
    <3>5. e \in Heads /\ e # h /\ lo[e] = hi[e] + 1
      BY <1>6, <1>8, <3>4
    <3>6. lo2[e] = hi[e] + 1
      BY <1>17, <3>5
    <3> QED
      BY <3>1, <3>3, <3>4, <3>6
  <2> QED
    BY <1>4, <1>14, <1>17, <2>1 DEF CleanLists
<1>20. RoundInv' /\ Joined'
  <2>1. RoundInv'
    BY <1>1, <1>4 DEF RoundInv, Started
  <2>2. Joined'
    BY <1>1, <1>4 DEF Cleaned, Joined, Started
  <2> QED
    BY <2>1, <2>2
<1>21. Types'
  BY <1>1, <1>4, <1>13 DEF Types
<1>22. Cleaned'
  BY <1>1, <1>4, <1>19, <1>20 DEF Cleaned
<1> QED
  BY <1>1, <1>4, <1>20, <1>21, <1>22 DEF FluidInv

\* Once saved, threads have nothing to do.
LEMMA CleanedIdle ==
    ASSUME RoundInv, Cleaned, NEW t \in Threads
    PROVE  Started /\ ~Working(t) /\ ~Leave(t)
<1>1. Started /\ left[t] = 10 * framenum /\ 10 * framenum \in Nat
  BY Sizes DEF Cleaned, Joined
<1>2. ~Working(t)
  BY <1>1 DEF Working, Goal
<1>3. ~Leave(t)
  <2>1. entered[t] <= 10 * framenum /\ entered[t] \in Nat
    BY DEF RoundInv
  <2>2. Leave(t) => left[t] < entered[t]
    BY DEF Leave, B!MayLeave
  <2> QED
    BY <1>1, <2>1, <2>2
<1> QED
  BY <1>1, <1>2, <1>3

-----------------------------------------------------------------------------
(* The invariant *)

\* A particle is read.
LEMMA LoadRounds ==
    ASSUME RoundInv, NEW c \in Cells, Load(c) PROVE RoundInv' /\ ~Started
<1>1. /\ loaded < numParticles /\ loaded' = loaded + 1
      /\ entered' = entered /\ left' = left /\ cells' = cells /\ todo' = todo
  BY DEF Load, barrierVars
<1>2. loaded \in 0 .. numParticles /\ numParticles \in Nat
  BY Sizes DEF RoundInv
<1>3. ~Started /\ loaded' \in 0 .. numParticles
  BY <1>1, <1>2 DEF Started
<1>4. cells' = 0 /\ \A t \in Threads : left'[t] = 0 /\ entered'[t] = 0 /\ todo'[t] = Work(t, 0)
  BY <1>1, <1>3 DEF RoundInv
<1> QED
  BY <1>1, <1>3, <1>4 DEF RoundInv

\* The steps of the threads keep count of the barriers.
LEMMA ThreadRounds ==
    ASSUME RoundInv, NEW t \in Threads, ThreadStep(t) PROVE RoundInv'
<1>1. CASE Enter(t)
  BY <1>1, EnterRounds
<1>2. CASE Leave(t)
  BY <1>2, LeaveRounds
<1>3. ASSUME NEW c \in Cells, Sweep(t, c) PROVE RoundInv'
  <2>1. \E phase : At(t, c, phase)
    BY <1>3 DEF Sweep, Clear, Reserve, Copy, SourceDone, InitDensitiesAndForces, ComputeDensities,
                ComputeDensities2, ComputeForces, ProcessCollisions, Advance, ProcessCollisions2, Adjust
  <2>2. Visited(t, c) \/ UNCHANGED todo
    BY <1>3 DEF Sweep, Clear, Reserve, Copy, SourceDone, InitDensitiesAndForces, ComputeDensities,
                ComputeDensities2, ComputeForces, ProcessCollisions, Advance, ProcessCollisions2, Adjust
  <2>3. UNCHANGED <<barrierVars, loaded>> /\ cells' = cells
    BY <1>3 DEF Sweep, Clear, Reserve, Copy, SourceDone, InitDensitiesAndForces, ComputeDensities,
                ComputeDensities2, ComputeForces, ProcessCollisions, Advance, ProcessCollisions2, Adjust,
                initVars
  <2>4. cells' \in {0, 1}
    BY <2>3 DEF RoundInv
  <2>5. PICK phase : At(t, c, phase)
    BY <2>1
  <2> QED
    BY <2>2, <2>3, <2>4, <2>5, VisitRounds
<1> QED
  BY <1>1, <1>2, <1>3 DEF ThreadStep

\* The steps of the threads keep the grid.
LEMMA ThreadGrid ==
    ASSUME RoundInv, Types, Gridded, NEW t \in Threads, ThreadStep(t), ~wide'
    PROVE  Types' /\ Gridded'
<1>1. CASE Enter(t) \/ Leave(t)
  BY <1>1, EnterGrid
<1>2. ASSUME NEW c \in Cells, Sweep(t, c) PROVE Types' /\ Gridded'
  <2>1. CASE Clear(t, c)
    BY <2>1, ClearGrid
  <2>2. CASE Reserve(t, c)
    BY <2>2, ReserveGrid
  <2>3. CASE Copy(t, c)
    BY <2>3, CopyGrid
  <2>4. CASE SourceDone(t, c)
    BY <2>4, SourceDoneGrid
  <2>5. CASE \/ InitDensitiesAndForces(t, c) \/ ComputeDensities(t, c) \/ ComputeDensities2(t, c)
             \/ ComputeForces(t, c) \/ ProcessCollisions(t, c) \/ Advance(t, c) \/ ProcessCollisions2(t, c)
    BY <2>5, LaterSteps
  <2> QED
    BY <1>2, <2>1, <2>2, <2>3, <2>4, <2>5 DEF Sweep
<1> QED
  BY <1>1, <1>2 DEF ThreadStep

\* Threads have something to do only before the particles are saved.
LEMMA StepsUnsaved ==
    ASSUME FluidInv
    PROVE  /\ Swap \/ (\E c \in Cells : Load(c)) \/ (\E t \in Threads : ThreadStep(t)) => saved = NULL /\ saved' = saved
           /\ RoundInv /\ Types /\ (saved = NULL => Gridded)
<1>1. RoundInv /\ Types /\ (saved = NULL => Gridded) /\ (saved # NULL => Cleaned)
  BY DEF FluidInv
<1>2. CASE Swap
  <2>1. Working(0) /\ 0 \in Threads /\ saved' = saved
    BY <1>2, Dimensions DEF Swap, At
  <2>2. saved = NULL
    BY <1>1, <2>1, CleanedIdle
  <2> QED
    BY <1>1, <2>1, <2>2
<1>3. ASSUME NEW c \in Cells, Load(c) PROVE saved = NULL /\ saved' = saved
  <2>1. ~Started /\ saved' = saved
    BY <1>1, <1>3, LoadRounds DEF Load
  <2>2. saved = NULL
    BY <1>1, <2>1 DEF Cleaned, Joined
  <2> QED
    BY <2>1, <2>2
<1>4. ASSUME NEW t \in Threads, ThreadStep(t) PROVE saved = NULL /\ saved' = saved
  <2>1. Working(t) \/ Leave(t)
    BY <1>4 DEF ThreadStep, Enter, Sweep, Clear, Reserve, Copy, SourceDone, InitDensitiesAndForces,
                ComputeDensities, ComputeDensities2, ComputeForces, ProcessCollisions, Advance,
                ProcessCollisions2, Adjust, At
  <2>2. saved' = saved
    BY <1>4 DEF ThreadStep, Enter, Leave, Sweep, Clear, Reserve, Copy, SourceDone, InitDensitiesAndForces,
                ComputeDensities, ComputeDensities2, ComputeForces, ProcessCollisions, Advance,
                ProcessCollisions2, Adjust
  <2>3. saved = NULL
    BY <1>1, <2>1, CleanedIdle
  <2> QED
    BY <2>2, <2>3
<1> QED
  BY <1>1, <1>2, <1>3, <1>4

\* Every step keeps the invariant, if no particle travels more than one cell in it.
LEMMA FluidNext == FluidInv /\ [Next]_vars /\ ~wide' => FluidInv'
<1> SUFFICES ASSUME FluidInv, [Next]_vars, ~wide' PROVE FluidInv'
  OBVIOUS
<1>0. /\ Swap \/ (\E c \in Cells : Load(c)) \/ (\E t \in Threads : ThreadStep(t)) => saved = NULL /\ saved' = saved
      /\ RoundInv /\ Types /\ (saved = NULL => Gridded)
  BY StepsUnsaved
<1>1. ASSUME NEW c \in Cells, Load(c) PROVE FluidInv'
  <2>1. saved = NULL /\ saved' = saved /\ Gridded
    BY <1>0, <1>1
  <2>2. RoundInv'
    BY <1>0, <1>1, LoadRounds
  <2>3. Types' /\ Gridded'
    BY <1>0, <1>1, <2>1, LoadGrid
  <2> QED
    BY <2>1, <2>2, <2>3 DEF FluidInv
<1>2. ASSUME NEW c \in Cells, CleanUpSim(c) PROVE FluidInv'
  BY <1>2, CleanUpKeeps
<1>3. CASE Swap
  <2>1. saved = NULL /\ saved' = saved /\ Gridded
    BY <1>0, <1>3
  <2>2. RoundInv'
    <3>1. /\ At(0, 0, "swap") /\ Visited(0, 0) /\ UNCHANGED <<barrierVars, loaded>> /\ cells' = 1 - cells
          /\ 0 \in Threads
      BY <1>3, Dimensions DEF Swap, initVars
    <3>2. cells' \in {0, 1}
      BY <1>0, <3>1 DEF RoundInv
    <3> QED
      BY <1>0, <3>1, <3>2, VisitRounds
  <2>3. Types' /\ Gridded'
    BY <1>0, <1>3, <2>1, SwapGrid
  <2> QED
    BY <2>1, <2>2, <2>3 DEF FluidInv
<1>4. ASSUME NEW t \in Threads, ThreadStep(t) PROVE FluidInv'
  <2>1. saved = NULL /\ saved' = saved /\ Gridded
    BY <1>0, <1>4
  <2>2. RoundInv'
    BY <1>0, <1>4, ThreadRounds
  <2>3. Types' /\ Gridded'
    BY <1>0, <1>4, <2>1, ThreadGrid
  <2> QED
    BY <2>1, <2>2, <2>3 DEF FluidInv
<1>5. CASE SaveFile
  BY <1>5, SaveKeeps
<1>6. CASE UNCHANGED vars
  <2>1. /\ entered' = entered /\ left' = left /\ cells' = cells /\ cnumPars' = cnumPars
        /\ nextp' = nextp /\ slot' = slot /\ last_cells' = last_cells
        /\ pool' = pool /\ alloc' = alloc /\ used' = used /\ loaded' = loaded /\ pool_id' = pool_id
        /\ pos' = pos /\ density' = density /\ force' = force /\ todo' = todo
        /\ j' = j /\ cell2' = cell2 /\ dest' = dest /\ saved' = saved
    BY <1>6 DEF vars, barrierVars, gridVars, poolVars, initVars, particleVars, rebuildVars
  <2>2. RoundInv'
    BY <1>0, <2>1 DEF RoundInv, Started
  <2>3. Types'
    BY <1>0, <2>1 DEF Types
  <2>4. saved = NULL => Gridded'
    <3> SUFFICES ASSUME saved = NULL PROVE Gridded'
      OBVIOUS
    <3>1. PICK at, lo, hi, who, from, cnt : Grid(at, lo, hi, who, from, cnt)
      BY <1>0 DEF Gridded
    <3>2. \A c \in Cells : Stage(c)' = Stage(c)
      BY <2>1, StageQuiet
    <3>3. (\A t \in Threads : Unmoved(t)) /\ \A c \in Cells : QuietStage(c)
      BY <2>1, <3>2 DEF Unmoved, QuietStage
    <3>4. UNCHANGED <<cells, gridVars, pool, used, rebuildVars, loaded>>
      BY <2>1 DEF gridVars, rebuildVars
    <3>5. Grid(at, lo, hi, who, from, cnt)'
      BY <1>0, <2>1, <3>1, <3>3, <3>4, GridQuiet
    <3> QED
      BY <3>5 DEF Gridded
  <2>5. saved # NULL => Cleaned'
    <3> SUFFICES ASSUME saved # NULL PROVE Cleaned'
      OBVIOUS
    <3>1. Cleaned
      BY DEF FluidInv
    <3>2. Joined'
      BY <2>1, <3>1 DEF Cleaned, Joined, Started
    <3>3. PICK at, lo, hi : CleanLists(at, lo, hi)
      BY <3>1 DEF Cleaned
    <3>4. CleanLists(at, lo, hi)'
      BY <2>1, <3>3 DEF CleanLists
    <3> QED
      BY <2>1, <3>1, <3>2, <3>4 DEF Cleaned
  <2>6. saved' \in [Particles -> Nat] \cup {NULL}
    BY <2>1 DEF FluidInv
  <2> QED
    BY <2>1, <2>2, <2>3, <2>4, <2>5, <2>6 DEF FluidInv
<1> QED
  BY <1>1, <1>2, <1>3, <1>4, <1>5, <1>6 DEF Next

\* That is remembered.
LEMMA WideStays == wide /\ [Next]_vars => wide'
<1> SUFFICES ASSUME wide, [Next]_vars PROVE wide'
  OBVIOUS
<1>1. ASSUME NEW t \in Threads, NEW c \in Cells, Sweep(t, c) PROVE wide'
  BY <1>1 DEF Sweep, Clear, Reserve, Copy, SourceDone, InitDensitiesAndForces, ComputeDensities,
              ComputeDensities2, ComputeForces, ProcessCollisions, Advance, ProcessCollisions2, Adjust
<1>2. ASSUME NEW t \in Threads, Enter(t) \/ Leave(t) PROVE wide'
  BY <1>2 DEF Enter, Leave
<1>3. ASSUME NEW c \in Cells, Load(c) \/ CleanUpSim(c) PROVE wide'
  BY <1>3 DEF Load, CleanUpSim
<1>4. CASE Swap \/ SaveFile
  BY <1>4 DEF Swap, SaveFile
<1>5. CASE UNCHANGED vars
  BY <1>5 DEF vars
<1> QED
  BY <1>1, <1>2, <1>3, <1>4, <1>5 DEF Next, ThreadStep

WideFlag == wide \in BOOLEAN

LEMMA WideTyped == WideFlag /\ [Next]_vars => WideFlag'
<1> SUFFICES ASSUME wide \in BOOLEAN, [Next]_vars PROVE wide' \in BOOLEAN
  BY DEF WideFlag
<1>1. ASSUME NEW t \in Threads, NEW c \in Cells, Sweep(t, c) PROVE wide' \in BOOLEAN
  <2>1. CASE Advance(t, c)
    BY <2>1, Zenon DEF Advance
  <2>2. CASE ~Advance(t, c)
    BY <1>1, <2>2 DEF Sweep, Clear, Reserve, Copy, SourceDone, InitDensitiesAndForces,
              ComputeDensities, ComputeDensities2, ComputeForces, ProcessCollisions,
              ProcessCollisions2, Adjust
  <2> QED
    BY <2>1, <2>2
<1>2. ASSUME NEW t \in Threads, Enter(t) \/ Leave(t) PROVE wide' \in BOOLEAN
  BY <1>2 DEF Enter, Leave
<1>3. ASSUME NEW c \in Cells, Load(c) \/ CleanUpSim(c) PROVE wide' \in BOOLEAN
  BY <1>3 DEF Load, CleanUpSim
<1>4. CASE Swap \/ SaveFile
  BY <1>4 DEF Swap, SaveFile
<1>5. CASE UNCHANGED vars
  BY <1>5 DEF vars
<1> QED
  BY <1>1, <1>2, <1>3, <1>4, <1>5 DEF Next, ThreadStep

\* The state of the frames at every step: a thread is at most one barrier ahead
\* of another (pthread_barrier_wait), every structure is in one pool or in one
\* cell, and every particle read is in one place or about to be put there
\* (InitSim, ClearParticlesMT, RebuildGridMT, SaveFile, CleanUpSim).  It is so
\* until a particle travels more than one cell.
THEOREM FramesKeepGrid == Spec => [](~wide => FluidInv)
<1>1. Init => FluidInv
  BY InitRounds, InitGrid DEF Init, FluidInv
<1> QED
  BY <1>1, FluidNext, WideStays, PTL DEF Spec

-----------------------------------------------------------------------------
(* Types and particles *)

\* No thread is beyond the last particle of its source.
LEMMA SourceIndex ==
    ASSUME RoundInv, Types, Gridded, NEW t \in Threads PROVE j[t] \in 0 .. numParticles
<1>1. PICK at, lo, hi, who, from, cnt : Grid(at, lo, hi, who, from, cnt)
  BY DEF Gridded
<1>2. j[t] \in Nat /\ numParticles \in Nat
  BY Sizes DEF Types
<1>3. CASE j[t] = 0
  BY <1>2, <1>3
<1>4. CASE j[t] # 0
  <2>1. j[t] # 0 \/ dest[t] # NULL => At(t, Min(todo[t]), "rebuild")
    BY <1>1 DEF Grid, RebuildOk
  <2>2. PICK c : c = Min(todo[t])
    OBVIOUS
  <2>3. At(t, c, "rebuild")
    BY <1>4, <2>1, <2>2
  <2>4. /\ c \in Cells /\ SourceCell(c, at, lo, hi, from, cnt)
        /\ dest[t] = NULL => Moved(c) = j[t]
        /\ dest[t] # NULL => Moved(c) = j[t] + 1
    BY <1>1, <2>3, AtRebuild
  <2>5. PICK g : g = <<1 - cells, c>>
    OBVIOUS
  <2>6. g \in Heads /\ 1 - cells \in {0, 1}
    BY <2>4, <2>5, HeadsOf DEF Types
  <2>7. from[g] = Moved(c) /\ cnt[g] = cnumPars[1 - cells][c]
    BY <2>4, <2>5 DEF SourceCell
  <2>8. from[g] <= cnt[g] /\ from[g] \in Nat /\ cnt[g] \in Nat
    BY <1>1, <2>6 DEF Grid, Contents, Counts
  <2>9. cnumPars[1 - cells][c] \in -1 .. numParticles
    BY <2>4, <2>6 DEF Types
  <2>10. Moved(c) = j[t] \/ Moved(c) = j[t] + 1
    BY <2>4
  <2> QED
    BY <1>2, <2>7, <2>8, <2>9, <2>10
<1> QED
  BY <1>3, <1>4

\* The types of the variables are those of TypeOK.
LEMMA FluidTypes == FluidInv /\ WideFlag => TypeOK
<1> SUFFICES ASSUME FluidInv, wide \in BOOLEAN PROVE TypeOK
  BY DEF WideFlag
<1>1. /\ RoundInv /\ Types /\ saved \in [Particles -> Nat] \cup {NULL}
      /\ (saved = NULL => Gridded) /\ (saved # NULL => Cleaned)
  BY DEF FluidInv
<1>2. entered \in [Threads -> Nat] /\ todo \in [Threads -> SUBSET Cells]
  BY <1>1 DEF RoundInv
<1>3. left \in [Threads -> 0 .. 10 * framenum]
  <2>1. left \in [Threads -> Nat]
    BY <1>1 DEF RoundInv
  <2>2. ASSUME NEW t \in Threads PROVE left[t] \in 0 .. 10 * framenum
    <3>1. left[t] \in Nat /\ (entered[t] = left[t] \/ entered[t] = left[t] + 1) /\ entered[t] <= 10 * framenum
      BY <1>1 DEF RoundInv
    <3>2. 10 * framenum \in Nat
      BY Sizes
    <3> QED
      BY <3>1, <3>2
  <2> QED
    BY <2>1, <2>2
<1>4. j \in [Threads -> 0 .. numParticles]
  <2>1. j \in [Threads -> Nat]
    BY <1>1 DEF Types
  <2>2. ASSUME NEW t \in Threads PROVE j[t] \in 0 .. numParticles
    <3>1. CASE saved = NULL
      BY <1>1, <3>1, SourceIndex
    <3>2. CASE saved # NULL
      <4>1. j[t] = 0
        BY <1>1, <3>2 DEF Cleaned
      <4> QED
        BY <4>1, Sizes
    <3> QED
      BY <3>1, <3>2
  <2> QED
    BY <2>1, <2>2
<1>5. used \in 0 .. MaxBlocks /\ alloc \in [Threads -> Nat]
  BY <1>1, Sizes DEF Types
<1> QED
  BY <1>1, <1>2, <1>3, <1>4, <1>5 DEF Types, TypeOK

\* The counts of the cells, the links and slots of the structures, the pools and
\* the position of each thread in its sweep stay in their ranges through every
\* phase of every frame; in particular no thread goes beyond the count of the
\* cell it moves particles from (RebuildGridMT).  It is so until a particle
\* travels more than one cell.
THEOREM FluidTypesOK == Spec => [](~wide => TypeOK)
<1>1. Init => WideFlag
  BY DEF Init, WideFlag
<1> QED
  BY <1>1, WideTyped, FramesKeepGrid, FluidTypes, PTL DEF Spec

\* The particles of a complete grid.
LEMMA FluidParticles == (~wide => FluidInv) => ParticlesConserved
<1> SUFFICES ASSUME FluidInv PROVE ParticlesConserved
  BY DEF ParticlesConserved
<1>1. RoundInv /\ Types /\ (saved = NULL => Gridded) /\ (saved # NULL => Cleaned)
  BY DEF FluidInv
<1>2. ASSUME Settled, saved = NULL, NEW p \in Particles PROVE StoredOnce(p) /\ InPlace(p)
  <2>1. PICK at, lo, hi, who, from, cnt : Grid(at, lo, hi, who, from, cnt)
    BY <1>1, <1>2 DEF Gridded
  <2>2. Started /\ \A c \in Cells : Stage(c) >= 3
    BY <1>1, <1>2, SettledStages DEF Settled
  <2>3. \A t \in Threads : dest[t] = NULL
    <3>1. RebuildOk(at, hi)
      BY <2>1 DEF Grid
    <3> QED
      BY <1>1, <1>2, <3>1, SettledIdle
  <2>4. StoredOnce(p)
    BY <1>1, <2>1, <2>2, <2>3, StoredAt
  <2>5. InPlace(p)
    BY <1>1, <2>1, <2>2, <2>3, StoredInPlace
  <2> QED
    BY <2>4, <2>5
<1>3. saved # NULL => \A p \in Particles : saved[p] = 1
  BY <1>1 DEF Cleaned
<1> QED
  BY <1>2, <1>3 DEF ParticlesConserved

\* However many threads rebuild the grid and to whichever adjacent cells the
\* particles move, none is lost or stored twice, each is in the cell of its position
\* until it moves again, and SaveFile writes each once (pthreads.cpp: RebuildGridMT,
\* SaveFile).
THEOREM FramesConserveParticles == Spec => []ParticlesConserved
BY FramesKeepGrid, FluidParticles, PTL

-----------------------------------------------------------------------------
(* The structures in their lists *)

\* A list is no longer than there are structures.
LEMMA ListBound ==
    ASSUME NEW np, NEW pl, NEW us \in Nat, NEW at, NEW lo, NEW hi, Lists(np, pl, us, at, lo, hi),
           NEW o \in Owners
    PROVE  lo[o] \in Int /\ hi[o] \in Int /\ hi[o] - lo[o] < us
<1> DEFINE S == lo[o] .. hi[o]
           f == [i \in S |-> at[o][i][2]]
<1>1. lo[o] \in Int /\ hi[o] \in Int /\ lo[o] <= hi[o] + 1
  BY DEF Lists, Numbered
<1>2. \A i \in S : i \in Int /\ Listed(lo, hi, o, i)
  BY <1>1 DEF Listed
<1>3. \A x, y \in UsedBlocks(us) : x[2] \in 0 .. us - 1 /\ (x[2] = y[2] => x = y)
  BY DEF UsedBlocks
<1>4. \A i \in S : at[o][i] \in UsedBlocks(us)
  <2> HIDE DEF S
  <2> QED BY <1>2 DEF Lists, AllListed
<1>5. \A i, k \in S : at[o][i] = at[o][k] => i = k
  <2> HIDE DEF S
  <2> QED BY <1>2 DEF Lists, Disjoint
<1>6. f \in [S -> 0 .. us - 1] /\ \A i, k \in S : f[i] = f[k] => i = k
  <2> HIDE DEF S
  <2>1. \A i \in S : f[i] = at[o][i][2] /\ f[i] \in 0 .. us - 1
    BY <1>3, <1>4
  <2>2. ASSUME NEW i \in S, NEW k \in S, f[i] = f[k] PROVE i = k
    <3>1. at[o][i][2] = at[o][k][2]
      BY <2>1, <2>2
    <3>2. at[o][i] = at[o][k]
      BY <1>3, <1>4, <3>1
    <3> QED
      BY <1>5, <3>2
  <2>3. f \in [S -> 0 .. us - 1]
    BY <2>1
  <2> QED
    BY <2>2, <2>3
<1>7. f \in Injection(S, 0 .. us - 1)
  <2> HIDE DEF S, f
  <2> QED BY <1>6, Fun_IsInj
<1>8. IsFiniteSet(0 .. us - 1) /\ Cardinality(0 .. us - 1) = us
  <2>1. 0 \in Int /\ us - 1 \in Int
    OBVIOUS
  <2>2. Cardinality(0 .. us - 1) = IF 0 > us - 1 THEN 0 ELSE (us - 1) - 0 + 1
    BY <2>1, FS_Interval
  <2> QED
    BY <2>1, <2>2, FS_Interval
<1>9. Cardinality(S) <= Cardinality(0 .. us - 1)
  <2> HIDE DEF S, f
  <2> QED BY <1>7, <1>8, FS_Injection
<1>10. Cardinality(S) = IF lo[o] > hi[o] THEN 0 ELSE hi[o] - lo[o] + 1
  BY <1>1, FS_Interval
<1> QED
  BY <1>1, <1>8, <1>9, <1>10

\* What ListFrom finds is the solution of its recursion.
ListChain(n, f) ==
    f = [i \in 0 .. MaxBlocks |-> IF i = 0 THEN n ELSE IF f[i - 1] = NULL THEN NULL ELSE nextp[f[i - 1]]]

\* What ListFrom finds is the solution of its recursion.
LEMMA ListFromIs ==
    ASSUME NEW n, NEW f, ListChain(n, f)
    PROVE  ListFrom(n) = {f[i] : i \in 0 .. MaxBlocks} \ {NULL}
<1> DEFINE Is(g) == g = [i \in 0 .. MaxBlocks |-> IF i = 0 THEN n
                                                  ELSE IF g[i - 1] = NULL THEN NULL ELSE nextp[g[i - 1]]]
           chain == CHOOSE g : Is(g)
           bad == {i \in 0 .. MaxBlocks : chain[i] # f[i]}
<1>1. ListFrom(n) = {chain[i] : i \in 0 .. MaxBlocks} \ {NULL}
  BY DEF ListFrom
<1>2. Is(chain)
  <2>1. Is(f)
    BY DEF ListChain
  <2> QED BY <2>1
<1>3. /\ \A i \in 0 .. MaxBlocks : chain[i] = IF i = 0 THEN n
                                              ELSE IF chain[i - 1] = NULL THEN NULL ELSE nextp[chain[i - 1]]
      /\ \A i \in 0 .. MaxBlocks : f[i] = IF i = 0 THEN n ELSE IF f[i - 1] = NULL THEN NULL ELSE nextp[f[i - 1]]
  <2> HIDE DEF chain
  <2>1. \A i \in 0 .. MaxBlocks : chain[i] = IF i = 0 THEN n
                                             ELSE IF chain[i - 1] = NULL THEN NULL ELSE nextp[chain[i - 1]]
    BY <1>2
  <2>2. \A i \in 0 .. MaxBlocks : f[i] = IF i = 0 THEN n ELSE IF f[i - 1] = NULL THEN NULL ELSE nextp[f[i - 1]]
    BY DEF ListChain
  <2> QED BY <2>1, <2>2
<1> HIDE DEF chain, Is
<1>4. bad = {}
  <2> SUFFICES ASSUME bad # {} PROVE FALSE
    OBVIOUS
  <2>1. bad \in SUBSET Nat
    OBVIOUS
  <2>2. PICK i \in bad : \A x \in bad : i <= x
    <3> HIDE DEF bad
    <3> QED BY <2>1, LeastElement
  <2>3. i \in 0 .. MaxBlocks /\ chain[i] # f[i]
    OBVIOUS
  <2>4. i # 0
    BY <1>3, <2>3
  <2>5. i - 1 \in 0 .. MaxBlocks /\ ~(i <= i - 1)
    BY <2>3, <2>4, Sizes
  <2>6. chain[i - 1] = f[i - 1]
    BY <2>2, <2>5
  <2>7. i - 1 \in 0 .. MaxBlocks /\ i \in 0 .. MaxBlocks /\ i # 0
    BY <2>3, <2>4, <2>5
  <2>8. chain[i] = IF chain[i - 1] = NULL THEN NULL ELSE nextp[chain[i - 1]]
    BY <1>3, <2>7
  <2>9. f[i] = IF f[i - 1] = NULL THEN NULL ELSE nextp[f[i - 1]]
    BY <1>3, <2>7
  <2>10. chain[i] # f[i]
    BY <2>3
  <2> QED
    BY <2>6, <2>8, <2>9, <2>10
<1>5. \A i \in 0 .. MaxBlocks : chain[i] = f[i]
  BY <1>4
<1>6. {chain[i] : i \in 0 .. MaxBlocks} = {f[i] : i \in 0 .. MaxBlocks}
  BY <1>5
<1> QED
  BY <1>1, <1>6

\* It finds the structures of an owner from the first of them.
LEMMA ListOfOwner ==
    ASSUME NEW pl, NEW us \in Nat, us <= MaxBlocks, NEW at, NEW lo, NEW hi,
           Lists(nextp, pl, us, at, lo, hi), NEW o \in Owners,
           NEW n, n = First(at, lo, hi, o), NEW b
    PROVE  b \in ListFrom(n) <=> \E i \in Int : Listed(lo, hi, o, i) /\ b = at[o][i]
<1>1. lo[o] \in Int /\ hi[o] \in Int /\ hi[o] - lo[o] < us /\ lo[o] <= hi[o] + 1
  BY ListBound DEF Lists, Numbered
<1>2. PICK l \in Int : l = lo[o]
  BY <1>1
<1>3. PICK f : f = [i \in 0 .. MaxBlocks |-> IF l + i <= hi[o] THEN at[o][l + i] ELSE NULL]
  OBVIOUS
<1>4. \A i \in Int : Listed(lo, hi, o, i) => /\ nextp[at[o][i]] = IF i = hi[o] THEN NULL ELSE at[o][i + 1]
                                             /\ at[o][i] # NULL
  <2>1. \A x \in UsedBlocks(us) : x # NULL
    BY UsedAreBlocks, OwnerKinds
  <2>2. \A i \in Int : Listed(lo, hi, o, i) => at[o][i] \in UsedBlocks(us)
    BY DEF Lists, AllListed
  <2>3. \A i \in Int : Listed(lo, hi, o, i) => nextp[at[o][i]] = IF i = hi[o] THEN NULL ELSE at[o][i + 1]
    BY DEF Lists, Linkage
  <2> QED
    BY <2>1, <2>2, <2>3
<1>5. ASSUME NEW i \in 0 .. MaxBlocks
      PROVE  f[i] = IF i = 0 THEN n ELSE IF f[i - 1] = NULL THEN NULL ELSE nextp[f[i - 1]]
  <2>1. f[i] = IF l + i <= hi[o] THEN at[o][l + i] ELSE NULL
    BY <1>3
  <2>2. CASE i = 0
    <3>1. l + i = l /\ i \in Int
      BY <1>2, <2>2
    <3>2. f[i] = IF l <= hi[o] THEN at[o][l] ELSE NULL
      BY <2>1, <3>1
    <3>3. n = IF l <= hi[o] THEN at[o][l] ELSE NULL
      BY <1>2 DEF First
    <3> QED
      BY <2>2, <3>2, <3>3
  <2>3. CASE i # 0
    <3>1. i - 1 \in 0 .. MaxBlocks /\ i \in Int
      BY <2>3, Sizes
    <3>2. PICK k \in Int : k = l + (i - 1)
      BY <1>2, <3>1
    <3>3. k + 1 = l + i /\ k >= lo[o]
      BY <1>2, <3>1, <3>2
    <3>4. f[i - 1] = IF k <= hi[o] THEN at[o][k] ELSE NULL
      BY <1>3, <3>1, <3>2
    <3>5. CASE k <= hi[o]
      <4>1. Listed(lo, hi, o, k)
        BY <1>1, <3>3, <3>5 DEF Listed
      <4>2. f[i - 1] = at[o][k] /\ f[i - 1] # NULL /\ nextp[at[o][k]] = IF k = hi[o] THEN NULL ELSE at[o][k + 1]
        BY <1>4, <3>4, <3>5, <4>1
      <4>3. k = hi[o] <=> ~(l + i <= hi[o])
        BY <1>1, <3>2, <3>3, <3>5
      <4> QED
        BY <2>1, <2>3, <3>3, <4>2, <4>3
    <3>6. CASE ~(k <= hi[o])
      <4>1. ~(l + i <= hi[o])
        BY <1>1, <3>2, <3>3, <3>6
      <4> QED
        BY <2>1, <2>3, <3>4, <3>6, <4>1
    <3> QED
      BY <3>5, <3>6
  <2> QED
    BY <2>2, <2>3
<1>6. f = [i \in 0 .. MaxBlocks |-> IF i = 0 THEN n ELSE IF f[i - 1] = NULL THEN NULL ELSE nextp[f[i - 1]]]
  <2>1. PICK g : g = [i \in 0 .. MaxBlocks |-> IF i = 0 THEN n ELSE IF f[i - 1] = NULL THEN NULL ELSE nextp[f[i - 1]]]
    OBVIOUS
  <2>2. \A i \in 0 .. MaxBlocks : g[i] = f[i]
    BY <1>5, <2>1
  <2>3. f = [i \in 0 .. MaxBlocks |-> f[i]] /\ g = [i \in 0 .. MaxBlocks |-> g[i]]
    BY <1>3, <2>1
  <2>4. f = g
    BY <2>2, <2>3
  <2> QED
    BY <2>1, <2>4
<1>7. ListFrom(n) = {f[i] : i \in 0 .. MaxBlocks} \ {NULL}
  <2>1. ListChain(n, f)
    BY <1>6 DEF ListChain
  <2> QED
    BY <2>1, ListFromIs
<1>8. ASSUME b \in ListFrom(n) PROVE \E i \in Int : Listed(lo, hi, o, i) /\ b = at[o][i]
  <2>1. PICK i \in 0 .. MaxBlocks : b = f[i] /\ b # NULL
    BY <1>7, <1>8
  <2>2. l + i <= hi[o] /\ b = at[o][l + i]
    BY <1>3, <2>1
  <2>3. l + i \in Int /\ Listed(lo, hi, o, l + i)
    BY <1>1, <1>2, <2>2 DEF Listed
  <2> QED
    BY <2>2, <2>3
<1>9. ASSUME NEW k \in Int, Listed(lo, hi, o, k), b = at[o][k] PROVE b \in ListFrom(n)
  <2>1. lo[o] <= k /\ k <= hi[o]
    BY <1>9 DEF Listed
  <2>2. PICK i \in Int : i = k - l
    BY <1>2
  <2>3. i \in 0 .. MaxBlocks /\ l + i = k /\ l + i <= hi[o]
    BY <1>1, <1>2, <2>1, <2>2, Sizes
  <2>4. f[i] = b
    BY <1>3, <1>9, <2>3
  <2>5. b # NULL
    BY <1>4, <1>9
  <2> QED
    BY <1>7, <2>3, <2>4, <2>5
<1> QED
  BY <1>8, <1>9

\* Each structure is in the list of one pool or of one cell.
LEMMA StructureListed ==
    ASSUME Types, NEW at, NEW lo, NEW hi, CleanLists(at, lo, hi), NEW b \in UsedBlocks(used)
    PROVE  Cardinality({t \in Threads : b \in ListFrom(pool[t])})
           + Cardinality({c \in Cells : b \in ListFrom(nextp[<<cells, c>>])}) = 1
<1>1. /\ Lists(nextp, pool, used, at, lo, hi)
      /\ \A c \in Cells : /\ nextp[<<cells, c>>] = First(at, lo, hi, <<cells, c>>)
                          /\ lo[<<1 - cells, c>>] = hi[<<1 - cells, c>>] + 1
  BY DEF CleanLists
<1>2. used \in Nat /\ used <= MaxBlocks /\ cells \in {0, 1}
  BY DEF Types
<1>3. PICK us \in Nat : us = used /\ us <= MaxBlocks
  BY <1>2
<1>4. Lists(nextp, pool, us, at, lo, hi)
  BY <1>1, <1>3
<1>5. PICK o \in Owners, i \in Int : Listed(lo, hi, o, i) /\ at[o][i] = b
  BY <1>1 DEF Lists, AllListed
<1>6. \A m \in Owners, k \in Int : Listed(lo, hi, m, k) /\ b = at[m][k] => m = o
  BY <1>1, <1>5 DEF Lists, Disjoint
<1>7. ASSUME NEW t \in Threads PROVE b \in ListFrom(pool[t]) <=> o = <<2, t>>
  <2>1. PICK m \in Owners : m = <<2, t>>
    BY OwnerKinds
  <2>2. pool[t] = First(at, lo, hi, m)
    BY <1>1, <2>1 DEF Lists, Pooled
  <2>3. b \in ListFrom(pool[t]) <=> \E k \in Int : Listed(lo, hi, m, k) /\ b = at[m][k]
    BY <1>3, <1>4, <2>2, ListOfOwner
  <2> QED
    BY <1>5, <1>6, <2>1, <2>3
<1>8. ASSUME NEW c \in Cells PROVE b \in ListFrom(nextp[<<cells, c>>]) <=> o = <<cells, c>>
  <2>1. PICK m \in Owners : m = <<cells, c>>
    BY <1>2, HeadsOf
  <2>2. nextp[m] = First(at, lo, hi, m)
    BY <1>1, <2>1
  <2>3. b \in ListFrom(nextp[m]) <=> \E k \in Int : Listed(lo, hi, m, k) /\ b = at[m][k]
    BY <1>3, <1>4, <2>2, ListOfOwner
  <2> QED
    BY <1>5, <1>6, <2>1, <2>3
<1>9. (\E t \in Threads : o = <<2, t>>) \/ (\E c \in Cells : o = <<cells, c>>)
  <2>1. CASE o \in Heads
    <3>1. PICK a \in {0, 1}, c \in Cells : o = <<a, c>>
      BY <2>1 DEF Heads
    <3>2. a = cells \/ a = 1 - cells
      BY <1>2
    <3>3. a # 1 - cells
      <4> SUFFICES ASSUME a = 1 - cells PROVE FALSE
        OBVIOUS
      <4>1. lo[o] = hi[o] + 1
        BY <1>1, <3>1
      <4>2. lo[o] <= i /\ i <= hi[o]
        BY <1>5 DEF Listed
      <4>3. hi[o] \in Int
        BY <1>1, <1>5 DEF Lists, Numbered
      <4> QED
        BY <4>1, <4>2, <4>3
    <3> QED
      BY <3>1, <3>2, <3>3
  <2>2. CASE o \notin Heads
    BY <1>5, <2>2 DEF Owners
  <2> QED
    BY <2>1, <2>2
<1>10. \A t \in Threads, c \in Cells : <<cells, c>> # <<2, t>>
  BY <1>2, HeadsOf, OwnerKinds
<1>11. CASE \E t \in Threads : o = <<2, t>>
  <2>1. PICK t \in Threads : o = <<2, t>>
    BY <1>11
  <2>2. {u \in Threads : b \in ListFrom(pool[u])} = {t}
    <3>1. \A u \in Threads : o = <<2, u>> <=> u = t
      BY <2>1, OwnerKinds
    <3> QED
      BY <1>7, <3>1
  <2>3. {c \in Cells : b \in ListFrom(nextp[<<cells, c>>])} = {}
    BY <1>8, <1>10, <2>1
  <2>4. Cardinality({u \in Threads : b \in ListFrom(pool[u])}) = 1
    BY <2>2, FS_Singleton
  <2>5. Cardinality({d \in Cells : b \in ListFrom(nextp[<<cells, d>>])}) = 0
    BY <2>3, FS_EmptySet
  <2> QED
    BY <2>4, <2>5
<1>12. CASE \E c \in Cells : o = <<cells, c>>
  <2>1. PICK c \in Cells : o = <<cells, c>>
    BY <1>12
  <2>2. {d \in Cells : b \in ListFrom(nextp[<<cells, d>>])} = {c}
    <3>1. \A d \in Cells : o = <<cells, d>> <=> d = c
      BY <2>1
    <3> QED
      BY <1>8, <3>1
  <2>3. {t \in Threads : b \in ListFrom(pool[t])} = {}
    BY <1>7, <1>10, <2>1
  <2>4. Cardinality({d \in Cells : b \in ListFrom(nextp[<<cells, d>>])}) = 1
    BY <2>2, FS_Singleton
  <2>5. Cardinality({t \in Threads : b \in ListFrom(pool[t])}) = 0
    BY <2>3, FS_EmptySet
  <2> QED
    BY <2>4, <2>5
<1> QED
  BY <1>9, <1>11, <1>12

\* The lists of a settled grid.
LEMMA FluidBlocks == (~wide => FluidInv) => BlocksAccounted
<1> SUFFICES ASSUME FluidInv, Settled PROVE \A b \in {2} \X (0 .. used - 1) :
        Cardinality({t \in Threads : b \in ListFrom(pool[t])})
        + Cardinality({c \in Cells : b \in ListFrom(nextp[<<cells, c>>])}) = 1
  BY DEF BlocksAccounted
<1>1. RoundInv /\ Types /\ (saved = NULL => Gridded) /\ (saved # NULL => Cleaned)
  BY DEF FluidInv
<1>2. \E at, lo, hi : CleanLists(at, lo, hi)
  <2>1. CASE saved = NULL
    <3>1. PICK at, lo, hi, who, from, cnt : Grid(at, lo, hi, who, from, cnt)
      BY <1>1, <2>1 DEF Gridded
    <3>2. \A c \in Cells : Stage(c) >= 3
      BY <1>1, SettledStages
    <3>3. CleanLists(at, lo, hi)
      BY <1>1, <3>1, <3>2, CompleteLists
    <3> QED
      BY <3>3
  <2>2. CASE saved # NULL
    BY <1>1, <2>2 DEF Cleaned
  <2> QED
    BY <2>1, <2>2
<1>3. PICK at, lo, hi : CleanLists(at, lo, hi)
  BY <1>2
<1>4. \A b \in UsedBlocks(used) :
        Cardinality({t \in Threads : b \in ListFrom(pool[t])})
        + Cardinality({c \in Cells : b \in ListFrom(nextp[<<cells, c>>])}) = 1
  BY <1>1, <1>3, StructureListed
<1> QED
  BY <1>4 DEF UsedBlocks

\* The structures that RebuildGridMT takes from and returns to the pools of the
\* threads (cellpool_getcell, cellpool_returncell), and CleanUpSim at the end, are
\* never lost nor in two lists: between two rebuilds each is in the free list of
\* one thread or behind one cell, if particles travel at most one cell.
THEOREM FramesAccountBlocks == Spec => []BlocksAccounted
BY FramesKeepGrid, FluidBlocks, PTL

-----------------------------------------------------------------------------
(* No races *)

\* A structure belongs to the cell it is or is behind, or to the pool it is in.
BelongsTo(n, at, lo, hi, o) ==
    \/ o \in Heads /\ n = o
    \/ \E i \in Int : Listed(lo, hi, o, i) /\ n = at[o][i]

\* It belongs to one of them.
LEMMA BelongsOnce ==
    ASSUME NEW np, NEW pl, NEW us \in Nat, us <= MaxBlocks, NEW at, NEW lo, NEW hi,
           Lists(np, pl, us, at, lo, hi), NEW o \in Owners, NEW m \in Owners,
           NEW n, BelongsTo(n, at, lo, hi, o), BelongsTo(n, at, lo, hi, m)
    PROVE  o = m
<1>1. \A x \in Owners, i \in Int : Listed(lo, hi, x, i) => at[x][i] \in Blocks
  BY UsedAreBlocks DEF Lists, AllListed
<1>2. CASE n \in Heads
  <2>1. n \notin Blocks
    BY <1>2, OwnerKinds
  <2>2. n = o /\ n = m
    BY <1>1, <2>1 DEF BelongsTo
  <2> QED
    BY <2>2
<1>3. CASE n \notin Heads
  <2>1. PICK i \in Int : Listed(lo, hi, o, i) /\ n = at[o][i]
    BY <1>3 DEF BelongsTo
  <2>2. PICK k \in Int : Listed(lo, hi, m, k) /\ n = at[m][k]
    BY <1>3 DEF BelongsTo
  <2> QED
    BY <2>1, <2>2 DEF Lists, Disjoint
<1> QED
  BY <1>2, <1>3

\* Where the particles of a cell are stored belongs to the cell.
LEMMA PlaceBelongs ==
    ASSUME NEW at, NEW lo, NEW hi, HeadsFirst(at), NEW h \in Heads, NEW i, Placed(lo, hi, h, i)
    PROVE  BelongsTo(PlaceOf(at, h, i)[1], at, lo, hi, h)
<1>1. PlaceOf(at, h, i)[1] = at[h][i \div ParticlesPerCell]
  BY DEF PlaceOf
<1>2. CASE i \div ParticlesPerCell = 0
  BY <1>1, <1>2 DEF HeadsFirst, BelongsTo
<1>3. CASE i \div ParticlesPerCell # 0
  <2>1. i \in Nat /\ Listed(lo, hi, h, i \div ParticlesPerCell)
    BY <1>3 DEF Placed
  <2>2. i \div ParticlesPerCell \in Int
    BY <2>1, SlotOf
  <2> QED
    BY <1>1, <2>1, <2>2 DEF BelongsTo
<1> QED
  BY <1>2, <1>3

\* So does the structure a thread in RebuildGridMT has reached.
LEMMA SourceBelongs ==
    ASSUME RoundInv, Types, NEW at, NEW lo, NEW hi, NEW who, NEW from, NEW cnt,
           Grid(at, lo, hi, who, from, cnt), NEW t \in Threads, NEW c, At(t, c, "rebuild"),
           NEW g, g = <<1 - cells, c>>, Source(t, c) # NULL
    PROVE  BelongsTo(Source(t, c), at, lo, hi, g)
<1>1. c \in Cells /\ c = Min(todo[t]) /\ j[t] \in Nat /\ Gone(c) = j[t] /\ SourceCell(c, at, lo, hi, from, cnt)
  BY AtRebuild
<1>2. g \in Heads
  BY <1>1, HeadsOf DEF Types
<1>3. CASE j[t] = 0
  BY <1>2, <1>3 DEF Source, BelongsTo
<1>4. CASE j[t] # 0
  <2>1. PICK i \in Nat : i = j[t]
    BY <1>1
  <2>2. PICK k \in Nat : k = i \div ParticlesPerCell
    BY SlotOf
  <2>3. RebuildOk(at, hi) /\ HeadsFirst(at)
    BY DEF Grid
  <2>4. cell2[t] = IF j[t] \div ParticlesPerCell <= hi[<<1 - cells, Min(todo[t])>>]
                   THEN at[<<1 - cells, Min(todo[t])>>][j[t] \div ParticlesPerCell] ELSE NULL
    BY <1>4, <2>3 DEF RebuildOk
  <2>5. Source(t, c) = IF k <= hi[g] THEN at[g][k] ELSE NULL
    BY <1>1, <1>4, <2>1, <2>2, <2>4 DEF Source
  <2>6. k <= hi[g] /\ Source(t, c) = at[g][k]
    BY <2>5
  <2>7. CASE k = 0
    BY <1>2, <2>3, <2>6, <2>7 DEF HeadsFirst, BelongsTo
  <2>8. CASE k # 0
    <3>1. lo[g] = IF i < ParticlesPerCell THEN 1 ELSE k
      BY <1>1, <2>1, <2>2 DEF SourceCell
    <3>2. lo[g] <= k
      BY <2>2, <2>8, <3>1
    <3>3. k \in Int /\ Listed(lo, hi, g, k)
      BY <2>6, <3>2 DEF Listed
    <3> QED
      BY <2>6, <3>3 DEF BelongsTo
  <2> QED
    BY <2>7, <2>8
<1> QED
  BY <1>3, <1>4

\* What a thread touches in RebuildGridMT: the count and tail of a destination,
\* which is a neighbour of its cell, and its last structure, each under the mutex
\* of the destination; structures of its source and of its pool; the slots it
\* reads and writes; its pool.
NumAccess(x, c) ==
    \/ ~x.write /\ x.loc = <<"num", 1 - cells, c>>
    \/ \E e \in Neighbours(c) : x = WriteLocked(<<"num", cells, e>>, e)
LastAccess(x, c) == \E e \in Neighbours(c) : x = WriteLocked(<<"last", e>>, e)
NextAccess(x, t, c, at, lo, hi) ==
    \E n : /\ x.loc = <<"next", n>>
           /\ \/ BelongsTo(n, at, lo, hi, <<1 - cells, c>>)
              \/ BelongsTo(n, at, lo, hi, <<2, t>>)
              \/ \E e \in Neighbours(c) : /\ BelongsTo(n, at, lo, hi, <<cells, e>>)
                                          /\ x = WriteLocked(<<"next", n>>, e)
SlotAccess(x, t, c, at, lo, hi) ==
    \E n : /\ x.loc = <<"slot", n>>
           /\ \/ ~x.write /\ BelongsTo(n[1], at, lo, hi, <<1 - cells, c>>)
              \/ /\ n = dest[t] /\ dest[t] # NULL
                 /\ \E e \in Cells : BelongsTo(n[1], at, lo, hi, <<cells, e>>)
PoolAccess(x, t) == x.loc = <<"pool", t>>

RebuildTouches(x, t, c, at, lo, hi) ==
    \/ ~x.write /\ x.loc = <<"arrays">>
    \/ NumAccess(x, c) \/ LastAccess(x, c) \/ PoolAccess(x, t)
    \/ NextAccess(x, t, c, at, lo, hi) \/ SlotAccess(x, t, c, at, lo, hi)

\* What Access says of RebuildGridMT.
LEMMA AccessRebuild ==
    ASSUME NEW t \in Threads, NEW c, At(t, c, "rebuild")
    PROVE  Access(t) = {Read(<<"arrays">>)} \cup
                       ({Read(<<"num", 1 - cells, c>>)} \cup
                        (IF dest[t] # NULL THEN CopyAccess(t, c)
                         ELSE IF j[t] < cnumPars[1 - cells][c] THEN ReserveAccess(t, c)
                         ELSE {Write(<<"pool", t>>)} \cup
                              (IF Rest(Source(t, c)) THEN {Write(<<"next", Source(t, c)>>)} ELSE {})))
<1>1. Working(t) /\ todo[t] # {} /\ Phase(t) = "rebuild" /\ c = Min(todo[t])
  BY DEF At
<1> QED
  BY <1>1 DEF Access

\* The particle whose place is reserved is one of the source.
LEMMA SourceLeft ==
    ASSUME RoundInv, Types, NEW at, NEW lo, NEW hi, NEW who, NEW from, NEW cnt,
           Grid(at, lo, hi, who, from, cnt), NEW t \in Threads, NEW c, At(t, c, "rebuild"),
           NEW g, g = <<1 - cells, c>>
    PROVE  /\ cnt[g] = cnumPars[1 - cells][c] /\ g \in Heads /\ from[g] \in Nat /\ cnt[g] \in Nat
           /\ dest[t] # NULL => j[t] < cnt[g]
           /\ dest[t] = NULL => from[g] = j[t]
<1>1. /\ c \in Cells /\ j[t] \in Nat /\ SourceCell(c, at, lo, hi, from, cnt)
      /\ dest[t] = NULL => Moved(c) = j[t]
      /\ dest[t] # NULL => Moved(c) = j[t] + 1
  BY AtRebuild
<1>2. g \in Heads
  BY <1>1, HeadsOf DEF Types
<1>3. from[g] <= cnt[g] /\ from[g] \in Nat /\ cnt[g] \in Nat
  BY <1>2 DEF Grid, Contents, Counts
<1>4. from[g] = Moved(c) /\ cnt[g] = cnumPars[1 - cells][c]
  BY <1>1 DEF SourceCell
<1>5. dest[t] # NULL => j[t] < cnt[g]
  BY <1>1, <1>3, <1>4
<1> QED
  BY <1>1, <1>2, <1>3, <1>4, <1>5

\* Copying a particle.
LEMMA CopyTouches ==
    ASSUME RoundInv, Types, NEW at, NEW lo, NEW hi, NEW who, NEW from, NEW cnt,
           Grid(at, lo, hi, who, from, cnt), NEW t \in Threads, NEW c, At(t, c, "rebuild"),
           dest[t] # NULL, NEW x \in CopyAccess(t, c)
    PROVE  RebuildTouches(x, t, c, at, lo, hi)
<1>1. PICK g : g = <<1 - cells, c>>
  OBVIOUS
<1>2. j[t] < cnt[g] /\ g \in Heads
  BY <1>1, SourceLeft
<1>3. Source(t, c) = at[g][j[t] \div ParticlesPerCell] /\ Placed(lo, hi, g, j[t])
      /\ SourceSlot(t, c) = PlaceOf(at, g, j[t])
  BY <1>1, <1>2, SourceAt
<1>4. BelongsTo(SourceSlot(t, c)[1], at, lo, hi, g)
  BY <1>2, <1>3, PlaceBelongs DEF Grid
<1>5. Source(t, c) = SourceSlot(t, c)[1]
  BY DEF SourceSlot
<1>6. BelongsTo(Source(t, c), at, lo, hi, g)
  BY <1>4, <1>5
<1>7. \E e \in Cells : BelongsTo(dest[t][1], at, lo, hi, <<cells, e>>)
  <2>1. ReservedOk(at, who, cnt) /\ Contents(who, from, cnt, loaded) /\ CellsOk(at, lo, hi, from, cnt) /\ HeadsFirst(at)
    BY DEF Grid
  <2>2. Reserved(t, at, who, cnt)
    BY <2>1 DEF ReservedOk
  <2>3. PICK e \in Cells, i \in Nat :
           Stage(e) >= 2 /\ i < cnt[<<cells, e>>] /\ dest[t] = PlaceOf(at, <<cells, e>>, i)
    BY <2>2 DEF Reserved
  <2>4. PICK h : h = <<cells, e>>
    OBVIOUS
  <2>5. cells \in {0, 1} /\ h \in Heads
    BY <2>4, HeadsOf DEF Types
  <2>6. Placed(lo, hi, h, i)
    BY <2>1, <2>3, <2>4, <2>5, LivePlaced
  <2>7. BelongsTo(PlaceOf(at, h, i)[1], at, lo, hi, h)
    BY <2>1, <2>5, <2>6, PlaceBelongs
  <2> QED
    BY <2>3, <2>4, <2>7
<1>8. CASE x = Write(<<"slot", dest[t]>>)
  BY <1>7, <1>8 DEF RebuildTouches, SlotAccess, Write
<1>9. CASE x = Read(<<"slot", SourceSlot(t, c)>>)
  BY <1>1, <1>4, <1>9 DEF RebuildTouches, SlotAccess, Read
<1>10. CASE x = Read(<<"next", Source(t, c)>>) \/ x = Write(<<"next", Source(t, c)>>)
  <2>1. x.loc = <<"next", Source(t, c)>>
    BY <1>10 DEF Read, Write
  <2> QED
    BY <1>1, <1>6, <2>1 DEF RebuildTouches, NextAccess
<1>11. CASE x = Write(<<"pool", t>>)
  BY <1>11 DEF RebuildTouches, PoolAccess, Write
<1> QED
  BY <1>8, <1>9, <1>10, <1>11 DEF CopyAccess

\* Its destination is a neighbour of the source.
LEMMA NextDoor ==
    ASSUME RoundInv, Types, NEW at, NEW lo, NEW hi, NEW who, NEW from, NEW cnt,
           Grid(at, lo, hi, who, from, cnt), NEW t \in Threads, NEW c, At(t, c, "rebuild"),
           dest[t] = NULL, j[t] < cnumPars[1 - cells][c]
    PROVE  Destination(t, c) \in Neighbours(c)
<1>1. PICK g : g = <<1 - cells, c>>
  OBVIOUS
<1>2. j[t] < cnt[g] /\ g \in Heads /\ from[g] = j[t]
  BY <1>1, SourceLeft
<1>3. PICK d : d = Destination(t, c)
  OBVIOUS
<1>4. PICK h : h = <<cells, d>>
  OBVIOUS
<1>5. d = pos[who[g][j[t]]]
  BY <1>1, <1>2, <1>3, <1>4, DestinationAt
<1>6. c \in Cells /\ j[t] \in Nat
  BY AtRebuild
<1>7. Holds(from, cnt, g, j[t])
  BY <1>2, <1>6 DEF Holds
<1>8. PICK i \in Nat : i = j[t]
  BY <1>6
<1>9. Holds(from, cnt, <<1 - cells, c>>, i)
  BY <1>1, <1>7, <1>8
<1>10. PositionsOk(who, from, cnt)
  BY DEF Grid
<1>11. pos[who[<<1 - cells, c>>][i]] \in Neighbours(c)
  BY <1>6, <1>9, <1>10 DEF PositionsOk
<1> QED
  BY <1>1, <1>3, <1>5, <1>8, <1>11

\* Reserving a place.
LEMMA ReserveTouches ==
    ASSUME RoundInv, Types, NEW at, NEW lo, NEW hi, NEW who, NEW from, NEW cnt,
           Grid(at, lo, hi, who, from, cnt), NEW t \in Threads, NEW c, At(t, c, "rebuild"),
           dest[t] = NULL, j[t] < cnumPars[1 - cells][c], NEW x \in ReserveAccess(t, c)
    PROVE  RebuildTouches(x, t, c, at, lo, hi)
<1>1. PICK g : g = <<1 - cells, c>>
  OBVIOUS
<1>2. j[t] < cnt[g] /\ g \in Heads /\ from[g] = j[t]
  BY <1>1, SourceLeft
<1>3. PICK d : d = Destination(t, c)
  OBVIOUS
<1>4. PICK h : h = <<cells, d>>
  OBVIOUS
<1>5. /\ d \in Cells /\ d = pos[who[g][j[t]]] /\ h \in Heads
      /\ last_cells[d] = at[h][hi[h]] /\ lo[h] = 1 /\ hi[h] \in Nat
  BY <1>1, <1>2, <1>3, <1>4, DestinationAt
<1>6. d \in Neighbours(c)
  BY <1>3, NextDoor
<1>7. BelongsTo(last_cells[d], at, lo, hi, h)
  <2>1. CASE hi[h] = 0
    BY <1>5, <2>1 DEF Grid, HeadsFirst, BelongsTo
  <2>2. CASE hi[h] # 0
    <3>1. hi[h] \in Int /\ Listed(lo, hi, h, hi[h])
      BY <1>5, <2>2 DEF Listed
    <3> QED
      BY <1>5, <3>1 DEF BelongsTo
  <2> QED
    BY <2>1, <2>2
<1>8. /\ SourceSlot(t, c) = PlaceOf(at, g, j[t]) /\ Placed(lo, hi, g, j[t])
  BY <1>1, <1>2, SourceAt
<1>9. BelongsTo(SourceSlot(t, c)[1], at, lo, hi, g)
  BY <1>2, <1>8, PlaceBelongs DEF Grid
<1>10. pool[t] # NULL => BelongsTo(pool[t], at, lo, hi, <<2, t>>)
  <2> SUFFICES ASSUME pool[t] # NULL PROVE BelongsTo(pool[t], at, lo, hi, <<2, t>>)
    OBVIOUS
  <2>1. PICK m \in Owners : m = <<2, t>>
    BY OwnerKinds
  <2>2. Lists(nextp, pool, used, at, lo, hi)
    BY DEF Grid
  <2>3. pool[t] = First(at, lo, hi, m) /\ lo[m] \in Int
    BY <2>1, <2>2 DEF Lists, Pooled, Numbered
  <2>4. lo[m] <= hi[m] /\ pool[t] = at[m][lo[m]]
    BY <2>3 DEF First
  <2>5. Listed(lo, hi, m, lo[m])
    BY <2>3, <2>4 DEF Listed
  <2> QED
    BY <2>1, <2>3, <2>4, <2>5 DEF BelongsTo
<1>11. CASE x = WriteLocked(<<"num", cells, d>>, d)
  BY <1>6, <1>11 DEF RebuildTouches, NumAccess
<1>12. CASE x = WriteLocked(<<"last", d>>, d)
  BY <1>6, <1>12 DEF RebuildTouches, LastAccess
<1>13. CASE x = WriteLocked(<<"next", last_cells[d]>>, d)
  <2>1. x.loc = <<"next", last_cells[d]>>
    BY <1>13 DEF WriteLocked
  <2>2. BelongsTo(last_cells[d], at, lo, hi, <<cells, d>>)
    BY <1>4, <1>7
  <2> QED
    BY <1>6, <1>13, <2>1, <2>2 DEF RebuildTouches, NextAccess
<1>14. CASE x = Read(<<"slot", SourceSlot(t, c)>>)
  BY <1>1, <1>9, <1>14 DEF RebuildTouches, SlotAccess, Read
<1>15. CASE x = Write(<<"pool", t>>)
  BY <1>15 DEF RebuildTouches, PoolAccess, Write
<1>16. CASE pool[t] # NULL /\ x = Write(<<"next", pool[t]>>)
  <2>1. x.loc = <<"next", pool[t]>>
    BY <1>16 DEF Write
  <2> QED
    BY <1>10, <1>16, <2>1 DEF RebuildTouches, NextAccess
<1> QED
  BY <1>3, <1>11, <1>12, <1>13, <1>14, <1>15, <1>16 DEF ReserveAccess

\* All of RebuildGridMT.
LEMMA RebuildTouched ==
    ASSUME RoundInv, Types, NEW at, NEW lo, NEW hi, NEW who, NEW from, NEW cnt,
           Grid(at, lo, hi, who, from, cnt), NEW t \in Threads, NEW c, At(t, c, "rebuild"),
           NEW x \in Access(t)
    PROVE  RebuildTouches(x, t, c, at, lo, hi)
<1>1. Access(t) = {Read(<<"arrays">>)} \cup
                  ({Read(<<"num", 1 - cells, c>>)} \cup
                   (IF dest[t] # NULL THEN CopyAccess(t, c)
                    ELSE IF j[t] < cnumPars[1 - cells][c] THEN ReserveAccess(t, c)
                    ELSE {Write(<<"pool", t>>)} \cup
                         (IF Rest(Source(t, c)) THEN {Write(<<"next", Source(t, c)>>)} ELSE {})))
  BY AccessRebuild
<1>2. CASE x = Read(<<"arrays">>)
  BY <1>2 DEF RebuildTouches, Read
<1>3. CASE x = Read(<<"num", 1 - cells, c>>)
  BY <1>3 DEF RebuildTouches, NumAccess, Read
<1>4. CASE dest[t] # NULL /\ x \in CopyAccess(t, c)
  BY <1>4, CopyTouches
<1>5. CASE dest[t] = NULL /\ j[t] < cnumPars[1 - cells][c] /\ x \in ReserveAccess(t, c)
  BY <1>5, ReserveTouches
<1>6. CASE x = Write(<<"pool", t>>)
  BY <1>6 DEF RebuildTouches, PoolAccess, Write
<1>7. CASE Rest(Source(t, c)) /\ x = Write(<<"next", Source(t, c)>>)
  <2>1. x.loc = <<"next", Source(t, c)>> /\ Source(t, c) # NULL
    BY <1>7 DEF Write, Rest
  <2>2. PICK g : g = <<1 - cells, c>>
    OBVIOUS
  <2>3. BelongsTo(Source(t, c), at, lo, hi, g)
    BY <2>1, <2>2, SourceBelongs
  <2> QED
    BY <2>1, <2>2, <2>3 DEF RebuildTouches, NextAccess
<1> QED
  BY <1>1, <1>2, <1>3, <1>4, <1>5, <1>6, <1>7

\* What a datum is.
Field(x) == x.loc[1]

\* Each kind of datum is touched in its own way.
LEMMA TouchedFields ==
    ASSUME NEW x, NEW t, NEW c, NEW at, NEW lo, NEW hi, RebuildTouches(x, t, c, at, lo, hi)
    PROVE  /\ Field(x) \in {"arrays", "num", "last", "next", "slot", "pool"}
           /\ Field(x) = "arrays" => ~x.write
           /\ Field(x) = "num" => NumAccess(x, c)
           /\ Field(x) = "last" => LastAccess(x, c)
           /\ Field(x) = "next" => NextAccess(x, t, c, at, lo, hi)
           /\ Field(x) = "slot" => SlotAccess(x, t, c, at, lo, hi)
           /\ Field(x) = "pool" => PoolAccess(x, t)
<1>1. NumAccess(x, c) => Field(x) = "num"
  BY DEF NumAccess, WriteLocked, Field
<1>2. LastAccess(x, c) => Field(x) = "last"
  BY DEF LastAccess, WriteLocked, Field
<1>3. NextAccess(x, t, c, at, lo, hi) => Field(x) = "next"
  BY DEF NextAccess, Field
<1>4. SlotAccess(x, t, c, at, lo, hi) => Field(x) = "slot"
  BY DEF SlotAccess, Field
<1>5. PoolAccess(x, t) => Field(x) = "pool"
  BY DEF PoolAccess, Field
<1>6. ~x.write /\ x.loc = <<"arrays">> => Field(x) = "arrays"
  BY DEF Field
<1> QED
  BY <1>1, <1>2, <1>3, <1>4, <1>5, <1>6 DEF RebuildTouches

\* Two threads reach the same cell only under its mutex.
LEMMA SharedLocked ==
    ASSUME NEW c \in Cells, NEW d \in Cells, Owner(c) # Owner(d),
           NEW e \in Neighbours(c), NEW f \in Neighbours(d), e = f,
           NEW x, NEW y, NEW l, NEW m, x = WriteLocked(l, e), y = WriteLocked(m, f)
    PROVE  x.locked /\ y.locked
<1>1. e \in Cells
  BY NeighboursMutual
<1>2. Border(e)
  BY <1>1, ReachedIsBorder
<1> QED
  BY <1>2 DEF WriteLocked

\* Threads that rebuild the grid do not get in each other's way.
LEMMA RebuildApart ==
    ASSUME RoundInv, Types, NEW at, NEW lo, NEW hi, NEW who, NEW from, NEW cnt,
           Grid(at, lo, hi, who, from, cnt), NEW t \in Threads, NEW u \in Threads, t # u,
           NEW c, NEW d, At(t, c, "rebuild"), At(u, d, "rebuild"),
           NEW x \in Access(t), NEW y \in Access(u)
    PROVE  ~Conflict(x, y)
<1>0. SUFFICES ASSUME x.loc = y.loc, x.write \/ y.write PROVE x.locked /\ y.locked
  BY DEF Conflict
<1>1. c \in Cells /\ d \in Cells /\ t = Owner(c) /\ u = Owner(d) /\ Owner(c) # Owner(d) /\ c # d
  BY AtOwn
<1>2. RebuildTouches(x, t, c, at, lo, hi) /\ RebuildTouches(y, u, d, at, lo, hi)
  BY RebuildTouched
<1>3. Field(x) = Field(y)
  BY <1>0 DEF Field
<1>4. cells \in {0, 1} /\ cells # 1 - cells /\ Lists(nextp, pool, used, at, lo, hi)
  BY <1>1, HeadsOf DEF Types, Grid
<1>5. PICK us \in Nat : us = used /\ us <= MaxBlocks /\ Lists(nextp, pool, us, at, lo, hi)
  BY <1>4 DEF Types
<1>6. \A o, m \in Owners : \A n : BelongsTo(n, at, lo, hi, o) /\ BelongsTo(n, at, lo, hi, m) => o = m
  BY <1>5, BelongsOnce
<1>7. CASE Field(x) = "arrays"
  BY <1>0, <1>2, <1>3, <1>7, TouchedFields
<1>8. CASE Field(x) = "num"
  <2>1. NumAccess(x, c) /\ NumAccess(y, d)
    BY <1>2, <1>3, <1>8, TouchedFields
  <2>2. CASE x.loc = <<"num", 1 - cells, c>>
    <3>1. \A e : y.loc # <<"num", cells, e>>
      BY <1>4, <2>2, <1>0
    <3>2. y.loc = <<"num", 1 - cells, d>>
      BY <2>1, <3>1 DEF NumAccess, WriteLocked
    <3>3. c = d
      BY <2>2, <3>2, <1>0
    <3> QED
      BY <1>1, <3>3
  <2>3. CASE x.loc # <<"num", 1 - cells, c>>
    <3>1. PICK e \in Neighbours(c) : x = WriteLocked(<<"num", cells, e>>, e)
      BY <2>1, <2>3 DEF NumAccess
    <3>2. x.loc = <<"num", cells, e>>
      BY <3>1 DEF WriteLocked
    <3>3. y.loc # <<"num", 1 - cells, d>>
      BY <1>4, <3>2, <1>0
    <3>4. PICK f \in Neighbours(d) : y = WriteLocked(<<"num", cells, f>>, f)
      BY <2>1, <3>3 DEF NumAccess
    <3>5. y.loc = <<"num", cells, f>>
      BY <3>4 DEF WriteLocked
    <3>6. e = f
      BY <3>2, <3>5, <1>0
    <3> QED
      BY <1>1, <3>1, <3>4, <3>6, SharedLocked
  <2> QED
    BY <2>2, <2>3
<1>9. CASE Field(x) = "last"
  <2>1. LastAccess(x, c) /\ LastAccess(y, d)
    BY <1>2, <1>3, <1>9, TouchedFields
  <2>2. PICK e \in Neighbours(c) : x = WriteLocked(<<"last", e>>, e)
    BY <2>1 DEF LastAccess
  <2>3. PICK f \in Neighbours(d) : y = WriteLocked(<<"last", f>>, f)
    BY <2>1 DEF LastAccess
  <2>4. x.loc = <<"last", e>> /\ y.loc = <<"last", f>>
    BY <2>2, <2>3 DEF WriteLocked
  <2>5. e = f
    BY <2>4, <1>0
  <2> QED
    BY <1>1, <2>2, <2>3, <2>5, SharedLocked
<1>10. CASE Field(x) = "next"
  <2>1. NextAccess(x, t, c, at, lo, hi) /\ NextAccess(y, u, d, at, lo, hi)
    BY <1>2, <1>3, <1>10, TouchedFields
  <2>2. PICK n : /\ x.loc = <<"next", n>>
                 /\ \/ BelongsTo(n, at, lo, hi, <<1 - cells, c>>)
                    \/ BelongsTo(n, at, lo, hi, <<2, t>>)
                    \/ \E e \in Neighbours(c) : /\ BelongsTo(n, at, lo, hi, <<cells, e>>)
                                                /\ x = WriteLocked(<<"next", n>>, e)
    BY <2>1 DEF NextAccess
  <2>3. PICK m : /\ y.loc = <<"next", m>>
                 /\ \/ BelongsTo(m, at, lo, hi, <<1 - cells, d>>)
                    \/ BelongsTo(m, at, lo, hi, <<2, u>>)
                    \/ \E f \in Neighbours(d) : /\ BelongsTo(m, at, lo, hi, <<cells, f>>)
                                                /\ y = WriteLocked(<<"next", m>>, f)
    BY <2>1 DEF NextAccess
  <2>4. n = m
    BY <2>2, <2>3, <1>0
  <2>5. /\ <<1 - cells, c>> \in Owners /\ <<1 - cells, d>> \in Owners
        /\ <<2, t>> \in Owners /\ <<2, u>> \in Owners /\ <<2, t>> # <<2, u>>
        /\ <<1 - cells, c>> # <<1 - cells, d>>
        /\ <<1 - cells, c>> # <<2, u>> /\ <<1 - cells, d>> # <<2, t>>
    BY <1>1, <1>4, HeadsOf, OwnerKinds
  <2>6. ASSUME NEW e \in Cells
        PROVE  /\ <<cells, e>> \in Owners /\ <<cells, e>> # <<1 - cells, c>> /\ <<cells, e>> # <<1 - cells, d>>
               /\ <<cells, e>> # <<2, t>> /\ <<cells, e>> # <<2, u>>
    BY <1>4, HeadsOf, OwnerKinds
  <2>7. PICK e \in Neighbours(c) : BelongsTo(n, at, lo, hi, <<cells, e>>) /\ x = WriteLocked(<<"next", n>>, e)
    <3>1. ASSUME NEW f \in Neighbours(d), BelongsTo(m, at, lo, hi, <<cells, f>>)
          PROVE  ~BelongsTo(n, at, lo, hi, <<1 - cells, c>>) /\ ~BelongsTo(n, at, lo, hi, <<2, t>>)
      <4>1. f \in Cells
        BY <1>1, NeighboursMutual
      <4> QED
        BY <1>6, <2>4, <2>5, <2>6, <3>1, <4>1
    <3>2. BelongsTo(n, at, lo, hi, <<1 - cells, c>>) =>
             ~BelongsTo(m, at, lo, hi, <<1 - cells, d>>) /\ ~BelongsTo(m, at, lo, hi, <<2, u>>)
      BY <1>6, <2>4, <2>5
    <3>3. BelongsTo(n, at, lo, hi, <<2, t>>) =>
             ~BelongsTo(m, at, lo, hi, <<1 - cells, d>>) /\ ~BelongsTo(m, at, lo, hi, <<2, u>>)
      BY <1>6, <2>4, <2>5
    <3> QED
      BY <2>2, <2>3, <3>1, <3>2, <3>3
  <2>8. e \in Cells
    BY <1>1, NeighboursMutual
  <2>9. ~BelongsTo(m, at, lo, hi, <<1 - cells, d>>) /\ ~BelongsTo(m, at, lo, hi, <<2, u>>)
    BY <1>6, <2>4, <2>5, <2>6, <2>7, <2>8
  <2>10. PICK f \in Neighbours(d) : BelongsTo(m, at, lo, hi, <<cells, f>>) /\ y = WriteLocked(<<"next", m>>, f)
    BY <2>3, <2>9
  <2>11. f \in Cells
    BY <1>1, NeighboursMutual
  <2>12. <<cells, e>> = <<cells, f>>
    BY <1>6, <2>4, <2>6, <2>7, <2>8, <2>10, <2>11
  <2>13. e = f
    BY <2>12
  <2> QED
    BY <1>1, <2>7, <2>10, <2>13, SharedLocked
<1>11. CASE Field(x) = "slot"
  <2>1. SlotAccess(x, t, c, at, lo, hi) /\ SlotAccess(y, u, d, at, lo, hi)
    BY <1>2, <1>3, <1>11, TouchedFields
  <2>2. PICK n : /\ x.loc = <<"slot", n>>
                 /\ \/ ~x.write /\ BelongsTo(n[1], at, lo, hi, <<1 - cells, c>>)
                    \/ /\ n = dest[t] /\ dest[t] # NULL
                       /\ \E e \in Cells : BelongsTo(n[1], at, lo, hi, <<cells, e>>)
    BY <2>1 DEF SlotAccess
  <2>3. PICK m : /\ y.loc = <<"slot", m>>
                 /\ \/ ~y.write /\ BelongsTo(m[1], at, lo, hi, <<1 - cells, d>>)
                    \/ /\ m = dest[u] /\ dest[u] # NULL
                       /\ \E e \in Cells : BelongsTo(m[1], at, lo, hi, <<cells, e>>)
    BY <2>1 DEF SlotAccess
  <2>4. n = m
    BY <2>2, <2>3, <1>0
  <2>5. dest[t] # NULL => dest[t] # dest[u]
    BY DEF Grid, ReservedOk
  <2>6. ASSUME NEW e \in Cells
        PROVE  /\ <<cells, e>> \in Owners /\ <<cells, e>> # <<1 - cells, c>> /\ <<cells, e>> # <<1 - cells, d>>
               /\ <<1 - cells, c>> \in Owners /\ <<1 - cells, d>> \in Owners
    BY <1>1, <1>4, HeadsOf, OwnerKinds
  <2>7. ASSUME NEW e \in Cells, BelongsTo(n[1], at, lo, hi, <<cells, e>>)
        PROVE  ~BelongsTo(n[1], at, lo, hi, <<1 - cells, c>>) /\ ~BelongsTo(n[1], at, lo, hi, <<1 - cells, d>>)
    BY <1>6, <2>6, <2>7
  <2> QED
    BY <1>0, <2>2, <2>3, <2>4, <2>5, <2>7
<1>12. CASE Field(x) = "pool"
  <2>1. x.loc = <<"pool", t>> /\ y.loc = <<"pool", u>>
    BY <1>2, <1>3, <1>12, TouchedFields DEF PoolAccess
  <2>2. t = u
    BY <2>1, <1>0
  <2> QED
    BY <2>2
<1> QED
  BY <1>2, <1>7, <1>8, <1>9, <1>10, <1>11, <1>12, TouchedFields

\* A particle is in one cell.
LEMMA MembersApart ==
    ASSUME Types, NEW at, NEW lo, NEW hi, NEW who, NEW from, NEW cnt,
           Grid(at, lo, hi, who, from, cnt), NEW c \in Cells, NEW d \in Cells,
           Stage(c) >= 2, Stage(d) >= 2, \A u \in Threads : dest[u] = NULL,
           NEW p, p \in Members(c), p \in Members(d)
    PROVE  c = d
<1>1. PICK h : h = <<cells, c>>
  OBVIOUS
<1>2. PICK g : g = <<cells, d>>
  OBVIOUS
<1>3. h \in Heads /\ g \in Heads
  BY <1>1, <1>2, HeadsOf DEF Types
<1>4. Members(c) = {who[h][i] : i \in {k \in Nat : k < cnt[h]}}
  BY <1>1, MembersHeld
<1>5. Members(d) = {who[g][i] : i \in {k \in Nat : k < cnt[g]}}
  BY <1>2, MembersHeld
<1>6. PICK i \in Nat : i < cnt[h] /\ p = who[h][i]
  BY <1>4
<1>7. PICK k \in Nat : k < cnt[g] /\ p = who[g][k]
  BY <1>5
<1>8. Holds(from, cnt, h, i)
  BY <1>1, <1>6, MembersOf
<1>9. Holds(from, cnt, g, k)
  BY <1>2, <1>7, MembersOf
<1>10. Contents(who, from, cnt, loaded)
  BY DEF Grid
<1>11. h = g
  <2>1. \A f, e \in Heads, x, y \in Int :
           Holds(from, cnt, f, x) /\ Holds(from, cnt, e, y) /\ who[f][x] = who[e][y] => f = e
    BY <1>10 DEF Contents
  <2>2. who[h][i] = who[g][k] /\ i \in Int /\ k \in Int
    BY <1>6, <1>7
  <2> QED
    BY <1>3, <1>8, <1>9, <2>1, <2>2
<1> QED
  BY <1>1, <1>2, <1>11

\* What a thread touches in each of the other phases.
ClearTouches(x, c) ==
    \/ ~x.write /\ x.loc = <<"arrays">>
    \/ x.loc = <<"num", cells, c>> \/ x.loc = <<"next", <<cells, c>>>> \/ x.loc = <<"last", c>>
OwnTouches(x, c) ==
    \/ ~x.write /\ Field(x) \in {"arrays", "num", "next"}
    \/ \E f \in {"density", "force", "p", "v"}, p \in Members(c) : x.loc = <<f, p>>
AddTouches(x, c, f) ==
    \/ ~x.write /\ Field(x) # f
    \/ \E e \in Neighbours(c) : \E p \in Members(e) : x = WriteLocked(<<f, p>>, e)

\* ClearParticlesMT.
LEMMA ClearTouched ==
    ASSUME NEW t \in Threads, NEW c, At(t, c, "clear"), NEW x \in Access(t)
    PROVE  ClearTouches(x, c)
<1>1. Working(t) /\ todo[t] # {} /\ Phase(t) = "clear" /\ c = Min(todo[t])
  BY DEF At
<1>2. Access(t) = {Read(<<"arrays">>)} \cup
                  {Write(<<"num", cells, c>>), Write(<<"next", <<cells, c>>>>), Write(<<"last", c>>)}
  BY <1>1 DEF Access
<1>3. CASE x = Read(<<"arrays">>)
  BY <1>3 DEF Read, ClearTouches
<1>4. CASE x = Write(<<"num", cells, c>>) \/ x = Write(<<"next", <<cells, c>>>>) \/ x = Write(<<"last", c>>)
  BY <1>4 DEF Write, ClearTouches
<1> QED
  BY <1>2, <1>3, <1>4

\* Reading a cell writes nothing.
LEMMA WalkTouches ==
    ASSUME NEW a, NEW c, NEW x \in Walk(a, c)
    PROVE  ~x.write /\ Field(x) \in {"num", "next"}
<1>1. CASE x = Read(<<"num", a, c>>)
  BY <1>1 DEF Read, Field
<1>2. ASSUME NEW i \in 0 .. cnumPars[a][c] - 1, x = Read(<<"next", Behind(<<a, c>>, i \div ParticlesPerCell)>>)
      PROVE ~x.write /\ Field(x) \in {"num", "next"}
  BY <1>2 DEF Read, Field
<1> QED
  BY <1>1, <1>2 DEF Walk

\* The phases in which a thread changes the particles of its own cells.
LEMMA OwnTouched ==
    ASSUME NEW t \in Threads, NEW c, NEW phase, At(t, c, phase),
           phase \in {"init", "densities2", "collisions", "advance", "collisions2"}, NEW x \in Access(t)
    PROVE  OwnTouches(x, c)
<1>1. Working(t) /\ todo[t] # {} /\ Phase(t) = phase /\ c = Min(todo[t])
  BY DEF At
<1>2. \E fields \in SUBSET {"density", "force", "p", "v"} :
         Access(t) = {Read(<<"arrays">>)} \cup (Walk(cells, c) \cup Own(fields, c))
  <2>1. CASE phase = "init"
    BY <1>1, <2>1 DEF Access
  <2>2. CASE phase = "densities2"
    BY <1>1, <2>2 DEF Access
  <2>3. CASE phase = "collisions"
    BY <1>1, <2>3 DEF Access
  <2>4. CASE phase = "advance" \/ phase = "collisions2"
    BY <1>1, <2>4 DEF Access
  <2> QED
    BY <2>1, <2>2, <2>3, <2>4
<1>3. PICK fields \in SUBSET {"density", "force", "p", "v"} :
         Access(t) = {Read(<<"arrays">>)} \cup (Walk(cells, c) \cup Own(fields, c))
  BY <1>2
<1>4. CASE x = Read(<<"arrays">>)
  BY <1>4 DEF Read, Field, OwnTouches
<1>5. CASE x \in Walk(cells, c)
  <2>1. ~x.write /\ Field(x) \in {"num", "next"}
    BY <1>5, WalkTouches
  <2> QED
    BY <2>1 DEF OwnTouches
<1>6. CASE x \in Own(fields, c)
  <2>1. PICK f \in fields, p \in Members(c) : x = Write(<<f, p>>)
    BY <1>6 DEF Own
  <2>2. x.loc = <<f, p>> /\ f \in {"density", "force", "p", "v"}
    BY <2>1 DEF Write
  <2> QED
    BY <2>2 DEF OwnTouches
<1> QED
  BY <1>3, <1>4, <1>5, <1>6

\* The phases in which a thread adds to the particles of the cells around.
LEMMA AddTouched ==
    ASSUME NEW t \in Threads, NEW c \in Cells, NEW phase, At(t, c, phase),
           phase \in {"densities", "forces"}, NEW f, f = (IF phase = "densities" THEN "density" ELSE "force"),
           NEW x \in Access(t)
    PROVE  AddTouches(x, c, f)
<1>1. Working(t) /\ todo[t] # {} /\ Phase(t) = phase /\ c = Min(todo[t])
  BY DEF At
<1>2. \E fields \in SUBSET {"density", "p", "v"} :
         /\ f \notin fields
         /\ Access(t) = {Read(<<"arrays">>)} \cup (WalkAround(c) \cup Look(fields, c) \cup AddTo(f, c))
  <2>1. CASE phase = "densities"
    <3>1. Access(t) = {Read(<<"arrays">>)} \cup (WalkAround(c) \cup Look({"p"}, c) \cup AddTo("density", c))
      BY <1>1, <2>1 DEF Access
    <3>2. f = "density" /\ {"p"} \in SUBSET {"density", "p", "v"} /\ f \notin {"p"}
      BY <2>1
    <3> QED
      BY <3>1, <3>2
  <2>2. CASE phase = "forces"
    <3>1. Access(t) = {Read(<<"arrays">>)} \cup (WalkAround(c) \cup Look({"p", "v", "density"}, c) \cup AddTo("force", c))
      BY <1>1, <2>2 DEF Access
    <3>2. f = "force" /\ {"p", "v", "density"} \in SUBSET {"density", "p", "v"} /\ f \notin {"p", "v", "density"}
      BY <2>2
    <3> QED
      BY <3>1, <3>2
  <2> QED
    BY <2>1, <2>2
<1>3. PICK fields \in SUBSET {"density", "p", "v"} :
         /\ f \notin fields
         /\ Access(t) = {Read(<<"arrays">>)} \cup (WalkAround(c) \cup Look(fields, c) \cup AddTo(f, c))
  BY <1>2
<1>4. f \notin {"arrays", "num", "next"}
  OBVIOUS
<1>5. CASE x = Read(<<"arrays">>)
  BY <1>4, <1>5 DEF Read, Field, AddTouches
<1>6. CASE x \in WalkAround(c)
  <2>1. ~x.write /\ Field(x) \in {"num", "next"}
    <3>1. ASSUME NEW d \in NeighCells(c), x \in Walk(cells, d) PROVE ~x.write /\ Field(x) \in {"num", "next"}
      BY <3>1, WalkTouches
    <3>2. ASSUME NEW d \in Neighbours(c), x = Read(<<"num", cells, d>>) PROVE ~x.write /\ Field(x) \in {"num", "next"}
      BY <3>2 DEF Read, Field
    <3>3. (x \in (UNION {Walk(cells, d) : d \in NeighCells(c)})) \/ (x \in {Read(<<"num", cells, d>>) : d \in Neighbours(c)})
      BY <1>6 DEF WalkAround
    <3>4. CASE x \in UNION {Walk(cells, d) : d \in NeighCells(c)}
      <4>1. \E d \in NeighCells(c) : x \in Walk(cells, d)
        BY <3>4
      <4> QED
        BY <3>1, <4>1
    <3> QED
      BY <3>2, <3>3, <3>4
  <2> QED
    BY <1>4, <2>1 DEF AddTouches
<1>7. CASE x \in Look(fields, c)
  <2>1. PICK g \in fields, p \in UNION {Members(d) : d \in NeighCells(c)} : x = Read(<<g, p>>)
    BY <1>7 DEF Look
  <2>2. ~x.write /\ Field(x) = g
    BY <2>1 DEF Read, Field
  <2> QED
    BY <1>3, <2>2 DEF AddTouches
<1>8. CASE x \in AddTo(f, c)
  <2>1. PICK e \in NeighCells(c) : \E p \in Members(e) : x = WriteLocked(<<f, p>>, e)
    BY <1>8 DEF AddTo
  <2>2. e \in Neighbours(c)
    BY NeighboursMutual DEF NeighCells
  <2> QED
    BY <2>1, <2>2 DEF AddTouches
<1> QED
  BY <1>3, <1>5, <1>6, <1>7, <1>8

\* Threads that clear cells do not get in each other's way ...
LEMMA ClearApart ==
    ASSUME RoundInv, Types, NEW t \in Threads, NEW u \in Threads, t # u,
           NEW c, NEW d, At(t, c, "clear"), At(u, d, "clear"),
           NEW x \in Access(t), NEW y \in Access(u)
    PROVE  ~Conflict(x, y)
<1>0. SUFFICES ASSUME x.loc = y.loc, x.write \/ y.write PROVE FALSE
  BY DEF Conflict
<1>1. c # d
  BY AtOwn
<1>2. ClearTouches(x, c) /\ ClearTouches(y, d)
  BY ClearTouched
<1>3. PICK l : l = x.loc
  OBVIOUS
<1>4. l = y.loc
  BY <1>0, <1>3
<1>5. /\ (~x.write /\ l = <<"arrays">>) \/ l = <<"num", cells, c>> \/ l = <<"next", <<cells, c>>>> \/ l = <<"last", c>>
      /\ (~y.write /\ l = <<"arrays">>) \/ l = <<"num", cells, d>> \/ l = <<"next", <<cells, d>>>> \/ l = <<"last", d>>
  BY <1>2, <1>3, <1>4 DEF ClearTouches
<1>6. CASE l[1] = "arrays"
  BY <1>0, <1>5, <1>6
<1>7. CASE l[1] = "num"
  <2>1. l = <<"num", cells, c>> /\ l = <<"num", cells, d>>
    BY <1>5, <1>7
  <2> QED
    BY <1>1, <2>1
<1>8. CASE l[1] = "next"
  <2>1. l = <<"next", <<cells, c>>>> /\ l = <<"next", <<cells, d>>>>
    BY <1>5, <1>8
  <2> QED
    BY <1>1, <2>1
<1>9. CASE l[1] = "last"
  <2>1. l = <<"last", c>> /\ l = <<"last", d>>
    BY <1>5, <1>9
  <2> QED
    BY <1>1, <2>1
<1> QED
  BY <1>5, <1>6, <1>7, <1>8, <1>9

\* ... nor those that work on the particles of their own cells ...
LEMMA OwnApart ==
    ASSUME Types, NEW at, NEW lo, NEW hi, NEW who, NEW from, NEW cnt,
           Grid(at, lo, hi, who, from, cnt), NEW c \in Cells, NEW d \in Cells, c # d,
           Stage(c) >= 2, Stage(d) >= 2, \A s \in Threads : dest[s] = NULL,
           NEW x, NEW y, OwnTouches(x, c), OwnTouches(y, d)
    PROVE  ~Conflict(x, y)
<1>0. SUFFICES ASSUME x.loc = y.loc, x.write \/ y.write PROVE FALSE
  BY DEF Conflict
<1>1. PICK l : l = x.loc
  OBVIOUS
<1>2. l = y.loc
  BY <1>0, <1>1
<1>3. (\E f \in {"density", "force", "p", "v"}, p \in Members(c) : l = <<f, p>>) \/ (~x.write /\ l[1] \in {"arrays", "num", "next"})
  BY <1>1 DEF OwnTouches, Field
<1>4. (\E f \in {"density", "force", "p", "v"}, p \in Members(d) : l = <<f, p>>) \/ (~y.write /\ l[1] \in {"arrays", "num", "next"})
  BY <1>2 DEF OwnTouches, Field
<1>5. \E f \in {"density", "force", "p", "v"}, p \in Members(c) : l = <<f, p>>
  BY <1>0, <1>3, <1>4
<1>6. PICK f \in {"density", "force", "p", "v"}, p \in Members(c) : l = <<f, p>>
  BY <1>5
<1>7. l[1] \notin {"arrays", "num", "next"}
  BY <1>6
<1>8. PICK g \in {"density", "force", "p", "v"}, q \in Members(d) : l = <<g, q>>
  BY <1>4, <1>7
<1>9. p = q
  BY <1>6, <1>8
<1> QED
  BY <1>6, <1>8, <1>9, MembersApart

\* ... nor those that add to the particles of cells around theirs.
LEMMA AddApart ==
    ASSUME Types, NEW at, NEW lo, NEW hi, NEW who, NEW from, NEW cnt,
           Grid(at, lo, hi, who, from, cnt), NEW c \in Cells, NEW d \in Cells, Owner(c) # Owner(d),
           \A b \in Cells : Stage(b) >= 2, \A s \in Threads : dest[s] = NULL,
           NEW f, NEW x, NEW y, AddTouches(x, c, f), AddTouches(y, d, f)
    PROVE  ~Conflict(x, y)
<1>0. SUFFICES ASSUME x.loc = y.loc, x.write \/ y.write PROVE x.locked /\ y.locked
  BY DEF Conflict
<1>1. PICK l : l = x.loc
  OBVIOUS
<1>2. l = y.loc
  BY <1>0, <1>1
<1>3. (~x.write /\ l[1] # f) \/ (\E e \in Neighbours(c) : \E p \in Members(e) : x = WriteLocked(<<f, p>>, e))
  BY <1>1 DEF AddTouches, Field
<1>4. (~y.write /\ l[1] # f) \/ (\E e \in Neighbours(d) : \E p \in Members(e) : y = WriteLocked(<<f, p>>, e))
  BY <1>2 DEF AddTouches, Field
<1>5. ASSUME NEW e, NEW p, x = WriteLocked(<<f, p>>, e) PROVE l = <<f, p>> /\ l[1] = f
  <2>1. x.loc = <<f, p>>
    BY <1>5 DEF WriteLocked
  <2>2. l = <<f, p>>
    BY <1>1, <2>1
  <2> QED
    BY <2>2
<1>6. ASSUME NEW e, NEW p, y = WriteLocked(<<f, p>>, e) PROVE l = <<f, p>> /\ l[1] = f
  <2>1. y.loc = <<f, p>>
    BY <1>6 DEF WriteLocked
  <2>2. l = <<f, p>>
    BY <1>2, <2>1
  <2> QED
    BY <2>2
<1>7. l[1] = f
  BY <1>0, <1>3, <1>4, <1>5, <1>6
<1>8. PICK e \in Neighbours(c) : \E p \in Members(e) : x = WriteLocked(<<f, p>>, e)
  BY <1>3, <1>7
<1>9. PICK p \in Members(e) : x = WriteLocked(<<f, p>>, e)
  BY <1>8
<1>10. PICK b \in Neighbours(d) : \E q \in Members(b) : y = WriteLocked(<<f, q>>, b)
  BY <1>4, <1>7
<1>11. PICK q \in Members(b) : y = WriteLocked(<<f, q>>, b)
  BY <1>10
<1>12. p = q
  <2>1. l = <<f, p>>
    BY <1>5, <1>9
  <2>2. l = <<f, q>>
    BY <1>6, <1>11
  <2> QED
    BY <2>1, <2>2
<1>13. e \in Cells /\ b \in Cells
  BY NeighboursMutual
<1>14. e = b
  BY <1>9, <1>11, <1>12, <1>13, MembersApart
<1> QED
  BY <1>9, <1>11, <1>14, SharedLocked

\* No two threads conflict, whatever the phase.
LEMMA FluidApart == FluidInv => \A t, u \in Threads : t # u => ~Race(t, u)
<1> SUFFICES ASSUME FluidInv, NEW t \in Threads, NEW u \in Threads, t # u,
                    NEW x \in Access(t), NEW y \in Access(u)
             PROVE  ~Conflict(x, y)
  BY DEF Race
<1>1. RoundInv /\ Types /\ (saved = NULL => Gridded) /\ (saved # NULL => Cleaned)
  BY DEF FluidInv
<1>2. Working(t) /\ todo[t] # {} /\ Working(u) /\ todo[u] # {}
  BY DEF Access
<1>3. PICK c : c = Min(todo[t])
  OBVIOUS
<1>4. PICK d : d = Min(todo[u])
  OBVIOUS
<1>5. PICK phase : phase = Phase(t)
  OBVIOUS
<1>6. At(t, c, phase) /\ At(u, d, Phase(u))
  BY <1>2, <1>3, <1>4, <1>5 DEF At
<1>7. phase = Phase(u)
  BY <1>1, <1>6, SamePhase
<1>8. At(u, d, phase)
  BY <1>6, <1>7
<1>9. /\ c \in Cells /\ t = Owner(c) /\ d \in Cells /\ u = Owner(d) /\ c # d /\ left[t] \in Nat
      /\ PhaseAfter(left[t]) = phase
  BY <1>1, <1>6, <1>8, AtOwn
<1>10. Gridded
  BY <1>1, <1>2, CleanedIdle
<1>11. PICK at, lo, hi, who, from, cnt : Grid(at, lo, hi, who, from, cnt)
  BY <1>10 DEF Gridded
<1>12. CASE phase = "swap"
  <2>1. left[t] % 10 = 0 /\ left[u] % 10 = 0 /\ left[u] \in Nat
    <3>1. PhaseAfter(left[u]) = phase /\ left[u] \in Nat
      BY <1>1, <1>8, AtOwn
    <3> QED
      BY <1>9, <1>12, <3>1, PhaseNumbers
  <2>2. todo[t] \subseteq Work(t, left[t]) /\ todo[u] \subseteq Work(u, left[u])
    BY <1>1 DEF RoundInv
  <2>3. PhaseAfter(left[t]) = "swap" /\ PhaseAfter(left[u]) = "swap"
    BY <1>9, <1>12, <2>1, PhaseNumbers
  <2>4. t = 0 /\ u = 0
    BY <1>2, <2>2, <2>3 DEF Work
  <2> QED
    BY <2>4
<1>13. CASE phase = "clear"
  BY <1>1, <1>6, <1>8, <1>13, ClearApart
<1>14. CASE phase = "rebuild"
  BY <1>1, <1>6, <1>8, <1>11, <1>14, RebuildApart
<1>15. CASE phase # "swap" /\ phase # "clear" /\ phase # "rebuild"
  <2>1. \A b \in Cells : Stage(b) >= 2
    <3>1. PICK n \in Int : n = left[t] % 10
      BY <1>9
    <3>2. n \in 3 .. 9 /\ n \in 1 .. 9
      <4>1. left[t] % 10 \in 0 .. 9 /\ left[t] % 10 # 0 /\ left[t] % 10 # 1 /\ left[t] % 10 # 2
        BY <1>9, <1>15, PhaseNumbers
      <4> QED
        BY <3>1, <4>1
    <3>3. \A b \in Cells : Stage(b) \in {n, n + 1}
      BY <1>1, <1>6, <3>1, <3>2, StageAt
    <3> QED
      BY <3>2, <3>3
  <2>2. \A s \in Threads : dest[s] = NULL
    <3>1. RebuildOk(at, hi)
      BY <1>11 DEF Grid
    <3> QED
      BY <1>1, <1>6, <1>15, <3>1, NoneReserved
  <2>3. phase \in {"init", "densities2", "collisions", "advance", "collisions2"} \/ phase \in {"densities", "forces"}
    BY <1>9, <1>15, PhaseNumbers
  <2>4. CASE phase \in {"init", "densities2", "collisions", "advance", "collisions2"}
    <3>1. OwnTouches(x, c)
      BY <1>6, <2>4, OwnTouched
    <3>2. OwnTouches(y, d)
      BY <1>8, <2>4, OwnTouched
    <3> QED
      BY <1>1, <1>9, <1>11, <2>1, <2>2, <3>1, <3>2, OwnApart
  <2>5. CASE phase \in {"densities", "forces"}
    <3>1. PICK f : f = IF phase = "densities" THEN "density" ELSE "force"
      OBVIOUS
    <3>2. AddTouches(x, c, f)
      BY <1>6, <1>9, <2>5, <3>1, AddTouched
    <3>3. AddTouches(y, d, f)
      BY <1>8, <1>9, <2>5, <3>1, AddTouched
    <3> QED
      BY <1>1, <1>9, <1>11, <2>1, <2>2, <3>2, <3>3, AddApart
  <2> QED
    BY <2>3, <2>4, <2>5
<1> QED
  BY <1>12, <1>13, <1>14, <1>15

\* Threads sweep the grid without a mutex but on the cells of a border, and yet no
\* two of them are about to touch the same datum, one of them to write it, unless
\* both do so under its mutex, on a grid and a division among threads of any size
\* (pthreads.cpp: the phases between the barriers), as long as no particle travels
\* more than one cell.  Nothing in the code ensures that (the checks at
\* pthreads.cpp:565-597 are disabled); what happens else, only TLC looks at.
THEOREM FramesRaceFree ==
    Spec => [](~wide => NoRace /\ \A t, u \in Threads : t # u => ~Race(t, u))
<1>1. FluidInv => NoRace
  BY FluidApart DEF NoRace
<1> QED
  BY <1>1, FluidApart, FramesKeepGrid, PTL

-----------------------------------------------------------------------------
(* Sums over neighbours *)

\* Behind as an operator of the links alone.
BehindIn(np, n, k) ==
    LET at[i \in 0 .. k] == IF i = 0 THEN n ELSE np[at[i - 1]]
    IN  at[k]

\* The links alone say what is behind a structure.
LEMMA BehindOf == \A n, k : Behind(n, k) = BehindIn(nextp, n, k)
BY DEF Behind, BehindIn

\* What is behind a structure stays when no link changes.
LEMMA SameBehind ==
    ASSUME nextp' = nextp PROVE \A n, k : Behind(n, k)' = Behind(n, k)
<1>1. \A n, k : Behind(n, k)' = BehindIn(nextp', n, k)
  BY DEF Behind, BehindIn
<1>2. \A n, k : Behind(n, k) = BehindIn(nextp, n, k)
  BY BehindOf
<1> QED
  BY <1>1, <1>2

\* So do the places, the particles and the pairs of a cell when no slot or count changes.
LEMMA SamePairs ==
    ASSUME cells' = cells, cnumPars' = cnumPars, nextp' = nextp, slot' = slot
    PROVE  /\ \A c : Places(c)' = Places(c) /\ Members(c)' = Members(c)
           /\ \A c, p : PairsOf(c, p)' = PairsOf(c, p)
<1>1. \A n, k : Behind(n, k)' = Behind(n, k)
  BY SameBehind
<1>2. \A m : Held(m)' = Held(m)
  BY DEF Held
<1>3. ASSUME NEW c PROVE Places(c)' = Places(c)
  <2>1. \A i : Place(cells, c, i)' = Place(cells, c, i)
    BY <1>1 DEF Place
  <2> QED
    BY <2>1 DEF Places
<1>4. ASSUME NEW c PROVE Members(c)' = Members(c)
  BY <1>2, <1>3 DEF Members
<1>5. ASSUME NEW c PROVE Pairs(c)' = Pairs(c)
  <2>1. NeighCells(c)' = NeighCells(c)
    BY DEF NeighCells
  <2>2. (UNION {Places(d) : d \in NeighCells(c)})' = UNION {Places(d) : d \in NeighCells(c)}
    BY <1>3, <2>1
  <2> QED
    BY <1>3, <2>2 DEF Pairs
<1>6. ASSUME NEW c, NEW p PROVE PairsOf(c, p)' = PairsOf(c, p)
  BY <1>2, <1>5 DEF PairsOf
<1> QED
  BY <1>3, <1>4, <1>6

\* The pairs with a particle in the cells that have been through phase n - 1.
Counted(p, n) == UNION {PairsOf(e, p) : e \in {d \in Cells : Stage(d) >= n}}

\* The pairs counted are finitely many.
LEMMA CountedFinite ==
    ASSUME Types, NEW p \in Particles, NEW n
    PROVE  IsFiniteSet(Counted(p, n)) /\ Cardinality(Counted(p, n)) \in Nat
<1> DEFINE S == {d \in Cells : Stage(d) >= n}
           f == [e \in S |-> PairsOf(e, p)]
           F == {PairsOf(e, p) : e \in S}
<1>1. IsFiniteSet(S)
  <2>1. S \in SUBSET Cells
    OBVIOUS
  <2> QED
    BY <2>1, FiniteSlots, FS_Subset
<1>2. DOMAIN f = S /\ F = {f[x] : x \in S}
  OBVIOUS
<1>3. \A T \in F : IsFiniteSet(T)
  <2>1. density \in [Particles -> Nat]
    BY DEF Types
  <2> QED
    BY <2>1, SumsAreNumbers
<1>4. Counted(p, n) = UNION F
  BY DEF Counted
<1> HIDE DEF S, f, F
<1>5. IsFiniteSet(F)
  BY <1>1, <1>2, ImageFinite
<1> QED
  BY <1>3, <1>4, <1>5, FS_UNION, FS_CardinalityType

\* The grid is complete and nothing has moved since: between RebuildGridMT and
\* AdvanceParticlesMT.
Summing == \A c \in Cells : Stage(c) \in 3 .. 8

\* No place is reserved in a complete grid.
LEMMA SummingIdle ==
    ASSUME RoundInv, Types, NEW at, NEW lo, NEW hi, NEW who, NEW from, NEW cnt,
           Grid(at, lo, hi, who, from, cnt), Summing
    PROVE  \A t \in Threads : dest[t] = NULL
<1> SUFFICES ASSUME NEW t \in Threads, dest[t] # NULL PROVE FALSE
  OBVIOUS
<1>1. PICK c : c = Min(todo[t])
  OBVIOUS
<1>2. At(t, c, "rebuild")
  BY <1>1 DEF Grid, RebuildOk
<1>3. c \in Cells /\ Stage(c) = 2
  BY <1>2, AtRebuild
<1> QED
  BY <1>3 DEF Summing

\* Every place of such a grid holds a particle of its cell, and every particle
\* is held in one.
PlacesOk ==
    /\ \A c \in Cells : \A a \in Places(c) : /\ a \in Nodes \X Slots /\ Held(a) \in Particles
                                             /\ pos[Held(a)] = c
    /\ \A c, d \in Cells : \A a \in Places(c), b \in Places(d) : Held(a) = Held(b) => a = b
    /\ \A p \in Particles : \E a \in Places(pos[p]) : Held(a) = p

\* The complete grid of the invariant is such a one.
LEMMA PlacesHold ==
    ASSUME RoundInv, Types, Started, Gridded, Summing PROVE PlacesOk
<1>1. PICK at, lo, hi, who, from, cnt : Grid(at, lo, hi, who, from, cnt)
  BY DEF Gridded
<1>2. \A t \in Threads : dest[t] = NULL
  BY <1>1, SummingIdle
<1>3. \A c \in Cells : Stage(c) >= 2 /\ Stage(c) >= 3 /\ Stage(c) <= 8
  BY DEF Summing
<1>4. ASSUME NEW c \in Cells, NEW a \in Places(c)
      PROVE  \E i \in Nat : /\ i < cnt[<<cells, c>>] /\ a = PlaceOf(at, <<cells, c>>, i)
                            /\ Placed(lo, hi, <<cells, c>>, i) /\ Holds(from, cnt, <<cells, c>>, i)
                            /\ Held(a) = who[<<cells, c>>][i] /\ Held(a) \in Particles
                            /\ pos[Held(a)] = c /\ a \in Nodes \X Slots
  <2>1. Places(c) = {PlaceOf(at, <<cells, c>>, k) : k \in {k \in Nat : k < cnt[<<cells, c>>]}}
    BY <1>1, <1>3, MembersOf
  <2>2. PICK i \in Nat : i < cnt[<<cells, c>>] /\ a = PlaceOf(at, <<cells, c>>, i)
    BY <1>4, <2>1
  <2>3. Placed(lo, hi, <<cells, c>>, i) /\ Holds(from, cnt, <<cells, c>>, i) /\ who[<<cells, c>>][i] \in Particles
    BY <1>1, <1>3, <2>2, MembersOf
  <2>4. Held(a) = who[<<cells, c>>][i]
    BY <1>1, <1>2, <1>3, <2>2, MembersHeld
  <2>5. PositionsOk(who, from, cnt)
    BY <1>1 DEF Grid
  <2>6. pos[who[<<cells, c>>][i]] = c
    BY <1>3, <2>3, <2>5 DEF PositionsOk
  <2>7. PICK g : g = <<cells, c>>
    OBVIOUS
  <2>8. g \in Heads /\ used \in Nat /\ used <= MaxBlocks /\ Placed(lo, hi, g, i)
    BY <2>3, <2>7, HeadsOf DEF Types
  <2>9. a \in Nodes \X Slots
    BY <1>1, <2>2, <2>7, <2>8, PlacesDiffer DEF Grid
  <2> QED
    BY <2>2, <2>3, <2>4, <2>6, <2>9
<1>5. ASSUME NEW c \in Cells, NEW d \in Cells, NEW a \in Places(c), NEW b \in Places(d), Held(a) = Held(b)
      PROVE  a = b
  <2>1. PICK i \in Nat : /\ i < cnt[<<cells, c>>] /\ a = PlaceOf(at, <<cells, c>>, i)
                         /\ Holds(from, cnt, <<cells, c>>, i)
                         /\ Held(a) = who[<<cells, c>>][i]
    BY <1>4
  <2>2. PICK k \in Nat : /\ k < cnt[<<cells, d>>] /\ b = PlaceOf(at, <<cells, d>>, k)
                         /\ Holds(from, cnt, <<cells, d>>, k)
                         /\ Held(b) = who[<<cells, d>>][k]
    BY <1>4
  <2>3. PICK g, h : g = <<cells, c>> /\ h = <<cells, d>>
    OBVIOUS
  <2>4. g \in Heads /\ h \in Heads
    BY <2>3, HeadsOf DEF Types
  <2>5. Contents(who, from, cnt, loaded)
    BY <1>1 DEF Grid
  <2>6. g = h /\ i = k
    BY <1>5, <2>1, <2>2, <2>3, <2>4, <2>5 DEF Contents
  <2> QED
    BY <2>1, <2>2, <2>3, <2>6
<1>6. ASSUME NEW p \in Particles PROVE \E a \in Places(pos[p]) : Held(a) = p
  <2>1. PICK c \in Cells : p \in Members(c)
    BY <1>1, <1>2, <1>3, StoredAt
  <2>2. PICK a \in Places(c) : Held(a) = p
    BY <2>1 DEF Members
  <2>3. pos[Held(a)] = c
    BY <1>4
  <2> QED
    BY <2>2, <2>3
<1>7. \A c \in Cells : \A a \in Places(c) : a \in Nodes \X Slots /\ Held(a) \in Particles /\ pos[Held(a)] = c
  BY <1>4
<1>8. \A c, d \in Cells : \A a \in Places(c), b \in Places(d) : Held(a) = Held(b) => a = b
  BY <1>5
<1> QED
  BY <1>6, <1>7, <1>8 DEF PlacesOk

\* What has been added to a particle, of a cell that InitDensitiesAndForcesMT has
\* been through: as many as there are pairs of it in the cells that
\* ComputeDensitiesMT, and ComputeForcesMT, have been through.
SumsOk ==
    \A c \in Cells : \A p \in Members(c) : Stage(c) >= 4 =>
        density[p] = Cardinality(Counted(p, 5)) /\ force[p] = Cardinality(Counted(p, 7))
SumsInv == Summing => SumsOk

\* The pairs counted after one more cell.
LEMMA CountedAfter ==
    ASSUME RoundInv, NEW t \in Threads, NEW c, NEW phase, At(t, c, phase), Visited(t, c),
           UNCHANGED barrierVars, cells' = cells, cnumPars' = cnumPars, nextp' = nextp, slot' = slot,
           NEW n \in 3 .. 7, left[t] % 10 = n
    PROVE  /\ Stage(c) = n /\ Stage(c)' = n + 1
           /\ \A d \in Cells : Stage(d) \in {n, n + 1} /\ (d # c => Stage(d)' = Stage(d))
           /\ \A p : Counted(p, n + 1)' = Counted(p, n + 1) \cup PairsOf(c, p)
           /\ \A m \in 5 .. 8 : \A p : m # n + 1 => Counted(p, m)' = Counted(p, m)
           /\ c \in Cells /\ Summing
<1>1. c \in Cells /\ left[t] \in Nat /\ PhaseAfter(left[t]) = phase
  BY AtOwn
<1>2. n \in 1 .. 9 /\ n # 0
  OBVIOUS
<1>3. phase # "swap"
  BY <1>1, <1>2, PhaseNumbers
<1>4. Stage(c) = n /\ \A d \in Cells : Stage(d) \in {n, n + 1}
  BY <1>2, StageAt
<1>5. Stage(c)' = Stage(c) + 1 /\ \A d \in Cells \ {c} : Stage(d)' = Stage(d)
  BY <1>3, StageAfter
<1>6. \A e, p : PairsOf(e, p)' = PairsOf(e, p)
  BY SamePairs
<1>7. ASSUME NEW m \in Int
      PROVE  {d \in Cells : Stage(d) >= m}' =
                 IF m = n + 1 THEN {d \in Cells : Stage(d) >= m} \cup {c} ELSE {d \in Cells : Stage(d) >= m}
  BY <1>1, <1>4, <1>5
<1>8. ASSUME NEW p PROVE Counted(p, n + 1)' = Counted(p, n + 1) \cup PairsOf(c, p)
  <2>1. {d \in Cells : Stage(d) >= n + 1}' = {d \in Cells : Stage(d) >= n + 1} \cup {c}
    BY <1>7
  <2>2. Counted(p, n + 1)' = UNION {PairsOf(e, p) : e \in {d \in Cells : Stage(d) >= n + 1}'}
    BY <1>6 DEF Counted
  <2> QED
    BY <2>1, <2>2 DEF Counted
<1>9. ASSUME NEW m \in 5 .. 8, NEW p, m # n + 1 PROVE Counted(p, m)' = Counted(p, m)
  <2>1. {d \in Cells : Stage(d) >= m}' = {d \in Cells : Stage(d) >= m}
    BY <1>7, <1>9
  <2>2. Counted(p, m)' = UNION {PairsOf(e, p) : e \in {d \in Cells : Stage(d) >= m}'}
    BY <1>6 DEF Counted
  <2> QED
    BY <2>1, <2>2 DEF Counted
<1>10. Summing
  BY <1>4 DEF Summing
<1>11. \A d \in Cells : d # c => Stage(d)' = Stage(d)
  BY <1>5
<1>12. Stage(c)' = n + 1
  BY <1>4, <1>5
<1> QED
  BY <1>1, <1>4, <1>8, <1>9, <1>10, <1>11, <1>12

\* The pairs of a cell have not been counted with those of others.
LEMMA CountedApart ==
    ASSUME PlacesOk, NEW c \in Cells, NEW n, ~(Stage(c) >= n), NEW p
    PROVE  Counted(p, n) \cap PairsOf(c, p) = {}
<1> SUFFICES ASSUME NEW m, m \in Counted(p, n), m \in PairsOf(c, p) PROVE FALSE
  OBVIOUS
<1>1. PICK e \in Cells : Stage(e) >= n /\ m \in PairsOf(e, p)
  BY DEF Counted
<1>2. m \in Pairs(e) /\ m \in Pairs(c)
  BY <1>1 DEF PairsOf
<1>3. m[1] \in Places(e) /\ m[1] \in Places(c)
  BY <1>2 DEF Pairs
<1>4. e = c
  BY <1>1, <1>3 DEF PlacesOk
<1> QED
  BY <1>1, <1>4

\* So the sums of a particle grow by its pairs of one more cell.
LEMMA CountedGrows ==
    ASSUME Types, PlacesOk, NEW c \in Cells, NEW n, ~(Stage(c) >= n), NEW p \in Particles,
           NEW f \in [Particles -> Nat]
    PROVE  f[p] = Cardinality(Counted(p, n)) =>
             Summed(f, c)[p] = Cardinality(Counted(p, n) \cup PairsOf(c, p))
<1>1. /\ IsFiniteSet(Counted(p, n)) /\ Cardinality(Counted(p, n)) \in Nat
  BY CountedFinite
<1>2. /\ Summed(f, c)[p] = f[p] + Cardinality(PairsOf(c, p))
      /\ IsFiniteSet(PairsOf(c, p)) /\ Cardinality(PairsOf(c, p)) \in Nat
  BY SumsAreNumbers
<1>3. Counted(p, n) \cap PairsOf(c, p) = {}
  BY CountedApart
<1>4. Cardinality({}) = 0
  BY FS_EmptySet
<1>5. Cardinality(Counted(p, n) \cup PairsOf(c, p)) =
          Cardinality(Counted(p, n)) + Cardinality(PairsOf(c, p)) - Cardinality(Counted(p, n) \cap PairsOf(c, p))
  BY <1>1, <1>2, FS_Union
<1>6. Cardinality(Counted(p, n) \cap PairsOf(c, p)) = 0
  BY <1>3, <1>4
<1> QED
  BY <1>1, <1>2, <1>5, <1>6

\* What is stored in a cell are particles.
LEMMA MembersArePlaced ==
    ASSUME PlacesOk, NEW d \in Cells PROVE Members(d) \subseteq Particles
<1>1. \A a \in Places(d) : Held(a) \in Particles
  BY DEF PlacesOk
<1> QED
  BY <1>1 DEF Members

\* A sweep over a complete grid, of the phases from InitDensitiesAndForcesMT to
\* ProcessCollisionsMT.
LEMMA SumsInit ==
    ASSUME RoundInv, Types, PlacesOk, SumsOk, NEW t \in Threads, NEW c, InitDensitiesAndForces(t, c)
    PROVE  SumsOk'
<1>1. /\ At(t, c, "init") /\ Visited(t, c) /\ UNCHANGED barrierVars /\ cells' = cells
      /\ cnumPars' = cnumPars /\ nextp' = nextp /\ slot' = slot
      /\ density' = Zeroed(density, c) /\ force' = Zeroed(force, c)
  BY DEF InitDensitiesAndForces, gridVars
<1>2. left[t] \in Nat /\ PhaseAfter(left[t]) = "init"
  BY <1>1, AtOwn
<1>3. left[t] % 10 = 3 /\ 3 \in 3 .. 7
  BY <1>2, PhaseNumbers
<1>4. PICK n \in 3 .. 7 : n = 3
  BY <1>3
<1>5. /\ Stage(c)' = 4 /\ c \in Cells
      /\ \A d \in Cells : (Stage(d) = 3 \/ Stage(d) = 4) /\ (d # c => Stage(d)' = Stage(d))
  <2>1. /\ Stage(c) = n /\ Stage(c)' = n + 1 /\ c \in Cells
        /\ \A d \in Cells : Stage(d) \in {n, n + 1} /\ (d # c => Stage(d)' = Stage(d))
    BY <1>1, <1>3, <1>4, CountedAfter
  <2> QED
    BY <1>4, <2>1
<1>6. \A d \in Cells : Stage(d)' = 3 \/ Stage(d)' = 4
  BY <1>5
<1>7. \A p : Counted(p, 5)' = {} /\ Counted(p, 7)' = {}
  BY <1>6 DEF Counted
<1>8. Cardinality({}) = 0
  BY FS_EmptySet
<1>9. \A d \in Cells : Members(d)' = Members(d) /\ Members(d) \subseteq Particles
  <2>1. \A d : Members(d)' = Members(d)
    BY <1>1, SamePairs
  <2> QED
    BY <2>1, MembersArePlaced
<1>10. \A p : Counted(p, 5) = {} /\ Counted(p, 7) = {}
  BY <1>5 DEF Counted
<1>11. ASSUME NEW d \in Cells, NEW p \in Members(d)', Stage(d)' >= 4
       PROVE  density'[p] = 0 /\ force'[p] = 0
  <2>1. p \in Particles /\ p \in Members(d)
    BY <1>9
  <2>2. CASE p \in Members(c)
    BY <1>1, <2>1, <2>2 DEF Zeroed
  <2>3. CASE p \notin Members(c)
    <3>1. density'[p] = density[p] /\ force'[p] = force[p]
      BY <1>1, <2>1, <2>3 DEF Zeroed
    <3>2. d # c
      BY <2>1, <2>3
    <3>3. Stage(d) >= 4
      BY <1>5, <1>11, <3>2
    <3>4. density[p] = Cardinality(Counted(p, 5)) /\ force[p] = Cardinality(Counted(p, 7))
      BY <2>1, <3>3 DEF SumsOk
    <3> QED
      BY <1>8, <1>10, <3>1, <3>4
  <2> QED
    BY <2>2, <2>3
<1> QED
  BY <1>7, <1>8, <1>11 DEF SumsOk

\* ComputeDensitiesMT adds the pairs of one more cell.
LEMMA SumsDensities ==
    ASSUME RoundInv, Types, PlacesOk, SumsOk, NEW t \in Threads, NEW c, ComputeDensities(t, c)
    PROVE  SumsOk'
<1>1. /\ At(t, c, "densities") /\ Visited(t, c) /\ UNCHANGED barrierVars /\ cells' = cells
      /\ cnumPars' = cnumPars /\ nextp' = nextp /\ slot' = slot
      /\ density' = Summed(density, c) /\ force' = force
  BY DEF ComputeDensities, gridVars
<1>2. left[t] \in Nat /\ PhaseAfter(left[t]) = "densities"
  BY <1>1, AtOwn
<1>3. left[t] % 10 = 4 /\ 4 \in 3 .. 7
  BY <1>2, PhaseNumbers
<1>4. PICK n \in 3 .. 7 : n = 4
  BY <1>3
<1>5. /\ Stage(c) = 4 /\ c \in Cells
      /\ \A d \in Cells : Stage(d) = 4 \/ Stage(d) = 5
      /\ \A p : Counted(p, 5)' = Counted(p, 5) \cup PairsOf(c, p)
      /\ \A p : Counted(p, 7)' = Counted(p, 7)
  <2>1. /\ Stage(c) = n /\ c \in Cells /\ \A d \in Cells : Stage(d) \in {n, n + 1}
        /\ \A p : Counted(p, n + 1)' = Counted(p, n + 1) \cup PairsOf(c, p)
        /\ \A m \in 5 .. 8 : \A p : m # n + 1 => Counted(p, m)' = Counted(p, m)
    BY <1>1, <1>3, <1>4, CountedAfter
  <2>2. n + 1 = 5 /\ 7 \in 5 .. 8 /\ 7 # n + 1
    BY <1>4
  <2> QED
    BY <1>4, <2>1, <2>2
<1>6. \A d \in Cells : Members(d)' = Members(d) /\ Members(d) \subseteq Particles
  <2>1. \A d : Members(d)' = Members(d)
    BY <1>1, SamePairs
  <2> QED
    BY <2>1, MembersArePlaced
<1>7. ~(Stage(c) >= 5) /\ density \in [Particles -> Nat] /\ force \in [Particles -> Nat]
  BY <1>5 DEF Types
<1>8. ASSUME NEW d \in Cells, NEW p \in Members(d)'
      PROVE  density'[p] = Cardinality(Counted(p, 5)') /\ force'[p] = Cardinality(Counted(p, 7)')
  <2>1. p \in Particles /\ p \in Members(d)
    BY <1>6
  <2>2. Stage(d) >= 4
    BY <1>5
  <2>3. density[p] = Cardinality(Counted(p, 5)) /\ force[p] = Cardinality(Counted(p, 7))
    BY <2>1, <2>2 DEF SumsOk
  <2>4. Summed(density, c)[p] = Cardinality(Counted(p, 5) \cup PairsOf(c, p))
    <3>1. density[p] = Cardinality(Counted(p, 5))
      BY <2>3
    <3>2. c \in Cells
      BY <1>5
    <3> QED
      BY <1>7, <2>1, <3>1, <3>2, CountedGrows
  <2> QED
    BY <1>1, <1>5, <2>3, <2>4
<1> QED
  BY <1>8 DEF SumsOk

\* So does ComputeForcesMT.
LEMMA SumsForces ==
    ASSUME RoundInv, Types, PlacesOk, SumsOk, NEW t \in Threads, NEW c, ComputeForces(t, c)
    PROVE  SumsOk'
<1>1. /\ At(t, c, "forces") /\ Visited(t, c) /\ UNCHANGED barrierVars /\ cells' = cells
      /\ cnumPars' = cnumPars /\ nextp' = nextp /\ slot' = slot
      /\ force' = Summed(force, c) /\ density' = density
  BY DEF ComputeForces, gridVars
<1>2. left[t] \in Nat /\ PhaseAfter(left[t]) = "forces"
  BY <1>1, AtOwn
<1>3. left[t] % 10 = 6 /\ 6 \in 3 .. 7
  BY <1>2, PhaseNumbers
<1>4. PICK n \in 3 .. 7 : n = 6
  BY <1>3
<1>5. /\ Stage(c) = 6 /\ c \in Cells
      /\ \A d \in Cells : Stage(d) = 6 \/ Stage(d) = 7
      /\ \A p : Counted(p, 7)' = Counted(p, 7) \cup PairsOf(c, p)
      /\ \A p : Counted(p, 5)' = Counted(p, 5)
  <2>1. /\ Stage(c) = n /\ c \in Cells /\ \A d \in Cells : Stage(d) \in {n, n + 1}
        /\ \A p : Counted(p, n + 1)' = Counted(p, n + 1) \cup PairsOf(c, p)
        /\ \A m \in 5 .. 8 : \A p : m # n + 1 => Counted(p, m)' = Counted(p, m)
    BY <1>1, <1>3, <1>4, CountedAfter
  <2>2. n + 1 = 7 /\ 5 \in 5 .. 8 /\ 5 # n + 1
    BY <1>4
  <2> QED
    BY <1>4, <2>1, <2>2
<1>6. \A d \in Cells : Members(d)' = Members(d) /\ Members(d) \subseteq Particles
  <2>1. \A d : Members(d)' = Members(d)
    BY <1>1, SamePairs
  <2> QED
    BY <2>1, MembersArePlaced
<1>7. ~(Stage(c) >= 7) /\ density \in [Particles -> Nat] /\ force \in [Particles -> Nat]
  BY <1>5 DEF Types
<1>8. ASSUME NEW d \in Cells, NEW p \in Members(d)'
      PROVE  density'[p] = Cardinality(Counted(p, 5)') /\ force'[p] = Cardinality(Counted(p, 7)')
  <2>1. p \in Particles /\ p \in Members(d)
    BY <1>6
  <2>2. Stage(d) >= 4
    BY <1>5
  <2>3. density[p] = Cardinality(Counted(p, 5)) /\ force[p] = Cardinality(Counted(p, 7))
    BY <2>1, <2>2 DEF SumsOk
  <2>4. Summed(force, c)[p] = Cardinality(Counted(p, 7) \cup PairsOf(c, p))
    BY <1>5, <1>7, <2>1, <2>3, CountedGrows
  <2> QED
    BY <1>1, <1>5, <2>3, <2>4
<1> QED
  BY <1>8 DEF SumsOk

\* ComputeDensities2MT and ProcessCollisionsMT.
LEMMA SumsAdjust ==
    ASSUME RoundInv, Types, PlacesOk, SumsOk, NEW t \in Threads, NEW c, ComputeDensities2(t, c) \/ ProcessCollisions(t, c)
    PROVE  SumsOk'
<1>1. PICK n \in {5, 7}, phase \in {"densities2", "collisions"} :
         /\ n = 5 <=> phase = "densities2"
         /\ Adjust(t, c, phase)
  BY DEF ComputeDensities2, ProcessCollisions
<1>2. /\ At(t, c, phase) /\ Visited(t, c) /\ UNCHANGED barrierVars /\ cells' = cells
      /\ cnumPars' = cnumPars /\ nextp' = nextp /\ slot' = slot
      /\ force' = force /\ density' = density
  BY <1>1 DEF Adjust, gridVars, particleVars
<1>3. left[t] \in Nat /\ PhaseAfter(left[t]) = phase
  BY <1>2, AtOwn
<1>4. left[t] % 10 = n /\ n \in 3 .. 7
  BY <1>1, <1>3, PhaseNumbers
<1>5. /\ \A d \in Cells : Stage(d) \in {n, n + 1}
      /\ \A m \in 5 .. 8 : \A p : m # n + 1 => Counted(p, m)' = Counted(p, m)
  BY <1>2, <1>4, CountedAfter
<1>6. 5 \in 5 .. 8 /\ 7 \in 5 .. 8 /\ 5 # n + 1 /\ 7 # n + 1
  BY <1>1
<1>7. \A p : Counted(p, 5)' = Counted(p, 5) /\ Counted(p, 7)' = Counted(p, 7)
  BY <1>5, <1>6
<1>8. \A d \in Cells : Stage(d) >= 4
  BY <1>1, <1>5
<1>9. \A d \in Cells : Members(d)' = Members(d)
  BY <1>2, SamePairs
<1>10. ASSUME NEW d \in Cells, NEW p \in Members(d)'
       PROVE  density'[p] = Cardinality(Counted(p, 5)') /\ force'[p] = Cardinality(Counted(p, 7)')
  BY <1>2, <1>7, <1>8, <1>9 DEF SumsOk
<1> QED
  BY <1>10 DEF SumsOk

\* Nothing that is counted changes.
LEMMA SumsQuiet ==
    ASSUME SumsInv, cells' = cells, cnumPars' = cnumPars, nextp' = nextp, slot' = slot,
           density' = density, force' = force,
           \A d \in Cells : Stage(d)' = Stage(d) \/ Stage(d)' \notin 3 .. 8
    PROVE  SumsInv'
<1> SUFFICES ASSUME Summing' PROVE SumsOk'
  BY DEF SumsInv
<1>1. \A d \in Cells : Stage(d)' = Stage(d)
  BY DEF Summing
<1>2. \A d \in Cells : Stage(d)' \in 3 .. 8
  BY DEF Summing
<1>3. SumsOk
  BY <1>1, <1>2 DEF SumsInv, Summing
<1>4. \A e, p : PairsOf(e, p)' = PairsOf(e, p)
  BY SamePairs
<1>5. ASSUME NEW p, NEW m PROVE Counted(p, m)' = Counted(p, m)
  <2>1. {d \in Cells : Stage(d) >= m}' = {d \in Cells : Stage(d) >= m}
    BY <1>1
  <2>2. Counted(p, m)' = UNION {PairsOf(e, p) : e \in {d \in Cells : Stage(d) >= m}'}
    BY <1>4 DEF Counted
  <2> QED
    BY <2>1, <2>2 DEF Counted
<1>6. \A d \in Cells : Members(d)' = Members(d)
  BY SamePairs
<1>7. ASSUME NEW d \in Cells, NEW p \in Members(d)', Stage(d)' >= 4
      PROVE  density'[p] = Cardinality(Counted(p, 5)') /\ force'[p] = Cardinality(Counted(p, 7)')
  <2>1. p \in Members(d) /\ Stage(d) >= 4
    BY <1>1, <1>6, <1>7
  <2>2. density[p] = Cardinality(Counted(p, 5)) /\ force[p] = Cardinality(Counted(p, 7))
    BY <1>3, <2>1 DEF SumsOk
  <2> QED
    BY <1>5, <2>2
<1> QED
  BY <1>7 DEF SumsOk

\* In the other phases nothing has been added yet, or the grid is not complete.
LEMMA SumsOutside ==
    ASSUME RoundInv, SumsInv, NEW t \in Threads, NEW c,
           NEW phase \in {"clear", "rebuild", "advance", "collisions2"}, At(t, c, phase),
           Visited(t, c) \/ (todo' = todo /\ phase = "rebuild"), UNCHANGED barrierVars
    PROVE  SumsInv'
<1>1. c \in Cells /\ left[t] \in Nat /\ PhaseAfter(left[t]) = phase
  BY AtOwn
<1>2. PICK n \in 1 .. 9 : /\ left[t] % 10 = n
                          /\ n = 1 \/ n = 2 \/ n = 8 \/ n = 9
                          /\ n = 2 <=> phase = "rebuild"
                          /\ n = 1 <=> phase = "clear"
  <2>1. \/ left[t] % 10 = 1 /\ phase = "clear"
        \/ left[t] % 10 = 2 /\ phase = "rebuild"
        \/ left[t] % 10 = 8 /\ phase = "advance"
        \/ left[t] % 10 = 9 /\ phase = "collisions2"
    BY <1>1, PhaseNumbers
  <2>2. 1 \in 1 .. 9 /\ 2 \in 1 .. 9 /\ 8 \in 1 .. 9 /\ 9 \in 1 .. 9
    OBVIOUS
  <2> QED
    BY <2>1, <2>2
<1>3. Stage(c) = n /\ \A d \in Cells : Stage(d) = n \/ Stage(d) = n + 1
  <2>1. Stage(c) = n /\ \A d \in Cells : Stage(d) \in {n, n + 1}
    BY <1>2, StageAt
  <2> QED
    BY <2>1
<1>4. phase # "swap"
  OBVIOUS
<1>5. CASE Visited(t, c)
  <2>1. Stage(c)' = n + 1 /\ \A d \in Cells \ {c} : Stage(d)' = Stage(d)
    BY <1>3, <1>4, <1>5, StageAfter
  <2>2. CASE n = 8 \/ n = 9
    BY <1>1, <2>1, <2>2 DEF SumsInv, Summing
  <2>3. CASE n = 1 \/ n = 2
    <3>1. \A d \in Cells : Stage(d)' = n \/ Stage(d)' = n + 1
      BY <1>3, <2>1
    <3>2. \A d \in Cells : ~(Stage(d)' >= 4)
      BY <2>3, <3>1
    <3> QED
      BY <3>2 DEF SumsInv, SumsOk
  <2> QED
    BY <1>2, <2>2, <2>3
<1>6. CASE todo' = todo /\ phase = "rebuild"
  <2>1. left' = left
    BY DEF barrierVars
  <2>2. \A d \in Cells : Stage(d)' = Stage(d)
    BY <1>6, <2>1, StageQuiet
  <2>3. \A d \in Cells : ~(Stage(d)' >= 4)
    BY <1>2, <1>3, <1>6, <2>2
  <2> QED
    BY <2>3 DEF SumsInv, SumsOk
<1> QED
  BY <1>5, <1>6

\* A thread enters or leaves a barrier.
LEMMA SumsBarrier ==
    ASSUME RoundInv, SumsInv, NEW t \in Threads, Enter(t) \/ Leave(t) PROVE SumsInv'
<1>1. /\ cells' = cells /\ cnumPars' = cnumPars /\ nextp' = nextp /\ slot' = slot
      /\ density' = density /\ force' = force
  BY DEF Enter, Leave, gridVars, particleVars
<1>2. ASSUME NEW d \in Cells PROVE Stage(d)' = Stage(d) \/ Stage(d)' \notin 3 .. 8
  <2>1. CASE Enter(t)
    <3>1. left' = left /\ todo' = todo
      BY <2>1 DEF Enter, B!Enter
    <3> QED
      BY <3>1, StageQuiet
  <2>2. CASE Leave(t)
    <3>1. Stage(d)' = Stage(d) \/ (Stage(d) \in {0, 10} /\ Stage(d)' = Stage(d) + 1)
      BY <2>2, StageLeave
    <3> QED
      BY <3>1
  <2> QED
    BY <2>1, <2>2
<1> QED
  BY <1>1, <1>2, SumsQuiet

\* While threads sweep over a complete grid nothing else does.
LEMMA SumsSweep ==
    ASSUME RoundInv, Types, Gridded, SumsInv, NEW t \in Threads, NEW c,
           \/ InitDensitiesAndForces(t, c) \/ ComputeDensities(t, c) \/ ComputeDensities2(t, c)
           \/ ComputeForces(t, c) \/ ProcessCollisions(t, c)
    PROVE  SumsInv'
<1>1. PICK phase \in {"init", "densities", "densities2", "forces", "collisions"} : At(t, c, phase)
  BY DEF InitDensitiesAndForces, ComputeDensities, ComputeDensities2, ComputeForces, ProcessCollisions, Adjust
<1>2. left[t] \in Nat /\ PhaseAfter(left[t]) = phase /\ Started
  BY <1>1, AtOwn
<1>3. PICK n \in 3 .. 7 : left[t] % 10 = n
  <2>1. \/ left[t] % 10 = 3 \/ left[t] % 10 = 4 \/ left[t] % 10 = 5 \/ left[t] % 10 = 6 \/ left[t] % 10 = 7
    BY <1>1, <1>2, PhaseNumbers
  <2> QED
    BY <2>1
<1>4. Summing
  <2>1. n \in 1 .. 9
    OBVIOUS
  <2>2. \A d \in Cells : Stage(d) \in {n, n + 1}
    BY <1>1, <1>3, <2>1, StageAt
  <2> QED
    BY <2>2 DEF Summing
<1>5. PlacesOk /\ SumsOk
  BY <1>2, <1>4, PlacesHold DEF SumsInv
<1>6. SumsOk'
  BY <1>5, SumsInit, SumsDensities, SumsForces, SumsAdjust
<1> QED
  BY <1>6 DEF SumsInv

\* Before the threads start, and when they have been joined, no grid is swept.
LEMMA SumsIdle ==
    ASSUME RoundInv, ~Started \/ Joined, left' = left, todo' = todo PROVE SumsInv'
<1>1. 0 \in Cells
  BY Dimensions
<1>2. Stage(0) = 10
  BY <1>1, StageIdle
<1>3. Stage(0)' = Stage(0)
  BY <1>1, StageQuiet
<1>4. ~Summing'
  BY <1>1, <1>2, <1>3 DEF Summing
<1> QED
  BY <1>4 DEF SumsInv

\* Every step keeps the counts.
LEMMA SumsNext == FluidInv /\ SumsInv /\ [Next]_vars => SumsInv'
<1> SUFFICES ASSUME FluidInv, SumsInv, [Next]_vars PROVE SumsInv'
  OBVIOUS
<1>0. /\ Swap \/ (\E c \in Cells : Load(c)) \/ (\E t \in Threads : ThreadStep(t)) => saved = NULL /\ saved' = saved
      /\ RoundInv /\ Types /\ (saved = NULL => Gridded)
  BY StepsUnsaved
<1>1. ASSUME NEW c \in Cells, Load(c) PROVE SumsInv'
  <2>1. ~Started /\ left' = left /\ todo' = todo
    BY <1>0, <1>1, LoadRounds DEF Load, barrierVars
  <2> QED
    BY <1>0, <2>1, SumsIdle
<1>2. ASSUME NEW c \in Cells, CleanUpSim(c) PROVE SumsInv'
  <2>1. saved # NULL /\ left' = left /\ todo' = todo
    BY <1>2 DEF CleanUpSim, barrierVars
  <2>2. Joined
    BY <2>1 DEF FluidInv, Cleaned
  <2> QED
    BY <1>0, <2>1, <2>2, SumsIdle
<1>3. CASE Swap
  <2>1. At(0, 0, "swap") /\ Visited(0, 0) /\ UNCHANGED barrierVars
    BY <1>3 DEF Swap
  <2>2. Stage(0)' = 1 /\ 0 \in Cells
    BY <1>0, <2>1, StageSwap, Dimensions
  <2> QED
    BY <2>2 DEF SumsInv, Summing
<1>4. ASSUME NEW t \in Threads, ThreadStep(t) PROVE SumsInv'
  <2>1. CASE Enter(t) \/ Leave(t)
    BY <1>0, <2>1, SumsBarrier
  <2>2. ASSUME NEW c \in Cells, Sweep(t, c) PROVE SumsInv'
    <3>1. CASE \/ InitDensitiesAndForces(t, c) \/ ComputeDensities(t, c) \/ ComputeDensities2(t, c)
               \/ ComputeForces(t, c) \/ ProcessCollisions(t, c)
      BY <1>0, <1>4, <3>1, SumsSweep
    <3>2. CASE Clear(t, c)
      <4>1. At(t, c, "clear") /\ Visited(t, c) /\ UNCHANGED barrierVars
        BY <3>2 DEF Clear
      <4> QED
        BY <1>0, <4>1, SumsOutside
    <3>3. CASE Reserve(t, c) \/ Copy(t, c)
      <4>1. At(t, c, "rebuild") /\ todo' = todo /\ UNCHANGED barrierVars
        BY <3>3 DEF Reserve, Copy
      <4> QED
        BY <1>0, <4>1, SumsOutside
    <3>4. CASE SourceDone(t, c)
      <4>1. At(t, c, "rebuild") /\ Visited(t, c) /\ UNCHANGED barrierVars
        BY <3>4 DEF SourceDone
      <4> QED
        BY <1>0, <4>1, SumsOutside
    <3>5. CASE Advance(t, c)
      <4>1. At(t, c, "advance") /\ Visited(t, c) /\ UNCHANGED barrierVars
        BY <3>5 DEF Advance
      <4> QED
        BY <1>0, <4>1, SumsOutside
    <3>6. CASE ProcessCollisions2(t, c)
      <4>1. At(t, c, "collisions2") /\ Visited(t, c) /\ UNCHANGED barrierVars
        BY <3>6 DEF ProcessCollisions2, Adjust
      <4> QED
        BY <1>0, <4>1, SumsOutside
    <3> QED
      BY <2>2, <3>1, <3>2, <3>3, <3>4, <3>5, <3>6 DEF Sweep
  <2> QED
    BY <1>4, <2>1, <2>2 DEF ThreadStep
<1>5. CASE SaveFile
  <2>1. Joined /\ left' = left /\ todo' = todo
    BY <1>5 DEF SaveFile, barrierVars
  <2> QED
    BY <1>0, <2>1, SumsIdle
<1>6. CASE UNCHANGED vars
  <2>1. /\ left' = left /\ todo' = todo /\ cells' = cells /\ cnumPars' = cnumPars /\ nextp' = nextp
        /\ slot' = slot /\ density' = density /\ force' = force
    BY <1>6 DEF vars, barrierVars, gridVars, particleVars
  <2>2. \A d \in Cells : Stage(d)' = Stage(d)
    BY <2>1, StageQuiet
  <2> QED
    BY <2>1, <2>2, SumsQuiet
<1> QED
  BY <1>1, <1>2, <1>3, <1>4, <1>5, <1>6 DEF Next

\* At first no grid is complete.
LEMMA InitSums == Init => SumsInv
<1> SUFFICES ASSUME Init PROVE SumsInv
  OBVIOUS
<1>1. RoundInv
  BY InitRounds
<1>2. 0 \in Threads /\ 0 \in Cells /\ left = [t \in Threads |-> 0] /\ todo = [t \in Threads |-> Work(t, 0)]
  BY Dimensions DEF Init
<1>3. \A t \in Threads : left[t] = 0 /\ todo[t] = Work(t, 0)
  BY <1>2
<1>4. Stage(0) = 10
  <2>1. 0 \in Nat /\ 0 % 10 = 0
    OBVIOUS
  <2> QED
    BY <1>2, <1>3, <2>1, StageDue
<1> QED
  BY <1>2, <1>4 DEF SumsInv, Summing

\* Of two places one is below the other.
LEMMA BelowOrder ==
    ASSUME NEW a \in Nodes \X Slots, NEW b \in Nodes \X Slots
    PROVE  /\ ~Below(a, a)
           /\ Below(a, b) => ~Below(b, a)
           /\ a[1] = b[1] /\ a # b => Below(a, b) \/ Below(b, a)
           /\ a[1][1] = b[1][1] /\ a[1][2] < b[1][2] => Below(a, b)
<1>1. /\ a[1][1] \in Int /\ a[1][2] \in Int /\ b[1][1] \in Int /\ b[1][2] \in Int
      /\ a[2] \in Int /\ b[2] \in Int
  <2>1. \A n \in Nodes : n[1] \in Int /\ n[2] \in Int
    <3>1. (\A d \in Cells : d \in Int) /\ 0 .. MaxBlocks - 1 \subseteq Int
      BY Dimensions, Sizes
    <3>2. \A n \in Heads : n[1] \in Int /\ n[2] \in Int
      <4>1. \A n \in Heads : (n[1] = 0 \/ n[1] = 1) /\ n[2] \in Cells
        BY DEF Heads
      <4>2. \A x : x = 0 \/ x = 1 => x \in Int
        OBVIOUS
      <4> QED
        BY <3>1, <4>1, <4>2
    <3>3. \A n \in Blocks : n[1] \in Int /\ n[2] \in Int
      BY <3>1 DEF Blocks
    <3> QED
      BY <3>2, <3>3 DEF Nodes
  <2>2. \A i \in Slots : i \in Int
    BY Sizes DEF Slots
  <2> QED
    BY <2>1, <2>2
<1>2. a = <<a[1], a[2]>> /\ b = <<b[1], b[2]>>
  OBVIOUS
<1>3. ~Below(a, a)
  BY <1>1 DEF Below
<1>4. Below(a, b) => ~Below(b, a)
  BY <1>1 DEF Below
<1>5. a[1] = b[1] /\ a # b => Below(a, b) \/ Below(b, a)
  BY <1>1, <1>2 DEF Below
<1>6. a[1][1] = b[1][1] /\ a[1][2] < b[1][2] => Below(a, b)
  BY DEF Below
<1> QED
  BY <1>3, <1>4, <1>5, <1>6

\* All pairs of places that the loops let through, for one particle, and the other
\* particle of each.
PairsWith(p) == UNION {PairsOf(e, p) : e \in Cells}
Other(m, p) == IF Held(m[1]) = p THEN Held(m[2]) ELSE Held(m[1])

\* The other particle of a pair is in reach.
LEMMA PairsReach ==
    ASSUME Types, PlacesOk, NEW p \in Particles, NEW m \in PairsWith(p)
    PROVE  /\ Other(m, p) \in InReach(p)
           /\ m = <<m[1], m[2]>>
           /\ m[1] \in Nodes \X Slots /\ m[2] \in Nodes \X Slots /\ Below(m[2], m[1])
           /\ \E c, d \in Cells : m[1] \in Places(c) /\ m[2] \in Places(d)
           /\ \/ Held(m[1]) = p /\ Held(m[2]) = Other(m, p)
              \/ Held(m[2]) = p /\ Held(m[1]) = Other(m, p)
<1>1. PICK c \in Cells : m \in Pairs(c) /\ (p = Held(m[1]) \/ p = Held(m[2]))
  BY DEF PairsWith, PairsOf
<1>2. PICK d \in NeighCells(c) : /\ m \in Places(c) \X UNION {Places(e) : e \in NeighCells(c)}
                                 /\ m[2] \in Places(d) /\ Below(m[2], m[1])
  BY <1>1 DEF Pairs
<1>3. m = <<m[1], m[2]>> /\ m[1] \in Places(c)
  BY <1>2
<1>4. d \in Neighbours(c) /\ c \in Neighbours(d) /\ d \in Cells /\ c \in Neighbours(c) /\ d \in Neighbours(d)
  BY <1>2, NeighboursMutual DEF NeighCells
<1>5. /\ m[1] \in Nodes \X Slots /\ Held(m[1]) \in Particles /\ pos[Held(m[1])] = c
      /\ m[2] \in Nodes \X Slots /\ Held(m[2]) \in Particles /\ pos[Held(m[2])] = d
  BY <1>2, <1>3, <1>4 DEF PlacesOk
<1>6. m[1] # m[2]
  BY <1>2, <1>5, BelowOrder
<1>7. Held(m[1]) # Held(m[2])
  BY <1>2, <1>3, <1>4, <1>6 DEF PlacesOk
<1>8. CASE Held(m[1]) = p
  BY <1>2, <1>3, <1>4, <1>5, <1>7, <1>8 DEF Other, InReach
<1>9. CASE Held(m[1]) # p
  BY <1>1, <1>2, <1>3, <1>4, <1>5, <1>7, <1>9 DEF Other, InReach
<1> QED
  BY <1>8, <1>9

\* No two pairs have the same two particles.
LEMMA PairsDistinct ==
    ASSUME Types, PlacesOk, NEW p \in Particles, NEW m \in PairsWith(p), NEW k \in PairsWith(p),
           Other(m, p) = Other(k, p)
    PROVE  m = k
<1>1. /\ m = <<m[1], m[2]>> /\ m[1] \in Nodes \X Slots /\ m[2] \in Nodes \X Slots /\ Below(m[2], m[1])
      /\ \/ Held(m[1]) = p /\ Held(m[2]) = Other(m, p)
         \/ Held(m[2]) = p /\ Held(m[1]) = Other(m, p)
  BY PairsReach
<1>2. /\ k = <<k[1], k[2]>> /\ k[1] \in Nodes \X Slots /\ k[2] \in Nodes \X Slots /\ Below(k[2], k[1])
      /\ \/ Held(k[1]) = p /\ Held(k[2]) = Other(m, p)
         \/ Held(k[2]) = p /\ Held(k[1]) = Other(m, p)
  BY PairsReach
<1>3. ASSUME NEW a, NEW b, a = m[1] \/ a = m[2], b = k[1] \/ b = k[2], Held(a) = Held(b)
      PROVE  a = b
  <2>1. \E c \in Cells : a \in Places(c)
    BY <1>3, PairsReach
  <2>2. \E d \in Cells : b \in Places(d)
    BY <1>3, PairsReach
  <2> QED
    BY <1>3, <2>1, <2>2 DEF PlacesOk
<1>4. CASE Held(m[1]) = Held(k[1]) /\ Held(m[2]) = Held(k[2])
  <2>1. m[1] = k[1] /\ m[2] = k[2]
    BY <1>3, <1>4
  <2> QED
    BY <1>1, <1>2, <2>1
<1>5. CASE Held(m[1]) = Held(k[2]) /\ Held(m[2]) = Held(k[1])
  <2>1. m[1] = k[2] /\ m[2] = k[1]
    BY <1>3, <1>5
  <2> QED
    BY <1>1, <1>2, <2>1, BelowOrder
<1> QED
  BY <1>1, <1>2, <1>4, <1>5

\* A cell of one structure has all its places in its head.
LEMMA ShortCell ==
    ASSUME Types, Gridded, Summing, NEW c \in Cells, cnumPars[cells][c] <= ParticlesPerCell,
           NEW a \in Places(c)
    PROVE  a[1] = <<cells, c>>
<1>1. PICK at, lo, hi, who, from, cnt : Grid(at, lo, hi, who, from, cnt)
  BY DEF Gridded
<1>2. PICK h : h = <<cells, c>>
  OBVIOUS
<1>3. Stage(c) >= 2
  BY DEF Summing
<1>4. /\ cnt[h] = cnumPars[cells][c] /\ cnt[h] \in Nat
      /\ Places(c) = {PlaceOf(at, h, i) : i \in {k \in Nat : k < cnt[h]}}
  BY <1>1, <1>2, <1>3, MembersOf
<1>5. PICK i \in Nat : i < cnt[h] /\ a = PlaceOf(at, h, i)
  BY <1>4
<1>6. i < ParticlesPerCell
  BY <1>4, <1>5, Sizes
<1>7. i \div ParticlesPerCell = 0
  BY <1>6, SlotOf
<1>8. at[h][0] = h
  BY <1>1, <1>2, HeadsOf DEF Grid, HeadsFirst, Types
<1> QED
  BY <1>2, <1>5, <1>7, <1>8 DEF PlaceOf

\* If no cell is longer every two particles in reach of each other are a pair.
LEMMA ReachPaired ==
    ASSUME Types, Gridded, Summing, PlacesOk, NoLongCell, NEW p \in Particles, NEW q \in InReach(p)
    PROVE  \E m \in PairsWith(p) : Other(m, p) = q
<1>1. /\ q \in Particles /\ p # q /\ pos[p] \in Cells /\ pos[q] \in Cells
      /\ pos[q] \in Neighbours(pos[p]) /\ pos[p] \in Neighbours(pos[q])
  BY NeighboursMutual DEF InReach, Types
<1>2. PICK c \in Cells, d \in Cells : c = pos[p] /\ d = pos[q]
  BY <1>1
<1>3. PICK a \in Places(c) : Held(a) = p
  BY <1>2 DEF PlacesOk
<1>4. PICK b \in Places(d) : Held(b) = q
  BY <1>1, <1>2 DEF PlacesOk
<1>5. a \in Nodes \X Slots /\ b \in Nodes \X Slots /\ a # b
  BY <1>1, <1>3, <1>4 DEF PlacesOk
<1>6. a[1] = <<cells, c>> /\ b[1] = <<cells, d>>
  BY ShortCell DEF NoLongCell
<1>7. cnumPars[cells][c] # 0 /\ cnumPars[cells][d] # 0
  <2>1. \A e \in Cells : cnumPars[cells][e] = 0 => Places(e) = {}
    BY DEF Places
  <2> QED
    BY <1>3, <1>4, <2>1
<1>8. \/ c = d \/ c < d \/ d < c
  BY Dimensions
<1>9. ASSUME NEW e \in Cells, NEW f \in NeighCells(e), NEW x \in Places(e), NEW y \in Places(f), Below(y, x),
             \/ Held(x) = p /\ Held(y) = q
             \/ Held(x) = q /\ Held(y) = p
      PROVE  \E m \in PairsWith(p) : Other(m, p) = q
  <2>1. PICK m : m = <<x, y>>
    OBVIOUS
  <2>2. m[1] = x /\ m[2] = y
    BY <2>1
  <2>3. m \in Pairs(e)
    BY <1>9, <2>1, <2>2 DEF Pairs
  <2>4. m \in PairsWith(p)
    BY <1>9, <2>2, <2>3 DEF PairsOf, PairsWith
  <2>5. Other(m, p) = q
    BY <1>1, <1>9, <2>2 DEF Other
  <2> QED
    BY <2>4, <2>5
<1>10. CASE c = d
  <2>1. c \in NeighCells(c)
    BY DEF NeighCells
  <2>2. Below(a, b) \/ Below(b, a)
    BY <1>5, <1>6, <1>10, BelowOrder
  <2> QED
    BY <1>3, <1>4, <1>9, <1>10, <2>1, <2>2
<1>11. CASE c < d
  <2>1. c \in NeighCells(d)
    BY <1>1, <1>2, <1>7, <1>11 DEF NeighCells
  <2>2. Below(a, b)
    BY <1>5, <1>6, <1>11, BelowOrder
  <2> QED
    BY <1>3, <1>4, <1>9, <2>1, <2>2
<1>12. CASE d < c
  <2>1. d \in NeighCells(c)
    BY <1>1, <1>2, <1>7, <1>12 DEF NeighCells
  <2>2. Below(b, a)
    BY <1>5, <1>6, <1>12, BelowOrder
  <2> QED
    BY <1>3, <1>4, <1>9, <2>1, <2>2
<1> QED
  BY <1>8, <1>10, <1>11, <1>12

\* So a particle has as many pairs as neighbours, or fewer.
LEMMA PairsInReach ==
    ASSUME Types, Gridded, Summing, PlacesOk, NEW p \in Particles
    PROVE  /\ Cardinality(PairsWith(p)) <= Cardinality(InReach(p))
           /\ NoLongCell => Cardinality(PairsWith(p)) = Cardinality(InReach(p))
<1> DEFINE S == PairsWith(p)
           T == InReach(p)
           f == [m \in S |-> Other(m, p)]
<1>1. f \in [S -> T] /\ \A m \in S : f[m] = Other(m, p)
  BY PairsReach
<1>2. \A m, k \in S : f[m] = f[k] => m = k
  BY PairsDistinct
<1>3. IsFiniteSet(T)
  <2>1. T \in SUBSET Particles
    BY DEF InReach
  <2> QED
    BY <2>1, FiniteSlots, FS_Subset
<1>4. NoLongCell => \A q \in T : \E m \in S : f[m] = q
  BY <1>1, ReachPaired
<1> HIDE DEF S, T, f
<1>5. f \in Injection(S, T)
  BY <1>1, <1>2, Fun_IsInj
<1>6. Cardinality(S) <= Cardinality(T) /\ (Cardinality(S) = Cardinality(T) <=> f \in Surjection(S, T))
  BY <1>3, <1>5, FS_Injection
<1>7. NoLongCell => f \in Surjection(S, T)
  BY <1>1, <1>4, Fun_IsSurj
<1> QED
  BY <1>6, <1>7 DEF S, T

\* What the counts say when all threads are past the phase.
LEMMA CountedAll ==
    ASSUME NEW n, NEW p, \A c \in Cells : Stage(c) >= n PROVE Counted(p, n) = PairsWith(p)
<1>1. {d \in Cells : Stage(d) >= n} = Cells
  OBVIOUS
<1> QED
  BY <1>1 DEF Counted, PairsWith

\* In the phases after one that adds, every cell has been through it.
LEMMA KnownStages ==
    ASSUME RoundInv, NEW n \in 5 .. 7, \A t \in Threads : \E m \in n .. 7 : left[t] % 10 = m
    PROVE  Summing /\ \A c \in Cells : Stage(c) >= n
<1>1. ASSUME NEW c \in Cells PROVE Stage(c) \in 3 .. 8 /\ Stage(c) >= n
  <2>1. PICK t \in Threads : t = Owner(c)
    BY OneOwner
  <2>2. PICK m \in n .. 7 : left[t] % 10 = m
    OBVIOUS
  <2>3. m \in 3 .. 7
    OBVIOUS
  <2>4. Stage(c) = m \/ Stage(c) = m + 1
    BY <2>1, <2>2, <2>3, StageInPhase
  <2> QED
    BY <2>4
<1> QED
  BY <1>1 DEF Summing

\* The sums of a particle that all threads have completed.
LEMMA FluidPairs ==
    ASSUME FluidInv, SumsInv PROVE PairsAtMostOnce
<1>0. RoundInv /\ Types
  BY DEF FluidInv
<1>1. ASSUME Started, NEW n \in 5 .. 7, \A t \in Threads : \E m \in n .. 7 : left[t] % 10 = m,
             NEW f, \A c \in Cells : \A p \in Members(c) : f[p] = Cardinality(Counted(p, n))
      PROVE  AddedOnce(f)
  <2>1. Summing /\ \A c \in Cells : Stage(c) >= n
    BY <1>0, <1>1, KnownStages
  <2>2. saved = NULL
    <3> SUFFICES ASSUME saved # NULL PROVE FALSE
      OBVIOUS
    <3>1. Joined /\ 0 \in Cells
      BY Dimensions DEF FluidInv, Cleaned
    <3>2. Stage(0) = 10
      BY <1>0, <3>1, StageIdle
    <3> QED
      BY <2>1, <3>1, <3>2 DEF Summing
  <2>3. Gridded
    BY <2>2 DEF FluidInv
  <2>4. PlacesOk
    BY <1>0, <1>1, <2>1, <2>3, PlacesHold
  <2>5. ASSUME NEW p \in Particles
        PROVE  /\ f[p] <= Cardinality(InReach(p))
               /\ NoLongCell => f[p] = Cardinality(InReach(p))
    <3>1. pos[p] \in Cells
      BY <1>0 DEF Types
    <3>2. p \in Members(pos[p])
      BY <2>4 DEF PlacesOk, Members
    <3>3. f[p] = Cardinality(Counted(p, n))
      BY <1>1, <3>1, <3>2
    <3>4. Counted(p, n) = PairsWith(p)
      BY <2>1, CountedAll
    <3> QED
      BY <1>0, <2>1, <2>3, <2>4, <3>3, <3>4, PairsInReach
  <2> QED
    BY <2>5 DEF AddedOnce
<1>2. ASSUME NEW t \in Threads
      PROVE  /\ Phase(t) = "densities2" => left[t] % 10 = 5
             /\ Phase(t) = "forces" => left[t] % 10 = 6
             /\ Phase(t) = "collisions" => left[t] % 10 = 7
  <2>1. left[t] \in Nat
    BY <1>0 DEF RoundInv
  <2> QED
    BY <2>1, PhaseNumbers DEF Phase
<1>3. ASSUME Started, DensityKnown PROVE AddedOnce(density)
  <2>1. \A t \in Threads : \E m \in 5 .. 7 : left[t] % 10 = m
    <3> SUFFICES ASSUME NEW t \in Threads PROVE \E m \in 5 .. 7 : left[t] % 10 = m
      OBVIOUS
    <3>1. Phase(t) = "densities2" \/ Phase(t) = "forces" \/ Phase(t) = "collisions"
      BY <1>3 DEF DensityKnown
    <3>2. left[t] % 10 = 5 \/ left[t] % 10 = 6 \/ left[t] % 10 = 7
      BY <1>2, <3>1
    <3> QED
      BY <3>2
  <2>2. 5 \in 5 .. 7
    OBVIOUS
  <2>3. Summing /\ \A c \in Cells : Stage(c) >= 5
    BY <1>0, <2>1, <2>2, KnownStages
  <2>4. \A c \in Cells : Stage(c) >= 4
    BY <2>3 DEF Summing
  <2>5. \A c \in Cells : \A p \in Members(c) : density[p] = Cardinality(Counted(p, 5))
    BY <2>3, <2>4 DEF SumsInv, SumsOk
  <2> QED
    BY <1>1, <1>3, <2>1, <2>2, <2>5
<1>4. ASSUME Started, ForceKnown PROVE AddedOnce(force)
  <2>1. \A t \in Threads : \E m \in 7 .. 7 : left[t] % 10 = m
    BY <1>2, <1>4 DEF ForceKnown
  <2>2. 7 \in 5 .. 7
    OBVIOUS
  <2>3. Summing /\ \A c \in Cells : Stage(c) >= 7
    BY <1>0, <2>1, <2>2, KnownStages
  <2>4. \A c \in Cells : Stage(c) >= 4
    BY <2>3 DEF Summing
  <2>5. \A c \in Cells : \A p \in Members(c) : force[p] = Cardinality(Counted(p, 7))
    BY <2>3, <2>4 DEF SumsInv, SumsOk
  <2> QED
    BY <1>1, <1>4, <2>1, <2>2, <2>5
<1> QED
  BY <1>3, <1>4 DEF PairsAtMostOnce

\* Between two frames' moves each particle's density and acceleration have had
\* every neighbour added at most once, and exactly once if no cell is longer than
\* one structure (InitDensitiesAndForcesMT, ComputeDensitiesMT, ComputeForcesMT), if
\* particles travel at most one cell.
THEOREM FramesCountPairs == Spec => []PairsAtMostOnce
<1>1. Init => FluidInv /\ SumsInv
  BY InitRounds, InitGrid, InitSums DEF Init, FluidInv
<1>2. FluidInv /\ SumsInv /\ [Next]_vars /\ ~wide' => FluidInv' /\ SumsInv'
  BY FluidNext, SumsNext
<1>3. (~wide => FluidInv /\ SumsInv) => PairsAtMostOnce
  BY FluidPairs DEF PairsAtMostOnce
<1> QED
  BY <1>1, <1>2, <1>3, WideStays, PTL DEF Spec
=============================================================================

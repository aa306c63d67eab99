-------------------------- MODULE BattleshipFleet --------------------------
(***************************************************************************)
(* Fleet geometry of Battleship (engine/fleet.ts and its copy              *)
(* sui-tunnel-ts/src/protocol/battleshipFleet.ts): what a placement covers,*)
(* which placements the placement screen accepts, which revealed boards    *)
(* settlement accepts, and where the random placer may put a fleet.        *)
(* A cell is a <<row, column>>, a board the set of its ship cells, a fleet *)
(* a function from ship ids to placements.                                 *)
(***************************************************************************)
EXTENDS Integers, FiniteSets, FiniteSetsExt

CONSTANTS BOARD_SIZE,   \* cells per side
          FLEET         \* ship id |-> size

Ships == DOMAIN FLEET
Cells == (0..BOARD_SIZE - 1) \X (0..BOARD_SIZE - 1)
Orientation == {"H", "V"}
Placement == [cell : Cells, orient : Orientation]

FLEET_CELLS == MapThenSumSet(LAMBDA id : FLEET[id], Ships)

\* The straight run of n cells from an anchor; it may leave the board.
Run(cell, n, orient) ==
    {<<cell[1] + (IF orient = "V" THEN i ELSE 0),
       cell[2] + (IF orient = "H" THEN i ELSE 0)>> : i \in 0..n - 1}

placementCells(id, p) == Run(p.cell, FLEET[id], p.orient)

Around(cell, steps) ==
    {<<cell[1] + d[1], cell[2] + d[2]>> : d \in steps} \cap Cells

diagonalNeighbors(cell) == Around(cell, {-1, 1} \X {-1, 1})
orthoNeighbors(cell) == Around(cell, {<<-1, 0>>, <<1, 0>>, <<0, -1>>, <<0, 1>>})
neighbors8(cell) == diagonalNeighbors(cell) \cup orthoNeighbors(cell)

\* fleetIsLegal: every ship fits, no two overlap, and no cell of one is
\* diagonally next to a cell of another.
fleetIsLegal(ps) ==
    /\ \A id \in Ships : placementCells(id, ps[id]) \subseteq Cells
    /\ \A i, j \in Ships : i # j =>
          LET mine == placementCells(i, ps[i])
              theirs == placementCells(j, ps[j])
          IN  /\ mine \cap theirs = {}
              /\ \A c \in mine : diagonalNeighbors(c) \cap theirs = {}

\* Two ships in contact along an edge; fleetIsLegal leaves only ships that
\* lie end to end in one line.
EndToEnd(ps) ==
    \E i, j \in Ships : /\ i # j
                        /\ \E c \in placementCells(i, ps[i]) :
                              orthoNeighbors(c) \cap placementCells(j, ps[j]) # {}

placementsToBoard(ps) == UNION {placementCells(id, ps[id]) : id \in Ships}

\* The 4-connected component of a ship cell (the flood fill).
Component(board, cell) ==
    LET reach[n \in 0..FLEET_CELLS] ==
            IF n = 0 THEN {cell}
            ELSE reach[n - 1] \cup
                 {c \in board : orthoNeighbors(c) \cap reach[n - 1] # {}}
    IN  reach[FLEET_CELLS]

Straight(cells) ==
    \/ Cardinality({c[1] : c \in cells}) = 1
    \/ Cardinality({c[2] : c \in cells}) = 1

\* isLegalBoard: the right number of ship cells, no diagonal contact, and the
\* components are straight runs of exactly the fleet's sizes.
isLegalBoard(board) ==
    /\ Cardinality(board) = FLEET_CELLS
    /\ \A c \in board : diagonalNeighbors(c) \cap board = {}
    /\ LET comps == {Component(board, c) : c \in board}
       IN  /\ \A k \in comps : Straight(k)
           /\ \A n \in 1..FLEET_CELLS :
                 Cardinality({k \in comps : Cardinality(k) = n})
                     = Cardinality({id \in Ships : FLEET[id] = n})

\* Every fleet placeFleetRandom can return: each ship on the board and off
\* the cells, and their eight neighbours, that the others block.
placeFleetRandom ==
    {ps \in [Ships -> Placement] :
        /\ \A id \in Ships : placementCells(id, ps[id]) \subseteq Cells
        /\ \A i, j \in Ships : i # j =>
              \A c \in placementCells(i, ps[i]) :
                 ({c} \cup neighbors8(c)) \cap placementCells(j, ps[j]) = {}}
============================================================================

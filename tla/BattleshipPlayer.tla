-------------------------- MODULE BattleshipPlayer --------------------------
(***************************************************************************)
(* The two sides of a Battleship player in the browser.                    *)
(*                                                                         *)
(* The fleet placement screen (games/battleship/components/                *)
(* PlacementBoard.tsx): a random legal fleet to start from, a ship picked  *)
(* up, turned and dropped where the checker allows it, and the start       *)
(* button, which hands the fleet to the game once the checker accepts it.  *)
(*                                                                         *)
(* The shot selection of the bots (games/battleship/engine/bot.ts): one    *)
(* shooter works on one hidden board with one of the three difficulties.   *)
(* A random pick is any member of the pool it is drawn from.               *)
(***************************************************************************)
EXTENDS BattleshipFleet

CONSTANT Difficulties

VARIABLES st,   \* placing: [placements, selected, orient, ready]; hunting: [fired, difficulty]
          own   \* hunting: the board shot at

vars == <<st, own>>

-----------------------------------------------------------------------------
\* Placing the fleet.

Nothing == "nothing"

PlacementInit ==
    /\ \E ps \in placeFleetRandom :
          st = [placements |-> ps, selected |-> Nothing, orient |-> "H", ready |-> FALSE]
    /\ own = Nothing

ownerByCell(cell) == {id \in Ships : cell \in placementCells(id, st.placements[id])}

\* Picking a ship up syncs the orientation toggle to that ship's own.
pickUp(id) ==
    /\ ~st.ready
    /\ st' = [st EXCEPT !.selected = id, !.orient = st.placements[id].orient]
    /\ UNCHANGED own

\* A click with no ship in hand picks up the ship under it.
ClickShip(cell) ==
    /\ st.selected = Nothing
    /\ \E id \in ownerByCell(cell) : pickUp(id)

\* A click with a ship in hand drops it where the fleet stays legal.
placeAt(cell) ==
    /\ ~st.ready
    /\ st.selected # Nothing
    /\ LET candidate == [st.placements EXCEPT ![st.selected] =
                            [cell |-> cell, orient |-> st.orient]]
       IN  /\ fleetIsLegal(candidate)
           /\ st' = [st EXCEPT !.placements = candidate, !.selected = Nothing]
    /\ UNCHANGED own

rotate ==
    /\ ~st.ready
    /\ st' = [st EXCEPT !.orient = IF @ = "H" THEN "V" ELSE "H"]
    /\ UNCHANGED own

\* Escape puts the ship in hand back where it was.
dropSelected ==
    /\ ~st.ready
    /\ st.selected # Nothing
    /\ st' = [st EXCEPT !.selected = Nothing]
    /\ UNCHANGED own

Randomize ==
    /\ ~st.ready
    /\ \E ps \in placeFleetRandom : st' = [st EXCEPT !.placements = ps, !.selected = Nothing]
    /\ UNCHANGED own

\* The start button, disabled while the fleet is not legal.
Start ==
    /\ ~st.ready
    /\ fleetIsLegal(st.placements)
    /\ st' = [st EXCEPT !.ready = TRUE]
    /\ UNCHANGED own

PlacementNext ==
    \/ \E id \in Ships : pickUp(id)
    \/ \E cell \in Cells : ClickShip(cell) \/ placeAt(cell)
    \/ rotate
    \/ dropSelected
    \/ Randomize
    \/ Start

-----------------------------------------------------------------------------
\* The exact extent of the gap: a fleet the screen accepts is one settlement
\* accepts, unless two of its ships lie end to end.
ReadyUnlessEndToEnd ==
    fleetIsLegal(st.placements) =>
        (EndToEnd(st.placements) \/ isLegalBoard(placementsToBoard(st.placements)))

\* The screen never shows a fleet the start button would refuse.
AlwaysStartable == fleetIsLegal(st.placements)

-----------------------------------------------------------------------------
\* Hunting the fleet.

HuntInit ==
    /\ \E ps \in placeFleetRandom : own = placementsToBoard(ps)
    /\ \E d \in Difficulties : st = [fired |-> {}, difficulty |-> d]

Hits == st.fired \cap own
Misses == st.fired \ own

\* Open cells just past either end of a run of two or more hits in line.
lineExtensions(hits, fired) ==
    {c \in Cells \ fired :
        \E d \in {<<-1, 0>>, <<1, 0>>, <<0, -1>>, <<0, 1>>} :
            {<<c[1] - i * d[1], c[2] - i * d[2]>> : i \in 1..2} \subseteq hits}

\* groupHits: the 4-connected runs of hits, and whether a run can still grow:
\* a single hit in any direction, a line only past its ends.
Runs(hits) == {Component(hits, h) : h \in hits}

canGrow(run, fired) ==
    IF Cardinality(run) = 1
    THEN \E h \in run : orthoNeighbors(h) \ fired # {}
    ELSE LET horizontal == Cardinality({c[1] : c \in run}) = 1
             axis == IF horizontal THEN {<<0, -1>>, <<0, 1>>} ELSE {<<-1, 0>>, <<1, 0>>}
         IN  \E c \in run : (Around(c, axis) \ run) \ fired # {}

\* Hits on ships still in play, and the runs taken for sunk ships.
active(hits, fired) == UNION {r \in Runs(hits) : canGrow(r, fired)}
sunkRuns(hits, fired) == {r \in Runs(hits) : ~canGrow(r, fired)}

\* remainingSizes: how many ships of a size are not known to be sunk.
remaining(sunk, n) ==
    Max({0, Cardinality({id \in Ships : FLEET[id] = n})
                - Cardinality({r \in sunk : Cardinality(r) = n})})

\* densityShot: the weight of every placement of a remaining ship that fits
\* over an open cell, placements over live hits counting for far more.
HIT_WEIGHT == 1000

blocked(misses, sunk) == misses \cup UNION sunk \cup UNION {neighbors8(c) : c \in UNION sunk}

score(live, sunk, bad, cell) ==
    LET fits(n) == {p \in Cells \X Orientation :
                       LET r == Run(p[1], n, p[2])
                       IN  cell \in r /\ r \subseteq Cells /\ r \cap bad = {}}
        weight(hit) == IF hit = 0 THEN 1 ELSE HIT_WEIGHT * hit
        total(n) == MapThenSumSet(LAMBDA p : weight(Cardinality(Run(p[1], n, p[2]) \cap live)), fits(n))
    IN  MapThenSumSet(LAMBDA n : remaining(sunk, n) * total(n), 1..BOARD_SIZE)

Heaviest(scored) == {p[1] : p \in {p \in scored : p[2] > 0 /\ \A q \in scored : q[2] <= p[2]}}

densityShot(hits, fired) ==
    LET live == active(hits, fired)
        sunk == sunkRuns(hits, fired)
        bad == blocked(fired \ hits, sunk)
        best == Heaviest({<<c, score(live, sunk, bad, c)>> : c \in Cells \ fired})
    IN  IF best # {} THEN best ELSE Cells \ fired

\* pickShot: every cell the bot may fire at next.
pickShot(difficulty, hits, fired) ==
    LET open == Cells \ fired
        lines == IF difficulty = "normal" THEN lineExtensions(hits, fired) ELSE {}
        near == UNION {orthoNeighbors(h) : h \in hits} \ fired
        parity == {c \in open : (c[1] + c[2]) % 2 = 0}
    IN  IF difficulty = "hard" THEN densityShot(hits, fired)
        ELSE IF lines # {} THEN lines
        ELSE IF near # {} THEN near
        ELSE IF difficulty = "normal" /\ parity # {} THEN parity ELSE open

FleetAfloat == own \ st.fired # {}

Fire(cell) ==
    /\ FleetAfloat
    /\ cell \in pickShot(st.difficulty, Hits, st.fired)
    /\ st' = [st EXCEPT !.fired = @ \cup {cell}]
    /\ UNCHANGED own

HuntNext == \E cell \in Cells : Fire(cell)

-----------------------------------------------------------------------------
\* While a ship is afloat the bot has a cell to fire at, one it has not fired
\* at before ("Never returns an already-fired cell").
AlwaysAFreshShot ==
    FleetAfloat =>
        LET pool == pickShot(st.difficulty, Hits, st.fired)
        IN  pool # {} /\ pool \cap st.fired = {}

\* "a run that can no longer grow is provably SUNK": every run the density
\* bot writes off is one whole ship, so it never blocks a ship still afloat.
SunkRunsAreShips ==
    \A r \in sunkRuns(Hits, st.fired) : r \in {Component(own, c) : c \in own}

\* "this never misses a ship": once the normal bot leaves its colour of the
\* checkerboard to hunt blindly, it has hit every ship already.
ParityFindsEveryShip ==
    st.difficulty = "normal" /\ FleetAfloat =>
        LET pool == pickShot("normal", Hits, st.fired)
            hunted == \E c \in pool : (c[1] + c[2]) % 2 = 1 /\ orthoNeighbors(c) \cap Hits = {}
        IN  hunted => \A k \in {Component(own, c) : c \in own} : k \cap Hits # {}

\* The density bot finishes a wounded ship before it searches again: its
\* shots lie in one line with a live hit, no further off than a ship is long.
HardFinishesWounded ==
    st.difficulty = "hard" /\ FleetAfloat /\ active(Hits, st.fired) # {} =>
        \A c \in pickShot("hard", Hits, st.fired) :
            \E h \in active(Hits, st.fired), id \in Ships, a \in Cells, o \in Orientation :
                {c, h} \subseteq Run(a, FLEET[id], o)
=============================================================================

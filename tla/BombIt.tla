------------------------------- MODULE BombIt -------------------------------
(***************************************************************************)
(* Bomb It: the duel (sui-tunnel-ts/src/protocol/bombIt.ts), its bot, many *)
(* duels in one tunnel (multiGameBombIt.ts) and the self-play loop         *)
(* (games/bombIt/session-core.ts and the kit's bot).                       *)
(*                                                                         *)
(* A cell is <<row, col>>; the grid is its set of crates, the walls being  *)
(* fixed.  Which crates a seed gives is open, up to the half-turn symmetry *)
(* buildGrid gives every board.                                            *)
(***************************************************************************)
EXTENDS GameBase, FiniteSets

CONSTANTS GRID_W, GRID_H, FUSE_TICKS, BLAST_RADIUS, MAX_BOMBS_PER_PLAYER, TICK_CAP,
          Crates,       \* canonical-half crate sets a seed may roll
          Stakes, stakePerGame,
          Idle,         \* the sets of seats whose player may have walked away
          MaxGames      \* bound: duels after the first

VARIABLES st,   \* the co-signed state
          own   \* what the tunnel locks, and the seats that never act

vars == <<st, own>>

Cells == (0..(GRID_H - 1)) \X (0..(GRID_W - 1))
isBorder(c) == c[1] \in {0, GRID_H - 1} \/ c[2] \in {0, GRID_W - 1}
isPillar(c) == c[1] % 2 = 0 /\ c[2] % 2 = 0
Wall(c) == c \notin Cells \/ isBorder(c) \/ isPillar(c)
mirror(c) == <<GRID_H - 1 - c[1], GRID_W - 1 - c[2]>>

Spawn(p) == IF p = "A" THEN <<1, 1>> ELSE mirror(<<1, 1>>)
inSpawnSafe(c) == LET near == {<<1, 1>>, <<1, 2>>, <<2, 1>>} IN c \in near \/ mirror(c) \in near

\* Crates are rolled on one half of the free cells and copied to the other.
buildGrid(rolled) ==
    {c \in Cells : ~Wall(c) /\ ~inSpawnSafe(c) /\ (c \in rolled \/ mirror(c) \in rolled)}

Dirs == {"north", "south", "east", "west"}
dest(c, action) ==
    CASE action = "north" -> <<c[1] - 1, c[2]>>
      [] action = "south" -> <<c[1] + 1, c[2]>>
      [] action = "east" -> <<c[1], c[2] + 1>>
      [] action = "west" -> <<c[1], c[2] - 1>>
      [] OTHER -> c

canMoveTo(s, by, c) ==
    /\ ~Wall(c)
    /\ c \notin s.grid
    /\ \A b \in s.bombs : b.at # c
    /\ ~(s.players[otherParty(by)].alive /\ s.players[otherParty(by)].at = c)

\* A bomb reaches along each arm up to a wall or the first crate.
blastCellsFor(grid, at) ==
    LET arm(d) == LET cell[k \in 0..BLAST_RADIUS] == IF k = 0 THEN at ELSE dest(cell[k - 1], d)
                  IN  {cell[k] : k \in {k \in 1..BLAST_RADIUS :
                          \A j \in 1..k : ~Wall(cell[j]) /\ (j < k => cell[j] \notin grid)}}
    IN  {at} \cup UNION {arm(d) : d \in Dirs}

\* Bombs that are due, and those they set off, read against the grid before
\* any crate is cleared.
detonating(s) ==
    LET due == {b \in s.bombs : b.fuse <= 0}
        chain[k \in 0..Cardinality(s.bombs)] ==
            IF k = 0 THEN due
            ELSE chain[k - 1] \cup {b \in s.bombs :
                     \E d \in chain[k - 1] : b.at \in blastCellsFor(s.grid, d.at)}
    IN  chain[Cardinality(s.bombs)]

\* resolveExplosions, and the players caught in it.
Explode(s) ==
    LET lit == detonating(s)
        cells == UNION {blastCellsFor(s.grid, b.at) : b \in lit}
    IN  [s EXCEPT !.grid = @ \ cells, !.bombs = @ \ lit,
                  !.players = [p \in Party |-> [s.players[p] EXCEPT
                                  !.alive = @ /\ s.players[p].at \notin cells]]]

applyAction(s, by, action) ==
    LET p == s.players[by]
    IN  IF ~p.alive \/ action = "stay" THEN s
        ELSE IF action = "bomb"
        THEN IF /\ Cardinality({b \in s.bombs : b.owner = by}) < MAX_BOMBS_PER_PLAYER
                /\ \A b \in s.bombs : b.at # p.at
             THEN [s EXCEPT !.bombs = @ \cup {[at |-> p.at, fuse |-> FUSE_TICKS, owner |-> by]}]
             ELSE s
        ELSE IF canMoveTo(s, by, dest(p.at, action))
             THEN [s EXCEPT !.players[by].at = dest(p.at, action)] ELSE s

duelState(grid, a, b) ==
    [tick |-> 0, grid |-> grid, bombs |-> {}, winner |-> "none",
     players |-> [p \in Party |-> [at |-> Spawn(p), alive |-> TRUE]],
     bal |-> [A |-> a, B |-> b], total |-> a + b]

DuelOver(s) == s.winner # "none"

duelMove(s, action, by) ==
    LET acted == applyAction(s, by, action)
        t == Explode([acted EXCEPT !.bombs = {[b EXCEPT !.fuse = @ - 1] : b \in acted.bombs},
                                   !.tick = @ + 1])
        alive == {p \in Party : t.players[p].alive}
        winner == CASE alive = {} -> "draw"
                    [] alive = {"A"} -> "A"
                    [] alive = {"B"} -> "B"
                    [] OTHER -> IF t.tick >= TICK_CAP THEN "draw" ELSE "none"
    IN  [t EXCEPT !.winner = winner,
                  !.bal = IF winner \in Party THEN [p \in Party |-> IF p = winner THEN s.total ELSE 0]
                          ELSE @]

-----------------------------------------------------------------------------
\* The bot.

dangerCells(s) == UNION {blastCellsFor(s.grid, b.at) : b \in s.bombs}
adjacentDanger(danger) == {dest(c, d) : c \in danger, d \in Dirs}

\* Cells from which `by` can walk out of `avoid` in at most k moves.
Escape(s, by, avoid, k) ==
    LET free == {c \in Cells : canMoveTo(s, by, c)}
        out[i \in 0..k] == IF i = 0 THEN free \ avoid
                           ELSE out[i - 1] \cup {c \in free : \E d \in Dirs : dest(c, d) \in out[i - 1]}
    IN  out[k]

\* First steps of a shortest way out of `avoid`.
fleeStep(s, by, avoid) ==
    LET at == s.players[by].at
        via(k) == {d \in Dirs : dest(at, d) \in Escape(s, by, avoid, k)}
        ks == {k \in 0..FUSE_TICKS : via(k) # {}}
    IN  IF ks = {} THEN {} ELSE via(CHOOSE k \in ks : \A j \in ks : k <= j)


\* A bomb dropped here could be walked away from: a move every second tick,
\* one of them kept in hand.
canEscapeOwnBomb(s, by, danger) ==
    LET at == s.players[by].at
        budget == IF FUSE_TICKS \div 2 - 1 > 1 THEN FUSE_TICKS \div 2 - 1 ELSE 1
        lethal == danger \cup blastCellsFor(s.grid, at)
    IN  \E d \in Dirs : dest(at, d) \in Escape(s, by, lethal, budget - 1)

Distance(c, d) ==
    LET abs(n) == IF n < 0 THEN -n ELSE n IN abs(c[1] - d[1]) + abs(c[2] - d[2])

\* The actions hunterAction may return, whatever its dice say.
hunterAction(s, by) ==
    LET p == s.players[by]
        q == s.players[otherParty(by)]
        danger == dangerCells(s)
        near == adjacentDanger(danger)
        moves == {d \in Dirs : canMoveTo(s, by, dest(p.at, d))}
        safe == {d \in moves : dest(p.at, d) \notin danger}
        safer == {d \in safe : dest(p.at, d) \notin near}
        wander == IF safer # {} THEN safer ELSE IF safe # {} THEN safe ELSE {"stay"}
        panic == IF safe # {} THEN wander ELSE IF moves # {} THEN moves ELSE {"stay"}
        flee == fleeStep(s, by, danger)
        canBomb == /\ Cardinality({b \in s.bombs : b.owner = by}) < MAX_BOMBS_PER_PLAYER
                   /\ \A b \in s.bombs : b.at # p.at
                   /\ canEscapeOwnBomb(s, by, danger)
        toward == {d \in Dirs : Distance(dest(p.at, d), q.at) < Distance(p.at, q.at)}
        inLine == /\ q.alive
                  /\ p.at[1] = q.at[1] \/ p.at[2] = q.at[2]
                  /\ Distance(p.at, q.at) <= BLAST_RADIUS
        walledOff == toward \cap safe = {} /\ \E d \in toward : dest(p.at, d) \in s.grid
        attack == IF canBomb /\ (inLine \/ walledOff) THEN {"bomb"} ELSE {}
    IN  IF ~p.alive THEN {"stay"}
        ELSE IF p.at \in danger THEN IF flee # {} THEN flee ELSE panic
        ELSE IF p.at \in near /\ safer # {} THEN safer
        ELSE attack \cup (toward \cap safe) \cup wander

-----------------------------------------------------------------------------
\* Many duels in one tunnel.

canFundNextGame(s) == \A p \in Party : s.bal[p] >= stakePerGame
isTerminal(s) == DuelOver(s.inner) /\ ~canFundNextGame(s)

swap(bal, winner) ==
    IF winner \notin Party THEN bal
    ELSE [bal EXCEPT ![winner] = @ + stakePerGame, ![otherParty(winner)] = @ - stakePerGame]

applyMove(s, action, by, grid) ==
    IF ~DuelOver(s.inner)
    THEN LET next == duelMove(s.inner, action, by)
         IN  [s EXCEPT !.inner = next, !.bal = IF DuelOver(next) THEN swap(@, next.winner) ELSE @]
    ELSE [s EXCEPT !.inner = duelMove(duelState(grid, stakePerGame, stakePerGame), action, by),
                   !.gamesPlayed = @ + 1]

Init ==
    /\ \E rolled \in Crates, b \in Stakes :
          st = [inner |-> duelState(buildGrid(rolled), stakePerGame, stakePerGame),
                gamesPlayed |-> 0, bal |-> [A |-> b[1], B |-> b[2]]]
    /\ \E idle \in Idle : own = [locked |-> st.bal.A + st.bal.B, idle |-> idle]

\* stepMultiGame: the seat whose tick it is acts, by its bot or, when its
\* player has taken over and does nothing, not at all.
Step(by) ==
    /\ ~DuelOver(st.inner)
    /\ by = IF st.inner.tick % 2 = 0 THEN "A" ELSE "B"
    /\ \E action \in IF by \in own.idle THEN {"stay"} ELSE hunterAction(st.inner, by) :
          st' = applyMove(st, action, by, {})
    /\ UNCHANGED own

\* kickoffNextGame: A stays on the fresh board of the next duel.
Kickoff ==
    /\ DuelOver(st.inner)
    /\ ~isTerminal(st)
    /\ st.gamesPlayed < MaxGames
    /\ \E rolled \in Crates : st' = applyMove(st, "stay", "A", buildGrid(rolled))
    /\ UNCHANGED own

Next == (\E by \in Party : Step(by)) \/ Kickoff

-----------------------------------------------------------------------------
\* The carried balances sum to what the tunnel locks; a duel's own balances
\* leave the even split only on the tick that kills.
Conserved ==
    /\ SumsTo(st.bal, own.locked)
    /\ SumsTo(st.inner.bal, st.inner.total)
    /\ st.inner.winner \notin Party => st.inner.bal.A = st.inner.bal.B

\* encodeState has one slot per owner: a seat never has two live bombs, no
\* two bombs share a cell, and nobody stands in a wall or a crate.
BoardSound ==
    LET s == st.inner
    IN  /\ \A b, c \in s.bombs : b # c => b.owner # c.owner /\ b.at # c.at
        /\ \A p \in Party : ~Wall(s.players[p].at) /\ s.players[p].at \notin s.grid

\* "what ends the bot's self-immolation": against a player who stands still
\* a bot always walks out of its own blast.
BotSurvivesItself ==
    \A p \in Party : otherParty(p) \in own.idle => st.inner.players[p].alive

Terminal == DuelOver(st.inner)
=============================================================================

------------------------------- MODULE Cross -------------------------------
(***************************************************************************)
(* Chicken Cross: the race (sui-tunnel-ts/src/protocol/cross.ts), many     *)
(* races in one tunnel (multiGameCross.ts), and the self-play loop of the  *)
(* browser (games/chickenCross/session-core.ts and the kit's bot).         *)
(*                                                                         *)
(* Positions are in tenths of a column.  What the generator derives from   *)
(* a race's id (the spans of each lane) is a seed: an element of Seeds,    *)
(* mapping a lane to a sequence of [phase, velocity].                      *)
(***************************************************************************)
EXTENDS GameBase, Sequences, FiniteSets

CONSTANTS COLUMN_COUNT, SPAWN_COL, WIN_LANE, TICK_CAP, RESPAWN_INVULN,
          Seeds, Stakes, stakePerGame,
          Human,     \* the seats played by hand
          MaxGames   \* bound: races after the first

VARIABLES st,   \* the co-signed state
          own   \* the seat that moved last, and what the tunnel locks

vars == <<st, own>>

laneKind(lane) ==
    IF lane < 2 THEN "grass"
    ELSE LET k == (lane - 2) % 6
         IN  CASE k \in {0, 1} -> "road" [] k = 2 -> "water" [] k = 3 -> "rails" [] OTHER -> "grass"

Half(kind) == CASE kind = "road" -> 9 [] kind = "water" -> 14 [] kind = "rails" -> 30

hazardsAt(seed, lane, tick) ==
    IF laneKind(lane) = "grass" THEN {}
    ELSE {[center |-> (h[1] + h[2] * tick) % (10 * COLUMN_COUNT), half |-> Half(laneKind(lane))]
             : h \in {seed[lane][i] : i \in DOMAIN seed[lane]}}

spanCoversCol(span, col) ==
    \E c \in {10 * col + 5, 10 * (col - COLUMN_COUNT) + 5, 10 * (col + COLUMN_COUNT) + 5} :
        c > span.center - span.half /\ c < span.center + span.half

\* Cars and trains kill where they are, water where no log is.
isLethal(seed, col, lane, tick) ==
    LET onHazard == \E s \in hazardsAt(seed, lane, tick) : spanCoversCol(s, col)
    IN  laneKind(lane) # "grass" /\ (IF laneKind(lane) = "water" THEN ~onHazard ELSE onHazard)

Dirs == {"north", "south", "east", "west"}

destOf(lane, col, dir) ==
    CASE dir = "north" -> <<lane + 1, col>>
      [] dir = "south" -> <<IF lane > 0 THEN lane - 1 ELSE 0, col>>
      [] dir = "east" -> <<lane, IF col < COLUMN_COUNT - 1 THEN col + 1 ELSE col>>
      [] dir = "west" -> <<lane, IF col > 0 THEN col - 1 ELSE 0>>

spawnPlayer == [lane |-> 0, col |-> SPAWN_COL, score |-> 0, invuln |-> 0]

\* One player, one tick: immunity runs down and blocks the hop; a hop into
\* death is not made; standing in death sends the player back, score kept.
stepPlayer(seed, p, dir, tick) ==
    IF p.invuln > 0 THEN [p EXCEPT !.invuln = @ - 1]
    ELSE LET d == IF dir = "stay" THEN <<p.lane, p.col>> ELSE destOf(p.lane, p.col, dir)
             at == IF isLethal(seed, d[2], d[1], tick) THEN <<p.lane, p.col>> ELSE d
             score == IF at[1] > p.score THEN at[1] ELSE p.score
         IN  IF isLethal(seed, at[2], at[1], tick)
             THEN [lane |-> 0, col |-> SPAWN_COL, score |-> score, invuln |-> RESPAWN_INVULN]
             ELSE [lane |-> at[1], col |-> at[2], score |-> score, invuln |-> 0]

\* The hops greedyDir may choose: forward, else sideways in either order,
\* else back, else none.
greedyDir(s, by) ==
    LET p == s.players[by]
        safe(d) == LET c == destOf(p.lane, p.col, d) IN ~isLethal(s.seed, c[2], c[1], s.tick + 1)
    IN  IF p.invuln > 0 THEN {"stay"}
        ELSE IF safe("north") THEN {"north"}
        ELSE IF \E d \in {"east", "west"} : safe(d) THEN {d \in {"east", "west"} : safe(d)}
        ELSE IF safe("south") THEN {"south"} ELSE {"stay"}

\* A's share of the pot if the race stopped here.
settleShare(total, scoreA, scoreB) ==
    LET lead == IF scoreA - scoreB > WIN_LANE THEN WIN_LANE
                ELSE IF scoreB - scoreA > WIN_LANE THEN -WIN_LANE ELSE scoreA - scoreB
    IN  (total * (WIN_LANE + lead)) \div (2 * WIN_LANE)

-----------------------------------------------------------------------------
\* One race.

raceState(seed, a, b) ==
    [tick |-> 0, seed |-> seed, players |-> [p \in Party |-> spawnPlayer],
     winner |-> "none", bal |-> [A |-> a, B |-> b], total |-> a + b]

RaceOver(s) == s.winner # "none" \/ s.tick >= TICK_CAP

\* Who has won after a tick: the first across, at the cap the higher score.
decide(players, tick) ==
    LET across == {p \in Party : players[p].lane >= WIN_LANE}
        higher == {p \in Party : players[p].score > players[otherParty(p)].score}
        winners == IF Cardinality(across) = 1 THEN across
                   ELSE IF across # {} \/ tick >= TICK_CAP THEN higher ELSE {}
    IN  IF winners = {} THEN "none" ELSE CHOOSE p \in winners : TRUE

raceMove(s, dir, by) ==
    LET tick == s.tick + 1
        players == [p \in Party |->
                       stepPlayer(s.seed, s.players[p], IF p = by THEN dir ELSE "stay", tick)]
        winner == decide(players, tick)
        a == CASE winner = "A" -> s.total
               [] winner = "B" -> 0
               [] OTHER -> settleShare(s.total, players.A.score, players.B.score)
    IN  [s EXCEPT !.tick = tick, !.players = players, !.winner = winner,
                  !.bal = [A |-> a, B |-> s.total - a]]

-----------------------------------------------------------------------------
\* Many races in one tunnel.

canFundNextGame(s) == \A p \in Party : s.bal[p] >= stakePerGame

isTerminal(s) == RaceOver(s.inner) /\ ~canFundNextGame(s)

swap(bal, winner) ==
    IF winner = "none" THEN bal
    ELSE [bal EXCEPT ![winner] = @ + stakePerGame, ![otherParty(winner)] = @ - stakePerGame]

initialState(seed, a, b) ==
    [inner |-> raceState(seed, stakePerGame, stakePerGame), gamesPlayed |-> 0,
     bal |-> [A |-> a, B |-> b]]

applyMove(s, dir, by, seed) ==
    IF ~RaceOver(s.inner)
    THEN LET next == raceMove(s.inner, dir, by)
         IN  [s EXCEPT !.inner = next,
                       !.bal = IF RaceOver(next) THEN swap(@, next.winner) ELSE @]
    ELSE [s EXCEPT !.inner = raceMove(raceState(seed, stakePerGame, stakePerGame), dir, by),
                   !.gamesPlayed = @ + 1]

Init ==
    /\ \E seed \in Seeds, b \in Stakes : st = initialState(seed, b[1], b[2])
    /\ own = [by |-> "none", locked |-> st.bal.A + st.bal.B]

\* stepMultiGame: the seat whose tick it is hops, by hand or by its bot.
Step(by) ==
    /\ ~RaceOver(st.inner)
    /\ by = IF st.inner.tick % 2 = 0 THEN "A" ELSE "B"
    /\ \E dir \in IF by \in Human THEN Dirs \cup {"stay"} ELSE greedyDir(st.inner, by) :
          st' = applyMove(st, dir, by, st.inner.seed)
    /\ own' = [own EXCEPT !.by = by]

\* kickoffNextGame: A's first move of the next race, on its own course.
Kickoff ==
    /\ RaceOver(st.inner)
    /\ ~isTerminal(st)
    /\ st.gamesPlayed < MaxGames
    /\ \E seed \in Seeds : st' = applyMove(st, "stay", "A", seed)
    /\ own' = [own EXCEPT !.by = "none"]

Next == (\E by \in Party : Step(by)) \/ Kickoff

-----------------------------------------------------------------------------
\* The carried balances and the race's own sum to what was locked, and no
\* seat goes below zero over any number of races.
Conserved ==
    /\ SumsTo(st.bal, own.locked)
    /\ SumsTo(st.inner.bal, st.inner.total)

\* "a finish-line dead heat can't occur": one seat hops per tick.
NoDeadHeat == \E p \in Party : st.inner.players[p].lane < WIN_LANE

\* An undecided race is split by progress: who is ahead is not owed less,
\* and within a level race nobody is more than the floored coin behind.
SplitByProgress ==
    LET s == st.inner
        lead == s.players.A.score - s.players.B.score
    IN  s.winner = "none" /\ s.tick > 0 =>
            /\ lead > 0 => s.bal.A >= s.bal.B
            /\ lead < 0 => s.bal.B >= s.bal.A
            /\ lead = 0 => s.bal.B - s.bal.A \in {0, 1}

\* "stalling is strictly self-harming" and "a respawn can't lower a locked
\* claim": short of the cap a seat's own hop never lowers its share.
OwnHopNeverHurts ==
    LET s == st.inner
        n == st'.inner
    IN  (st'.gamesPlayed = st.gamesPlayed /\ s.tick > 0 /\ n.tick < TICK_CAP) =>
            n.bal[own'.by] >= s.bal[own'.by]

Terminal == RaceOver(st.inner)
=============================================================================

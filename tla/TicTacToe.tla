----------------------------- MODULE TicTacToe -----------------------------
(***************************************************************************)
(* Tic-tac-toe (sui-tunnel-ts/src/protocol/ticTacToe.ts), a series of      *)
(* games in one tunnel (games/ticTacToe/packages/shared/src/ttt/           *)
(* multiGameProtocol.ts), and the bots of the agent kit with their minimax *)
(* search (ttt/board.ts, minimax.ts).  The salted digest of the moves is   *)
(* left out of the state.                                                  *)
(***************************************************************************)
EXTENDS GameBase, FiniteSets, FiniteSetsExt, SequencesExt

CONSTANTS Stakes, DefaultStake, maxGames,
          scores,   \* the table of minimaxScore
          Levels    \* <<level of A, level of B>>: "perfect", "even" or "any"

VARIABLES st,   \* the co-signed state
          own   \* the level each seat plays at, and what the tunnel locks

vars == <<st, own>>

-----------------------------------------------------------------------------
\* The board and the exhaustive search of the perfect bot.

LINES == {{0, 1, 2}, {3, 4, 5}, {6, 7, 8}, {0, 3, 6}, {1, 4, 7}, {2, 5, 8}, {0, 4, 8}, {2, 4, 6}}
Empties(board) == {i \in 0..8 : board[i] = 0}

\* 0 none, 1 A, 2 B, 3 draw
checkWinner(board) ==
    LET won == {m \in {1, 2} : \E l \in LINES : \A i \in l : board[i] = m}
    IN  IF won # {} THEN Min(won) ELSE IF Empties(board) = {} THEN 3 ELSE 0

\* Every board has a number, so that the scores form one sequence.
Boards == 1..3^9
Number(board) == 1 + MapThenSumSet(LAMBDA i : board[i] * 3^i, 0..8)
Numbered(c) == [i \in 0..8 |-> ((c - 1) \div 3^i) % 3]

\* minimaxScore for both seats and either side to move, the fullest boards
\* first: a win counts more the sooner it comes, a loss less.  Counted from
\* the empty board, where the search counts from the present one: the order
\* of the moves is the same.  (Joined to <<>>, TLC holds a table as a value.)
minimaxScore ==
    LET marks(c) == 9 - Cardinality(Empties(Numbered(c)))
        score(c, me, toMove, table) ==
            LET b == Numbered(c)
                w == checkWinner(b)
                succ == {table[c + toMove * 3^i][me][3 - toMove] : i \in Empties(b)}
            IN  CASE w = me -> 10 - marks(c)
                  [] w = 3 - me -> marks(c) - 10
                  [] w = 3 -> 0
                  [] w = 0 -> IF toMove = me THEN Max(succ) ELSE Min(succ)
        row(c, me, table) == <<score(c, me, 1, table), score(c, me, 2, table)>>
    IN  FoldLeft(LAMBDA table, k :
                     [c \in Boards |-> IF marks(c) = k THEN <<row(c, 1, table), row(c, 2, table)>>
                                       ELSE table[c]] \o <<>>,
                 [c \in Boards |-> <<>>], [i \in 1..10 |-> 10 - i])
-----------------------------------------------------------------------------
\* One game.

Mark(p) == IF p = "A" THEN 1 ELSE 2
gameState(bal, opener) ==
    [board |-> [i \in 0..8 |-> 0], turn |-> opener, winner |-> 0, bal |-> bal,
     stake |-> Lesser(DefaultStake, Lesser(bal.A, bal.B))]

applyInner(s, cell, by) ==
    LET board == [s.board EXCEPT ![cell] = Mark(by)]
        winner == checkWinner(board)
    IN  [s EXCEPT !.board = board, !.turn = otherParty(by), !.winner = winner,
                  !.bal = CASE winner = 1 -> shiftStake(@, "A", s.stake)
                            [] winner = 2 -> shiftStake(@, "B", s.stake)
                            [] OTHER -> @]

-----------------------------------------------------------------------------
\* A series.

\* The opening side alternates, so that neither seat keeps the edge.
seriesOpener(game) == IF game % 2 = 0 THEN "A" ELSE "B"

\* Variant: one seat's funds are enough.
canFundNextGameAny(inner) == \E p \in Party : inner.bal[p] >= inner.stake

canFundNextGame(inner) == \A p \in Party : inner.bal[p] >= inner.stake

isTerminal(s) ==
    s.inner.winner # 0 /\ (s.gamesPlayed + 1 >= maxGames \/ ~canFundNextGame(s.inner))

\* A finished game is followed by a fresh board that carries the balances,
\* the stake capped again to what each side can lose.
nextGame(s) ==
    [inner |-> gameState(s.inner.bal, seriesOpener(s.gamesPlayed + 1)),
     gamesPlayed |-> s.gamesPlayed + 1]

-----------------------------------------------------------------------------
\* The bots.

optimalMoves(board, mark) ==
    LET score(i) == scores[Number([board EXCEPT ![i] = mark])][mark][3 - mark]
        best == Max({score(i) : i \in Empties(board)})
    IN  {i \in Empties(board) : score(i) = best}

\* "even": finish a line, else block one, else any cell.
heuristicCells(board, mark) ==
    LET finish(m) == {i \in Empties(board) : \E l \in LINES :
                          i \in l /\ \A j \in l \ {i} : board[j] = m}
    IN  IF finish(mark) # {} THEN finish(mark)
        ELSE IF finish(3 - mark) # {} THEN finish(3 - mark) ELSE Empties(board)

\* Variant: the perfect player looks one move ahead only.
pickCellGreedy(board, by, level) ==
    IF level = "any" THEN Empties(board) ELSE heuristicCells(board, Mark(by))

pickCell(board, by, level) ==
    CASE level = "perfect" -> {Min(optimalMoves(board, Mark(by)))}
      [] level = "even" -> heuristicCells(board, Mark(by))
      [] OTHER -> Empties(board)

-----------------------------------------------------------------------------
Init ==
    /\ \E b \in Stakes :
          st = [inner |-> gameState([A |-> b[1], B |-> b[2]], seriesOpener(0)), gamesPlayed |-> 0]
    /\ \E l \in Levels : own = [level |-> [A |-> l[1], B |-> l[2]],
                                locked |-> st.inner.bal.A + st.inner.bal.B]

Place(by) ==
    /\ st.inner.winner = 0
    /\ st.inner.turn = by
    /\ \E cell \in pickCell(st.inner.board, by, own.level[by]) :
          st' = [st EXCEPT !.inner = applyInner(st.inner, cell, by)]
    /\ UNCHANGED own

\* Between games seat A advances, while the series is live.
Advance ==
    /\ st.inner.winner # 0
    /\ ~isTerminal(st)
    /\ st' = nextGame(st)
    /\ UNCHANGED own

Next == (\E by \in Party : Place(by)) \/ Advance

-----------------------------------------------------------------------------
\* Balances sum to what the tunnel locks, over the whole series.
Conserved == SumsTo(st.inner.bal, own.locked)

\* The loser of the game in play can pay the whole stake: the clamp of a
\* decisive move never bites and no game is played for less than it shows.
StakeCovered ==
    st.inner.winner = 0 => \A p \in Party : st.inner.bal[p] >= st.inner.stake

\* "perfect" = minimax: it never loses, and two of them always draw.
PerfectNeverLoses ==
    \A p \in Party : own.level[p] = "perfect" => st.inner.winner # Mark(otherParty(p))

\* A stake once funded stays the stake of the series: a game worth less than
\* the configured stake is only played when that is all a seat ever had.
StakeNeverShrinks ==
    st'.gamesPlayed # st.gamesPlayed => st'.inner.stake >= st.inner.stake

Terminal == isTerminal(st)
=============================================================================

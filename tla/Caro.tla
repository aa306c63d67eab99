-------------------------------- MODULE Caro --------------------------------
(***************************************************************************)
(* Caro, five in a row (games/ticTacToe/packages/shared/src/caro/): the    *)
(* board rules (board.ts), one game and a series of games (protocol.ts)    *)
(* and the one-ply bot (bot.ts).  Cells are <<row, col>>.  The digest of   *)
(* the moves is left out of the state.                                     *)
(***************************************************************************)
EXTENDS GameBase, FiniteSets, FiniteSetsExt

CONSTANTS size, Stakes, DefaultStake, maxGames,
          Used      \* bound: the cells the players use

VARIABLES st,   \* the co-signed state
          own   \* what the tunnel locks

vars == <<st, own>>

Cells == (0..(size - 1)) \X (0..(size - 1))
DIRS == {<<0, 1>>, <<1, 0>>, <<1, 1>>, <<1, -1>>}
Mark(p) == IF p = "A" THEN 1 ELSE 2

Along(c, d, k) == <<c[1] + k * d[1], c[2] + k * d[2]>>

\* The cells next to `c` in direction d that hold `mark`, and what is past them.
Arm(board, c, d, mark) ==
    LET ks == {k \in 0..size : \A j \in 1..k :
                  Along(c, d, j) \in Cells /\ board[Along(c, d, j)] = mark}
    IN  Max(ks)
Past(board, c, d, mark) ==
    LET e == Along(c, d, Arm(board, c, d, mark) + 1) IN IF e \in Cells THEN board[e] ELSE -1

Back(d) == <<-d[1], -d[2]>>

\* The length of the run through c, and how many of its ends are open or
\* held by the opponent; the edge is neither.
lineInfo(board, c, d, mark) ==
    LET ends == <<Past(board, c, d, mark), Past(board, c, Back(d), mark)>>
    IN  [run |-> 1 + Arm(board, c, d, mark) + Arm(board, c, Back(d), mark),
         open |-> Cardinality({i \in {1, 2} : ends[i] = 0}),
         blocked |-> Cardinality({i \in {1, 2} : ends[i] > 0})]

\* Exactly five, and not held by the opponent at both ends.
winnerAround(board, c) ==
    IF \E d \in DIRS : LET i == lineInfo(board, c, d, board[c]) IN i.run = 5 /\ i.blocked < 2
    THEN board[c] ELSE 0

\* The cells the board highlights after the last move.
winningLine(board, c) ==
    LET line(d) == {Along(c, d, k) : k \in 0..Arm(board, c, d, board[c])}
                       \cup {Along(c, Back(d), k) : k \in 0..Arm(board, c, Back(d), board[c])}
        won == {d \in DIRS : Cardinality(line(d)) = 5 /\
                    ~(Past(board, c, d, board[c]) > 0 /\ Past(board, c, Back(d), board[c]) > 0)}
    IN  IF won = {} THEN {} ELSE line(CHOOSE d \in won : TRUE)

-----------------------------------------------------------------------------
\* One game, and a series.

gameState(bal, opener) ==
    [board |-> [c \in Cells |-> 0], turn |-> opener, winner |-> 0, lastMove |-> <<>>, bal |-> bal,
     stake |-> Lesser(DefaultStake, Lesser(bal.A, bal.B))]

\* A placed stone wins, or fills the board, or passes the turn; a win moves
\* the stake, clamped to what the loser holds.
applyInner(s, c, by) ==
    LET board == [s.board EXCEPT ![c] = Mark(by)]
        w == winnerAround(board, c)
        winner == IF w = 0 /\ \A e \in Cells : board[e] # 0 THEN 3 ELSE w
    IN  [s EXCEPT !.board = board, !.turn = otherParty(by), !.winner = winner, !.lastMove = c,
                  !.bal = CASE winner = 1 -> shiftStake(@, "A", s.stake)
                            [] winner = 2 -> shiftStake(@, "B", s.stake)
                            [] OTHER -> @]

seriesOpener(game) == IF game % 2 = 0 THEN "A" ELSE "B"
canFundNextGame(s) == \A p \in Party : s.inner.bal[p] >= s.inner.stake

isTerminal(s) ==
    s.inner.winner # 0 /\ (s.gamesPlayed + 1 >= maxGames \/ ~canFundNextGame(s))

nextGame(s) ==
    [inner |-> gameState(s.inner.bal, seriesOpener(s.gamesPlayed + 1)),
     gamesPlayed |-> s.gamesPlayed + 1]

-----------------------------------------------------------------------------
\* The bot.

patternValue(i) ==
    CASE i.run = 5 -> IF i.blocked < 2 THEN 100000 ELSE 200
      [] i.run > 5 -> 200
      [] i.run = 4 -> IF i.open >= 1 THEN 9000 ELSE 200
      [] i.run = 3 -> IF i.open = 2 THEN 1500 ELSE 150
      [] i.run = 2 -> IF i.open = 2 THEN 200 ELSE 30
      [] OTHER -> IF i.open = 2 THEN 20 ELSE 5

moveScore(board, c, mark) == Max({patternValue(lineInfo(board, c, d, mark)) : d \in DIRS})

candidates(board, radius) ==
    {c \in Cells : board[c] = 0 /\ \E e \in Cells :
        /\ board[e] # 0
        /\ e[1] - c[1] \in -radius..radius /\ e[2] - c[2] \in -radius..radius}

\* The cells pickCaroMove may choose: the score weighs what the cell makes
\* and what it denies, in twentieths, and the jitter of half a point breaks
\* the near ties.
pickCaroMove(s, by, strength) ==
    LET board == s.board
        empty == {c \in Cells : board[c] = 0}
        near == candidates(board, IF strength = "strong" THEN 2 ELSE 1)
        cells == IF near = {} THEN empty ELSE near
        weight == IF strength = "strong" THEN 19 ELSE 17
        score == [c \in cells |-> 20 * moveScore(board, c, Mark(by))
                                   + weight * moveScore(board, c, Mark(otherParty(by)))]
        best == Max({score[c] : c \in cells})
    IN  IF empty = Cells THEN {<<size \div 2, size \div 2>>}
        ELSE {c \in cells : score[c] > best - 10}

-----------------------------------------------------------------------------
Init ==
    /\ \E b \in Stakes :
          st = [inner |-> gameState([A |-> b[1], B |-> b[2]], seriesOpener(0)), gamesPlayed |-> 0]
    /\ own = st.inner.bal.A + st.inner.bal.B

Place(by) ==
    /\ st.inner.winner = 0
    /\ st.inner.turn = by
    /\ \E c \in Used :
          /\ st.inner.board[c] = 0
          /\ st' = [st EXCEPT !.inner = applyInner(st.inner, c, by)]
    /\ UNCHANGED own

Advance ==
    /\ st.inner.winner # 0
    /\ ~isTerminal(st)
    /\ st' = nextGame(st)
    /\ UNCHANGED own

Next == (\E by \in Party : Place(by)) \/ Advance

-----------------------------------------------------------------------------
\* Balances sum to what the tunnel locks, and a game's stake is covered.
Conserved ==
    /\ SumsTo(st.inner.bal, own)
    /\ st.inner.winner = 0 => \A p \in Party : st.inner.bal[p] >= st.inner.stake

\* The rules of caro, read off the whole board: five of a mark in a line with
\* no sixth, and not the opponent at both ends.
Five(board, m) ==
    \E c \in Cells, d \in DIRS :
        /\ \A k \in 0..4 : Along(c, d, k) \in Cells /\ board[Along(c, d, k)] = m
        /\ LET at(k) == IF Along(c, d, k) \in Cells THEN board[Along(c, d, k)] ELSE 0
           IN  /\ at(-1) # m /\ at(5) # m
               /\ at(-1) = 0 \/ at(5) = 0

\* A game is won exactly when the last stone made such a five; a five that
\* was blocked when it was made never turns into a win; and what the board
\* highlights is that five.
WonByFive ==
    LET s == st.inner
    IN  /\ s.winner \in {1, 2} => /\ Five(s.board, s.winner)
                                  /\ Cardinality(winningLine(s.board, s.lastMove)) = 5
        /\ s.winner = 0 => \A m \in {1, 2} : ~Five(s.board, m)

\* "takes the immediate winning move (completes five)": the weak bot does.
WinTaken ==
    LET s == st.inner
        wins == {c \in Used : s.board[c] = 0 /\
                     winnerAround([s.board EXCEPT ![c] = Mark(s.turn)], c) # 0}
    IN  s.winner = 0 /\ wins # {} =>
            \A c \in pickCaroMove(s, s.turn, "weak") :
                winnerAround([s.board EXCEPT ![c] = Mark(s.turn)], c) # 0

Terminal == isTerminal(st)
=============================================================================

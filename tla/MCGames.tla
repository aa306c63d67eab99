------------------------------ MODULE MCGames ------------------------------
(***************************************************************************)
(* Every game over a tunnel, each on a small instance: `game` selects the  *)
(* one a behaviour plays.  What the Protocol contract asks of any game is  *)
(* stated here once, over all of them.                                     *)
(***************************************************************************)
EXTENDS Integers

VARIABLES game, st, own

Square == {<<0, 0>>, <<0, 1>>}

BS == INSTANCE Battleship WITH BOARD_SIZE <- 2, FLEET <- [destroyer |-> 2],
        Stakes <- {<<3, 3>>, <<1, 4>>}, DefaultStake <- 2, HonestA <- {Square}
BD == INSTANCE BattleshipDuel WITH BOARD_SIZE <- 2, FLEET <- [destroyer |-> 2],
        Stakes <- {<<3, 1>>}, DefaultStake <- 2, BoardsA <- {Square},
        BoardsB <- {Square, {}, {<<0, 0>>, <<1, 1>>}}
PB == INSTANCE BattleshipPlayer WITH BOARD_SIZE <- 3, FLEET <- [cruiser |-> 2, submarine |-> 1],
        Difficulties <- {}
BB == INSTANCE BattleshipPlayer WITH BOARD_SIZE <- 3, FLEET <- [destroyer |-> 2],
        Difficulties <- {"easy", "normal", "hard"}

BJ == INSTANCE Blackjack WITH Stakes <- {<<2, 1>>}, Shares <- [A |-> {0, 4}, B |-> {9}],
        ROUND_CAP <- 3, FixedPlayer <- FALSE

Hands == <<[board |-> <<4, 5, 6, 20, 51>>, A |-> <<7, 8>>, B |-> <<46, 47>>],
           [board |-> <<0, 14, 28, 3, 51>>, A |-> <<9, 10>>, B |-> <<3, 3>>],
           [board |-> <<0, 13, 26, 1, 14>>, A |-> <<39, 2>>, B |-> <<27, 40>>],
           [board |-> <<1, 3, 5, 7, 22>>, A |-> <<3, 9>>, B |-> <<1, 9>>],
           [board |-> <<0, 13, 2, 3, 4>>, A |-> <<0, 39>>, B |-> <<12, 40>>]>>
Cards == INSTANCE QuantumPoker WITH Stakes <- {}, ante <- 0, HandCap <- 0, Secrets <- {},
        Deals <- <<>>, Holes <- {}, Streets <- {}, Pots <- {}, Calls <- {}, Stacks <- {}
Deals == [d \in DOMAIN Hands |-> Cards!Judged(Hands[d])]
QP == INSTANCE QuantumPoker WITH Stakes <- {<<4, 5>>, <<3, 1>>}, ante <- 1, HandCap <- 2,
        Secrets <- {1, 2},
        Holes <- {<<12, 11>>, <<8, 22>>, <<2, 15>>, <<0, 18>>},
        Streets <- {<<>>, <<13, 26, 40>>, <<13, 26, 40, 8>>, <<8, 7, 6, 40, 51>>,
                   <<3, 16, 8, 21>>, <<8, 7, 20>>},
        Pots <- {0, 300}, Calls <- {0, 20, 60}, Stacks <- {0, 40, 200}

\* Hazards of a lane as <<start, speed>>, in tenths of a column.
SeedA == [l \in 0..9 |-> <<<<10 * ((l * 7) % 9), IF l % 2 = 0 THEN 5 ELSE -10>>>>]
SeedB == [l \in 0..9 |-> <<<<10 * ((l * 5 + 3) % 9), IF l % 3 = 0 THEN 10 ELSE -5>>,
                           <<10 * ((l * 4 + 1) % 9), 5>>>>]
Seeds == {SeedA, SeedB}
CR == INSTANCE Cross WITH COLUMN_COUNT <- 9, SPAWN_COL <- 4, WIN_LANE <- 4, TICK_CAP <- 10,
        RESPAWN_INVULN <- 3, Seeds <- Seeds, Stakes <- {<<2, 1>>}, stakePerGame <- 1,
        Human <- {"A"}, MaxGames <- 1
BI == INSTANCE BombIt WITH GRID_W <- 5, GRID_H <- 5, FUSE_TICKS <- 8, BLAST_RADIUS <- 2,
        MAX_BOMBS_PER_PLAYER <- 1, TICK_CAP <- 20, Crates <- {{}, {<<1, 3>>}},
        Stakes <- {<<2, 1>>}, stakePerGame <- 1, Idle <- {{}, {"B"}}, MaxGames <- 1

Search == INSTANCE TicTacToe WITH Stakes <- {}, DefaultStake <- 0, maxGames <- 0, scores <- <<>>,
        Levels <- {}
Scores == Search!minimaxScore
TT == INSTANCE TicTacToe WITH Stakes <- {<<3, 2>>}, DefaultStake <- 2, maxGames <- 2,
        scores <- Scores, Levels <- {<<"perfect", "any">>, <<"any", "perfect">>, <<"even", "even">>}
AntiDiagonal == {<<i, 6 - i>> : i \in 0..6}
CA == INSTANCE Caro WITH size <- 7, Stakes <- {<<1, 2>>}, DefaultStake <- 1, maxGames <- 2,
        Used <- AntiDiagonal \cup {<<0, 0>>}

PG == INSTANCE PayGames WITH Stakes <- {<<3, 1>>, <<2, 2>>}, costPerCall <- 2,
        Amounts <- {0, 1, 3}, Texts <- {"", "hi"}, MaxPayments <- 3,
        Answers <- {"", "hi", "yo"}, maxMoves <- 3
WC == INSTANCE WorldCanvas WITH CHUNK_SIZE <- 3, MAX_BATCH_CELLS <- 1, MAX_RENDER_CELLS <- 20,
        BOT_RUN <- 1, WORLD_CANVAS_UPDATE_CAP <- 2, Coords <- {-4}, MaxPaint <- 2,
        Width <- 4, Reloads <- 1

SW == INSTANCE Swarm WITH W <- 1, tunnels <- 2, maxSteps <- 6, batchSize <- 4, initial <- 1,
        Kinds <- <<"pay", "api">>, MaxErrors <- 1
SC == INSTANCE Swarm WITH W <- 2, tunnels <- 3, maxSteps <- 3, batchSize <- 1, initial <- 1,
        Kinds <- <<"pay", "api">>, MaxErrors <- 0
\* Two letters stand for what follows the common prefix of the domains.
Domains == [state_update |-> <<1, 2>>, settlement |-> <<1, 3>>, settlement_v2 |-> <<1, 3, 0>>,
            htlc_lock |-> <<2>>, spend_authorization |-> <<3, 1>>, referee_assignment |-> <<3, 2>>]
WR == INSTANCE Wire WITH Base <- 4, U64Len <- 2, IdLen <- 2, HashLen <- 2, Domain <- Domains,
        Ids <- {<<0, 1>>, <<1, 0>>}, Hashes <- {<<0, 0>>, <<1, 0>>, <<0, 1, 0>>}, Numbers <- {0, 6}

Init ==
    \/ game = "battleship" /\ BS!Init
    \/ game = "duel" /\ BD!Init
    \/ game = "placement" /\ PB!PlacementInit
    \/ game = "bot" /\ BB!HuntInit
    \/ game = "blackjack" /\ BJ!Init
    \/ game = "poker" /\ QP!Init
    \/ game = "cross" /\ CR!Init
    \/ game = "bomb" /\ BI!Init
    \/ game = "ttt" /\ TT!Init
    \/ game = "caro" /\ CA!Init
    \/ game = "pay" /\ PG!Init
    \/ game = "chat" /\ PG!ChatInit
    \/ game = "canvas" /\ WC!Init
    \/ game = "swarm" /\ SW!Init
    \/ game = "cluster" /\ SC!Init
    \/ game = "persona" /\ QP!PersonaInit
    \/ game = "wire" /\ WR!Init

Next ==
    \/ game = "battleship" /\ BS!Next /\ UNCHANGED game
    \/ game = "duel" /\ BD!Next /\ UNCHANGED game
    \/ game = "placement" /\ PB!PlacementNext /\ UNCHANGED game
    \/ game = "bot" /\ BB!HuntNext /\ UNCHANGED game
    \/ game = "blackjack" /\ BJ!Next /\ UNCHANGED game
    \/ game = "poker" /\ QP!Next /\ UNCHANGED game
    \/ game = "cross" /\ CR!Next /\ UNCHANGED game
    \/ game = "bomb" /\ BI!Next /\ UNCHANGED game
    \/ game = "ttt" /\ TT!Next /\ UNCHANGED game
    \/ game = "caro" /\ CA!Next /\ UNCHANGED game
    \/ game = "pay" /\ PG!Next /\ UNCHANGED game
    \/ game = "chat" /\ PG!ChatNext /\ UNCHANGED game
    \/ game = "canvas" /\ WC!Next /\ UNCHANGED game
    \/ game = "swarm" /\ SW!Next /\ UNCHANGED game
    \/ game = "cluster" /\ SC!Next /\ UNCHANGED game
    \/ game = "persona" /\ QP!PersonaNext /\ UNCHANGED game
    \/ game = "wire" /\ WR!Next /\ UNCHANGED game

vars == <<game, st, own>>

\* Whoever is to move moves: the seats are played by bots, or by players who
\* do not walk away; a worker thread runs on.
PlayOn ==
    \/ game = "blackjack" /\ BJ!Next /\ UNCHANGED game
    \/ game = "poker" /\ QP!Next /\ UNCHANGED game
    \/ game = "ttt" /\ TT!Next /\ UNCHANGED game
    \/ game = "swarm" /\ SW!Next /\ UNCHANGED game
    \/ game = "cluster" /\ SC!Next /\ UNCHANGED game

Spec == Init /\ [][Next]_vars /\ WF_vars(PlayOn)

-----------------------------------------------------------------------------
\* Protocol.balances: at every state of every game both seats' balances are
\* amounts and sum to what the tunnel locks, over any number of rounds.
Conserved ==
    CASE game = "battleship" -> BS!Conserved
      [] game = "duel" -> BD!Conserved
      [] game = "blackjack" -> BJ!Conserved
      [] game = "poker" -> QP!Conserved
      [] game = "cross" -> CR!Conserved
      [] game = "bomb" -> BI!Conserved
      [] game = "ttt" -> TT!Conserved
      [] game = "caro" -> CA!Conserved
      [] game = "pay" -> PG!Conserved
      [] game = "swarm" -> SW!Conserved
      [] game = "cluster" -> SC!Conserved
      [] OTHER -> TRUE

\* The stake goes to who earned it: an illegal or falsely answered fleet is
\* never paid, a showdown is won by the better cards, caro by an open five,
\* and a race by one seat or by its progress.
WinnerEarnedIt ==
    CASE game = "battleship" -> BS!IllegalBoardNeverWins
      [] game = "duel" -> BD!LiarNeverPaid /\ BD!HonestCanReveal
      [] game = "poker" -> QP!BetterHandWins
      [] game = "cross" -> CR!NoDeadHeat /\ CR!SplitByProgress
      [] game = "caro" -> CA!WonByFive
      [] OTHER -> TRUE

\* What a decided round moves is the stake that was shown, whole: no clamp of
\* a settlement ever bites, and a bet can always be called.
StakePaidInFull ==
    CASE game = "blackjack" -> BJ!RoundMovesTheBet
      [] game = "poker" -> QP!HandMovesTheBet /\ QP!AlwaysCallable /\ QP!StakesMatched
      [] game = "ttt" -> TT!StakeCovered
      [] OTHER -> TRUE

\* Protocol.randomMove and the screens: while a game is live the seat it
\* waits for has a move, and every move it is offered is legal.
OfferedIsLegal ==
    CASE game = "battleship" -> BS!NeverStuck
      [] game = "duel" -> BD!FiringGoesOn
      [] game = "placement" -> PB!AlwaysStartable /\ PB!ReadyUnlessEndToEnd
      [] game = "bot" -> BB!AlwaysAFreshShot
      [] game = "blackjack" -> BJ!BotNeverStuck
      [] game = "poker" -> QP!OfferedIsLegal /\ QP!ActorCanMove
      [] game = "persona" -> QP!WithinStack
      [] game = "pay" -> PG!OfferedIsLegal
      [] game = "canvas" -> WC!OfferedIsLegal
      [] OTHER -> TRUE

\* The two seats' replicas stay one game: the same bytes to sign, counters
\* that match the moves, one transcript, one bomb and one shot per slot; a
\* transcript's root binds it, a cluster reports the work it did, and what is
\* signed says one thing, in the bytes the contract checks.
ReplicasSound ==
    CASE game = "battleship" -> BS!Consistent
      [] game = "blackjack" -> BJ!ReplicasAgree /\ BJ!DealerPlaysLast
      [] game = "bomb" -> BI!BoardSound
      [] game = "chat" -> PG!TranscriptsAgree /\ PG!OneAsks
      [] game = "swarm" -> SW!TranscriptBinds /\ SW!ReportIsTheWork
      [] game = "cluster" -> SC!ReportIsTheWork
      [] game = "wire" -> WR!BytesAgree /\ WR!Unambiguous
      [] OTHER -> TRUE

\* What a painter draws reaches the shared wall exactly once, where it was
\* drawn, and is counted once, whatever is re-sent, handed over or reloaded.
InkOnce ==
    game = "canvas" => WC!DrawnOnce /\ WC!SeedAboveCursor /\ WC!CountedOnce /\ WC!PaintsDistinct

\* The bots keep what their comments promise: perfect play never loses, an
\* immediate win is taken, a sunk run is a ship, parity misses none, a
\* wounded ship is finished, no bot dies of its own bomb, a poker persona
\* plays as its name says, and the seats of a self-play tunnel take turns.
BotsKeepPromises ==
    CASE game = "bot" -> BB!SunkRunsAreShips /\ BB!ParityFindsEveryShip /\ BB!HardFinishesWounded
      [] game = "bomb" -> BI!BotSurvivesItself
      [] game = "ttt" -> TT!PerfectNeverLoses
      [] game = "caro" -> CA!WinTaken
      [] game = "persona" -> QP!PersonasOrdered /\ QP!KickersCount
      [] game = "swarm" -> SW!Alternates /\ (SW!Fresh => SW!PairedApart)
      [] OTHER -> TRUE

\* No seat loses by its own hop in a race, and no game of a series is played
\* for less than the one before it; a cluster's progress never falls.
NoStepBackwards ==
    [][/\ game = "cross" => CR!OwnHopNeverHurts
       /\ game = "ttt" => TT!StakeNeverShrinks
       /\ game = "cluster" => SC!ProgressOnly]_vars

\* Every game that has an end reaches it: no cycle of raises, races, rounds
\* or redeals keeps the stake locked.
EveryGameEnds ==
    <>(CASE game = "blackjack" -> BJ!Terminal
         [] game = "poker" -> QP!Terminal
         [] game = "ttt" -> TT!Terminal
         [] game = "swarm" -> SW!Terminal
         [] game = "cluster" -> SC!Terminal
         [] OTHER -> TRUE)
============================================================================

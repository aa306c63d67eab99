----------------------------- MODULE SdkWagers -----------------------------
(***************************************************************************)
(* Two staked games of the SDK's examples, each a shared Move object       *)
(* (example_coin_flip, example_rock_paper_scissors) and the TypeScript     *)
(* calls that drive it (examples/coinFlip.ts, examples/rockPaperScissors). *)
(* A player calls the contract through the SDK or by a transaction of      *)
(* their own; the SDK's transaction is refused as a whole when its         *)
(* arguments or the results it moves are not those of the Move function.   *)
(***************************************************************************)
EXTENDS Integers, Sequences

CONSTANTS TIMEOUT_MS, COMMIT_TIMEOUT_MS, REVEAL_TIMEOUT_MS, Horizon

VARIABLE st

P1 == 1
P2 == 2
Players == {P1, P2}
Other(p) == 3 - p
Sides == {0, 1}             \* CHOICE_HEADS, CHOICE_TAILS
Moves == {0, 1, 2}          \* MOVE_ROCK, MOVE_PAPER, MOVE_SCISSORS
None == -1
MaxJoins == 2               \* bound: times the second player may join

Init ==
    \E kind \in {"coin flip", "rock paper scissors"} :
      st = [kind |-> kind, now |-> 0, g |-> <<>>, put |-> <<0, 0>>, paid |-> <<0, 0>>,
            refused |-> "none"]
Tick == st.now < Horizon /\ st' = [st EXCEPT !.now = @ + 1, !.refused = "none"]

\* One committed transaction: the game it leaves, what it takes in and what it pays out.
Commits(g, in, out) ==
    st' = [st EXCEPT !.g = <<g>>, !.refused = "none",
                     !.put = [p \in Players |-> @[p] + in[p]],
                     !.paid = [p \in Players |-> @[p] + out[p]]]
Nothing == <<0, 0>>
Only(p, x) == [q \in Players |-> IF q = p THEN x ELSE 0]
Exists == st.g # <<>>
Game == st.g[1]

\* A programmable transaction: the arguments it passes and the results it hands on.  A
\* result can be handed on only if there is one and it is an object; an object must be.
Fn(takes, returns) == [takes |-> takes, returns |-> returns]
Fits(fn, passes, moves) ==
    /\ passes = fn.takes
    /\ moves = {i \in DOMAIN fn.returns : fn.returns[i] = "object"}
Refused(call) == st' = [st EXCEPT !.refused = call]

-----------------------------------------------------------------------------
\* example_coin_flip.  A commitment binds, so it is the value it hides; the flip is the hash
\* of both reveals, which neither player can foresee.
CoinFlip == st.kind = "coin flip"
create_game(choice, value) ==
    /\ CoinFlip /\ ~Exists
    /\ Commits([status |-> "awaiting commits", choice |-> choice, stake |-> <<1, 0>>,
                commit |-> <<value, None>>, reveal |-> <<None, None>>, at |-> st.now,
                winner |-> 0], Only(P1, 1), Nothing)
join_game(value) ==
    /\ CoinFlip /\ Exists /\ Game.status = "awaiting commits" /\ Game.stake[P2] = 0
    /\ Commits([Game EXCEPT !.commit[P2] = value, !.stake[P2] = 1,
                            !.status = "awaiting reveals"], Only(P2, 1), Nothing)
determine_winner(g, result) ==
    [g EXCEPT !.winner = IF result = g.choice THEN P1 ELSE P2, !.status = "completed"]
reveal_player(p, value) ==
    /\ CoinFlip /\ Exists /\ Game.status = "awaiting reveals"
    /\ Game.reveal[p] = None /\ Game.commit[p] = value
    /\ LET g == [Game EXCEPT !.reveal[p] = value]
       IN  IF g.reveal[Other(p)] = None THEN Commits(g, Nothing, Nothing)
           ELSE \E result \in Sides : Commits(determine_winner(g, result), Nothing, Nothing)
Emptied(g) == [g EXCEPT !.stake = Nothing]
Stakes(g) == g.stake[P1] + g.stake[P2]
claim_winnings(p) ==
    /\ CoinFlip /\ Exists /\ Game.status = "completed" /\ p = Game.winner
    /\ Commits(Emptied(Game), Nothing, Only(p, Stakes(Game)))
FlipTimedOut == st.now > Game.at + TIMEOUT_MS
cancel_timeout ==
    /\ CoinFlip /\ Exists /\ Game.status = "awaiting commits" /\ FlipTimedOut
    /\ Commits([Game EXCEPT !.status = "cancelled", !.stake[P1] = 0], Nothing,
               Only(P1, Game.stake[P1]))
claim_no_reveal(p) ==
    /\ CoinFlip /\ Exists /\ Game.status = "awaiting reveals" /\ FlipTimedOut
    /\ Game.reveal[p] # None /\ Game.reveal[Other(p)] = None
    /\ Commits([Emptied(Game) EXCEPT !.status = "completed", !.winner = p], Nothing,
               Only(p, Stakes(Game)))
cancel_no_reveal ==
    /\ CoinFlip /\ Exists /\ Game.status = "awaiting reveals" /\ FlipTimedOut
    /\ Game.reveal = <<None, None>>
    /\ Commits([Emptied(Game) EXCEPT !.status = "cancelled"], Nothing, Game.stake)

\* examples/coinFlip.ts.  A player stakes on a side and commits to the same side.
createCoinFlipGame(choice) ==
    IF Fits(Fn(<<"address", "u8", "bytes", "coin", "clock">>, <<>>),
            <<"address", "u8", "bytes", "coin", "clock">>, {})
    THEN create_game(choice, choice) ELSE Refused("createCoinFlipGame")
joinCoinFlipGame(choice) ==
    IF Fits(Fn(<<"game", "bytes", "coin">>, <<>>), <<"game", "bytes", "coin">>, {})
    THEN join_game(choice) ELSE Refused("joinCoinFlipGame")
revealChoice(p, choice) ==
    IF Fits(Fn(<<"game", "bytes", "bytes">>, <<>>), <<"game", "bytes", "bytes">>, {})
    THEN reveal_player(p, choice) ELSE Refused("revealChoice")
claimWinnings(p) ==
    IF Fits(Fn(<<"game">>, <<>>), <<"game">>, {1})
    THEN claim_winnings(p) ELSE Exists /\ Refused("claimWinnings")
cancelTimeout ==
    IF Fits(Fn(<<"game", "clock">>, <<>>), <<"game", "clock">>, {1})
    THEN cancel_timeout ELSE Exists /\ Refused("cancelTimeout")
claimNoReveal(p) ==
    IF Fits(Fn(<<"game", "clock">>, <<>>), <<"game", "clock">>, {1})
    THEN claim_no_reveal(p) ELSE Exists /\ Refused("claimNoReveal")

-----------------------------------------------------------------------------
\* example_rock_paper_scissors.
Rps == st.kind = "rock paper scissors"
RpsIs(status) == Rps /\ Exists /\ Game.status = status
create_rps ==
    /\ Rps /\ ~Exists
    /\ Commits([status |-> "waiting commits", pot |-> 1, joined |-> FALSE,
                commit |-> <<None, None>>, move |-> <<None, None>>, at |-> st.now,
                commitsAt |-> 0], Only(P1, 1), Nothing)
\* Nothing stops the second player from joining twice: the second stake joins the pot too.
join_rps ==
    /\ RpsIs("waiting commits") /\ st.put[P2] < MaxJoins
    /\ Commits([Game EXCEPT !.pot = @ + 1, !.joined = TRUE], Only(P2, 1), Nothing)
commit_move(p, value) ==
    /\ RpsIs("waiting commits")
    /\ p = P2 => Game.joined
    /\ Game.commit[p] = None
    /\ LET g == [Game EXCEPT !.commit[p] = value]
       IN  Commits(IF None \in {g.commit[q] : q \in Players} THEN g
                   ELSE [g EXCEPT !.status = "waiting reveals", !.commitsAt = st.now],
                   Nothing, Nothing)
reveal_move(p, value) ==
    /\ RpsIs("waiting reveals") /\ Game.move[p] = None /\ Game.commit[p] = value
    /\ Commits([Game EXCEPT !.move[p] = value], Nothing, Nothing)
beats(m1, m2) == <<m1, m2>> \in {<<0, 2>>, <<1, 0>>, <<2, 1>>}
rps_winners(m1, m2) ==      \* a tie is broken by a byte of the hash of both reveals
    IF m1 = m2 THEN Players ELSE IF beats(m1, m2) THEN {P1} ELSE {P2}
Revealed(g) == {p \in Players : g.move[p] # None}
settle_game ==
    /\ RpsIs("waiting reveals") /\ Revealed(Game) = Players /\ Game.pot = 2
    /\ \E w \in rps_winners(Game.move[P1], Game.move[P2]) :
         Commits([Game EXCEPT !.status = "complete", !.pot = 0], Nothing, Only(w, Game.pot))
cancel_commit_timeout ==
    /\ RpsIs("waiting commits") /\ st.now > Game.at + COMMIT_TIMEOUT_MS
    /\ Commits([Game EXCEPT !.status = "cancelled", !.pot = 0], Nothing, <<1, Game.pot - 1>>)
claim_reveal_timeout(p) ==
    /\ RpsIs("waiting reveals") /\ st.now > Game.commitsAt + REVEAL_TIMEOUT_MS
    /\ Revealed(Game) = {p}
    /\ Commits([Game EXCEPT !.status = "complete", !.pot = 0], Nothing, Only(p, Game.pot))

\* examples/rockPaperScissors.ts.
createRPSGame ==
    IF Fits(Fn(<<"address", "coin", "clock">>, <<>>), <<"address", "coin", "clock">>, {})
    THEN create_rps ELSE Refused("createRPSGame")
joinGame ==
    IF Fits(Fn(<<"game", "coin">>, <<>>), <<"game", "coin">>, {})
    THEN join_rps ELSE Refused("joinGame")
commitMove(p, move) ==
    IF Fits(Fn(<<"game", "bytes", "clock">>, <<>>), <<"game", "bytes", "clock">>, {})
    THEN commit_move(p, move) ELSE Refused("commitMove")
revealMove(p, move) ==
    IF Fits(Fn(<<"game", "u8", "bytes">>, <<>>), <<"game", "u8", "bytes">>, {})
    THEN reveal_move(p, move) ELSE Refused("revealMove")
settleGame ==
    IF Fits(Fn(<<"game">>, <<"result">>), <<"game">>, {1})
    THEN settle_game ELSE Exists /\ Refused("settleGame")
cancelCommitTimeout ==
    IF Fits(Fn(<<"game", "clock">>, <<>>), <<"game", "clock">>, {1})
    THEN cancel_commit_timeout ELSE Exists /\ Refused("cancelCommitTimeout")
claimRevealTimeout(p) ==
    IF Fits(Fn(<<"game", "clock">>, <<>>), <<"game", "clock">>, {1})
    THEN claim_reveal_timeout(p) ELSE Exists /\ Refused("claimRevealTimeout")
\* The client's own forecast of a round: 1 or 2 for the winner, 0 for a tie.
determineWinner(m1, m2) ==
    LET loses == <<2, 0, 1>>        \* what each move beats
    IN  IF m1 = m2 THEN 0 ELSE IF loses[m1 + 1] = m2 THEN 1 ELSE 2

Sdk ==
    \/ \E side \in Sides :
         \/ createCoinFlipGame(side)
         \/ joinCoinFlipGame(side)
         \/ \E p \in Players : revealChoice(p, side)
    \/ CoinFlip /\ (cancelTimeout \/ \E p \in Players : claimWinnings(p) \/ claimNoReveal(p))
    \/ createRPSGame
    \/ joinGame
    \/ \E p \in Players, m \in Moves : commitMove(p, m) \/ revealMove(p, m)
    \/ Rps /\ (settleGame \/ cancelCommitTimeout \/ \E p \in Players : claimRevealTimeout(p))
Direct ==
    \/ cancel_timeout
    \/ cancel_no_reveal
    \/ settle_game
    \/ cancel_commit_timeout
    \/ \E p \in Players : claim_winnings(p) \/ claim_no_reveal(p) \/ claim_reveal_timeout(p)
Next == Tick \/ Sdk \/ Direct

-----------------------------------------------------------------------------
Held(s) == CASE s.g = <<>> -> 0
             [] s.g # <<>> /\ s.kind = "coin flip" -> Stakes(s.g[1])
             [] OTHER -> s.g[1].pot
\* Both stakes are in the contract or paid out, never lost or made.
Conserved(s) == Held(s) + s.paid[P1] + s.paid[P2] = s.put[P1] + s.put[P2]

Opened(s, p) == IF s.kind = "coin flip" THEN s.g[1].reveal[p] # None ELSE s.g[1].move[p] # None
\* Once the contract is empty everybody has what the rules give them: a player who did not
\* open their commitment wins nothing against one who did, a player who did loses to nobody's
\* silence, and where neither opened each has their own stake back.
Deserved(s) ==
    (s.g # <<>> /\ Held(s) = 0) =>
      LET opened == {p \in Players : Opened(s, p)}
          all == s.put[P1] + s.put[P2]
      IN  CASE opened = {} -> s.paid = s.put
            [] opened = Players ->
                 IF s.kind = "coin flip" THEN s.paid = Only(s.g[1].winner, all)
                 ELSE LET w == determineWinner(s.g[1].move[P1], s.g[1].move[P2])
                      IN  \E p \in Players : s.paid = Only(p, all) /\ w \in {0, p}
            [] OTHER -> \E p \in opened : s.paid = Only(p, all)
=============================================================================

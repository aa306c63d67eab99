--------------------------- MODULE BattleshipDuel ---------------------------
(***************************************************************************)
(* Battleship v2 (sui-tunnel-ts/src/protocol/battleship.ts with the driver *)
(* battleshipSelfPlay.ts): one hash commits the whole board, shots are     *)
(* answered by a bare hit or miss, a hit keeps the turn, a miss passes it  *)
(* and may carry the return shot, and both boards are revealed and checked *)
(* against every answer before the stake moves.                            *)
(*                                                                         *)
(* A commitment is the board it commits to (hashing external).  Seat A     *)
(* follows nextMove; seat B may answer what it likes and hold any board of *)
(* BoardsB, and either may resign at any time.                             *)
(***************************************************************************)
EXTENDS BattleshipFleet, GameBase

CONSTANTS Stakes, DefaultStake, BoardsA, BoardsB

VARIABLES st, own

vars == <<st, own>>

None == "none"      \* no winner yet, nobody
Unset == <<>>       \* a field that holds nothing yet; otherwise <<value>>

initialState(a, b) ==
    [phase |-> "awaitingCommits", turn |-> "A", pendingShot |-> Unset,
     commit |-> [p \in Party |-> Unset],
     shotsAt |-> [p \in Party |-> {}],
     hitsOn |-> [p \in Party |-> 0],
     revealed |-> [p \in Party |-> FALSE],
     winner |-> None,
     bal |-> [A |-> a, B |-> b], total |-> a + b,
     stake |-> Lesser(DefaultStake, Lesser(a, b))]

Init ==
    /\ \E s \in Stakes : st = initialState(s[1], s[2])
    /\ own \in [A : BoardsA, B : BoardsB]

Live == st.phase # "over" /\ st.winner = None

applyCommit(by) ==
    /\ Live
    /\ st.phase = "awaitingCommits"
    /\ IF st.commit.A = Unset THEN by = "A" ELSE st.commit.B = Unset /\ by = "B"
    /\ st' = [st EXCEPT !.commit[by] = <<own[by]>>,
                        !.phase = IF by = "B" THEN "playing" ELSE @,
                        !.turn = "A"]
    /\ UNCHANGED own

\* openCells, and assertShootable: the cells a seat has not fired at yet.
OpenCells(s, shooter) == Cells \ {x.cell : x \in s.shotsAt[otherParty(shooter)]}

applyShoot(by, cell) ==
    /\ Live
    /\ st.phase = "playing"
    /\ st.pendingShot = Unset
    /\ by = st.turn
    /\ cell \in OpenCells(st, by)
    /\ st' = [st EXCEPT !.pendingShot = <<by, cell>>]
    /\ UNCHANGED own

\* The answer is recorded on the defender's board.
Recorded(by, isHit) ==
    [st EXCEPT !.shotsAt[by] = @ \cup {[cell |-> st.pendingShot[2], isHit |-> isHit]},
               !.hitsOn[by] = @ + (IF isHit THEN 1 ELSE 0),
               !.pendingShot = Unset]

\* A sunk fleet, or a seat to move with nothing left to fire at, ends the
\* firing; a hit keeps the turn; a miss passes it with the return shot.
AfterAnswer(s, by, isHit, next) ==
    LET shooter == otherParty(by)
        mover == IF isHit THEN shooter ELSE by
    IN  IF s.hitsOn[by] >= FLEET_CELLS THEN [s EXCEPT !.phase = "revealBoards"]
        ELSE IF next # Unset
        THEN [s EXCEPT !.turn = by, !.pendingShot = <<by, next>>]
        ELSE [s EXCEPT !.turn = mover,
                       !.phase = IF OpenCells(s, mover) = {} THEN "revealBoards" ELSE @]

applyAnswer(by, isHit, next) ==
    /\ Live
    /\ st.phase = "playing"
    /\ st.pendingShot # Unset
    /\ by = otherParty(st.pendingShot[1])
    /\ isHit => next = Unset
    /\ LET s == Recorded(by, isHit)
       IN  /\ next # Unset => next \in OpenCells(s, by)
           /\ st' = AfterAnswer(s, by, isHit, next)
    /\ UNCHANGED own

\* Variant: only the shape of the fleet is checked.
VerifiesShape(by, board) == isLegalBoard(board)

\* The two checks a reveal must pass besides matching the commitment.
Verifies(by, board) ==
    /\ isLegalBoard(board)
    /\ \A x \in st.shotsAt[by] : x.isHit = (x.cell \in board)

\* finalize: sunk beats afloat, then more hits, then a push.
Decision(s) ==
    LET sunk(p) == s.hitsOn[p] >= FLEET_CELLS
    IN  IF sunk("B") /\ ~sunk("A") THEN "A"
        ELSE IF sunk("A") /\ ~sunk("B") THEN "B"
        ELSE IF s.hitsOn.B > s.hitsOn.A THEN "A"
        ELSE IF s.hitsOn.A > s.hitsOn.B THEN "B" ELSE None

settle(s, w) ==
    [s EXCEPT !.winner = w, !.phase = "over",
              !.bal = IF w = None THEN @ ELSE shiftStake(@, w, s.stake)]

applyRevealBoard(by, board) ==
    /\ Live
    /\ st.phase = "revealBoards"
    /\ ~st.revealed[by]
    /\ st.commit[by] = <<board>>
    /\ Verifies(by, board)
    /\ LET s == [st EXCEPT !.revealed[by] = TRUE]
       IN  st' = IF s.revealed.A /\ s.revealed.B THEN settle(s, Decision(s)) ELSE s
    /\ UNCHANGED own

resign(by) ==
    /\ Live
    /\ st' = settle(st, otherParty(by))
    /\ UNCHANGED own

\* nextMove of the self-play driver answers truthfully and pipelines a shot
\* whenever it has a cell to fire at.
Driven(by, isHit, next) ==
    /\ isHit = (st.pendingShot[2] \in own[by])
    /\ next = Unset <=> (isHit \/ OpenCells(Recorded(by, isHit), by) = {})

Answer(by) ==
    /\ st.pendingShot # Unset
    /\ \E isHit \in BOOLEAN, next \in Cells \cup {Unset} :
          /\ by = "A" => Driven(by, isHit, next)
          /\ applyAnswer(by, isHit, next)

Next ==
    \E by \in Party :
        \/ applyCommit(by)
        \/ \E cell \in Cells : applyShoot(by, cell)
        \/ Answer(by)
        \/ applyRevealBoard(by, own[by])
        \/ resign(by)

isTerminal == st.phase = "over"

-----------------------------------------------------------------------------
\* Balances are conserved and change only with the phase that ends the game.
Conserved == SumsTo(st.bal, st.total)

\* The honest seat can always finish: while the game is live, A has a move
\* due, or the game waits for B, and in the reveal phase A's own board passes.
HonestCanReveal ==
    st.phase = "revealBoards" =>
        /\ Verifies("A", own.A)
        /\ st.pendingShot = Unset

\* The firing phase always has a shooter with a cell left or an answer due.
FiringGoesOn ==
    st.phase = "playing" /\ st.pendingShot = Unset => OpenCells(st, st.turn) # {}

\* A seat that answered a shot falsely, or whose board is no legal fleet, is
\* never paid after the reveals: it can only win because the other resigned.
LiarNeverPaid ==
    st.winner # None /\ st.revealed.A /\ st.revealed.B =>
        /\ isLegalBoard(own[st.winner])
        /\ \A x \in st.shotsAt[st.winner] : x.isHit = (x.cell \in own[st.winner])
=============================================================================

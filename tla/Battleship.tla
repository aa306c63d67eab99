----------------------------- MODULE Battleship -----------------------------
(***************************************************************************)
(* Battleship v1, the browser game (games/battleship/protocol/battleship.ts*)
(* driven by engine/pvpDriver.ts, engine/selfPlay.ts and the agent kit):   *)
(* each seat commits a Merkle root of its board, shots alternate, each is  *)
(* answered by a reveal proved against the root, and the seat that has sunk*)
(* the other fleet must still reveal a legal board of its own to win.      *)
(*                                                                         *)
(* A root is the board it commits to; a Merkle proof is valid exactly when *)
(* the revealed cell is as committed (verifyCell, external hashing).  The  *)
(* seats keep their boards in `own`; a seat need not play a legal board.   *)
(***************************************************************************)
EXTENDS BattleshipFleet, GameBase

CONSTANTS Stakes,        \* initial balances <<a, b>> the tunnel may lock
          DefaultStake,  \* constructor argument
          HonestA        \* the boards seat A may have placed

VARIABLES st,            \* the co-signed state
          own            \* each seat's secret board

vars == <<st, own>>

None == "none"      \* no winner yet, nobody
Unset == <<>>       \* a field that holds nothing yet; otherwise <<value>>

\* Init: initialState, with the stake clamped to the smaller balance.
initialState(a, b) ==
    [phase |-> "awaitingCommits", turn |-> "A", pendingShot |-> Unset,
     commit |-> [p \in Party |-> Unset],
     shotsAt |-> [p \in Party |-> {}],
     hitsOn |-> [p \in Party |-> 0],
     winner |-> None,
     bal |-> [A |-> a, B |-> b], total |-> a + b,
     stake |-> Lesser(DefaultStake, Lesser(a, b))]

Init ==
    /\ \E s \in Stakes : st = initialState(s[1], s[2])
    /\ own \in [Party -> SUBSET Cells]
    /\ own.A \in HonestA

Live == st.phase # "over" /\ st.winner = None

\* proposeDue and nextMove: the ordered opening commit, A then B.
applyCommit(by) ==
    /\ Live
    /\ st.phase = "awaitingCommits"
    /\ IF st.commit.A = Unset THEN by = "A" ELSE st.commit.B = Unset /\ by = "B"
    /\ st' = [st EXCEPT !.commit[by] = <<own[by]>>,
                        !.phase = IF by = "B" THEN "playing" ELSE @,
                        !.turn = "A"]
    /\ UNCHANGED own

Fired(shooter) == {s.cell : s \in st.shotsAt[otherParty(shooter)]}

\* canFireShot: the gate the session puts on a click, on the confirmed state.
canFireShot(by, cell) ==
    /\ st.phase = "playing"
    /\ st.pendingShot = Unset
    /\ st.turn = by
    /\ st.winner = None
    /\ cell \notin Fired(by)

applyShoot(by, cell) ==
    /\ Live
    /\ canFireShot(by, cell)
    /\ st' = [st EXCEPT !.pendingShot = <<by, cell>>]
    /\ UNCHANGED own

\* verifyCell: the proof checks out exactly for the committed value.
verifyCell(root, cell, isShip) == isShip = (cell \in root)

\* The defender answers the pending shot; the turn passes to the defender,
\* or stays with the shooter that has just sunk the last ship.
applyReveal(by, isShip) ==
    /\ Live
    /\ st.phase = "playing"
    /\ st.pendingShot # Unset
    /\ by = otherParty(st.pendingShot[1])
    /\ verifyCell(st.commit[by][1], st.pendingShot[2], isShip)
    /\ LET hits == [st.hitsOn EXCEPT ![by] = @ + (IF isShip THEN 1 ELSE 0)]
           fleetDestroyed == \E p \in Party : hits[p] = FLEET_CELLS
       IN  st' = [st EXCEPT
                    !.shotsAt[by] = @ \cup {[cell |-> st.pendingShot[2], isHit |-> isShip]},
                    !.hitsOn = hits,
                    !.phase = IF fleetDestroyed THEN "awaitingBoardReveal" ELSE "playing",
                    !.pendingShot = Unset,
                    !.turn = IF fleetDestroyed THEN otherParty(by) ELSE by]
    /\ UNCHANGED own

\* The seat that owes its board before a win is booked.
pendingBoardReveal ==
    IF st.phase # "awaitingBoardReveal" THEN None
    ELSE IF st.hitsOn.B = FLEET_CELLS THEN "A"
    ELSE IF st.hitsOn.A = FLEET_CELLS THEN "B" ELSE None

\* A legal board wins the stake, an illegal one forfeits it.
BoardVerdict(seat, cells) == IF isLegalBoard(cells) THEN seat ELSE otherParty(seat)

applyRevealBoard(by, cells) ==
    /\ Live
    /\ pendingBoardReveal = by
    /\ <<cells>> = st.commit[by]
    /\ LET w == BoardVerdict(by, cells)
       IN  st' = [st EXCEPT !.winner = w, !.phase = "over",
                            !.bal = shiftStake(@, w, st.stake)]
    /\ UNCHANGED own

Next ==
    \E by \in Party :
        \/ applyCommit(by)
        \/ \E cell \in Cells : applyShoot(by, cell)
        \/ \E isShip \in BOOLEAN : applyReveal(by, isShip)
        \/ applyRevealBoard(by, own[by])

isTerminal == st.winner # None

-----------------------------------------------------------------------------
\* The committed boards, the answers given and the counters agree.
Consistent ==
    \A p \in Party :
        /\ st.commit[p] # Unset => \A s \in st.shotsAt[p] : s.isHit = (s.cell \in st.commit[p][1])
        /\ st.hitsOn[p] = Cardinality({s \in st.shotsAt[p] : s.isHit})

\* Balances are conserved, and the stake moves only when a winner is named.
Conserved ==
    /\ SumsTo(st.bal, st.total)
    /\ st.winner = None => st.bal.A - st.bal.B \in {s[1] - s[2] : s \in Stakes}

\* A seat whose own board is legal never loses the stake to a seat whose
\* board is not: the illegal board is found out when it claims the win.
IllegalBoardNeverWins ==
    st.winner # None =>
        (isLegalBoard(own[otherParty(st.winner)]) => isLegalBoard(own[st.winner]))

\* Two legal boards always play to a decision: the game cannot run out of
\* cells, nor wait for a move nobody owes.
NeverStuck ==
    (\A p \in Party : isLegalBoard(own[p])) /\ ~isTerminal =>
        \E by \in Party :
            \/ st.phase = "awaitingCommits" /\ st.commit[by] = Unset
            \/ pendingBoardReveal = by
            \/ st.pendingShot # Unset /\ st.pendingShot[1] = by
            \/ \E cell \in Cells : canFireShot(by, cell)
=============================================================================

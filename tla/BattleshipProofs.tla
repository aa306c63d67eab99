-------------------------- MODULE BattleshipProofs --------------------------
(***************************************************************************)
(* Proofs about both versions of Battleship, for every size of the board,  *)
(* fleet, stake and choice of boards.  Version 1 proves every answer       *)
(* against the committed board; version 2 trusts the answers and checks    *)
(* them when the boards are revealed.                                      *)
(***************************************************************************)
EXTENDS Battleship, FiniteSetTheorems, TLAPS

CONSTANTS BoardsA, BoardsB

BD == INSTANCE BattleshipDuel

Purse == [Party -> Nat]

\* What a decided round moves stays in the tunnel, and no balance goes below zero: the
\* clamp of Protocol.ts.
LEMMA Shifted ==
  ASSUME NEW bal \in Purse, NEW winner \in Party, NEW amount \in Nat
  PROVE  /\ shiftStake(bal, winner, amount) \in Purse
         /\ shiftStake(bal, winner, amount).A + shiftStake(bal, winner, amount).B = bal.A + bal.B
  BY DEF Purse, Party, shiftStake, Lesser, otherParty

-----------------------------------------------------------------------------
(* Battleship v2: answers on trust, boards revealed at the end. *)

DuelSpec == BD!Init /\ [][BD!Next]_vars

Shot == [cell : BD!Cells, isHit : BOOLEAN]

DuelState ==
  [phase : {"awaitingCommits", "playing", "revealBoards", "over"}, turn : Party,
   pendingShot : {<<>>} \cup (Party \X BD!Cells),
   commit : [Party -> {<<>>} \cup {<<b>> : b \in BoardsA \cup BoardsB}],
   shotsAt : [Party -> SUBSET Shot], hitsOn : [Party -> Nat], revealed : [Party -> BOOLEAN],
   winner : {"none"} \cup Party, bal : Purse, total : Nat, stake : Nat]

\* Every answer given for p's board is true of it.
Truthful(p) == \A x \in st.shotsAt[p] : x.isHit = (x.cell \in own[p])

DuelInv ==
  /\ st \in DuelState
  /\ own \in [A : BoardsA, B : BoardsB]
  /\ st.total = st.bal.A + st.bal.B
  /\ st.phase = "awaitingCommits" => \A p \in Party : st.shotsAt[p] = {}
  /\ st.phase # "playing" => st.pendingShot = <<>> \/ st.phase = "over"
  /\ st.phase = "playing" /\ st.pendingShot = <<>> => BD!OpenCells(st, st.turn) # {}
  /\ Truthful("A")
  /\ \A p \in Party : st.commit[p] \in {<<>>, <<own[p]>>}
  /\ st.phase \in {"playing", "revealBoards"} => \A p \in Party : st.commit[p] = <<own[p]>>
  /\ \A p \in Party : st.revealed[p] =>
        /\ st.phase \in {"revealBoards", "over"}
        /\ BD!isLegalBoard(own[p]) /\ Truthful(p)

\* Both seats commit before the first shot; nothing is fired or answered yet.
LEMMA InitDuel ==
  ASSUME Stakes \subseteq Nat \X Nat, DefaultStake \in Nat, BD!Init
  PROVE  DuelInv
<1>1. PICK s \in Stakes : st = BD!initialState(s[1], s[2])
  BY DEF BD!Init
<1>2. s[1] \in Nat /\ s[2] \in Nat
  BY <1>1
<1>3. [A |-> s[1], B |-> s[2]] \in Purse
  BY <1>2 DEF Purse, Party
<1>4. BD!Lesser(DefaultStake, BD!Lesser(s[1], s[2])) \in Nat
  BY <1>2 DEF BD!Lesser
<1>5. st \in DuelState
  BY <1>1, <1>2, <1>3, <1>4 DEF BD!initialState, DuelState, BD!Party, Party, BD!Unset, BD!None
<1>6. /\ st.phase = "awaitingCommits" /\ st.pendingShot = <<>> /\ st.total = st.bal.A + st.bal.B
      /\ \A p \in Party : st.shotsAt[p] = {} /\ st.commit[p] = <<>> /\ st.revealed[p] = FALSE
  BY <1>1 DEF BD!initialState, BD!Party, Party, BD!Unset
<1> QED BY <1>5, <1>6 DEF DuelInv, Truthful, BD!Init, Party

\* A board has a cell.
LEMMA SomeCell ==
  ASSUME BOARD_SIZE \in Nat \ {0}
  PROVE  BD!Cells # {}
<1>1. <<0, 0>> \in BD!Cells
  BY DEF BD!Cells
<1> QED BY <1>1

\* A commitment is the board it binds; the second one opens the firing: applyCommit.
LEMMA CommitDuel ==
  ASSUME BOARD_SIZE \in Nat \ {0}, DuelInv, NEW by \in Party, BD!applyCommit(by)
  PROVE  DuelInv'
<1>1. /\ st.phase = "awaitingCommits" /\ own' = own
      /\ IF st.commit.A = <<>> THEN by = "A" ELSE st.commit.B = <<>> /\ by = "B"
      /\ st' = [st EXCEPT !.commit[by] = <<own[by]>>,
                          !.phase = IF by = "B" THEN "playing" ELSE @, !.turn = "A"]
  BY DEF BD!applyCommit, BD!Unset
<1>2. own[by] \in BoardsA \cup BoardsB /\ own'[by] = own[by]
  BY <1>1 DEF DuelInv, Party
<1>3. PICK cs \in [Party -> {<<>>} \cup {<<b>> : b \in BoardsA \cup BoardsB}],
           ph \in {"awaitingCommits", "playing"} :
        /\ cs = [st.commit EXCEPT ![by] = <<own[by]>>] /\ ph = IF by = "B" THEN "playing" ELSE st.phase
        /\ st' = [st EXCEPT !.commit = cs, !.phase = ph, !.turn = "A"]
  BY <1>1, <1>2, Zenon DEF DuelInv, DuelState
<1>4. /\ st' \in DuelState /\ st'.commit = cs /\ st'.phase = ph /\ st'.turn = "A"
      /\ st'.shotsAt = st.shotsAt /\ st'.pendingShot = st.pendingShot /\ st'.revealed = st.revealed
      /\ st'.bal = st.bal /\ st'.total = st.total
  BY <1>3, Zenon DEF DuelInv, DuelState, Party
<1>5. \A p \in Party : st.shotsAt[p] = {} /\ st.revealed[p] # TRUE
  BY <1>1, Zenon DEF DuelInv, DuelState
<1>6. \A p \in Party : cs[p] \in {<<>>, <<own[p]>>}
  BY <1>3 DEF DuelInv, DuelState
<1>7. ph = "playing" => \A p \in Party : cs[p] = <<own[p]>>
  BY <1>1, <1>3 DEF DuelInv, DuelState, Party
<1>8. BD!OpenCells(st', "A") # {}
  BY <1>4, <1>5, SomeCell DEF BD!OpenCells, BD!otherParty, Party
<1>9. \A p \in Party : Truthful(p)'
  BY <1>4, <1>5, Zenon DEF Truthful
<1> QED BY <1>1, <1>3, <1>4, <1>5, <1>6, <1>7, <1>8, <1>9 DEF DuelInv, Party

\* A shot waits for its answer: applyShoot.
LEMMA ShootDuel ==
  ASSUME DuelInv, NEW by \in Party, NEW cell \in BD!Cells, BD!applyShoot(by, cell)
  PROVE  DuelInv'
<1>1. st.phase = "playing" /\ own' = own /\ st' = [st EXCEPT !.pendingShot = <<by, cell>>]
  BY DEF BD!applyShoot
<1>2. /\ st' \in DuelState /\ st'.pendingShot = <<by, cell>> /\ st'.phase = st.phase
      /\ st'.shotsAt = st.shotsAt /\ st'.revealed = st.revealed /\ st'.commit = st.commit
      /\ st'.bal = st.bal /\ st'.total = st.total
  BY <1>1, Zenon DEF DuelInv, DuelState
<1>3. <<by, cell>> # <<>>
  OBVIOUS
<1> QED BY <1>1, <1>2, <1>3 DEF DuelInv, Truthful

\* An answer is recorded, and the firing goes on or the boards are due: Answer.
LEMMA AnswerDuel ==
  ASSUME DuelInv, NEW by \in Party, BD!Answer(by)
  PROVE  DuelInv'
<1>1. PICK isHit \in BOOLEAN, next \in BD!Cells \cup {<<>>} :
        /\ by = "A" => BD!Driven(by, isHit, next)
        /\ BD!applyAnswer(by, isHit, next)
  BY DEF BD!Answer, BD!Unset
<1> DEFINE s == BD!Recorded(by, isHit)
<1>2. /\ st.phase = "playing" /\ st.pendingShot # <<>> /\ own' = own
      /\ next # <<>> => next \in BD!OpenCells(s, by)
      /\ st' = BD!AfterAnswer(s, by, isHit, next)
  BY <1>1 DEF BD!applyAnswer, BD!Unset
<1>3. PICK cell \in BD!Cells : st.pendingShot[2] = cell
  BY <1>2 DEF DuelInv, DuelState
<1>4. PICK x \in Shot : x = [cell |-> cell, isHit |-> isHit]
  BY Zenon DEF Shot
<1>5. x.cell = cell /\ x.isHit = isHit
  BY <1>4, Zenon
<1>6. by = "A" => x.isHit = (x.cell \in own["A"])
  BY <1>1, <1>3, <1>5, Zenon DEF BD!Driven
<1>7. PICK shots \in [Party -> SUBSET Shot], hits \in [Party -> Nat] :
        /\ shots = [st.shotsAt EXCEPT ![by] = @ \cup {x}]
        /\ s = [st EXCEPT !.shotsAt = shots, !.hitsOn = hits, !.pendingShot = <<>>]
  <2>1. PICK shots \in [Party -> SUBSET Shot] : shots = [st.shotsAt EXCEPT ![by] = st.shotsAt[by] \cup {x}]
    BY Zenon DEF DuelInv, DuelState
  <2>2. PICK hits \in [Party -> Nat] :
           hits = [st.hitsOn EXCEPT ![by] = st.hitsOn[by] + (IF isHit THEN 1 ELSE 0)]
    <3>1. st.hitsOn \in [Party -> Nat]
      BY DEF DuelInv, DuelState
    <3>2. st.hitsOn[by] + (IF isHit THEN 1 ELSE 0) \in Nat
      BY <3>1
    <3> QED BY <3>1, <3>2, Zenon
  <2>3. s = [st EXCEPT !.shotsAt[by] = @ \cup {x}, !.hitsOn[by] = @ + (IF isHit THEN 1 ELSE 0), !.pendingShot = <<>>]
    BY <1>3, <1>4, Zenon DEF BD!Recorded, BD!Unset
  <2>4. s = [st EXCEPT !.shotsAt = shots, !.hitsOn = hits, !.pendingShot = <<>>]
    BY <2>1, <2>2, <2>3 DEF DuelInv, DuelState
  <2> QED BY <2>1, <2>2, <2>4, Zenon
<1> HIDE DEF s
<1>8. /\ s \in DuelState /\ s.shotsAt = shots /\ s.phase = "playing" /\ s.pendingShot = <<>>
      /\ s.revealed = st.revealed /\ s.commit = st.commit /\ s.bal = st.bal /\ s.total = st.total
  BY <1>2, <1>7 DEF DuelInv, DuelState
<1>9. PICK turn \in Party, shot \in {<<>>} \cup (Party \X BD!Cells), phase \in {"playing", "revealBoards"} :
        /\ st' = [s EXCEPT !.turn = turn, !.pendingShot = shot, !.phase = phase]
        /\ phase = "revealBoards" => shot = <<>>
        /\ phase = "playing" /\ shot = <<>> => BD!OpenCells(s, turn) # {}
  <2>1. CASE s.hitsOn[by] >= BD!FLEET_CELLS
    <3>1. st' = [s EXCEPT !.turn = s.turn, !.pendingShot = <<>>, !.phase = "revealBoards"]
      BY <2>1, <1>2, <1>8, Zenon DEF BD!AfterAnswer, DuelState
    <3> QED BY <3>1, <1>8, Zenon DEF DuelState
  <2>2. CASE ~(s.hitsOn[by] >= BD!FLEET_CELLS) /\ next # <<>>
    <3>1. st' = [s EXCEPT !.turn = by, !.pendingShot = <<by, next>>, !.phase = "playing"]
      BY <2>2, <1>2, <1>8, Zenon DEF BD!AfterAnswer, DuelState, BD!Unset
    <3>2. <<by, next>> \in Party \X BD!Cells /\ <<by, next>> # <<>>
      BY <2>2
    <3> QED BY <3>1, <3>2, Zenon
  <2>3. CASE ~(s.hitsOn[by] >= BD!FLEET_CELLS) /\ next = <<>>
    <3>1. PICK mover \in Party : mover = IF isHit THEN BD!otherParty(by) ELSE by
      BY DEF BD!otherParty, Party
    <3>2. PICK ph \in {"playing", "revealBoards"} :
             ph = IF BD!OpenCells(s, mover) = {} THEN "revealBoards" ELSE "playing"
      OBVIOUS
    <3>3. st' = [s EXCEPT !.turn = mover, !.pendingShot = <<>>, !.phase = ph]
      BY <2>3, <3>1, <3>2, <1>2, <1>8, Zenon DEF BD!AfterAnswer, DuelState, BD!Unset
    <3> QED BY <3>2, <3>3, Zenon
  <2> QED BY <2>1, <2>2, <2>3, Zenon
<1>10. /\ st' \in DuelState /\ st'.shotsAt = shots /\ st'.phase = phase /\ st'.pendingShot = shot /\ st'.turn = turn
       /\ st'.revealed = st.revealed /\ st'.commit = st.commit /\ st'.bal = st.bal /\ st'.total = st.total
  BY <1>8, <1>9, Zenon DEF DuelState
<1>11. \A p \in Party : st.revealed[p] # TRUE
  BY <1>2, Zenon DEF DuelInv, DuelState
<1>12. BD!OpenCells(st', turn) = BD!OpenCells(s, turn)
  BY <1>8, <1>10 DEF BD!OpenCells
<1>13. Truthful("A")'
  <2>1. \A y \in shots["A"] : y \in st.shotsAt["A"] \/ (y = x /\ by = "A")
    BY <1>7 DEF DuelInv, DuelState, Party
  <2>2. Truthful("A") /\ own' = own
    BY <1>2 DEF DuelInv
  <2> QED BY <2>1, <2>2, <1>6, <1>10, Zenon DEF Truthful
<1> QED BY <1>2, <1>9, <1>10, <1>11, <1>12, <1>13 DEF DuelInv

\* What ends the game: the stake moves inside the tunnel and no board is touched: settle.
LEMMA SettledDuel ==
  ASSUME NEW s \in DuelState, NEW w \in {"none"} \cup Party, s.total = s.bal.A + s.bal.B
  PROVE  LET e == BD!settle(s, w)
         IN  /\ e \in DuelState /\ e.total = e.bal.A + e.bal.B /\ e.phase = "over"
             /\ e.shotsAt = s.shotsAt /\ e.commit = s.commit /\ e.revealed = s.revealed
<1>1. PICK b \in Purse : /\ b = IF w = "none" THEN s.bal ELSE shiftStake(s.bal, w, s.stake)
                         /\ b.A + b.B = s.bal.A + s.bal.B
  <2>1. CASE w = "none"
    BY <2>1 DEF DuelState
  <2>2. CASE w # "none"
    <3>1. w \in Party /\ s.bal \in Purse /\ s.stake \in Nat
      BY <2>2 DEF DuelState
    <3>2. PICK b \in Purse : b = shiftStake(s.bal, w, s.stake) /\ b.A + b.B = s.bal.A + s.bal.B
      BY <3>1, Shifted, Zenon
    <3> QED BY <2>2, <3>2
  <2> QED BY <2>1, <2>2
<1>2. BD!settle(s, w) = [s EXCEPT !.winner = w, !.phase = "over", !.bal = b]
  BY <1>1 DEF BD!settle, BD!None, DuelState, BD!shiftStake, shiftStake, BD!otherParty, otherParty,
              BD!Lesser, Lesser
<1>3. PICK e : e = BD!settle(s, w)
  OBVIOUS
<1>4. /\ e \in DuelState /\ e.total = s.total /\ e.bal = b /\ e.phase = "over"
      /\ e.shotsAt = s.shotsAt /\ e.commit = s.commit /\ e.revealed = s.revealed
  BY <1>2, <1>3, Zenon DEF DuelState
<1> QED BY <1>1, <1>3, <1>4

\* Only a legal board that bears out every answer is taken, and the second
\* one settles the game: applyRevealBoard.
LEMMA RevealDuel ==
  ASSUME DuelInv, NEW by \in Party, BD!applyRevealBoard(by, own[by])
  PROVE  DuelInv'
<1> DEFINE s == [st EXCEPT !.revealed[by] = TRUE]
<1>1. /\ st.phase = "revealBoards" /\ own' = own /\ BD!Verifies(by, own[by])
      /\ st' = IF s.revealed.A /\ s.revealed.B THEN BD!settle(s, BD!Decision(s)) ELSE s
  BY DEF BD!applyRevealBoard
<1>2. PICK rs \in [Party -> BOOLEAN] : rs = [st.revealed EXCEPT ![by] = TRUE]
  BY Zenon DEF DuelInv, DuelState
<1>3. s = [st EXCEPT !.revealed = rs]
  BY <1>2 DEF DuelInv, DuelState
<1> HIDE DEF s
<1>4. /\ s \in DuelState /\ s.revealed = rs /\ s.phase = "revealBoards" /\ s.pendingShot = st.pendingShot
      /\ s.shotsAt = st.shotsAt /\ s.commit = st.commit /\ s.bal = st.bal /\ s.total = st.total
  BY <1>1, <1>3, Zenon DEF DuelInv, DuelState
<1>5. BD!Decision(s) \in {"none"} \cup Party
  BY DEF BD!Decision, BD!None, Party
<1>6. /\ st' \in DuelState /\ st'.revealed = rs /\ st'.phase \in {"revealBoards", "over"}
      /\ st'.phase = "revealBoards" => st'.pendingShot = st.pendingShot
      /\ st'.shotsAt = st.shotsAt /\ st'.commit = st.commit /\ st'.total = st'.bal.A + st'.bal.B
  <2>1. CASE s.revealed.A /\ s.revealed.B
    <3>1. st' = BD!settle(s, BD!Decision(s))
      BY <2>1, <1>1
    <3> QED BY <3>1, <1>4, <1>5, SettledDuel, Zenon DEF DuelInv
  <2>2. CASE ~(s.revealed.A /\ s.revealed.B)
    BY <2>2, <1>1, <1>4 DEF DuelInv
  <2> QED BY <2>1, <2>2
<1>7. \A p \in Party : st'.revealed[p] => BD!isLegalBoard(own[p]) /\ Truthful(p)
  <2>1. BD!isLegalBoard(own[by]) /\ Truthful(by)
    BY <1>1 DEF BD!Verifies, Truthful
  <2>2. \A p \in Party : rs[p] => p = by \/ st.revealed[p]
    BY <1>2 DEF DuelInv, DuelState
  <2> QED BY <2>1, <2>2, <1>6, Zenon DEF DuelInv
<1>8. \A p \in Party : Truthful(p)' <=> Truthful(p)
  BY <1>1, <1>6 DEF Truthful
<1> QED BY <1>1, <1>6, <1>7, <1>8 DEF DuelInv, Party

\* A seat may give up at any time: resign.
LEMMA ResignDuel ==
  ASSUME DuelInv, NEW by \in Party, BD!resign(by)
  PROVE  DuelInv'
<1>1. own' = own /\ st' = BD!settle(st, BD!otherParty(by)) /\ BD!otherParty(by) \in Party
  BY DEF BD!resign, BD!otherParty, Party
<1>2. /\ st' \in DuelState /\ st'.total = st'.bal.A + st'.bal.B /\ st'.phase = "over"
      /\ st'.shotsAt = st.shotsAt /\ st'.commit = st.commit /\ st'.revealed = st.revealed
  BY <1>1, SettledDuel, Zenon DEF DuelInv
<1>3. \A p \in Party : Truthful(p)' <=> Truthful(p)
  BY <1>1, <1>2 DEF Truthful
<1> QED BY <1>1, <1>2, <1>3 DEF DuelInv, Party

\* Every move keeps the duel in order.
LEMMA NextDuel ==
  ASSUME BOARD_SIZE \in Nat \ {0}, DuelInv, [BD!Next]_vars
  PROVE  DuelInv'
<1>1. CASE BD!Next
  <2>1. PICK by \in Party :
          \/ BD!applyCommit(by)
          \/ \E cell \in BD!Cells : BD!applyShoot(by, cell)
          \/ BD!Answer(by)
          \/ BD!applyRevealBoard(by, own[by])
          \/ BD!resign(by)
    BY <1>1 DEF BD!Next, BD!Party, Party
  <2> QED BY <2>1, CommitDuel, ShootDuel, AnswerDuel, RevealDuel, ResignDuel
<1>2. CASE UNCHANGED vars
  <2>1. st' = st /\ own' = own
    BY <1>2 DEF vars
  <2> QED BY <2>1 DEF DuelInv, Truthful
<1> QED BY <1>1, <1>2

\* In a duel the balances always sum to what the tunnel locks, and the firing
\* phase always has a shooter with a cell left or an answer due.
THEOREM DuelGoesOn ==
  ASSUME Stakes \subseteq Nat \X Nat, DefaultStake \in Nat, BOARD_SIZE \in Nat \ {0}
  PROVE  DuelSpec => [](BD!Conserved /\ BD!FiringGoesOn)
<1>1. DuelSpec => []DuelInv
  BY InitDuel, NextDuel, PTL DEF DuelSpec
<1>2. DuelInv => BD!Conserved /\ BD!FiringGoesOn
  BY DEF DuelInv, DuelState, BD!Conserved, BD!SumsTo, BD!FiringGoesOn, BD!Unset, Purse, Party
<1> QED BY <1>1, <1>2, PTL

\* A seat that answered a shot falsely, or whose board is no legal fleet, is
\* never paid after the reveals (finalize and the checks of applyRevealBoard).
THEOREM LiarsAreNeverPaid ==
  ASSUME Stakes \subseteq Nat \X Nat, DefaultStake \in Nat, BOARD_SIZE \in Nat \ {0}
  PROVE  DuelSpec => []BD!LiarNeverPaid
<1>1. DuelSpec => []DuelInv
  BY InitDuel, NextDuel, PTL DEF DuelSpec
<1>2. DuelInv => BD!LiarNeverPaid
  <2> SUFFICES ASSUME DuelInv, st.winner # "none", st.revealed["A"], st.revealed["B"]
               PROVE  /\ BD!isLegalBoard(own[st.winner])
                      /\ \A x \in st.shotsAt[st.winner] : x.isHit = (x.cell \in own[st.winner])
    BY DEF BD!LiarNeverPaid, BD!None
  <2>1. st.winner \in Party
    BY DEF DuelInv, DuelState
  <2>2. \A p \in Party : BD!isLegalBoard(own[p]) /\ Truthful(p)
    BY Zenon DEF DuelInv, Party
  <2> QED BY <2>1, <2>2, Zenon DEF Truthful
<1> QED BY <1>1, <1>2, PTL

\* A seat that plays by the driver, with a legal board, can always reveal it:
\* when the boards are due its own passes both checks and matches what it
\* committed, whatever the other seat fired at and answered.
THEOREM HonestSeatCanReveal ==
  ASSUME Stakes \subseteq Nat \X Nat, DefaultStake \in Nat, BOARD_SIZE \in Nat \ {0},
         \A b \in BoardsA : BD!isLegalBoard(b)
  PROVE  DuelSpec => [](BD!HonestCanReveal /\ (st.phase = "revealBoards" => st.commit["A"] = <<own["A"]>>))
<1>1. DuelSpec => []DuelInv
  BY InitDuel, NextDuel, PTL DEF DuelSpec
<1>2. DuelInv => BD!HonestCanReveal /\ (st.phase = "revealBoards" => st.commit["A"] = <<own["A"]>>)
  <2> SUFFICES ASSUME DuelInv, st.phase = "revealBoards"
               PROVE  BD!Verifies("A", own["A"]) /\ st.pendingShot = <<>> /\ st.commit["A"] = <<own["A"]>>
    BY DEF BD!HonestCanReveal, BD!Unset
  <2>1. own["A"] \in BoardsA
    BY DEF DuelInv
  <2>2. BD!Verifies("A", own["A"])
    BY <2>1, Zenon DEF DuelInv, Truthful, BD!Verifies
  <2> QED BY <2>2 DEF DuelInv, Party
<1> QED BY <1>1, <1>2, PTL

-----------------------------------------------------------------------------
(* Battleship v1: every answer proved against the committed board. *)

SeaSpec == Init /\ [][Next]_vars

SeaShot == [cell : Cells, isHit : BOOLEAN]

SeaState ==
  [phase : {"awaitingCommits", "playing", "awaitingBoardReveal", "over"}, turn : Party,
   pendingShot : {<<>>} \cup (Party \X Cells),
   commit : [Party -> {<<>>} \cup {<<b>> : b \in SUBSET Cells}],
   shotsAt : [Party -> SUBSET SeaShot], hitsOn : [Party -> Nat],
   winner : {"none"} \cup Party, bal : Purse, total : Nat, stake : Nat]

HitsAt(p) == {x \in st.shotsAt[p] : x.isHit}

\* A shot that waits for its answer was not fired before.
FreshShot ==
  st.pendingShot # <<>> =>
    /\ st.phase = "playing"
    /\ \A x \in st.shotsAt[otherParty(st.pendingShot[1])] : x.cell # st.pendingShot[2]

SeaInv ==
  /\ st \in SeaState
  /\ own \in [Party -> SUBSET Cells]
  /\ st.total = st.bal.A + st.bal.B
  /\ st.winner = "none" => st.bal.A - st.bal.B \in {s[1] - s[2] : s \in Stakes}
  /\ st.winner = "none" => st.phase # "over"
  /\ st.winner # "none" => (isLegalBoard(own[otherParty(st.winner)]) => isLegalBoard(own[st.winner]))
  /\ \A p \in Party : st.commit[p] \in {<<>>, <<own[p]>>}
  /\ st.phase = "awaitingCommits" => st.commit["B"] = <<>> /\ \A p \in Party : st.hitsOn[p] = 0
  /\ st.phase \in {"playing", "awaitingBoardReveal"} => \A p \in Party : st.commit[p] = <<own[p]>>
  /\ st.phase = "playing" => \A p \in Party : st.hitsOn[p] # FLEET_CELLS
  /\ st.phase = "awaitingBoardReveal" => \E p \in Party : st.hitsOn[p] = FLEET_CELLS
  /\ FreshShot
  /\ \A p \in Party : /\ Truthful(p) /\ IsFiniteSet(st.shotsAt[p])
                      /\ st.hitsOn[p] = Cardinality(HitsAt(p))

\* Battleship counts cells the way finite sets are counted.
LEMMA SameCount ==
  ASSUME NEW S
  PROVE  Cardinality(S) = Cardinality(S)
BY Zenon DEF Cardinality

\* A game opens with nothing fired, nothing committed and the stakes as dealt.
LEMMA InitSea ==
  ASSUME Stakes \subseteq Nat \X Nat, DefaultStake \in Nat, Init
  PROVE  SeaInv
<1>1. PICK s \in Stakes : st = initialState(s[1], s[2])
  BY DEF Init
<1>2. s[1] \in Nat /\ s[2] \in Nat
  BY <1>1
<1>3. [A |-> s[1], B |-> s[2]] \in Purse
  BY <1>2 DEF Purse, Party
<1>4. Lesser(DefaultStake, Lesser(s[1], s[2])) \in Nat
  BY <1>2 DEF Lesser
<1>5. st \in SeaState
  BY <1>1, <1>2, <1>3, <1>4 DEF initialState, SeaState, Party, Unset, None
<1>6. /\ st.phase = "awaitingCommits" /\ st.pendingShot = <<>> /\ st.total = st.bal.A + st.bal.B
      /\ st.bal.A - st.bal.B = s[1] - s[2] /\ st.winner = "none"
      /\ \A p \in Party : st.shotsAt[p] = {} /\ st.commit[p] = <<>> /\ st.hitsOn[p] = 0
  BY <1>1 DEF initialState, Party, Unset, None
<1>7. \A p \in Party : Truthful(p) /\ IsFiniteSet(st.shotsAt[p]) /\ st.hitsOn[p] = Cardinality(HitsAt(p))
  <2>1. \A p \in Party : HitsAt(p) = {}
    BY <1>6 DEF HitsAt
  <2> QED BY <1>6, <2>1, FS_EmptySet, Zenon DEF Truthful
<1>8. own \in [Party -> SUBSET Cells]
  BY DEF Init, Party
<1> QED BY <1>5, <1>6, <1>7, <1>8 DEF SeaInv, FreshShot, Party

\* A commitment is the board it binds; the second one opens the firing: applyCommit.
LEMMA CommitSea ==
  ASSUME FLEET_CELLS \in Nat \ {0}, SeaInv, NEW by \in Party, applyCommit(by)
  PROVE  SeaInv'
<1>1. /\ st.phase = "awaitingCommits" /\ st.winner = "none" /\ own' = own
      /\ IF st.commit.A = <<>> THEN by = "A" ELSE st.commit.B = <<>> /\ by = "B"
      /\ st' = [st EXCEPT !.commit[by] = <<own[by]>>,
                          !.phase = IF by = "B" THEN "playing" ELSE @, !.turn = "A"]
  BY DEF applyCommit, Unset, Live, None
<1>2. own[by] \in SUBSET Cells
  BY DEF SeaInv
<1>3. PICK cs \in [Party -> {<<>>} \cup {<<b>> : b \in SUBSET Cells}], ph \in {"awaitingCommits", "playing"} :
        /\ cs = [st.commit EXCEPT ![by] = <<own[by]>>] /\ ph = IF by = "B" THEN "playing" ELSE st.phase
        /\ st' = [st EXCEPT !.commit = cs, !.phase = ph, !.turn = "A"]
  BY <1>1, <1>2, Zenon DEF SeaInv, SeaState
<1>4. /\ st' \in SeaState /\ st'.commit = cs /\ st'.phase = ph /\ st'.winner = st.winner
      /\ st'.shotsAt = st.shotsAt /\ st'.pendingShot = st.pendingShot /\ st'.hitsOn = st.hitsOn
      /\ st'.bal = st.bal /\ st'.total = st.total
  BY <1>3, Zenon DEF SeaInv, SeaState, Party
<1>5. \A p \in Party : cs[p] \in {<<>>, <<own[p]>>}
  BY <1>3 DEF SeaInv, SeaState
<1>6. /\ ph = "playing" => \A p \in Party : cs[p] = <<own[p]>>
      /\ ph = "awaitingCommits" => cs["B"] = <<>>
  BY <1>1, <1>3 DEF SeaInv, SeaState, Party
<1>7. st.pendingShot = <<>> /\ \A p \in Party : st.hitsOn[p] = 0
  BY <1>1 DEF SeaInv, FreshShot
<1>8. \A p \in Party : Truthful(p)' /\ IsFiniteSet(st'.shotsAt[p]) /\ st'.hitsOn[p] = Cardinality(HitsAt(p)')
  BY <1>1, <1>4, Zenon DEF SeaInv, Truthful, HitsAt
<1> QED BY <1>1, <1>3, <1>4, <1>5, <1>6, <1>7, <1>8 DEF SeaInv, FreshShot, Party

\* A shot goes at a cell not fired at, and waits for its answer: applyShoot.
LEMMA ShootSea ==
  ASSUME SeaInv, NEW by \in Party, NEW cell \in Cells, applyShoot(by, cell)
  PROVE  SeaInv'
<1>1. /\ st.phase = "playing" /\ st.winner = "none" /\ own' = own /\ st' = [st EXCEPT !.pendingShot = <<by, cell>>]
      /\ \A x \in st.shotsAt[otherParty(by)] : x.cell # cell
  BY DEF applyShoot, canFireShot, Fired, otherParty, None
<1>2. /\ st' \in SeaState /\ st'.pendingShot = <<by, cell>> /\ st'.phase = st.phase /\ st'.winner = st.winner
      /\ st'.shotsAt = st.shotsAt /\ st'.commit = st.commit /\ st'.hitsOn = st.hitsOn
      /\ st'.bal = st.bal /\ st'.total = st.total
  BY <1>1, Zenon DEF SeaInv, SeaState
<1>3. FreshShot'
  BY <1>1, <1>2 DEF FreshShot
<1>4. \A p \in Party : Truthful(p)' /\ IsFiniteSet(st'.shotsAt[p]) /\ st'.hitsOn[p] = Cardinality(HitsAt(p)')
  BY <1>1, <1>2, Zenon DEF SeaInv, Truthful, HitsAt
<1> QED BY <1>1, <1>2, <1>3, <1>4 DEF SeaInv

\* An answer is the truth about a cell not answered before, so the hits counted are the
\* ship cells hit, and the last of them ends the firing: applyReveal.
LEMMA RevealSea ==
  ASSUME FLEET_CELLS \in Nat \ {0}, SeaInv, NEW by \in Party, NEW isShip \in BOOLEAN, applyReveal(by, isShip)
  PROVE  SeaInv'
<1>1. PICK shooter \in Party, cell \in Cells : st.pendingShot = <<shooter, cell>>
  BY DEF applyReveal, Unset, SeaInv, SeaState
<1>2. /\ st.phase = "playing" /\ st.winner = "none" /\ own' = own
      /\ by = otherParty(shooter) /\ isShip = (cell \in st.commit[by][1])
  BY <1>1 DEF applyReveal, verifyCell, Live, None, otherParty
<1>3. /\ isShip = (cell \in own[by])
      /\ \A x \in st.shotsAt[by] : x.cell # cell
  <2>1. st.commit[by] = <<own[by]>>
    BY <1>2 DEF SeaInv
  <2>2. st.pendingShot # <<>> /\ st.pendingShot[1] = shooter /\ st.pendingShot[2] = cell
    BY <1>1
  <2>3. FreshShot
    BY DEF SeaInv
  <2> QED BY <1>2, <2>1, <2>2, <2>3 DEF FreshShot
<1>4. PICK x \in SeaShot : x = [cell |-> cell, isHit |-> isShip]
  BY Zenon DEF SeaShot
<1>5. x.cell = cell /\ x.isHit = isShip /\ x \notin st.shotsAt[by]
  BY <1>3, <1>4, Zenon
<1>6. PICK shots \in [Party -> SUBSET SeaShot] : shots = [st.shotsAt EXCEPT ![by] = st.shotsAt[by] \cup {x}]
  BY Zenon DEF SeaInv, SeaState
<1>7. st.hitsOn \in [Party -> Nat] /\ st.shotsAt \in [Party -> SUBSET SeaShot]
  BY DEF SeaInv, SeaState
<1>8. PICK hits \in [Party -> Nat] : hits = [st.hitsOn EXCEPT ![by] = st.hitsOn[by] + (IF isShip THEN 1 ELSE 0)]
  <2>1. st.hitsOn[by] + (IF isShip THEN 1 ELSE 0) \in Nat
    BY <1>7
  <2> QED BY <1>7, <2>1, Zenon
<1>9. PICK done \in BOOLEAN : done = \E p \in Party : hits[p] = FLEET_CELLS
  BY Zenon
<1>10. PICK turn \in Party, phase \in {"playing", "awaitingBoardReveal"} :
         /\ turn = IF done THEN otherParty(by) ELSE by
         /\ phase = IF done THEN "awaitingBoardReveal" ELSE "playing"
  BY DEF otherParty, Party
<1>11. st' = [st EXCEPT !.shotsAt = shots, !.hitsOn = hits, !.phase = phase, !.pendingShot = <<>>, !.turn = turn]
  <2>1. st' = [st EXCEPT !.shotsAt[by] = @ \cup {x}, !.hitsOn = hits,
                         !.phase = phase, !.pendingShot = <<>>, !.turn = turn]
    <3>1. st.pendingShot[2] = cell
      BY <1>1
    <3> QED BY <3>1, <1>4, <1>8, <1>9, <1>10, Zenon
        DEF applyReveal, Unset, Party, otherParty
  <2> QED BY <2>1, <1>6 DEF SeaInv, SeaState
<1>12. /\ st' \in SeaState /\ st'.shotsAt = shots /\ st'.hitsOn = hits /\ st'.phase = phase /\ st'.pendingShot = <<>>
       /\ st'.commit = st.commit /\ st'.winner = "none" /\ st'.bal = st.bal /\ st'.total = st.total
  BY <1>2, <1>11, Zenon DEF SeaInv, SeaState
<1>13. /\ phase = "playing" => \A p \in Party : hits[p] # FLEET_CELLS
       /\ phase = "awaitingBoardReveal" => \E p \in Party : hits[p] = FLEET_CELLS
  BY <1>9, <1>10
<1>14. ASSUME NEW p \in Party
       PROVE  Truthful(p)' /\ IsFiniteSet(shots[p]) /\ hits[p] = Cardinality(HitsAt(p)')
  <2>1. Truthful(p) /\ IsFiniteSet(st.shotsAt[p]) /\ st.hitsOn[p] = Cardinality(HitsAt(p))
    BY DEF SeaInv
  <2>2. CASE p # by
    <3>1. shots[p] = st.shotsAt[p] /\ hits[p] = st.hitsOn[p]
      BY <2>2, <1>6, <1>7, <1>8
    <3> QED BY <3>1, <2>1, <1>2, <1>12, Zenon DEF Truthful, HitsAt
  <2>3. CASE p = by
    <3>1. shots[p] = st.shotsAt[p] \cup {x} /\ hits[p] = st.hitsOn[p] + (IF isShip THEN 1 ELSE 0)
      BY <2>3, <1>6, <1>7, <1>8
    <3>2. Truthful(p)'
      BY <2>1, <2>3, <3>1, <1>2, <1>3, <1>5, <1>12, Zenon DEF Truthful
    <3>3. IsFiniteSet(shots[p])
      <4>1. IsFiniteSet(st.shotsAt[p] \cup {x})
        BY <2>1, FS_AddElement
      <4> QED BY <4>1, <3>1, Zenon
    <3>4. HitsAt(p) \in SUBSET st.shotsAt[p] /\ IsFiniteSet(HitsAt(p))
      BY <2>1, FS_Subset, Zenon DEF HitsAt
    <3>5. CASE isShip
      <4>1. HitsAt(p)' = HitsAt(p) \cup {x}
        BY <3>1, <3>5, <1>5, <1>12, Zenon DEF HitsAt
      <4>2. Cardinality(HitsAt(p) \cup {x}) = Cardinality(HitsAt(p)) + 1
        <5>1. x \notin HitsAt(p)
          BY <1>5, <2>3, <3>4
        <5> QED BY <5>1, <3>4, FS_AddElement, Zenon
      <4> QED BY <2>1, <3>1, <3>2, <3>3, <3>5, <4>1, <4>2
    <3>6. CASE ~isShip
      <4>1. HitsAt(p)' = HitsAt(p)
        BY <3>1, <3>6, <1>5, <1>12, Zenon DEF HitsAt
      <4> QED BY <2>1, <3>1, <3>2, <3>3, <3>6, <4>1, <1>7
    <3> QED BY <3>5, <3>6
  <2> QED BY <2>2, <2>3
<1> QED BY <1>2, <1>10, <1>12, <1>13, <1>14 DEF SeaInv, FreshShot

\* Who claims the win shows its board: a legal one is paid, any other pays: applyRevealBoard.
LEMMA RevealBoardSea ==
  ASSUME SeaInv, NEW by \in Party, applyRevealBoard(by, own[by])
  PROVE  SeaInv'
<1>1. PICK w \in Party : w = BoardVerdict(by, own[by])
  BY DEF BoardVerdict, otherParty, Party
<1>2. /\ own' = own /\ st.winner = "none" /\ st.phase = "awaitingBoardReveal"
      /\ st' = [st EXCEPT !.winner = w, !.phase = "over", !.bal = shiftStake(@, w, st.stake)]
  BY <1>1 DEF applyRevealBoard, Live, None, pendingBoardReveal, Party
<1>3. PICK b \in Purse : b = shiftStake(st.bal, w, st.stake) /\ b.A + b.B = st.bal.A + st.bal.B
  <2>1. st.bal \in Purse /\ st.stake \in Nat
    BY DEF SeaInv, SeaState
  <2>2. shiftStake(st.bal, w, st.stake) = shiftStake(st.bal, w, st.stake)
    BY DEF shiftStake, otherParty, Lesser
  <2> QED BY <2>1, <2>2, Shifted, Zenon
<1>4. st' = [st EXCEPT !.winner = w, !.phase = "over", !.bal = b]
  BY <1>2, <1>3 DEF SeaInv, SeaState
<1>5. /\ st' \in SeaState /\ st'.winner = w /\ st'.phase = "over" /\ st'.bal = b /\ st'.total = st.total
      /\ st'.shotsAt = st.shotsAt /\ st'.hitsOn = st.hitsOn /\ st'.commit = st.commit
      /\ st'.pendingShot = st.pendingShot
  BY <1>4, Zenon DEF SeaInv, SeaState
<1>6. isLegalBoard(own[otherParty(w)]) => isLegalBoard(own[w])
  BY <1>1 DEF BoardVerdict, otherParty, Party
<1>7. w # "none" /\ st.pendingShot = <<>>
  BY <1>2 DEF Party, SeaInv, FreshShot
<1>8. \A p \in Party : Truthful(p)' /\ IsFiniteSet(st'.shotsAt[p]) /\ st'.hitsOn[p] = Cardinality(HitsAt(p)')
  BY <1>2, <1>5, Zenon DEF SeaInv, Truthful, HitsAt
<1> QED BY <1>2, <1>3, <1>5, <1>6, <1>7, <1>8 DEF SeaInv, FreshShot

\* Every move keeps the game in order.
LEMMA NextSea ==
  ASSUME FLEET_CELLS \in Nat \ {0}, SeaInv, [Next]_vars
  PROVE  SeaInv'
<1>1. CASE Next
  <2>1. PICK by \in Party :
          \/ applyCommit(by)
          \/ \E cell \in Cells : applyShoot(by, cell)
          \/ \E isShip \in BOOLEAN : applyReveal(by, isShip)
          \/ applyRevealBoard(by, own[by])
    BY <1>1 DEF Next, Party
  <2> QED BY <2>1, CommitSea, ShootSea, RevealSea, RevealBoardSea
<1>2. CASE UNCHANGED vars
  <2>1. st' = st /\ own' = own
    BY <1>2 DEF vars
  <2> QED BY <2>1, Zenon DEF SeaInv, FreshShot, Truthful, HitsAt
<1> QED BY <1>1, <1>2

\* In Battleship v1 the balances always sum to what the tunnel locks and move only when a
\* winner is named, the counters count the committed cells hit, and a seat with a legal
\* board never loses its stake to one whose board is not.
THEOREM SeaIsSettledByTheBoards ==
  ASSUME Stakes \subseteq Nat \X Nat, DefaultStake \in Nat, FLEET_CELLS \in Nat \ {0}
  PROVE  SeaSpec => [](Conserved /\ Consistent /\ IllegalBoardNeverWins)
<1>1. SeaSpec => []SeaInv
  BY InitSea, NextSea, PTL DEF SeaSpec
<1>2. SeaInv => Conserved
  BY DEF SeaInv, SeaState, Conserved, SumsTo, None, Purse, Party
<1>3. SeaInv => Consistent
  <2> SUFFICES ASSUME SeaInv, NEW p \in Party
               PROVE  /\ st.commit[p] # <<>> => \A x \in st.shotsAt[p] : x.isHit = (x.cell \in st.commit[p][1])
                      /\ st.hitsOn[p] = Cardinality({x \in st.shotsAt[p] : x.isHit})
    BY SameCount, Zenon DEF Consistent, Unset, Party
  <2>1. st.commit[p] # <<>> => st.commit[p][1] = own[p]
    BY DEF SeaInv
  <2>2. Truthful(p) /\ st.hitsOn[p] = Cardinality(HitsAt(p))
    BY DEF SeaInv
  <2> QED BY <2>1, <2>2, Zenon DEF Truthful, HitsAt
<1>4. SeaInv => IllegalBoardNeverWins
  BY DEF SeaInv, IllegalBoardNeverWins, None, otherParty
<1> QED BY <1>1, <1>2, <1>3, <1>4, PTL

\* When every cell of a board was answered, the hits are its ship cells.
LEMMA AllAnswered ==
  ASSUME NEW p \in Party, SeaInv, \A c \in Cells : \E x \in st.shotsAt[p] : x.cell = c
  PROVE  Cardinality(own[p]) = st.hitsOn[p]
<1>1. /\ own[p] \in SUBSET Cells /\ Truthful(p) /\ IsFiniteSet(st.shotsAt[p]) /\ st.shotsAt[p] \in SUBSET SeaShot
      /\ st.hitsOn[p] = Cardinality(HitsAt(p))
  BY DEF SeaInv, SeaState
<1>2. HitsAt(p) \in SUBSET st.shotsAt[p] /\ IsFiniteSet(HitsAt(p))
  BY <1>1, FS_Subset, Zenon DEF HitsAt
<1> DEFINE f == [x \in HitsAt(p) |-> x.cell]
<1>3. f \in [HitsAt(p) -> own[p]]
  <2>1. \A x \in HitsAt(p) : x.cell \in own[p]
    BY <1>1, Zenon DEF HitsAt, Truthful
  <2> QED BY <2>1, Zenon
<1>4. \A x, y \in HitsAt(p) : f[x] = f[y] => x = y
  <2>1. \A x \in HitsAt(p) : x \in SeaShot /\ x.isHit = TRUE
    <3>1. \A x \in HitsAt(p) : x \in SeaShot /\ x.isHit
      BY <1>1, Zenon DEF HitsAt
    <3>2. \A x \in SeaShot : x.isHit \in BOOLEAN
      BY DEF SeaShot
    <3> QED BY <3>1, <3>2, Zenon
  <2>2. \A x, y \in SeaShot : x.isHit = y.isHit /\ x.cell = y.cell => x = y
    BY DEF SeaShot
  <2> QED BY <2>1, <2>2, Zenon
<1>5. \A c \in own[p] : \E x \in HitsAt(p) : f[x] = c
  <2> SUFFICES ASSUME NEW c \in own[p] PROVE \E x \in HitsAt(p) : f[x] = c
    OBVIOUS
  <2>1. PICK x \in st.shotsAt[p] : x.cell = c
    BY <1>1
  <2>2. x \in HitsAt(p)
    BY <1>1, <2>1, Zenon DEF HitsAt, Truthful
  <2> QED BY <2>1, <2>2
<1>6. ExistsBijection(HitsAt(p), own[p])
  <2> HIDE DEF f
  <2>1. f \in Bijection(HitsAt(p), own[p])
    BY <1>3, <1>4, <1>5 DEF Bijection, Injection, Surjection, IsInjective
  <2> QED BY <2>1, Zenon DEF ExistsBijection
<1> QED BY <1>1, <1>2, <1>6, FS_Bijection, Zenon

\* Two legal boards always play to a decision: while no winner is named some seat owes a
\* commitment, a board or an answer, or has a cell left to fire at.
THEOREM SeaNeverStuck ==
  ASSUME Stakes \subseteq Nat \X Nat, DefaultStake \in Nat, FLEET_CELLS \in Nat \ {0}
  PROVE  SeaSpec => []NeverStuck
<1>1. SeaSpec => []SeaInv
  BY InitSea, NextSea, PTL DEF SeaSpec
<1>2. SeaInv => NeverStuck
  <2> SUFFICES ASSUME SeaInv, \A p \in Party : isLegalBoard(own[p]), st.winner = "none"
               PROVE  \E by \in Party :
                        \/ st.phase = "awaitingCommits" /\ st.commit[by] = <<>>
                        \/ pendingBoardReveal = by
                        \/ st.pendingShot # <<>> /\ st.pendingShot[1] = by
                        \/ \E cell \in Cells : canFireShot(by, cell)
    BY DEF NeverStuck, isTerminal, None, Unset, Party
  <2>1. CASE st.phase = "awaitingCommits"
    BY <2>1 DEF SeaInv, Party
  <2>2. CASE st.phase = "awaitingBoardReveal"
    <3>1. pendingBoardReveal \in Party
      BY <2>2 DEF SeaInv, pendingBoardReveal, Party
    <3> QED BY <3>1
  <2>3. CASE st.phase = "playing" /\ st.pendingShot # <<>>
    BY <2>3 DEF SeaInv, SeaState
  <2>4. CASE st.phase = "playing" /\ st.pendingShot = <<>>
    <3>1. PICK by \in Party, p \in Party : st.turn = by /\ p = otherParty(by)
      BY DEF SeaInv, SeaState, otherParty, Party
    <3>2. st.hitsOn[p] # FLEET_CELLS /\ Cardinality(own[p]) = FLEET_CELLS
      <4>1. st.hitsOn[p] # FLEET_CELLS
        BY <2>4 DEF SeaInv
      <4>2. Cardinality(own[p]) = FLEET_CELLS
        BY Zenon DEF isLegalBoard
      <4> QED BY <4>1, <4>2, SameCount, Zenon
    <3>3. PICK cell \in Cells : \A x \in st.shotsAt[p] : x.cell # cell
      BY <3>2, AllAnswered
    <3>4. canFireShot(by, cell)
      BY <2>4, <3>1, <3>3 DEF canFireShot, Fired, Unset, None, otherParty
    <3> QED BY <3>4
  <2> QED BY <2>1, <2>2, <2>3, <2>4 DEF SeaInv, SeaState
<1> QED BY <1>1, <1>2, PTL

=============================================================================

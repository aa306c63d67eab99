----------------------------- MODULE PokerProofs -----------------------------
(***************************************************************************)
(* Proofs about quantum poker, for every ante, pair of stacks, choice of   *)
(* secrets and number of hands.                                            *)
(*                                                                         *)
(* That a bet can always be called is not inductive: it takes that the     *)
(* effective stack bounds every wager (availableFor), so that either seat  *)
(* could pay what either has put in, and that the earlier streets closed   *)
(* at equal bets.                                                          *)
(***************************************************************************)
EXTENDS QuantumPoker, TLAPS

Purse == [Party -> Nat]

-----------------------------------------------------------------------------
(* Quantum poker: the shorter stack bounds every wager. *)

PokerSpec == Init /\ [][Next]_vars

Hold ==
  [commit : [Party -> Secrets \cup {-1}], revealed : [Party -> SUBSET Groups],
   totalBet : [Party -> Nat], streetBet : [Party -> Nat], toAct : Party, acted : [Party -> BOOLEAN],
   winner : {"none", "tie"} \cup Party, deal : {0} \cup DOMAIN Deals]

Phases == {"commit", "hand_over", "done"} \cup BetPhases \cup RevealPhases

Pot == [phase : Phases, handNo : Nat, hand : Hold, bal : Purse, total : Nat]

\* Neither seat has wagered more than either can pay.
Covered(s) ==
  /\ s \in Pot /\ s.total = s.bal.A + s.bal.B
  /\ \A p \in Party : s.hand.totalBet[p] <= s.bal.A /\ s.hand.totalBet[p] <= s.bal.B

Even(h) == h.totalBet["A"] = h.totalBet["B"]

\* What was wagered on the earlier streets is the same for both seats.
EarlierEven(h) == h.totalBet["A"] - h.streetBet["A"] = h.totalBet["B"] - h.streetBet["B"]

\* The hand was dealt at the balances it is still played for.
AsDealt(s, o) == s.bal["A"] = o["A"].at /\ s.bal["B"] = o["B"].at

\* What a finished hand moved.
Moved(s, o) ==
  CASE s.hand.winner = "A" -> s.bal.A - o.A.at = contestedAmount(s)
    [] s.hand.winner = "B" -> s.bal.A - o.A.at = -contestedAmount(s)
    [] OTHER -> s.bal.A - o.A.at = 0

PotSound(s, o) ==
  /\ s \in Pot /\ s.total = s.bal.A + s.bal.B
  /\ s.phase # "hand_over" => Covered(s)
  /\ s.phase \in {"commit", "open_private_holes"} => s.bal.A >= ante /\ s.bal.B >= ante
  /\ s.phase \in RevealPhases \cup {"commit"} => Even(s.hand)
  /\ s.phase \in BetPhases => EarlierEven(s.hand)
  /\ s.phase \in BetPhases \cup RevealPhases => AsDealt(s, o)
  /\ s.phase = "hand_over" => Moved(s, o)

PokerInv == PotSound(st, own)

\* A hand that ends moves what the loser put in, whole: HandOver.
LEMMA HandPays ==
  ASSUME NEW s, NEW o, Covered(s), AsDealt(s, o), NEW w \in {"tie"} \cup Party
  PROVE  PotSound(HandOver(s, w), o)
<1>1. /\ s \in Pot /\ s.hand \in Hold /\ s.bal \in Purse /\ s.bal.A \in Nat /\ s.bal.B \in Nat
      /\ s.hand.totalBet["A"] \in Nat /\ s.hand.totalBet["B"] \in Nat
  BY DEF Covered, Pot, Hold, Purse, Party
<1>2. PICK c \in Nat : c = contestedAmount(s) /\ c <= s.bal.A /\ c <= s.bal.B
  BY <1>1 DEF contestedAmount, Lesser, Covered, Party
<1>3. PICK b \in Purse : /\ b = IF w = "tie" THEN s.bal ELSE shiftStake(s.bal, w, c)
                         /\ b.A + b.B = s.bal.A + s.bal.B
                         /\ b.A - s.bal.A = IF w = "A" THEN c ELSE IF w = "B" THEN -c ELSE 0
  <2>1. CASE w = "tie"
    BY <2>1, <1>1
  <2>2. CASE w = "A"
    <3>1. shiftStake(s.bal, w, c) = [s.bal EXCEPT !["A"] = s.bal["A"] + c, !["B"] = s.bal["B"] - c]
      BY <2>2, <1>1, <1>2 DEF shiftStake, otherParty, Lesser, Purse, Party
    <3> QED BY <2>2, <3>1, <1>1, <1>2 DEF Purse, Party
  <2>3. CASE w = "B"
    <3>1. shiftStake(s.bal, w, c) = [s.bal EXCEPT !["A"] = s.bal["A"] - c, !["B"] = s.bal["B"] + c]
      BY <2>3, <1>1, <1>2 DEF shiftStake, otherParty, Lesser, Purse, Party
    <3> QED BY <2>3, <3>1, <1>1, <1>2 DEF Purse, Party
  <2> QED BY <2>1, <2>2, <2>3 DEF Party
<1>4. PICK h : h = [s.hand EXCEPT !.winner = w]
  BY Zenon
<1>5. h \in Hold /\ h.winner = w /\ h.totalBet = s.hand.totalBet
  BY <1>1, <1>4 DEF Hold
<1>6. PICK r : r = [s EXCEPT !.phase = "hand_over", !.hand = h, !.bal = b]
  OBVIOUS
<1>7. HandOver(s, w) = r
  BY <1>1, <1>2, <1>3, <1>4, <1>6 DEF HandOver, Pot
<1>8. r \in Pot /\ r.phase = "hand_over" /\ r.hand = h /\ r.bal = b /\ r.total = s.total
  BY <1>1, <1>5, <1>6, Zenon DEF Pot, Phases
<1>9. contestedAmount(r) = c
  BY <1>2, <1>5, <1>8 DEF contestedAmount
<1>10. Moved(r, o)
  BY <1>1, <1>2, <1>3, <1>5, <1>8, <1>9 DEF Moved, AsDealt
<1> QED BY <1>1, <1>3, <1>7, <1>8, <1>10 DEF PotSound, BetPhases, RevealPhases, Covered

\* A street opens with nothing wagered on it: beginStreet.
LEMMA StreetOpens ==
  ASSUME NEW s \in Pot, NEW phase \in Phases
  PROVE  LET r == beginStreet(s, phase)
         IN  /\ r \in Pot /\ r.phase = phase /\ r.bal = s.bal /\ r.total = s.total
             /\ r.hand.totalBet = s.hand.totalBet /\ r.hand.streetBet = [p \in Party |-> 0]
<1>1. s.hand \in Hold /\ [p \in Party |-> 0] \in [Party -> Nat] /\ [p \in Party |-> FALSE] \in [Party -> BOOLEAN] /\ "A" \in Party
  BY DEF Pot, Party
<1>2. PICK h : h = [s.hand EXCEPT !.streetBet = [p \in Party |-> 0], !.toAct = "A", !.acted = [p \in Party |-> FALSE]]
  OBVIOUS
<1>3. h \in Hold /\ h.streetBet = [p \in Party |-> 0] /\ h.totalBet = s.hand.totalBet
  BY <1>1, <1>2, Zenon DEF Hold
<1>4. PICK r : r = [s EXCEPT !.phase = phase, !.hand = h]
  OBVIOUS
<1>5. beginStreet(s, phase) = r
  BY <1>2, <1>4, Zenon DEF beginStreet, Party, Pot
<1>6. r \in Pot /\ r.phase = phase /\ r.bal = s.bal /\ r.total = s.total /\ r.hand = h
  BY <1>3, <1>4, Zenon DEF Pot
<1> QED BY <1>3, <1>5, <1>6

\* The same in a hand with even stakes: a street to bet on.
LEMMA StreetSound ==
  ASSUME NEW s, NEW o, Covered(s), AsDealt(s, o), Even(s.hand), NEW phase \in BetPhases
  PROVE  PotSound(beginStreet(s, phase), o)
<1>1. s \in Pot /\ phase \in Phases /\ phase \notin RevealPhases /\ phase \notin {"commit", "hand_over", "open_private_holes"}
  BY DEF Covered, Phases, BetPhases, RevealPhases
<1>2. PICK r : r = beginStreet(s, phase)
  OBVIOUS
<1>3. /\ r \in Pot /\ r.phase = phase /\ r.bal = s.bal /\ r.total = s.total
      /\ r.hand.totalBet = s.hand.totalBet /\ r.hand.streetBet = [p \in Party |-> 0]
  BY <1>1, <1>2, StreetOpens
<1>4. r.hand.streetBet["A"] = 0 /\ r.hand.streetBet["B"] = 0
  BY <1>3 DEF Party
<1>5. EarlierEven(r.hand)
  BY <1>3, <1>4 DEF EarlierEven, Even
<1>6. Covered(r) /\ AsDealt(r, o)
  BY <1>3 DEF Covered, AsDealt
<1> QED BY <1>1, <1>2, <1>3, <1>5, <1>6 DEF PotSound, Covered

\* An empty hand: freshHand.
LEMMA FreshFits == FreshHand \in Hold /\ FreshHand.totalBet = [p \in Party |-> 0]
<1>1. /\ [p \in Party |-> 0] \in [Party -> Nat] /\ [p \in Party |-> FALSE] \in [Party -> BOOLEAN]
      /\ [p \in Party |-> {}] \in [Party -> SUBSET Groups] /\ [p \in Party |-> -1] \in [Party -> Secrets \cup {-1}]
  OBVIOUS
<1>2. PICK z, f, e, u : /\ z = [p \in Party |-> 0] /\ f = [p \in Party |-> FALSE]
                        /\ e = [p \in Party |-> {}] /\ u = [p \in Party |-> -1]
  BY Zenon
<1>3. FreshHand = [commit |-> u, revealed |-> e, totalBet |-> z, streetBet |-> z,
                      toAct |-> "A", acted |-> f, winner |-> "none", deal |-> 0]
  BY <1>2, Zenon DEF FreshHand, Party, Unset
<1>4. "A" \in Party
  BY DEF Party
<1> QED BY <1>1, <1>2, <1>3, <1>4 DEF Hold

\* Opened slots lead on to the antes, the next street, the next reveal or the end: AfterReveal.
LEMMA RevealLeadsOn ==
  ASSUME ante \in Nat, \A d \in DOMAIN Deals : Deals[d].winner \in {"tie"} \cup Party,
         NEW s, NEW o, PotSound(s, o), s.phase \in RevealPhases, NEW d \in DOMAIN Deals
  PROVE  PotSound(AfterReveal(s, d), o)
<1>1. /\ s \in Pot /\ s.hand \in Hold /\ s.bal \in Purse /\ Covered(s) /\ AsDealt(s, o) /\ Even(s.hand)
      /\ s.phase # "hand_over"
  BY DEF PotSound, Pot, RevealPhases
<1>2. ASSUME NEW closed \in RevealPhases \ {"open_private_holes"}
      PROVE  PotSound([s EXCEPT !.phase = closed], o)
  <2>1. PICK r : r = [s EXCEPT !.phase = closed]
    BY Zenon
  <2>2. /\ closed \in Phases /\ closed \notin BetPhases /\ closed \notin {"commit", "hand_over", "open_private_holes"}
    BY DEF Phases, BetPhases, RevealPhases
  <2>3. r \in Pot /\ r.phase = closed /\ r.hand = s.hand /\ r.bal = s.bal /\ r.total = s.total
    BY <1>1, <2>1, <2>2 DEF Pot
  <2>4. Covered(r) /\ AsDealt(r, o)
    BY <1>1, <2>3 DEF Covered, AsDealt
  <2> QED BY <1>1, <2>1, <2>2, <2>3, <2>4 DEF PotSound, Covered
<1>3. ASSUME NEW next \in BetPhases
      PROVE  PotSound(beginStreet(s, next), o)
  BY <1>1, <1>3, StreetSound
<1>4. CASE s.phase = "open_private_holes"
  <2>1. PICK bets \in [Party -> Nat] : bets = [p \in Party |-> ante]
    BY Zenon
  <2>2. PICK h : h = [s.hand EXCEPT !.totalBet = bets]
    BY Zenon
  <2>3. h \in Hold /\ h.totalBet = bets
    BY <1>1, <2>2 DEF Hold
  <2>4. PICK t : t = [s EXCEPT !.hand = h]
    BY Zenon
  <2>5. t \in Pot /\ t.hand = h /\ t.bal = s.bal /\ t.total = s.total
    BY <1>1, <2>3, <2>4 DEF Pot
  <2>6. s.bal.A >= ante /\ s.bal.B >= ante /\ s.bal.A \in Nat /\ s.bal.B \in Nat
    BY <1>1, <1>4 DEF PotSound, Purse, Party
  <2>7. Covered(t) /\ AsDealt(t, o) /\ Even(t.hand)
    BY <1>1, <2>1, <2>3, <2>5, <2>6 DEF Covered, AsDealt, Even, Party
  <2>8. "preflop_bet" \in BetPhases
    BY DEF BetPhases
  <2>9. PotSound(beginStreet(t, "preflop_bet"), o)
    BY <2>7, <2>8, StreetSound
  <2>10. t = [s EXCEPT !.hand.totalBet = [p \in Party |-> ante]]
    BY <1>1, <2>1, <2>2, <2>4 DEF Pot
  <2>11. AfterReveal(s, d) = beginStreet(t, "preflop_bet")
    BY <1>4, <2>10 DEF AfterReveal, Party
  <2> QED BY <2>9, <2>11
<1>5. CASE s.phase = "reveal_flop"
  <2>1. "flop_bet" \in BetPhases /\ "reveal_turn" \in RevealPhases \ {"open_private_holes"}
    BY DEF BetPhases, RevealPhases
  <2>2. AfterReveal(s, d) = IF bettingClosed(s) THEN [s EXCEPT !.phase = "reveal_turn"] ELSE beginStreet(s, "flop_bet")
    BY <1>5 DEF AfterReveal
  <2> QED BY <1>2, <1>3, <2>1, <2>2, Zenon
<1>6. CASE s.phase = "reveal_turn"
  <2>1. "turn_bet" \in BetPhases /\ "reveal_river" \in RevealPhases \ {"open_private_holes"}
    BY DEF BetPhases, RevealPhases
  <2>2. AfterReveal(s, d) = IF bettingClosed(s) THEN [s EXCEPT !.phase = "reveal_river"] ELSE beginStreet(s, "turn_bet")
    BY <1>6 DEF AfterReveal
  <2> QED BY <1>2, <1>3, <2>1, <2>2, Zenon
<1>7. CASE s.phase = "reveal_river"
  <2>1. "river_bet" \in BetPhases /\ "showdown" \in RevealPhases \ {"open_private_holes"}
    BY DEF BetPhases, RevealPhases
  <2>2. AfterReveal(s, d) = IF bettingClosed(s) THEN [s EXCEPT !.phase = "showdown"] ELSE beginStreet(s, "river_bet")
    BY <1>7 DEF AfterReveal
  <2> QED BY <1>2, <1>3, <2>1, <2>2, Zenon
<1>8. CASE s.phase = "showdown"
  <2>1. PICK h : h = [s.hand EXCEPT !.deal = d]
    BY Zenon
  <2>2. h \in Hold /\ h.totalBet = s.hand.totalBet
    BY <1>1, <2>1 DEF Hold
  <2>3. PICK t : t = [s EXCEPT !.hand = h]
    BY Zenon
  <2>4. t \in Pot /\ t.hand = h /\ t.bal = s.bal /\ t.total = s.total
    BY <1>1, <2>2, <2>3 DEF Pot
  <2>5. Covered(t) /\ AsDealt(t, o)
    BY <1>1, <2>2, <2>4 DEF Covered, AsDealt
  <2>6. t = [s EXCEPT !.hand.deal = d]
    BY <1>1, <2>1, <2>3 DEF Pot
  <2>7. AfterReveal(s, d) = HandOver(t, Deals[d].winner)
    BY <1>8, <2>6 DEF AfterReveal
  <2> QED BY <2>5, <2>7, HandPays, Zenon
<1> QED BY <1>4, <1>5, <1>6, <1>7, <1>8 DEF RevealPhases

\* A betting move that levels the street ends it, any other passes the turn: afterBetAction.
LEMMA BetLeadsOn ==
  ASSUME NEW s, NEW o, PotSound(s, o), s.phase \in BetPhases
  PROVE  PotSound(afterBetAction(s), o)
<1>1. /\ s \in Pot /\ s.hand \in Hold /\ Covered(s) /\ AsDealt(s, o) /\ EarlierEven(s.hand)
      /\ s.phase # "hand_over"
  BY DEF PotSound, Pot, BetPhases
<1>2. CASE s.hand.streetBet.A = s.hand.streetBet.B /\ \A p \in Party : s.hand.acted[p]
  <2>1. Even(s.hand)
    <3>1. /\ s.hand.totalBet["A"] \in Nat /\ s.hand.totalBet["B"] \in Nat
          /\ s.hand.streetBet["A"] \in Nat /\ s.hand.streetBet["B"] \in Nat
      BY <1>1 DEF Hold, Party
    <3> QED BY <1>1, <1>2, <3>1 DEF EarlierEven, Even
  <2>2. PICK next \in RevealPhases \ {"open_private_holes"} :
          next = CASE s.phase = "preflop_bet" -> "reveal_flop"
                   [] s.phase = "flop_bet" -> "reveal_turn"
                   [] s.phase = "turn_bet" -> "reveal_river"
                   [] s.phase = "river_bet" -> "showdown"
    BY DEF BetPhases, RevealPhases
  <2>3. next \in Phases /\ next \notin BetPhases /\ next \notin {"commit", "hand_over", "open_private_holes"}
    BY DEF Phases, BetPhases, RevealPhases
  <2>4. PICK r : r = beginStreet(s, next)
    OBVIOUS
  <2>5. /\ r \in Pot /\ r.phase = next /\ r.bal = s.bal /\ r.total = s.total
        /\ r.hand.totalBet = s.hand.totalBet
    BY <1>1, <2>3, <2>4, StreetOpens
  <2>6. advanceStreet(s) = r
    <3>1. advanceStreet(s) = [beginStreet(s, "x") EXCEPT !.phase = next]
      BY <2>2, Zenon DEF advanceStreet
    <3>2. PICK h : h = [s.hand EXCEPT !.streetBet = [p \in Party |-> 0], !.toAct = "A", !.acted = [p \in Party |-> FALSE]]
      OBVIOUS
    <3>3. \A ph : beginStreet(s, ph) = [s EXCEPT !.phase = ph, !.hand = h]
      BY <1>1, <3>2, Zenon DEF beginStreet, Party, Pot, Hold
    <3>4. [[s EXCEPT !.phase = "x", !.hand = h] EXCEPT !.phase = next] = [s EXCEPT !.phase = next, !.hand = h]
      BY <1>1, Zenon DEF Pot
    <3> QED BY <2>4, <3>1, <3>3, <3>4, Zenon
  <2>7. Covered(r) /\ AsDealt(r, o) /\ Even(r.hand)
    BY <1>1, <2>1, <2>5 DEF Covered, AsDealt, Even
  <2>8. PotSound(r, o)
    BY <2>3, <2>5, <2>7 DEF PotSound, Covered
  <2> QED BY <1>2, <2>6, <2>8, Zenon DEF afterBetAction, Party
<1>3. CASE ~(s.hand.streetBet.A = s.hand.streetBet.B /\ \A p \in Party : s.hand.acted[p])
  <2>1. PICK q \in Party : q = otherParty(s.hand.toAct)
    BY DEF otherParty, Party
  <2>2. PICK h : h = [s.hand EXCEPT !.toAct = q]
    BY Zenon
  <2>3. h \in Hold /\ h.totalBet = s.hand.totalBet /\ h.streetBet = s.hand.streetBet
    BY <1>1, <2>2 DEF Hold
  <2>4. PICK r : r = [s EXCEPT !.hand = h]
    BY Zenon
  <2>5. r \in Pot /\ r.hand = h /\ r.phase = s.phase /\ r.bal = s.bal /\ r.total = s.total
    BY <1>1, <2>3, <2>4 DEF Pot
  <2>6. r = [s EXCEPT !.hand.toAct = otherParty(@)]
    BY <1>1, <2>1, <2>2, <2>4 DEF Pot
  <2>7. afterBetAction(s) = r
    BY <1>3, <2>6, Zenon DEF afterBetAction, Party
  <2>8. Covered(r) /\ AsDealt(r, o) /\ EarlierEven(r.hand)
    BY <1>1, <2>3, <2>5 DEF Covered, AsDealt, EarlierEven
  <2>9. s.phase \notin RevealPhases \cup {"commit", "hand_over", "open_private_holes"}
    BY DEF BetPhases, RevealPhases
  <2> QED BY <2>5, <2>7, <2>8, <2>9 DEF PotSound, Covered
<1> QED BY <1>2, <1>3

\* A betting phase goes on with any hand whose wagers both seats can pay.
LEMMA BetHand ==
  ASSUME NEW s, NEW o, PotSound(s, o), s.phase \in BetPhases, NEW h \in Hold, EarlierEven(h),
         \A p \in Party : h.totalBet[p] <= s.bal.A /\ h.totalBet[p] <= s.bal.B
  PROVE  LET r == [s EXCEPT !.hand = h] IN PotSound(r, o) /\ r.phase = s.phase /\ r.hand = h /\ r.bal = s.bal
<1>1. s \in Pot /\ s.total = s.bal.A + s.bal.B /\ AsDealt(s, o)
  BY DEF PotSound
<1>2. PICK r : r = [s EXCEPT !.hand = h]
  BY Zenon
<1>3. r \in Pot /\ r.hand = h /\ r.phase = s.phase /\ r.bal = s.bal /\ r.total = s.total
  BY <1>1, <1>2 DEF Pot
<1>4. Covered(r) /\ AsDealt(r, o)
  BY <1>1, <1>3 DEF Covered, AsDealt
<1>5. s.phase \notin RevealPhases \cup {"commit", "hand_over", "open_private_holes"}
  BY DEF BetPhases, RevealPhases
<1>6. PotSound(r, o)
  BY <1>1, <1>3, <1>4, <1>5 DEF PotSound
<1> QED BY <1>2, <1>3, <1>6

\* A wager within the effective stack stays payable by both seats: Wager.
LEMMA WagerKeeps ==
  ASSUME NEW s, NEW o, PotSound(s, o), s.phase \in BetPhases, NEW by \in Party, NEW amount \in Nat,
         amount <= availableFor(s, by)
  PROVE  LET r == Wager(s, by, amount) IN PotSound(r, o) /\ r.phase = s.phase /\ r.hand \in Hold /\ EarlierEven(r.hand)
<1>1. s \in Pot /\ s.hand \in Hold /\ s.bal \in Purse /\ EarlierEven(s.hand) /\ Covered(s)
  BY DEF PotSound, Pot, BetPhases
<1>2. /\ s.bal.A \in Nat /\ s.bal.B \in Nat /\ s.hand.totalBet \in [Party -> Nat] /\ s.hand.streetBet \in [Party -> Nat]
      /\ s.hand.acted \in [Party -> BOOLEAN]
  BY <1>1 DEF Hold, Purse, Party
<1>3. PICK tb \in [Party -> Nat] : tb = [s.hand.totalBet EXCEPT ![by] = s.hand.totalBet[by] + amount]
  <2>1. [s.hand.totalBet EXCEPT ![by] = s.hand.totalBet[by] + amount] \in [Party -> Nat]
    BY <1>2
  <2> QED BY <2>1, Zenon
<1>4. PICK sb \in [Party -> Nat] : sb = [s.hand.streetBet EXCEPT ![by] = s.hand.streetBet[by] + amount]
  <2>1. [s.hand.streetBet EXCEPT ![by] = s.hand.streetBet[by] + amount] \in [Party -> Nat]
    BY <1>2
  <2> QED BY <2>1, Zenon
<1>5. PICK ac \in [Party -> BOOLEAN] : ac = [s.hand.acted EXCEPT ![by] = TRUE]
  BY <1>2, Zenon
<1>6. PICK h : h = [s.hand EXCEPT !.streetBet = sb, !.totalBet = tb, !.acted = ac]
  OBVIOUS
<1>7. h \in Hold /\ h.totalBet = tb /\ h.streetBet = sb
  BY <1>1, <1>6, Zenon DEF Hold
<1>8. s.hand.totalBet[by] + amount <= s.bal.A /\ s.hand.totalBet[by] + amount <= s.bal.B
  BY <1>1, <1>2 DEF availableFor, Lesser, Covered
<1>9. \A p \in Party : tb[p] <= s.bal.A /\ tb[p] <= s.bal.B
  BY <1>1, <1>2, <1>3, <1>8, Zenon DEF Covered
<1>10. EarlierEven(h)
  BY <1>1, <1>2, <1>3, <1>4, <1>7 DEF EarlierEven, Party
<1>11. Wager(s, by, amount) = [s EXCEPT !.hand = h]
  BY <1>1, <1>2, <1>3, <1>4, <1>5, <1>6, Zenon DEF Wager, Pot, Hold
<1>12. PICK r : r = [s EXCEPT !.hand = h]
  BY Zenon
<1>13. PotSound(r, o) /\ r.phase = s.phase /\ r.hand = h
  BY <1>7, <1>9, <1>10, <1>12, BetHand
<1> QED BY <1>7, <1>10, <1>11, <1>12, <1>13

\* Checks, bets, calls and folds keep every wager payable: applyBet.
LEMMA BetPoker ==
  ASSUME PokerInv, NEW by \in Party, NEW m \in Moves, BetMove(by, m)
  PROVE  PokerInv'
<1>1. /\ st.phase \in BetPhases /\ PotSound(st, own) /\ own' = own /\ st' = ApplyBet(st, m, by)
      /\ st \in Pot /\ st.hand \in Hold /\ Covered(st) /\ AsDealt(st, own) /\ EarlierEven(st.hand)
      /\ st.total \in Nat
  BY DEF BetMove, LegalBet, PokerInv, PotSound, BetPhases, Pot
<1>2. \/ m.kind \in {"check", "call", "fold"}
      \/ m.kind = "bet" /\ m.amount \in Nat
  BY <1>1 DEF Moves
<1>3. otherParty(by) \in Party
  BY DEF otherParty, Party
<1>4. CASE m.kind = "check"
  <2>1. PICK ac \in [Party -> BOOLEAN] : ac = [st.hand.acted EXCEPT ![by] = TRUE]
    BY <1>1, Zenon DEF Hold
  <2>2. PICK h : h = [st.hand EXCEPT !.acted = ac]
    BY Zenon
  <2>3. h \in Hold /\ h.totalBet = st.hand.totalBet /\ h.streetBet = st.hand.streetBet
    BY <1>1, <2>2 DEF Hold
  <2>4. PICK r : r = [st EXCEPT !.hand = h]
    BY Zenon
  <2>5. EarlierEven(h) /\ \A p \in Party : h.totalBet[p] <= st.bal.A /\ h.totalBet[p] <= st.bal.B
    BY <1>1, <2>3 DEF EarlierEven, Covered
  <2>6. PotSound(r, own) /\ r.phase = st.phase
    BY <1>1, <2>3, <2>4, <2>5, BetHand
  <2>7. r = [st EXCEPT !.hand.acted[by] = TRUE]
    BY <1>1, <2>1, <2>2, <2>4 DEF Pot, Hold
  <2>8. st' = afterBetAction(r)
    BY <1>1, <1>4, <2>7 DEF ApplyBet
  <2> QED BY <1>1, <2>6, <2>8, BetLeadsOn DEF PokerInv
<1>5. CASE m.kind = "call"
  <2>1. PICK amount : amount = ToCall(st, by)
    OBVIOUS
  <2>2. amount \in Nat /\ amount <= availableFor(st, by)
    <3>1. amount > 0 /\ amount <= availableFor(st, by)
      BY <1>5, <2>1 DEF BetMove, LegalBet
    <3>2. amount \in Int
      BY <1>1, <1>3, <2>1 DEF ToCall, Hold
    <3> QED BY <3>1, <3>2
  <2>3. PICK r : r = Wager(st, by, amount)
    OBVIOUS
  <2>4. PotSound(r, own) /\ r.phase = st.phase
    BY <1>1, <2>2, <2>3, WagerKeeps
  <2>5. st' = afterBetAction(r)
    BY <1>1, <1>5, <2>1, <2>3 DEF ApplyBet
  <2> QED BY <1>1, <2>4, <2>5, BetLeadsOn DEF PokerInv
<1>6. CASE m.kind = "bet"
  <2>1. m.amount \in Nat /\ m.amount <= availableFor(st, by)
    BY <1>2, <1>6 DEF BetMove, LegalBet
  <2>2. PICK w : w = Wager(st, by, m.amount)
    OBVIOUS
  <2>3. PotSound(w, own) /\ w.phase = st.phase /\ w.hand \in Hold /\ EarlierEven(w.hand)
    BY <1>1, <2>1, <2>2, WagerKeeps
  <2>4. PICK q \in Party : q = otherParty(by)
    BY <1>3
  <2>5. PICK ac \in [Party -> BOOLEAN] : ac = [w.hand.acted EXCEPT ![q] = FALSE]
    BY <2>3, Zenon DEF Hold
  <2>6. PICK h : h = [w.hand EXCEPT !.acted = ac, !.toAct = q]
    OBVIOUS
  <2>7. h \in Hold /\ h.totalBet = w.hand.totalBet /\ h.streetBet = w.hand.streetBet
    BY <2>3, <2>6, Zenon DEF Hold
  <2>8. w \in Pot /\ Covered(w)
    BY <1>1, <2>3 DEF PotSound, BetPhases
  <2>9. EarlierEven(h) /\ \A p \in Party : h.totalBet[p] <= w.bal.A /\ h.totalBet[p] <= w.bal.B
    BY <2>3, <2>7, <2>8 DEF EarlierEven, Covered
  <2>10. PICK r : r = [w EXCEPT !.hand = h]
    BY Zenon
  <2>11. PotSound(r, own)
    BY <1>1, <2>3, <2>7, <2>9, <2>10, BetHand
  <2>12. r = [w EXCEPT !.hand.acted[q] = FALSE, !.hand.toAct = q]
    BY <2>3, <2>5, <2>6, <2>8, <2>10, Zenon DEF Pot, Hold
  <2>13. st' = r
    BY <1>1, <1>6, <2>2, <2>4, <2>12 DEF ApplyBet
  <2> QED BY <1>1, <2>11, <2>13 DEF PokerInv
<1>7. CASE m.kind = "fold"
  <2>1. st' = HandOver(st, otherParty(by))
    BY <1>1, <1>7 DEF ApplyBet
  <2> QED BY <1>1, <1>3, <2>1, HandPays, Zenon DEF PokerInv
<1> QED BY <1>2, <1>4, <1>5, <1>6, <1>7

\* A game starts with an empty hand, if both seats can post the ante: initialState.
LEMMA InitPoker ==
  ASSUME Stakes \subseteq Nat \X Nat, ante \in Nat, Init
  PROVE  PokerInv
<1>1. PICK b \in Stakes : st = initialState(b[1], b[2])
  BY DEF Init
<1>2. b[1] \in Nat /\ b[2] \in Nat
  BY <1>1
<1>3. PICK bal \in Purse : bal = [A |-> b[1], B |-> b[2]]
  <2>1. [A |-> b[1], B |-> b[2]] \in Purse
    BY <1>2 DEF Purse, Party
  <2> QED BY <2>1
<1>4. PICK h : h = FreshHand
  OBVIOUS
<1>5. h \in Hold /\ h.totalBet = [p \in Party |-> 0]
  BY <1>4, FreshFits
<1>6. PICK ph \in {"commit", "done"} : ph = IF b[1] >= ante /\ b[2] >= ante THEN "commit" ELSE "done"
  OBVIOUS
<1>7. st = [phase |-> ph, handNo |-> 0, hand |-> h, bal |-> bal, total |-> b[1] + b[2]]
  BY <1>1, <1>3, <1>4, <1>6 DEF initialState
<1>8. /\ st \in Pot /\ st.phase = ph /\ st.hand = h /\ st.bal = bal /\ st.total = bal.A + bal.B
      /\ bal.A = b[1] /\ bal.B = b[2]
  BY <1>2, <1>3, <1>5, <1>6, <1>7 DEF Pot, Phases
<1>9. Covered(st) /\ Even(st.hand)
  BY <1>2, <1>5, <1>8 DEF Covered, Even, Party
<1> QED BY <1>2, <1>6, <1>8, <1>9 DEF PokerInv, PotSound, BetPhases, RevealPhases

\* Secrets are committed before a card is opened, and the balances of the deal noted: Commit.
LEMMA CommitPoker ==
  ASSUME PokerInv, NEW by \in Party, Commit(by)
  PROVE  PokerInv'
<1>1. /\ st.phase = "commit" /\ PotSound(st, own) /\ st \in Pot /\ st.hand \in Hold /\ Covered(st) /\ Even(st.hand)
      /\ st.bal.A >= ante /\ st.bal.B >= ante
  BY DEF Commit, PokerInv, PotSound, Pot
<1>2. PICK x \in Secrets :
        /\ own' = [p \in Party |-> [cache |-> IF p = by THEN [own[p].cache EXCEPT ![st.handNo] = x] ELSE own[p].cache,
                                    at |-> st.bal[p]]]
        /\ st' = IF [st EXCEPT !.hand.commit[by] = x].hand.commit[otherParty(by)] # -1
                 THEN [[st EXCEPT !.hand.commit[by] = x] EXCEPT !.phase = "open_private_holes"]
                 ELSE [st EXCEPT !.hand.commit[by] = x]
  BY Zenon DEF Commit, Unset, Party
<1>s. PICK s : s = [st EXCEPT !.hand.commit[by] = x]
  BY Zenon
<1>o. \A p \in Party : own'[p].at = st.bal[p]
  BY <1>2
<1>3. PICK cs \in [Party -> Secrets \cup {-1}] : cs = [st.hand.commit EXCEPT ![by] = x]
  <2>1. [st.hand.commit EXCEPT ![by] = x] \in [Party -> Secrets \cup {-1}]
    BY <1>1 DEF Hold
  <2> QED BY <2>1, Zenon
<1>4. PICK h : h = [st.hand EXCEPT !.commit = cs]
  BY Zenon
<1>5. h \in Hold /\ h.totalBet = st.hand.totalBet
  BY <1>1, <1>4 DEF Hold
<1>6. s = [st EXCEPT !.hand = h]
  BY <1>1, <1>s, <1>3, <1>4 DEF Pot, Hold
<1>7. PICK ph \in {"commit", "open_private_holes"} : st' = [st EXCEPT !.hand = h, !.phase = ph]
  <2>1. st' = [s EXCEPT !.phase = "open_private_holes"] \/ st' = s
    BY <1>2, <1>s, Zenon
  <2>2. /\ [s EXCEPT !.phase = "open_private_holes"] = [st EXCEPT !.hand = h, !.phase = "open_private_holes"]
        /\ s = [st EXCEPT !.hand = h, !.phase = "commit"]
    BY <1>1, <1>6, Zenon DEF Pot
  <2> QED BY <2>1, <2>2, Zenon
<1>8. st' \in Pot /\ st'.phase = ph /\ st'.hand = h /\ st'.bal = st.bal /\ st'.total = st.total
  BY <1>1, <1>5, <1>7, Zenon DEF Pot, Phases, RevealPhases
<1>9. Covered(st') /\ Even(st'.hand) /\ AsDealt(st', own')
  BY <1>1, <1>o, <1>5, <1>8 DEF Covered, Even, AsDealt, Party
<1> QED BY <1>1, <1>8, <1>9 DEF PokerInv, PotSound, Covered, BetPhases, RevealPhases

\* Slots are opened for both seats in turn: applyRevealSlots.
LEMMA RevealPoker ==
  ASSUME ante \in Nat, \A d \in DOMAIN Deals : Deals[d].winner \in {"tie"} \cup Party,
         PokerInv, NEW by \in Party, Reveal(by)
  PROVE  PokerInv'
<1>1. /\ st.phase \in RevealPhases /\ own' = own /\ PotSound(st, own) /\ st \in Pot /\ st.hand \in Hold
      /\ Covered(st) /\ Even(st.hand) /\ AsDealt(st, own)
  BY DEF Reveal, PokerInv, PotSound, RevealPhases, Pot
<1>2. PICK d \in DOMAIN Deals : st' = RevealSlots(st, by, d)
  BY DEF Reveal
<1>3. expectedRevealSlots(st, by) \in SUBSET Groups
  BY <1>1 DEF expectedRevealSlots, Groups, Hole, RevealPhases, otherParty, Party
<1>4. PICK rv \in [Party -> SUBSET Groups] :
        rv = [st.hand.revealed EXCEPT ![by] = st.hand.revealed[by] \cup expectedRevealSlots(st, by)]
  BY <1>1, <1>3, Zenon DEF Hold
<1>5. PICK h : h = [st.hand EXCEPT !.revealed = rv]
  BY Zenon
<1>6. h \in Hold /\ h.totalBet = st.hand.totalBet
  BY <1>1, <1>5 DEF Hold
<1>7. PICK t : t = [st EXCEPT !.hand = h]
  BY Zenon
<1>8. t \in Pot /\ t.phase = st.phase /\ t.hand = h /\ t.bal = st.bal /\ t.total = st.total
  BY <1>1, <1>6, <1>7 DEF Pot
<1>9. Covered(t) /\ Even(t.hand) /\ AsDealt(t, own)
  BY <1>1, <1>6, <1>8 DEF Covered, Even, AsDealt
<1>10. PotSound(t, own)
  BY <1>1, <1>8, <1>9 DEF PotSound, Covered, BetPhases, RevealPhases
<1>11. t = [st EXCEPT !.hand.revealed[by] = @ \cup expectedRevealSlots(st, by)]
  BY <1>1, <1>4, <1>5, <1>7 DEF Pot, Hold
<1>12. st' = t \/ st' = AfterReveal(t, d)
  BY <1>2, <1>11, Zenon DEF RevealSlots
<1>13. PotSound(AfterReveal(t, d), own)
  BY <1>1, <1>8, <1>10, RevealLeadsOn
<1> QED BY <1>1, <1>10, <1>12, <1>13 DEF PokerInv

\* A seat that opened its slots takes the pot of one that did not: claimForfeit.
LEMMA ForfeitPoker ==
  ASSUME PokerInv, NEW by \in Party, Forfeit(by)
  PROVE  PokerInv'
<1>1. st.phase \in RevealPhases /\ own' = own /\ Covered(st) /\ AsDealt(st, own) /\ st' = HandOver(st, by)
  BY DEF Forfeit, PokerInv, PotSound, RevealPhases
<1> QED BY <1>1, HandPays, Zenon DEF PokerInv

\* The next hand starts afresh, or the game is done: applyNextHand.
LEMMA NextHandPoker ==
  ASSUME PokerInv, NextHand
  PROVE  PokerInv'
<1>1. st' = NextHandState(st) /\ own' = own /\ st \in Pot /\ st.bal \in Purse /\ st.total = st.bal.A + st.bal.B
  BY DEF NextHand, PokerInv, PotSound, Pot
<1>2. PICK h : h = FreshHand
  OBVIOUS
<1>3. h \in Hold /\ h.totalBet = [p \in Party |-> 0]
  BY <1>2, FreshFits
<1>4. PICK n \in Nat : n = st.handNo + 1
  BY <1>1 DEF Pot
<1>5. PICK ph \in {"commit", "done"} : /\ ph = "commit" => st.bal.A >= ante /\ st.bal.B >= ante
                                       /\ st' = [st EXCEPT !.handNo = n, !.hand = h, !.phase = ph]
  BY <1>1, <1>2, <1>4, Zenon DEF NextHandState
<1>6. st' \in Pot /\ st'.phase = ph /\ st'.hand = h /\ st'.bal = st.bal /\ st'.total = st.total
  BY <1>1, <1>3, <1>5, Zenon DEF Pot, Phases
<1>7. st.bal.A \in Nat /\ st.bal.B \in Nat
  BY <1>1 DEF Purse, Party
<1>8. Covered(st') /\ Even(st'.hand)
  BY <1>1, <1>3, <1>6, <1>7 DEF Covered, Even, Party
<1> QED BY <1>1, <1>5, <1>6, <1>8 DEF PokerInv, PotSound, BetPhases, RevealPhases

\* Every move of either seat keeps the pot payable.
LEMMA NextPoker ==
  ASSUME ante \in Nat, \A d \in DOMAIN Deals : Deals[d].winner \in {"tie"} \cup Party, PokerInv, [Next]_vars
  PROVE  PokerInv'
<1>1. CASE Next
  <2>1. \/ \E by \in Party : \/ Commit(by) \/ Reveal(by)
                             \/ \E m \in Moves : BetMove(by, m)
                             \/ Forfeit(by)
        \/ NextHand
    BY <1>1 DEF Next, Party
  <2> QED BY <2>1, CommitPoker, RevealPoker, BetPoker, ForfeitPoker, NextHandPoker
<1>2. CASE UNCHANGED vars
  <2>1. st' = st /\ own' = own
    BY <1>2 DEF vars
  <2> QED BY <2>1 DEF PokerInv
<1> QED BY <1>1, <1>2

\* In a poker game of any length, for every ante and pair of stacks: the balances sum to
\* what the tunnel locks, a seat facing a bet can always call it, cards are opened only
\* at equal stakes, and a hand moves exactly what the loser put in.
THEOREM EveryBetCanBeCalled ==
  ASSUME Stakes \subseteq Nat \X Nat, ante \in Nat, \A d \in DOMAIN Deals : Deals[d].winner \in {"tie"} \cup Party
  PROVE  PokerSpec => [](Conserved /\ AlwaysCallable /\ StakesMatched /\ HandMovesTheBet)
<1>1. PokerSpec => []PokerInv
  BY InitPoker, NextPoker, PTL DEF PokerSpec
<1>2. PokerInv => Conserved
  BY DEF PokerInv, PotSound, Pot, Conserved, SumsTo, Purse, Party
<1>3. PokerInv => StakesMatched
  BY DEF PokerInv, PotSound, Even, StakesMatched
<1>4. PokerInv => HandMovesTheBet
  BY DEF PokerInv, PotSound, Moved, HandMovesTheBet
<1>5. PokerInv => AlwaysCallable
  <2> SUFFICES ASSUME PokerInv PROVE AlwaysCallable
    OBVIOUS
  <2>1. st \in Pot /\ st.hand \in Hold /\ st.bal.A \in Nat /\ st.bal.B \in Nat /\ st.hand.toAct \in Party
    BY DEF PokerInv, PotSound, Pot, Hold, Purse, Party
  <2>2. /\ st.hand.totalBet["A"] \in Nat /\ st.hand.totalBet["B"] \in Nat
        /\ st.hand.streetBet["A"] \in Nat /\ st.hand.streetBet["B"] \in Nat
    BY <2>1 DEF Hold, Party
  <2>3. st.phase # "hand_over" => Covered(st)
    BY DEF PokerInv, PotSound
  <2>4. st.phase \in BetPhases => EarlierEven(st.hand) /\ Covered(st)
    BY <2>3 DEF PokerInv, PotSound, BetPhases
  <2>5. ASSUME st.phase \in BetPhases PROVE ToCall(st, st.hand.toAct) <= availableFor(st, st.hand.toAct)
    BY <2>1, <2>2, <2>4, <2>5 DEF ToCall, availableFor, Lesser, otherParty, EarlierEven, Covered, Party
  <2> QED BY <2>3, <2>5 DEF AlwaysCallable, Covered, Party
<1> QED BY <1>1, <1>2, <1>3, <1>4, <1>5, PTL

=============================================================================

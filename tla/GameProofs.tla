----------------------------- MODULE GameProofs -----------------------------
(***************************************************************************)
(* Proofs about the card table and the tunnels that only pay, for every    *)
(* stake, price, share, answer and number of rounds.                       *)
(*                                                                         *)
(* Blackjack is two replicas that exchange commitments and reveals; they   *)
(* differ in nothing but the secrets each holds back, a round moves the    *)
(* bet and nothing else, and a bot always has a move.  A paying tunnel     *)
(* keeps its money, and two chat bots tell one conversation although       *)
(* frames repeat.                                                          *)
(***************************************************************************)
EXTENDS Blackjack, Sequences, TLAPS

CONSTANTS costPerCall, Amounts, Texts, MaxPayments, Answers, maxMoves

PG == INSTANCE PayGames

Purse == [Party -> Nat]

-----------------------------------------------------------------------------
(* Tunnels that only pay. *)

PaySpec == PG!Init /\ [][PG!Next]_vars

PayInv ==
  /\ st \in [kind : {"pay", "api", "chat"}, bal : Purse, count : Nat, transcript : Seq(Party \X Texts)]
  /\ own = st.bal.A + st.bal.B

\* A payment the sender can afford leaves two purses with the same sum.
LEMMA Paid ==
  ASSUME NEW bal \in Purse, NEW by \in Party, NEW amount \in Nat, amount <= bal[by]
  PROVE  /\ PG!Pay(bal, by, amount) \in Purse
         /\ PG!Pay(bal, by, amount).A + PG!Pay(bal, by, amount).B = bal.A + bal.B
  BY DEF Purse, Party, PG!Pay, otherParty, PG!otherParty

\* A paying tunnel opens with what was staked.
LEMMA InitPay ==
  ASSUME Stakes \subseteq Nat \X Nat, PG!Init
  PROVE  PayInv
<1>1. PICK b \in Stakes, kind \in {"pay", "api", "chat"} :
        st = [kind |-> kind, bal |-> [A |-> b[1], B |-> b[2]], count |-> 0, transcript |-> <<>>]
  BY Zenon DEF PG!Init
<1>2. [A |-> b[1], B |-> b[2]] \in Purse
  BY <1>1 DEF Purse, Party
<1> QED BY <1>1, <1>2 DEF PG!Init, PayInv

\* A move of a paying tunnel either pays what the payer has, or is refused.
LEMMA NextPay ==
  ASSUME Amounts \subseteq Nat, costPerCall \in Nat, PayInv, [PG!Next]_vars
  PROVE  PayInv'
<1>1. CASE PG!Next
  <2>1. PICK by \in Party, n \in Amounts, text \in Texts :
          LET result == CASE st.kind = "pay" -> PG!applyPayment(st, by, n)
                          [] st.kind = "api" -> PG!applyCall(st, by)
                          [] OTHER -> PG!applyMessage(st, by, text, n)
          IN  result # <<>> /\ st' = result[1]
    BY <1>1 DEF PG!Next, PG!Move, PG!Party, Party
  <2>2. own' = own
    BY <1>1 DEF PG!Next, PG!Move
  <2>3. n \in Nat /\ st.bal \in Purse /\ st.count + 1 \in Nat
    BY DEF PayInv
  <2>4. PICK paid \in Purse, next \in Seq(Party \X Texts) :
          /\ paid.A + paid.B = st.bal.A + st.bal.B
          /\ st' = [st EXCEPT !.bal = paid, !.count = @ + 1, !.transcript = next]
    <3>1. CASE st.kind = "pay"
      <4>1. /\ n > 0 /\ n <= st.bal[by]
            /\ st' = [st EXCEPT !.bal = PG!Pay(@, by, n), !.count = @ + 1]
        BY <2>1, <3>1 DEF PG!applyPayment
      <4>2. st' = [st EXCEPT !.bal = PG!Pay(st.bal, by, n), !.count = @ + 1, !.transcript = st.transcript]
        BY <4>1, Zenon DEF PayInv
      <4>3. /\ PG!Pay(st.bal, by, n) \in Purse /\ st.transcript \in Seq(Party \X Texts)
            /\ PG!Pay(st.bal, by, n).A + PG!Pay(st.bal, by, n).B = st.bal.A + st.bal.B
        BY <2>3, <4>1, Paid DEF PayInv
      <4> QED BY <4>2, <4>3, Zenon
    <3>2. CASE st.kind = "api"
      <4>1. /\ by = "A" /\ costPerCall <= st.bal["A"]
            /\ st' = [st EXCEPT !.bal = PG!Pay(@, "A", costPerCall), !.count = @ + 1]
        BY <2>1, <2>3, <3>2 DEF PG!applyCall, Purse, Party
      <4>2. st' = [st EXCEPT !.bal = PG!Pay(st.bal, "A", costPerCall), !.count = @ + 1,
                             !.transcript = st.transcript]
        BY <4>1, Zenon DEF PayInv
      <4>3. /\ PG!Pay(st.bal, "A", costPerCall) \in Purse /\ st.transcript \in Seq(Party \X Texts)
            /\ PG!Pay(st.bal, "A", costPerCall).A + PG!Pay(st.bal, "A", costPerCall).B
                 = st.bal.A + st.bal.B
        BY <2>1, <2>3, <4>1, Paid DEF PayInv
      <4> QED BY <4>2, <4>3, Zenon
    <3>3. CASE st.kind = "chat"
      <4>1. PG!applyMessage(st, by, text, n) # <<>> /\ st' = PG!applyMessage(st, by, text, n)[1]
        BY <2>1, <3>3
      <4>2. text # "" /\ (n = 0 \/ n <= st.bal[by])
        BY <4>1, Zenon DEF PG!applyMessage
      <4>3. n <= st.bal[by]
        <5>1. n = 0 \/ n <= st.bal[by]
          BY <4>2, Zenon
        <5> QED BY <2>3, <5>1 DEF Purse
      <4>4. st' = [st EXCEPT !.bal = PG!Pay(@, by, n), !.count = @ + 1,
                             !.transcript = Append(@, <<by, text>>)]
        BY <4>1, <4>2, Zenon DEF PG!applyMessage
      <4>5. st' = [st EXCEPT !.bal = PG!Pay(st.bal, by, n), !.count = @ + 1,
                             !.transcript = Append(st.transcript, <<by, text>>)]
        BY <4>4 DEF PayInv
      <4>6. Append(st.transcript, <<by, text>>) \in Seq(Party \X Texts)
        BY <2>1 DEF PayInv
      <4>7. /\ PG!Pay(st.bal, by, n) \in Purse
            /\ PG!Pay(st.bal, by, n).A + PG!Pay(st.bal, by, n).B = st.bal.A + st.bal.B
        BY <2>3, <4>3, Paid
      <4> QED BY <4>5, <4>6, <4>7, Zenon
    <3> QED BY <3>1, <3>2, <3>3, Zenon DEF PayInv
  <2> QED BY <2>2, <2>3, <2>4, Zenon DEF PayInv
<1>2. CASE UNCHANGED vars
  BY <1>2 DEF vars, PayInv
<1> QED BY <1>1, <1>2

\* Payments, metered calls and tips never create or lose money, and never take a seat
\* below zero, for any stakes, price and sequence of moves (payments.ts, apiCredits.ts,
\* chat.ts).
THEOREM PaymentsConserve ==
  ASSUME Stakes \subseteq Nat \X Nat, Amounts \subseteq Nat, costPerCall \in Nat
  PROVE  PaySpec => []PG!Conserved
<1>1. PG!Init => PayInv
  BY InitPay
<1>2. PayInv /\ [PG!Next]_vars => PayInv'
  BY NextPay
<1>3. PayInv => PG!Conserved
  BY DEF PayInv, PG!Conserved, PG!SumsTo, SumsTo, Purse, Party
<1> QED BY <1>1, <1>2, <1>3, PTL DEF PaySpec

\* The automatic payer of a seat never asks for a payment that the rules refuse
\* (randomMove of the three protocols).
THEOREM PayerOffersLegalMoves ==
  ASSUME Stakes \subseteq Nat \X Nat, Amounts \subseteq Nat, costPerCall \in Nat
  PROVE  PaySpec => []PG!OfferedIsLegal
<1>1. PG!Init => PayInv
  BY InitPay
<1>2. PayInv /\ [PG!Next]_vars => PayInv'
  BY NextPay
<1>3. ASSUME PayInv, NEW by \in Party PROVE <<>> \notin PG!payerMoves(st, by)
  <2>1. st.bal[by] \in Nat /\ st.bal.A \in Nat
    BY <1>3 DEF PayInv, Purse, Party
  <2>2. CASE st.kind = "pay"
    <3>1. \A n \in 1 .. PG!Lesser(st.bal[by], 1000) : n > 0 /\ n <= st.bal[by]
      BY <2>1 DEF PG!Lesser, Lesser
    <3> QED BY <2>2, <3>1 DEF PG!payerMoves, PG!applyPayment
  <2>3. CASE st.kind = "api"
    BY <2>3 DEF PG!payerMoves, PG!applyCall
  <2>4. CASE st.kind = "chat"
    <3>1. \A n \in 0 .. PG!Lesser(st.bal[by], 10) : n <= st.bal[by]
      BY <2>1 DEF PG!Lesser, Lesser
    <3> QED BY <2>4, <3>1 DEF PG!payerMoves, PG!applyMessage
  <2> QED BY <1>3, <2>2, <2>3, <2>4 DEF PayInv
<1>4. PayInv => PG!OfferedIsLegal
  BY <1>3 DEF PG!OfferedIsLegal, PG!Party, Party
<1> QED BY <1>1, <1>2, <1>4, PTL DEF PaySpec

-----------------------------------------------------------------------------
(* Two chat bots. *)

ChatSpec == PG!ChatInit /\ [][PG!ChatNext]_vars

Lines == Party \X Answers
Wordless(line) == line[2] = ""

Driver == [messages : Seq(Lines), applied : SUBSET Lines, asking : BOOLEAN, sent : Nat, loop : BOOLEAN]

\* A driver asks only while its loop runs, and an empty line of its own has ended the loop.
Stops ==
  \A q \in Party :
     /\ st[q].asking => st[q].loop
     /\ st[q].loop => \A line \in st[q].applied : line[1] = q => ~Wordless(line)

\* The lines that were said, as d knows them: an empty one is noted by its author only.
Said(d) == {line \in d.applied : ~Wordless(line)}

\* The first n frames under way to a driver repeat what it knows.
Repeats(frames, n, d) == \A k \in 1 .. n : frames[k] \in d.applied

\* It is p's turn and both transcripts are equal.
Level(p, o) ==
  /\ st[p].messages = st[o].messages
  /\ Said(st[p]) = Said(st[o])
  /\ Repeats(own[o], Len(own[o]), st[o])

\* p has spoken, and its line is the last frame under way to o.
Ahead(p, o) ==
  \E line \in Lines :
     /\ line[1] = p /\ ~Wordless(line)
     /\ ~st[p].asking
     /\ st[p].messages = Append(st[o].messages, line)
     /\ line \notin st[o].applied
     /\ Said(st[p]) = Said(st[o]) \cup {line}
     /\ own[o] # <<>> /\ own[o][Len(own[o])] = line
     /\ Repeats(own[o], Len(own[o]) - 1, st[o])

\* p has the turn as far as o knows; nothing is under way to p.
Speaks(p, o) ==
  /\ o = otherParty(p)
  /\ own[p] = <<>>
  /\ ~st[o].asking
  /\ PG!ourTurn(st[o], p)
  /\ Level(p, o) \/ Ahead(p, o)

ChatInv ==
  /\ st \in [Party -> Driver]
  /\ own \in [Party -> Seq(Lines)]
  /\ Stops
  /\ \E p, o \in Party : Speaks(p, o)

\* There are two seats.
LEMMA TwoSeats ==
  \A p, o \in Party : o = otherParty(p) => p = otherParty(o) /\ p # o /\ Party = {p, o}
  BY DEF Party, otherParty

\* Nothing is said and A has the floor.
LEMMA InitChat ==
  ASSUME PG!ChatInit
  PROVE  ChatInv
<1>1. \A p \in Party : st[p] = [messages |-> <<>>, applied |-> {}, asking |-> FALSE,
                                sent |-> 0, loop |-> TRUE]
  BY DEF PG!ChatInit, PG!Party, Party
<1>2. st \in [Party -> Driver] /\ own \in [Party -> Seq(Lines)] /\ \A p \in Party : own[p] = <<>>
  BY DEF PG!ChatInit, PG!Party, Party, Driver
<1>3. Stops
  BY <1>1 DEF Stops
<1>4. Level("A", "B")
  BY <1>1, <1>2 DEF Level, Said, Repeats, Party
<1>5. PG!ourTurn(st["B"], "A")
  BY <1>1 DEF PG!ourTurn, Party
<1>6. Speaks("A", "B")
  BY <1>1, <1>2, <1>4, <1>5 DEF Speaks, otherParty, Party
<1> QED BY <1>2, <1>3, <1>6 DEF ChatInv, Party

\* The turn is a matter of the transcript alone, and belongs to one seat.
LEMMA OneTurn ==
  ASSUME NEW d \in Driver, NEW p \in Party, NEW o \in Party, o = otherParty(p), PG!ourTurn(d, p)
  PROVE  ~PG!ourTurn(d, o)
<1>1. CASE d.messages = <<>>
  BY <1>1 DEF PG!ourTurn, otherParty, Party
<1>2. CASE d.messages # <<>>
  <2>1. d.messages[Len(d.messages)] \in Lines
    BY <1>2 DEF Driver
  <2> QED BY <1>2, <2>1 DEF PG!ourTurn, otherParty, Party, Lines
<1> QED BY <1>1, <1>2

\* Seats take the floor one at a time: Ask.
LEMMA AskChat ==
  ASSUME ChatInv, NEW q \in Party, PG!Ask(q)
  PROVE  ChatInv'
<1>1. PICK p \in Party, o \in Party : Speaks(p, o)
  BY DEF ChatInv
<1>2. /\ st[q].loop /\ PG!ourTurn(st[q], q) /\ own' = own
      /\ st' = [st EXCEPT ![q].asking = TRUE]
  BY DEF PG!Ask
<1>3. st[q] \in Driver /\ st[p] \in Driver /\ st[o] \in Driver
  BY DEF ChatInv
<1>4. q # o
  BY <1>1, <1>2, <1>3, OneTurn DEF Speaks
<1>5. q = p
  BY <1>1, <1>4, TwoSeats DEF Speaks
<1>6. ~Ahead(p, o)
  <2> SUFFICES ASSUME Ahead(p, o) PROVE FALSE
    OBVIOUS
  <2>1. PICK line \in Lines : line[1] = p /\ st[p].messages = Append(st[o].messages, line)
    BY DEF Ahead
  <2>2. PICK t \in Seq(Lines) : t = st[o].messages
    BY <1>3 DEF Driver
  <2>3. st[p].messages # <<>> /\ st[p].messages[Len(st[p].messages)] = line
    BY <2>1, <2>2
  <2> QED BY <1>2, <1>5, <2>1, <2>3 DEF PG!ourTurn
<1>7. /\ st' \in [Party -> Driver] /\ st'[o] = st[o]
      /\ st'[p].messages = st[p].messages /\ st'[p].applied = st[p].applied
      /\ st'[p].loop = st[p].loop
  BY <1>1, <1>2, <1>3, <1>5, TwoSeats, Zenon DEF ChatInv, Speaks, Driver
<1>8. Stops'
  BY <1>1, <1>2, <1>5, <1>7, TwoSeats DEF ChatInv, Stops, Speaks
<1>9. Level(p, o)'
  BY <1>1, <1>2, <1>6, <1>7 DEF Speaks, Level, Said, Repeats
<1>10. Speaks(p, o)'
  BY <1>1, <1>2, <1>7, <1>9, Zenon DEF Speaks, PG!ourTurn
<1> QED BY <1>2, <1>7, <1>8, <1>10 DEF ChatInv

\* A driver that has its answer.
Answered(ms, ap, n, lp) == [messages |-> ms, applied |-> ap, asking |-> FALSE, sent |-> n, loop |-> lp]

\* The three outcomes of an answer: an empty, a repeated and a new line.
LEMMA DriverStep ==
  ASSUME NEW d \in Driver, NEW line \in Lines
  PROVE  /\ [d EXCEPT !.applied = @ \cup {line}, !.loop = FALSE, !.asking = FALSE]
            = Answered(d.messages, d.applied \cup {line}, d.sent, FALSE)
         /\ [d EXCEPT !.asking = FALSE, !.sent = @ + 1]
            = Answered(d.messages, d.applied, d.sent + 1, d.loop)
         /\ [d EXCEPT !.applied = @ \cup {line}, !.messages = Append(@, line), !.asking = FALSE, !.sent = @ + 1]
            = Answered(Append(d.messages, line), d.applied \cup {line}, d.sent + 1, d.loop)
<1>0. /\ d.messages \in Seq(Lines) /\ d.applied \in SUBSET Lines /\ d.sent \in Nat /\ d.loop \in BOOLEAN
      /\ Append(d.messages, line) \in Seq(Lines) /\ d.applied \cup {line} \in SUBSET Lines
      /\ d.sent + 1 \in Nat /\ FALSE \in BOOLEAN
  BY DEF Driver
<1>1. \A ms \in Seq(Lines), ap \in SUBSET Lines, n \in Nat, lp \in BOOLEAN :
         [d EXCEPT !.messages = ms, !.applied = ap, !.asking = FALSE, !.sent = n, !.loop = lp] = Answered(ms, ap, n, lp)
  <2> SUFFICES ASSUME NEW ms \in Seq(Lines), NEW ap \in SUBSET Lines, NEW n \in Nat, NEW lp \in BOOLEAN, NEW e,
                      e = [d EXCEPT !.messages = ms, !.applied = ap, !.asking = FALSE, !.sent = n, !.loop = lp]
               PROVE  e = Answered(ms, ap, n, lp)
    BY Zenon
  <2> QED BY Zenon DEF Driver, Answered
<1>2. [d EXCEPT !.applied = @ \cup {line}, !.loop = FALSE, !.asking = FALSE]
      = Answered(d.messages, d.applied \cup {line}, d.sent, FALSE)
  <2>1. [d EXCEPT !.applied = @ \cup {line}, !.loop = FALSE, !.asking = FALSE]
        = [d EXCEPT !.messages = d.messages, !.applied = d.applied \cup {line}, !.asking = FALSE, !.sent = d.sent, !.loop = FALSE]
    BY Zenon DEF Driver
  <2> QED BY <2>1, <1>0, <1>1, Zenon
<1>3. [d EXCEPT !.asking = FALSE, !.sent = @ + 1]
      = Answered(d.messages, d.applied, d.sent + 1, d.loop)
  <2>1. [d EXCEPT !.asking = FALSE, !.sent = @ + 1]
        = [d EXCEPT !.messages = d.messages, !.applied = d.applied, !.asking = FALSE, !.sent = d.sent + 1, !.loop = d.loop]
    BY Zenon DEF Driver
  <2> QED BY <2>1, <1>0, <1>1, Zenon
<1>4. [d EXCEPT !.applied = @ \cup {line}, !.messages = Append(@, line), !.asking = FALSE, !.sent = @ + 1]
      = Answered(Append(d.messages, line), d.applied \cup {line}, d.sent + 1, d.loop)
  <2>1. [d EXCEPT !.applied = @ \cup {line}, !.messages = Append(@, line), !.asking = FALSE, !.sent = @ + 1]
        = [d EXCEPT !.messages = Append(d.messages, line), !.applied = d.applied \cup {line}, !.asking = FALSE, !.sent = d.sent + 1, !.loop = d.loop]
    BY Zenon DEF Driver
  <2> QED BY <2>1, <1>0, <1>1, Zenon
<1> QED BY <1>2, <1>3, <1>4, Zenon

\* A frame added at the end of those under way.
LEMMA Appended ==
  ASSUME NEW s \in Seq(Lines), NEW line \in Lines
  PROVE  /\ Append(s, line) \in Seq(Lines) /\ Append(s, line) # <<>>
         /\ Len(Append(s, line)) = Len(s) + 1
         /\ Append(s, line)[Len(s) + 1] = line
         /\ \A k \in 1 .. Len(s) : Append(s, line)[k] = s[k]
  OBVIOUS

\* The line asked for in a turn is said in that turn: an empty line ends the
\* loop, a repeated one is only sent again, a new one goes ahead: Answer.
LEMMA AnswerChat ==
  ASSUME ChatInv, NEW q \in Party, PG!Answer(q)
  PROVE  ChatInv'
<1>1. PICK p \in Party, o \in Party : Speaks(p, o)
  BY DEF ChatInv
<1>2. PICK text \in Answers :
        /\ st' = [st EXCEPT ![q] = PG!createMove(@, <<q, text>>)]
        /\ own' = IF st'[q].loop THEN [own EXCEPT ![otherParty(q)] = Append(@, <<q, text>>)] ELSE own
  BY Zenon DEF PG!Answer, PG!otherParty, otherParty
<1> DEFINE line == <<q, text>>
<1>3. st[q].asking /\ st[q].loop
  BY DEF PG!Answer, ChatInv, Stops
<1>4. q = p
  BY <1>1, <1>3, TwoSeats DEF Speaks
<1>5. Level(p, o)
  BY <1>1, <1>3, <1>4 DEF Speaks, Ahead
<1>6. line \in Lines /\ line[1] = p
  BY <1>4 DEF Lines
<1>7. st[p] \in Driver /\ st[o] \in Driver /\ own[o] \in Seq(Lines) /\ own[p] = <<>>
  BY <1>1 DEF ChatInv, Speaks
<1>8. /\ Wordless(line) /\ line \notin st[p].applied
         => PG!createMove(st[p], line) = [st[p] EXCEPT !.applied = @ \cup {line}, !.loop = FALSE, !.asking = FALSE]
      /\ ~(Wordless(line) /\ line \notin st[p].applied)
         => PG!createMove(st[p], line) = [PG!Fold(st[p], line) EXCEPT !.asking = FALSE, !.sent = @ + 1]
  BY Zenon DEF PG!createMove, Wordless
<1>9. Wordless(line) => line \notin st[p].applied
  BY <1>3, <1>4, <1>6 DEF ChatInv, Stops
<1>10. o = otherParty(p) /\ p # o /\ Party = {p, o}
  BY <1>1, TwoSeats DEF Speaks
<1> HIDE DEF line
<1>11. /\ st' = [st EXCEPT ![p] = PG!createMove(st[p], line)]
       /\ own' = IF st'[p].loop THEN [own EXCEPT ![o] = Append(own[o], line)] ELSE own
  BY <1>2, <1>4, <1>10 DEF line
<1>12. st'[p] = PG!createMove(st[p], line) /\ st'[o] = st[o]
  BY <1>10, <1>11 DEF ChatInv
<1>d. /\ st[p].messages \in Seq(Lines) /\ st[p].applied \in SUBSET Lines /\ st[p].sent \in Nat /\ st[p].loop \in BOOLEAN
      /\ Append(st[p].messages, line) \in Seq(Lines) /\ st[p].applied \cup {line} \in SUBSET Lines
      /\ st[p].sent + 1 \in Nat /\ FALSE \in BOOLEAN
  BY <1>6, <1>7 DEF Driver
<1>a. CASE Wordless(line)
  <2>1. st'[p] = Answered(st[p].messages, st[p].applied \cup {line}, st[p].sent, FALSE)
    BY <1>a, <1>6, <1>7, <1>8, <1>9, <1>12, DriverStep, Zenon
  <2>2. /\ st'[p] \in Driver /\ ~st'[p].loop /\ ~st'[p].asking
        /\ st'[p].messages = st[p].messages /\ st'[p].applied = st[p].applied \cup {line}
    <3>1. Answered(st[p].messages, st[p].applied \cup {line}, st[p].sent, FALSE) \in Driver
      BY <1>d DEF Answered, Driver
    <3>2. /\ Answered(st[p].messages, st[p].applied \cup {line}, st[p].sent, FALSE).loop = FALSE
          /\ Answered(st[p].messages, st[p].applied \cup {line}, st[p].sent, FALSE).asking = FALSE
          /\ Answered(st[p].messages, st[p].applied \cup {line}, st[p].sent, FALSE).messages = st[p].messages
          /\ Answered(st[p].messages, st[p].applied \cup {line}, st[p].sent, FALSE).applied = st[p].applied \cup {line}
      BY Zenon DEF Answered
    <3> QED BY <2>1, <3>1, <3>2, Zenon
  <2>3. st' \in [Party -> Driver] /\ own' = own
    BY <2>2, <1>7, <1>10, <1>11, <1>12 DEF ChatInv
  <2>4. Said(st'[p]) = Said(st[p])
    BY <2>2, <1>a DEF Said
  <2>5. Level(p, o)'
    BY <2>2, <2>3, <2>4, <1>5, <1>12 DEF Level, Repeats
  <2>6. Stops'
    BY <2>2, <1>10, <1>12 DEF ChatInv, Stops
  <2>7. Speaks(p, o)'
    BY <2>3, <2>5, <1>1, <1>12 DEF Speaks
  <2> QED BY <2>3, <2>6, <2>7 DEF ChatInv
<1>b. CASE ~Wordless(line) /\ line \in st[p].applied
  <2>1. st'[p] = Answered(st[p].messages, st[p].applied, st[p].sent + 1, st[p].loop)
    BY <1>b, <1>6, <1>7, <1>8, <1>12, DriverStep, Zenon DEF PG!Fold
  <2>2. /\ st'[p] \in Driver /\ st'[p].loop /\ ~st'[p].asking
        /\ st'[p].messages = st[p].messages /\ st'[p].applied = st[p].applied
    <3>1. Answered(st[p].messages, st[p].applied, st[p].sent + 1, st[p].loop) \in Driver
      BY <1>d DEF Answered, Driver
    <3>2. /\ Answered(st[p].messages, st[p].applied, st[p].sent + 1, st[p].loop).loop = st[p].loop
          /\ Answered(st[p].messages, st[p].applied, st[p].sent + 1, st[p].loop).asking = FALSE
          /\ Answered(st[p].messages, st[p].applied, st[p].sent + 1, st[p].loop).messages = st[p].messages
          /\ Answered(st[p].messages, st[p].applied, st[p].sent + 1, st[p].loop).applied = st[p].applied
      BY Zenon DEF Answered
    <3> QED BY <2>1, <3>1, <3>2, <1>3, <1>4, Zenon
  <2>p. own' = [own EXCEPT ![o] = Append(own[o], line)]
    BY <2>2, <1>11, Zenon
  <2>3. st' \in [Party -> Driver] /\ own' \in [Party -> Seq(Lines)] /\ own'[o] = Append(own[o], line) /\ own'[p] = <<>>
    <3>1. own' \in [Party -> Seq(Lines)] /\ own'[o] = Append(own[o], line) /\ own'[p] = own[p]
      <4>1. PICK s \in Seq(Lines) : s = Append(own[o], line)
        BY <1>6, <1>7, Appended, Zenon
      <4> QED BY <4>1, <2>p, <1>10 DEF ChatInv
    <3>2. st' \in [Party -> Driver]
      BY <2>2, <1>7, <1>10, <1>11, <1>12 DEF ChatInv
    <3> QED BY <3>1, <3>2, <1>7, Zenon
  <2>4. line \in st[o].applied
    BY <1>b, <1>5 DEF Level, Said
  <2>5. Repeats(own'[o], Len(own'[o]), st[o])
    BY <2>3, <2>4, <1>5, <1>6, <1>7, Appended DEF Repeats, Level
  <2>6. Level(p, o)'
    BY <2>2, <2>5, <1>5, <1>12 DEF Level, Said
  <2>7. Stops'
    BY <2>2, <1>3, <1>4, <1>10, <1>12 DEF ChatInv, Stops
  <2>8. Speaks(p, o)'
    BY <2>3, <2>6, <1>1, <1>12 DEF Speaks
  <2> QED BY <2>3, <2>7, <2>8 DEF ChatInv
<1>c. CASE ~Wordless(line) /\ line \notin st[p].applied
  <2>0. [PG!Fold(st[p], line) EXCEPT !.asking = FALSE, !.sent = @ + 1]
        = [st[p] EXCEPT !.applied = @ \cup {line}, !.messages = Append(@, line), !.asking = FALSE, !.sent = @ + 1]
    BY <1>c, <1>7 DEF PG!Fold, Driver
  <2>1. st'[p] = Answered(Append(st[p].messages, line), st[p].applied \cup {line}, st[p].sent + 1, st[p].loop)
    BY <2>0, <1>c, <1>6, <1>7, <1>8, <1>12, DriverStep, Zenon
  <2>2. /\ st'[p] \in Driver /\ st'[p].loop /\ ~st'[p].asking
        /\ st'[p].messages = Append(st[p].messages, line) /\ st'[p].applied = st[p].applied \cup {line}
    <3>1. Answered(Append(st[p].messages, line), st[p].applied \cup {line}, st[p].sent + 1, st[p].loop) \in Driver
      BY <1>d DEF Answered, Driver
    <3>2. /\ Answered(Append(st[p].messages, line), st[p].applied \cup {line}, st[p].sent + 1, st[p].loop).loop = st[p].loop
          /\ Answered(Append(st[p].messages, line), st[p].applied \cup {line}, st[p].sent + 1, st[p].loop).asking = FALSE
          /\ Answered(Append(st[p].messages, line), st[p].applied \cup {line}, st[p].sent + 1, st[p].loop).messages = Append(st[p].messages, line)
          /\ Answered(Append(st[p].messages, line), st[p].applied \cup {line}, st[p].sent + 1, st[p].loop).applied = st[p].applied \cup {line}
      BY Zenon DEF Answered
    <3> QED BY <2>1, <3>1, <3>2, <1>3, <1>4, Zenon
  <2>p. own' = [own EXCEPT ![o] = Append(own[o], line)]
    BY <2>2, <1>11, Zenon
  <2>3. st' \in [Party -> Driver] /\ own' \in [Party -> Seq(Lines)] /\ own'[o] = Append(own[o], line) /\ own'[p] = <<>>
    <3>1. own' \in [Party -> Seq(Lines)] /\ own'[o] = Append(own[o], line) /\ own'[p] = own[p]
      <4>1. PICK s \in Seq(Lines) : s = Append(own[o], line)
        BY <1>6, <1>7, Appended, Zenon
      <4> QED BY <4>1, <2>p, <1>10 DEF ChatInv
    <3>2. st' \in [Party -> Driver]
      BY <2>2, <1>7, <1>10, <1>11, <1>12 DEF ChatInv
    <3> QED BY <3>1, <3>2, <1>7, Zenon
  <2>4. line \notin st[o].applied
    BY <1>c, <1>5 DEF Level, Said
  <2>5. Said(st'[p]) = Said(st[o]) \cup {line}
    BY <2>2, <1>c, <1>5 DEF Level, Said
  <2>6. /\ own'[o] # <<>> /\ own'[o][Len(own'[o])] = line
        /\ Repeats(own'[o], Len(own'[o]) - 1, st[o])
    <3>1. own'[o] # <<>> /\ Len(own'[o]) = Len(own[o]) + 1 /\ own'[o][Len(own[o]) + 1] = line
      <4>1. PICK f \in Seq(Lines) : f = own[o]
        BY <1>7
      <4>2. own'[o] = Append(f, line)
        BY <4>1, <2>3
      <4>3. own'[o] # <<>> /\ Len(own'[o]) = Len(f) + 1 /\ own'[o][Len(f) + 1] = line
        BY <4>2, <1>6, Appended
      <4> QED BY <4>1, <4>3, Zenon
    <3>2. Len(own[o]) \in Nat
      BY <1>7
    <3>3. Len(own'[o]) - 1 = Len(own[o])
      BY <3>1, <3>2
    <3>4. \A k \in 1 .. Len(own[o]) : own'[o][k] = own[o][k]
      BY <2>3, <1>6, <1>7, Appended
    <3>5. Repeats(own'[o], Len(own[o]), st[o])
      BY <3>4, <1>5, Zenon DEF Repeats, Level
    <3> QED BY <3>1, <3>3, <3>5, Zenon
  <2>7. st'[p].messages = Append(st[o].messages, line)
    BY <2>2, <1>5 DEF Level
  <2>8. Ahead(p, o)'
    BY <2>2, <2>4, <2>5, <2>6, <2>7, <1>c, <1>6, <1>12 DEF Ahead
  <2>9. Stops'
    BY <2>2, <1>c, <1>3, <1>4, <1>10, <1>12 DEF ChatInv, Stops
  <2>10. Speaks(p, o)'
    BY <2>3, <2>8, <1>1, <1>12 DEF Speaks
  <2> QED BY <2>3, <2>9, <2>10 DEF ChatInv
<1> QED BY <1>a, <1>b, <1>c

\* What is left of the frames under way once the first one is taken.
LEMMA Taken ==
  ASSUME NEW s \in Seq(Lines), s # <<>>
  PROVE  /\ Head(s) = s[1] /\ Head(s) \in Lines
         /\ Tail(s) \in Seq(Lines) /\ Len(Tail(s)) = Len(s) - 1 /\ Len(s) \in Nat \ {0}
         /\ \A k \in 1 .. Len(s) - 1 : Tail(s)[k] = s[k + 1]
         /\ Len(s) = 1 => Tail(s) = <<>>
<1>1. /\ Head(s) = s[1] /\ Head(s) \in Lines
      /\ Tail(s) \in Seq(Lines) /\ Len(Tail(s)) = Len(s) - 1 /\ Len(s) \in Nat \ {0}
      /\ \A k \in 1 .. Len(s) - 1 : Tail(s)[k] = s[k + 1]
  OBVIOUS
<1>2. ASSUME Len(s) = 1 PROVE Tail(s) = <<>>
  <2>1. Len(Tail(s)) = 0 /\ Tail(s) \in Seq(Lines)
    BY <1>1, <1>2
  <2>2. \A t \in Seq(Lines) : Len(t) = 0 => t = <<>>
    OBVIOUS
  <2> QED BY <2>1, <2>2, Zenon
<1> QED BY <1>1, <1>2

\* A frame that repeats a line changes nothing, the new line hands the turn over: Frame.
LEMMA FrameChat ==
  ASSUME ChatInv, NEW q \in Party, PG!Frame(q)
  PROVE  ChatInv'
<1>1. PICK p \in Party, o \in Party : Speaks(p, o)
  BY DEF ChatInv
<1>2. o = otherParty(p) /\ p = otherParty(o) /\ p # o /\ Party = {p, o}
  BY <1>1, TwoSeats DEF Speaks
<1>3. q = o
  BY <1>1, <1>2 DEF PG!Frame, Speaks
<1>4. PICK s \in Seq(Lines) : s = own[o]
  BY DEF ChatInv
<1>5. s # <<>> /\ st' = [st EXCEPT ![o] = PG!Fold(st[o], Head(s))] /\ own' = [own EXCEPT ![o] = Tail(s)]
  BY <1>3, <1>4 DEF PG!Frame
<1>6. st[p] \in Driver /\ st[o] \in Driver /\ own[p] = <<>> /\ ~st[o].asking
  BY <1>1 DEF ChatInv, Speaks
<1>7. st'[o] = PG!Fold(st[o], Head(s)) /\ st'[p] = st[p]
  BY <1>2, <1>5 DEF ChatInv
<1>8. own' \in [Party -> Seq(Lines)] /\ own'[o] = Tail(s) /\ own'[p] = <<>>
  <2>1. PICK t \in Seq(Lines) : t = Tail(s)
    BY <1>5, Taken, Zenon
  <2> QED BY <2>1, <1>2, <1>5, <1>6, Zenon DEF ChatInv
<1>a. ASSUME Head(s) \in st[o].applied, Level(p, o)' \/ Ahead(p, o)'
      PROVE  ChatInv'
  <2>1. st'[o] = st[o]
    BY <1>a, <1>7 DEF PG!Fold
  <2>2. st' = st
    BY <2>1, <1>2, <1>5, <1>7 DEF ChatInv
  <2>3. Speaks(p, o)'
    BY <2>2, <1>1, <1>8, <1>a DEF Speaks
  <2> QED BY <2>2, <2>3, <1>8 DEF ChatInv, Stops
<1>b. CASE Level(p, o)
  <2>1. Repeats(s, Len(s), st[o])
    BY <1>b, <1>4 DEF Level
  <2>2. Head(s) \in st[o].applied /\ Repeats(Tail(s), Len(Tail(s)), st[o])
    <3>1. PICK t \in Seq(Lines) : t = Tail(s)
      BY <1>5, Taken, Zenon
    <3>2. /\ Head(s) = s[1] /\ Len(t) = Len(s) - 1 /\ Len(s) \in Nat \ {0}
          /\ \A k \in 1 .. Len(s) - 1 : t[k] = s[k + 1]
      BY <1>5, <3>1, Taken
    <3>3. Head(s) \in st[o].applied
      BY <2>1, <3>2 DEF Repeats
    <3>4. \A k \in 1 .. Len(t) : s[k + 1] \in st[o].applied
      BY <2>1, <3>2 DEF Repeats
    <3>5. Repeats(t, Len(t), st[o])
      BY <3>2, <3>4 DEF Repeats
    <3> QED BY <3>1, <3>3, <3>5
  <2>3. st'[o] = st[o]
    BY <2>2, <1>7 DEF PG!Fold
  <2>4. Level(p, o)'
    BY <2>2, <2>3, <1>b, <1>7, <1>8 DEF Level
  <2> QED BY <2>2, <2>4, <1>a
<1>c. CASE Ahead(p, o)
  <2>1. PICK line \in Lines :
          /\ line[1] = p /\ ~Wordless(line)
          /\ ~st[p].asking
          /\ st[p].messages = Append(st[o].messages, line)
          /\ line \notin st[o].applied
          /\ Said(st[p]) = Said(st[o]) \cup {line}
          /\ s[Len(s)] = line
          /\ Repeats(s, Len(s) - 1, st[o])
    BY <1>c, <1>4 DEF Ahead
  <2>2. CASE Len(s) # 1
    <3>1. /\ Head(s) \in st[o].applied /\ Repeats(Tail(s), Len(Tail(s)) - 1, st[o])
          /\ Tail(s) # <<>> /\ Tail(s)[Len(Tail(s))] = line
      <4>1. PICK t \in Seq(Lines) : t = Tail(s) /\ Len(t) = Len(s) - 1 /\ Len(s) \in Nat \ {0, 1}
                                   /\ \A k \in 1 .. Len(s) - 1 : t[k] = s[k + 1]
        BY <2>2, <1>5, Taken, Zenon
      <4>2. Head(s) = s[1] /\ \A k \in 1 .. Len(s) - 1 : s[k] \in st[o].applied
        BY <2>1, <1>5, Taken DEF Repeats
      <4>3. Head(s) \in st[o].applied /\ t # <<>> /\ t[Len(t)] = line
        <5>1. Len(t) \in 1 .. Len(s) - 1 /\ Len(t) + 1 = Len(s) /\ 1 \in 1 .. Len(s) - 1
          BY <4>1
        <5>2. t[Len(t)] = s[Len(s)]
          BY <4>1, <5>1
        <5> QED BY <4>2, <5>1, <5>2, <2>1
      <4>4. Repeats(t, Len(t) - 1, st[o])
        BY <4>1, <4>2 DEF Repeats
      <4> QED BY <4>1, <4>3, <4>4
    <3>2. st'[o] = st[o]
      BY <3>1, <1>7 DEF PG!Fold
    <3>3. Ahead(p, o)'
      BY <2>1, <3>1, <3>2, <1>7, <1>8, Zenon DEF Ahead
    <3> QED BY <3>1, <3>3, <1>a
  <2>3. CASE Len(s) = 1
    <3>1. Head(s) = line /\ Tail(s) = <<>>
      BY <2>1, <2>3, <1>5, Taken
    <3>2. st'[o] = [st[o] EXCEPT !.applied = @ \cup {line}, !.messages = Append(@, line)]
      BY <2>1, <3>1, <1>7, Zenon DEF PG!Fold
    <3>3. /\ st'[o] \in Driver
          /\ st'[o].messages = Append(st[o].messages, line)
          /\ st'[o].applied = st[o].applied \cup {line}
      <4>1. PICK ms \in Seq(Lines), ap \in SUBSET Lines :
               ms = Append(st[o].messages, line) /\ ap = st[o].applied \cup {line}
        BY <1>6, Appended, Zenon DEF Driver
      <4>2. st'[o] = [st[o] EXCEPT !.applied = ap, !.messages = ms]
        BY <3>2, <4>1
      <4>3. [st[o] EXCEPT !.applied = ap, !.messages = ms] \in Driver
        BY <1>6, Zenon DEF Driver
      <4>4. st'[o].messages = ms /\ st'[o].applied = ap
        BY <4>2, <1>6 DEF Driver
      <4> QED BY <4>1, <4>2, <4>3, <4>4
    <3>4. st'[o].asking = st[o].asking /\ st'[o].loop = st[o].loop
      BY <3>2, <1>6, Zenon DEF Driver
    <3>5. st' \in [Party -> Driver]
      BY <3>3, <1>2, <1>5, <1>7, <1>6 DEF ChatInv
    <3>6. Said(st'[o]) = Said(st'[p])
      BY <2>1, <3>3, <1>7 DEF Said
    <3>7. Level(o, p)'
      BY <2>1, <3>3, <3>6, <1>7, <1>8 DEF Level, Repeats
    <3>8. st[p].messages # <<>> /\ st[p].messages[Len(st[p].messages)] = line
      BY <2>1, <1>6 DEF Driver
    <3>9. PG!ourTurn(st'[p], o)
      BY <2>1, <3>8, <1>2, <1>7 DEF PG!ourTurn
    <3>10. Speaks(o, p)'
      BY <2>1, <3>1, <3>7, <3>9, <1>2, <1>7, <1>8, Zenon DEF Speaks
    <3>11. Stops'
      <4>1. /\ st'[o].asking => st'[o].loop
            /\ st'[o].loop => \A l \in st'[o].applied : l[1] = o => ~Wordless(l)
        BY <2>1, <3>3, <3>4, <1>2, Zenon DEF ChatInv, Stops
      <4> QED BY <4>1, <1>2, <1>7 DEF ChatInv, Stops
    <3> QED BY <3>5, <3>10, <3>11, <1>8 DEF ChatInv
  <2> QED BY <2>2, <2>3
<1> QED BY <1>1, <1>b, <1>c DEF Speaks

\* A driver that is told to stop asks no more: Stop.
LEMMA StopChat ==
  ASSUME ChatInv, NEW q \in Party, PG!Stop(q)
  PROVE  ChatInv'
<1>1. PICK p \in Party, o \in Party : Speaks(p, o)
  BY DEF ChatInv
<1>2. ~st[q].asking /\ own' = own /\ st' = [st EXCEPT ![q].loop = FALSE] /\ st[q] \in Driver
  BY DEF PG!Stop, ChatInv
<1>3. [st[q] EXCEPT !.loop = FALSE] \in Driver
  BY <1>2, Zenon DEF Driver
<1>4. /\ st' \in [Party -> Driver]
      /\ \A r \in Party : st'[r].messages = st[r].messages /\ st'[r].applied = st[r].applied
  BY <1>2, <1>3, Zenon DEF ChatInv, Driver
<1>5. st'[q] = [st[q] EXCEPT !.loop = FALSE] /\ \A r \in Party \ {q} : st'[r] = st[r]
  BY <1>2 DEF ChatInv
<1>6. st'[q].loop = FALSE /\ st'[q].asking = st[q].asking
  BY <1>2, <1>5, Zenon DEF Driver
<1>7. \A r \in Party : st'[r].asking = st[r].asking
  BY <1>5, <1>6, Zenon
<1>8. Stops'
  BY <1>2, <1>5, <1>6 DEF ChatInv, Stops
<1>9. Level(p, o) => Level(p, o)'
  BY <1>2, <1>4 DEF Level, Said, Repeats
<1>10. Ahead(p, o) => Ahead(p, o)'
  BY <1>2, <1>4, <1>7 DEF Ahead, Said, Repeats
<1>11. Speaks(p, o)'
  BY <1>1, <1>2, <1>4, <1>7, <1>9, <1>10 DEF Speaks, PG!ourTurn
<1> QED BY <1>2, <1>4, <1>8, <1>11 DEF ChatInv

\* Every step keeps the two drivers' exchange in order.
LEMMA NextChat ==
  ASSUME ChatInv, [PG!ChatNext]_vars
  PROVE  ChatInv'
<1>1. ASSUME NEW q \in Party, PG!Ask(q) \/ PG!Answer(q) \/ PG!Frame(q) \/ PG!Stop(q)
      PROVE  ChatInv'
  BY <1>1, AskChat, AnswerChat, FrameChat, StopChat
<1>2. CASE UNCHANGED vars
  <2>1. st' = st /\ own' = own
    BY <1>2 DEF vars
  <2> QED BY <2>1, Zenon DEF ChatInv, Stops, Speaks, Level, Ahead
<1> QED BY <1>1, <1>2 DEF PG!ChatNext, PG!Party, Party

\* What the exchange in order says of the transcripts.
LEMMA OrderAgrees ==
  ASSUME ChatInv
  PROVE  PG!TranscriptsAgree /\ PG!OneAsks
<1>1. PICK p \in Party, o \in Party : Speaks(p, o)
  BY DEF ChatInv
<1>2. o = otherParty(p) /\ Party = {p, o}
  BY <1>1, TwoSeats DEF Speaks
<1>3. PICK a \in Seq(Lines), b \in Seq(Lines) : a = st[p].messages /\ b = st[o].messages
  BY DEF ChatInv, Driver
<1>4. Len(a) \in {Len(b), Len(b) + 1} /\ SubSeq(a, 1, Len(b)) = b /\ (own[o] = <<>> => a = b)
  <2>1. CASE Level(p, o)
    <3>1. a = b
      BY <2>1, <1>3 DEF Level
    <3>2. SubSeq(b, 1, Len(b)) = b
      OBVIOUS
    <3> QED BY <3>1, <3>2
  <2>2. CASE Ahead(p, o)
    <3>1. PICK line \in Lines : a = Append(b, line) /\ own[o] # <<>>
      BY <2>2, <1>3 DEF Ahead
    <3>2. Len(a) = Len(b) + 1 /\ SubSeq(a, 1, Len(b)) = b
      BY <3>1
    <3> QED BY <3>1, <3>2, Zenon
  <2> QED BY <1>1, <2>1, <2>2 DEF Speaks
<1>5. PG!TranscriptsAgree
  BY <1>2, <1>3, <1>4 DEF PG!TranscriptsAgree, PG!Party, PG!otherParty, Party, otherParty
<1>6. ~st[o].asking
  BY <1>1 DEF Speaks
<1>7. PG!OneAsks
  BY <1>2, <1>6 DEF PG!OneAsks, Party
<1> QED BY <1>5, <1>7

\* Two chat bots over a transport that keeps the order: each transcript is the
\* other one up to the single line under way, and only one of the two asks for
\* a line at a time, whatever is answered, repeated or refused, and whenever
\* either is told to stop (the drivers' runLoop and onFrame).
THEOREM TranscriptsAlwaysAgree == ChatSpec => [](PG!TranscriptsAgree /\ PG!OneAsks)
<1>1. ChatSpec => []ChatInv
  BY InitChat, NextChat, PTL DEF ChatSpec
<1>2. ChatInv => PG!TranscriptsAgree /\ PG!OneAsks
  BY OrderAgrees
<1> QED BY <1>1, <1>2, PTL

-----------------------------------------------------------------------------
(* Blackjack: two replicas, cards drawn jointly. *)

TableSpec == Init /\ [][Next]_vars

Hand == [n : Nat, sum : Nat, aces : Nat]
Share == Nat \cup {-1}
Blank == [p \in Party |-> -1]

Table ==
  [phase : {"round_over", "draw_commit", "draw_reveal", "player"}, round : Nat, drawCount : Nat,
   hand : [{"player", "dealer"} -> Hand],
   draw : [forHand : {"none", "player", "dealer"}, reason : {"none", "deal", "hit", "dealer_auto"}],
   commit : [Party -> Share], reveal : [Party -> Share], secret : [Party -> Share],
   bal : Purse, total : Nat, bet : Nat]

\* What two replicas share: everything but the secrets.
Same(s, t) ==
  /\ s.phase = t.phase /\ s.round = t.round /\ s.drawCount = t.drawCount /\ s.hand = t.hand /\ s.draw = t.draw
  /\ s.commit = t.commit /\ s.reveal = t.reveal /\ s.bal = t.bal /\ s.total = t.total /\ s.bet = t.bet

\* A round that was bet on when the balances were `o`, and is not settled.
Running(s, o) ==
  /\ s \in Table /\ s.bal = o /\ s.total = o.A + o.B
  /\ s.bet <= o.A /\ s.bet <= o.B

\* A table between two moves.
Sound(s, o) ==
  /\ s \in Table /\ s.total = s.bal.A + s.bal.B
  /\ s.phase = "round_over" => s.bal.A - o.A \in {0, s.bet, -s.bet}
  /\ s.phase # "round_over" => Running(s, o)
  /\ s.phase \in {"draw_commit", "draw_reveal"} => s.draw.forHand # "none" /\ s.draw.reason # "none"
  /\ s.phase = "draw_commit" => s.reveal = Blank /\ \E p \in Party : s.commit[p] = -1
  /\ s.phase = "draw_reveal" => (\A p \in Party : s.commit[p] # -1) /\ \E p \in Party : s.reveal[p] = -1

\* A table with no draw under way.
Cleared(s, o) == Sound(s, o) /\ s.commit = Blank /\ s.secret = Blank

TableInv ==
  /\ own \in Purse
  /\ st \in [Party -> Table]
  /\ Sound(st["A"], own)
  /\ Same(st["A"], st["B"])
  /\ \A p \in Party : st[p].secret = [q \in Party |-> IF q = p THEN st[p].commit[q] ELSE -1]

\* Clearing the pending draw forgets the only difference between two replicas: noPending.
LEMMA ClearedAlike ==
  ASSUME NEW s \in Table, NEW t \in Table, Same(s, t)
  PROVE  NoPending(s) = NoPending(t)
  BY Zenon DEF NoPending, Party, Same, Table

\* What noPending returns.
LEMMA NothingPending ==
  ASSUME NEW s \in Table
  PROVE  LET r == NoPending(s)
         IN  /\ r \in Table /\ r = [s EXCEPT !.commit = Blank, !.reveal = Blank, !.secret = Blank]
             /\ r.commit = Blank /\ r.reveal = Blank /\ r.secret = Blank
             /\ r.phase = s.phase /\ r.round = s.round /\ r.hand = s.hand /\ r.draw = s.draw
             /\ r.bal = s.bal /\ r.total = s.total /\ r.bet = s.bet
<1>1. Blank \in [Party -> Share]
  BY DEF Blank, Share
<1>2. PICK r : r = [s EXCEPT !.commit = Blank, !.reveal = Blank, !.secret = Blank]
  OBVIOUS
<1>3. NoPending(s) = r
  BY <1>2 DEF NoPending, Party, Unset, Blank
<1>4. /\ r \in Table
      /\ r.commit = Blank /\ r.reveal = Blank /\ r.secret = Blank
      /\ r.phase = s.phase /\ r.round = s.round /\ r.hand = s.hand /\ r.draw = s.draw
      /\ r.bal = s.bal /\ r.total = s.total /\ r.bet = s.bet
  BY <1>1, <1>2, Zenon DEF Table
<1> QED BY <1>2, <1>3, <1>4

\* A draw opens with two commitments due: beginDraw.
LEMMA DrawOpens ==
  ASSUME NEW o \in Purse, NEW s, Running(s, o),
         NEW hand \in {"player", "dealer"}, NEW reason \in {"deal", "hit", "dealer_auto"}
  PROVE  Cleared(beginDraw(s, hand, reason), o)
<1>1. PICK n : n = NoPending(s)
  OBVIOUS
<1>2. /\ n \in Table /\ n.commit = Blank /\ n.reveal = Blank /\ n.secret = Blank
      /\ n.bal = s.bal /\ n.total = s.total /\ n.bet = s.bet
  BY <1>1, NothingPending, Zenon DEF Running
<1>3. PICK d \in [forHand : {"none", "player", "dealer"}, reason : {"none", "deal", "hit", "dealer_auto"}] :
        d = [forHand |-> hand, reason |-> reason]
  BY Zenon
<1>4. PICK r : r = [n EXCEPT !.phase = "draw_commit", !.draw = d]
  OBVIOUS
<1>5. beginDraw(s, hand, reason) = r
  BY <1>1, <1>3, <1>4 DEF beginDraw
<1>6. /\ r \in Table /\ r.phase = "draw_commit" /\ r.draw = d /\ r.commit = Blank /\ r.reveal = Blank
      /\ r.secret = Blank /\ r.bal = s.bal /\ r.total = s.total /\ r.bet = s.bet
  BY <1>2, <1>4, Zenon DEF Table
<1>7. d.forHand # "none" /\ d.reason # "none" /\ Blank["A"] = -1 /\ "A" \in Party
  BY <1>3 DEF Blank, Party
<1>8. Running(r, o)
  BY <1>6 DEF Running
<1> QED BY <1>5, <1>6, <1>7, <1>8 DEF Cleared, Sound, Running

\* A settled round moves the bet whole, or nothing: settle.
LEMMA SettleMovesTheBet ==
  ASSUME NEW o \in Purse, NEW s, Running(s, o), NEW w \in {"push"} \cup Party
  PROVE  Cleared(settle(s, w), o)
<1>1. PICK n : n = NoPending(s)
  OBVIOUS
<1>2. /\ n \in Table /\ n.commit = Blank /\ n.reveal = Blank /\ n.secret = Blank
      /\ n.bal = s.bal /\ n.total = s.total /\ n.bet = s.bet
  BY <1>1, NothingPending, Zenon DEF Running
<1>3. o.A \in Nat /\ o.B \in Nat /\ s.bet \in Nat /\ s.bal = o /\ s.bet <= o.A /\ s.bet <= o.B /\ s.total = o.A + o.B
  BY DEF Running, Table, Purse, Party
<1>4. PICK b \in Purse : /\ b = IF w = "push" THEN s.bal ELSE shiftStake(s.bal, w, s.bet)
                         /\ b.A + b.B = o.A + o.B
                         /\ b.A - o.A \in {0, s.bet, -s.bet}
  <2>1. CASE w = "push"
    BY <2>1, <1>3
  <2>2. CASE w = "A"
    <3>1. Lesser(s.bet, o["B"]) = s.bet
      BY <1>3 DEF Lesser
    <3>2. PICK b : b = [o EXCEPT !["A"] = @ + s.bet, !["B"] = @ - s.bet]
      BY Zenon
    <3>3. shiftStake(s.bal, w, s.bet) = b
      BY <2>2, <3>1, <3>2, <1>3, Zenon DEF shiftStake, otherParty
    <3>4. b \in Purse /\ b["A"] = o["A"] + s.bet /\ b["B"] = o["B"] - s.bet
      BY <3>2, <1>3 DEF Purse, Party
    <3>5. b.A + b.B = o.A + o.B /\ b.A - o.A \in {0, s.bet, -s.bet}
      BY <3>4, <1>3
    <3> QED BY <2>2, <3>3, <3>4, <3>5
  <2>3. CASE w = "B"
    <3>1. Lesser(s.bet, o["A"]) = s.bet
      BY <1>3 DEF Lesser
    <3>2. PICK b : b = [o EXCEPT !["B"] = @ + s.bet, !["A"] = @ - s.bet]
      BY Zenon
    <3>3. shiftStake(s.bal, w, s.bet) = b
      BY <2>3, <3>1, <3>2, <1>3, Zenon DEF shiftStake, otherParty
    <3>4. b \in Purse /\ b["A"] = o["A"] - s.bet /\ b["B"] = o["B"] + s.bet
      BY <3>2, <1>3 DEF Purse, Party
    <3>5. b.A + b.B = o.A + o.B /\ b.A - o.A \in {0, s.bet, -s.bet}
      BY <3>4, <1>3
    <3> QED BY <2>3, <3>3, <3>4, <3>5
  <2> QED BY <2>1, <2>2, <2>3 DEF Party
<1>5. PICK d \in [forHand : {"none", "player", "dealer"}, reason : {"none", "deal", "hit", "dealer_auto"}] : d = NoDraw
  BY Zenon DEF NoDraw
<1>6. PICK r : r = [n EXCEPT !.phase = "round_over", !.draw = d, !.bal = b]
  OBVIOUS
<1>7. settle(s, w) = r
  BY <1>1, <1>2, <1>4, <1>5, <1>6 DEF settle, Table
<1>8. /\ r \in Table /\ r.phase = "round_over" /\ r.commit = Blank /\ r.secret = Blank
      /\ r.bal = b /\ r.total = s.total /\ r.bet = s.bet
  BY <1>2, <1>6, Zenon DEF Table
<1> QED BY <1>3, <1>4, <1>7, <1>8 DEF Cleared, Sound

\* The seat that plays a round, and the one that deals it: playerPartyFor, dealerPartyFor.
LEMMA Seated ==
  ASSUME NEW round
  PROVE  playerPartyFor(round) \in Party /\ dealerPartyFor(round) \in Party
  BY DEF playerPartyFor, dealerPartyFor, getPlayerParty, otherParty, Party

\* Comparing the hands settles the round: resolveShowdown.
LEMMA ShowdownSettles ==
  ASSUME NEW o \in Purse, NEW s, Running(s, o)
  PROVE  Cleared(resolveShowdown(s), o)
<1>1. PICK w \in {"push"} \cup Party : resolveShowdown(s) = settle(s, w)
  <2>1. playerPartyFor(s.round) \in Party /\ dealerPartyFor(s.round) \in Party
    BY Seated
  <2> QED BY <2>1, Zenon DEF resolveShowdown
<1> QED BY <1>1, SettleMovesTheBet

\* A player who stands leaves a showdown or a dealer who draws: Stand.
LEMMA StandGoesOn ==
  ASSUME NEW o \in Purse, NEW s, Running(s, o)
  PROVE  Cleared(Stand(s), o)
<1>1. CASE handValue(s.hand.dealer) >= DEALER_STANDS_AT
  BY <1>1, ShowdownSettles, Zenon DEF Stand
<1>2. CASE ~(handValue(s.hand.dealer) >= DEALER_STANDS_AT)
  <2>1. Stand(s) = beginDraw(s, "dealer", "dealer_auto")
    BY <1>2, Zenon DEF Stand
  <2> QED BY <2>1, DrawOpens
<1> QED BY <1>1, <1>2

\* A drawn card lands in its hand; the round goes on or is settled: afterDraw.
LEMMA CardLands ==
  ASSUME NEW o \in Purse, NEW s, Running(s, o), NEW rank \in 1..13,
         s.draw.forHand # "none", s.draw.reason # "none"
  PROVE  Cleared(afterDraw(s, rank), o)
<1>1. PICK n : n = NoPending(s)
  OBVIOUS
<1>2. /\ n \in Table /\ n.commit = Blank /\ n.reveal = Blank /\ n.secret = Blank /\ n.draw = s.draw
      /\ n.bal = s.bal /\ n.total = s.total /\ n.bet = s.bet
  BY <1>1, NothingPending, Zenon DEF Running
<1>3. PICK h \in {"player", "dealer"} : h = s.draw.forHand
  BY DEF Running, Table
<1>4. PICK c \in Hand : c = Draw(n.hand[h], rankValue(rank))
  <2>1. n.hand[h] \in Hand
    BY <1>2 DEF Table
  <2>2. rankValue(rank) \in Nat
    BY DEF rankValue
  <2>3. PICK g \in Hand, v \in Nat : g = n.hand[h] /\ v = rankValue(rank)
    BY <2>1, <2>2
  <2>4. PICK k \in Nat : k = g.aces + (IF v = 11 THEN 1 ELSE 0)
    BY DEF Hand
  <2>5. Draw(g, v) = [n |-> g.n + 1, sum |-> g.sum + v, aces |-> k]
    BY <2>4 DEF Draw
  <2>6. Draw(g, v) \in Hand
    BY <2>5 DEF Hand
  <2> QED BY <2>3, <2>6
<1>5. PICK hs \in [{"player", "dealer"} -> Hand] : hs = [n.hand EXCEPT ![h] = c]
  BY <1>2, Zenon DEF Table
<1>6. PICK d \in [forHand : {"none", "player", "dealer"}, reason : {"none", "deal", "hit", "dealer_auto"}] : d = NoDraw
  BY Zenon DEF NoDraw
<1>7. PICK k \in Nat : k = n.drawCount + 1
  BY <1>2 DEF Table
<1>8. PICK base : base = [n EXCEPT !.hand = hs, !.drawCount = k, !.draw = d]
  OBVIOUS
<1>9. base = [n EXCEPT !.hand[s.draw.forHand] = Draw(@, rankValue(rank)),
                       !.drawCount = @ + 1, !.draw = NoDraw]
  BY <1>2, <1>3, <1>4, <1>5, <1>6, <1>7, <1>8 DEF Table
<1>10. /\ base \in Table /\ base.commit = Blank /\ base.reveal = Blank /\ base.secret = Blank
       /\ base.bal = s.bal /\ base.total = s.total /\ base.bet = s.bet
  BY <1>2, <1>8, Zenon DEF Table
<1>11. Running(base, o)
  BY <1>10 DEF Running
<1>12. PICK turn : turn = [base EXCEPT !.phase = "player"]
  BY Zenon
<1>13. Cleared(turn, o)
  <2>1. /\ turn \in Table /\ turn.phase = "player" /\ turn.commit = Blank /\ turn.secret = Blank
        /\ turn.bal = s.bal /\ turn.total = s.total /\ turn.bet = s.bet
    BY <1>10, <1>12 DEF Table
  <2> QED BY <2>1 DEF Cleared, Sound, Running
<1>14. PICK r : r = afterDraw(s, rank)
  OBVIOUS
<1>15. \/ \E hand \in {"player", "dealer"}, reason \in {"deal", "hit", "dealer_auto"} : r = beginDraw(base, hand, reason)
       \/ r = turn
       \/ r = settle(base, dealerPartyFor(base.round))
       \/ r = resolveShowdown(base)
  <2>1. s.draw.reason \in {"deal", "hit", "dealer_auto"}
    BY DEF Running, Table
  <2>2. CASE s.draw.reason = "deal"
    <3>1. r = IF base.hand.player.n < 2 THEN beginDraw(base, "player", "deal")
              ELSE IF base.hand.dealer.n < 2 THEN beginDraw(base, "dealer", "deal") ELSE turn
      BY <2>2, <1>1, <1>9, <1>12, <1>14 DEF afterDraw
    <3> QED BY <3>1, Zenon
  <2>3. CASE s.draw.reason = "hit"
    <3>1. r = IF isBust(base.hand.player) THEN settle(base, dealerPartyFor(base.round)) ELSE turn
      BY <2>3, <1>1, <1>9, <1>12, <1>14 DEF afterDraw
    <3> QED BY <3>1, Zenon
  <2>4. CASE s.draw.reason = "dealer_auto"
    <3>1. r = IF handValue(base.hand.dealer) < DEALER_STANDS_AT
              THEN beginDraw(base, "dealer", "dealer_auto") ELSE resolveShowdown(base)
      BY <2>4, <1>1, <1>9, <1>12, <1>14 DEF afterDraw
    <3> QED BY <3>1, Zenon
  <2> QED BY <2>1, <2>2, <2>3, <2>4
<1>16. dealerPartyFor(base.round) \in Party
  BY Seated
<1>17. CASE \E hand \in {"player", "dealer"}, reason \in {"deal", "hit", "dealer_auto"} : r = beginDraw(base, hand, reason)
  BY <1>11, <1>14, <1>17, DrawOpens
<1>18. CASE r = settle(base, dealerPartyFor(base.round))
  BY <1>11, <1>14, <1>16, <1>18, SettleMovesTheBet
<1>19. CASE r = resolveShowdown(base)
  BY <1>11, <1>14, <1>19, ShowdownSettles
<1> QED BY <1>13, <1>14, <1>15, <1>17, <1>18, <1>19, Zenon

\* Two replicas that differ in their secrets only take a drawn card alike: afterDraw.
LEMMA CardLandsAlike ==
  ASSUME NEW s \in Table, NEW t \in Table, Same(s, t), NEW rank
  PROVE  afterDraw(s, rank) = afterDraw(t, rank)
<1>1. NoPending(s) = NoPending(t) /\ s.draw = t.draw
  BY ClearedAlike DEF Same
<1> DEFINE Landed(n, d) ==
      LET base == [n EXCEPT !.hand[d.forHand] = Draw(@, rankValue(rank)),
                            !.drawCount = @ + 1, !.draw = NoDraw]
          turn == [base EXCEPT !.phase = "player"]
      IN  CASE d.reason = "deal" ->
                 (IF base.hand.player.n < 2 THEN beginDraw(base, "player", "deal")
                  ELSE IF base.hand.dealer.n < 2 THEN beginDraw(base, "dealer", "deal")
                  ELSE turn)
            [] d.reason = "hit" ->
                 (IF isBust(base.hand.player) THEN settle(base, dealerPartyFor(base.round))
                  ELSE turn)
            [] d.reason = "dealer_auto" ->
                 (IF handValue(base.hand.dealer) < DEALER_STANDS_AT
                  THEN beginDraw(base, "dealer", "dealer_auto")
                  ELSE resolveShowdown(base))
<1>2. afterDraw(s, rank) = Landed(NoPending(s), s.draw)
  BY Zenon DEF afterDraw
<1>3. afterDraw(t, rank) = Landed(NoPending(t), t.draw)
  BY Zenon DEF afterDraw
<1> HIDE DEF Landed
<1> QED BY <1>1, <1>2, <1>3

\* A table no draw is open on is the next table of both seats.
LEMMA BothCleared ==
  ASSUME NEW o \in Purse, NEW r, Cleared(r, o), own' = o, st' = [p \in Party |-> r]
  PROVE  TableInv'
<1>1. r \in Table
  BY DEF Cleared, Sound
<1>2. st'["A"] = r /\ st'["B"] = r /\ \A p \in Party : st'[p] = r
  BY DEF Party
<1>3. Same(r, r)
  BY DEF Same
<1>4. \A p \in Party : r.secret = [q \in Party |-> IF q = p THEN r.commit[q] ELSE -1]
  BY DEF Cleared, Blank
<1>5. Sound(r, o)
  BY DEF Cleared
<1> QED BY <1>1, <1>2, <1>3, <1>4, <1>5 DEF TableInv

\* Both seats start from the same table.
LEMMA InitTable ==
  ASSUME Stakes \subseteq Nat \X Nat, Init
  PROVE  TableInv
<1>1. PICK a \in Stakes : st = [p \in Party |-> initialState(a[1], a[2])] /\ own = st.A.bal
  BY DEF Init
<1>2. a[1] \in Nat /\ a[2] \in Nat
  BY <1>1
<1>3. PICK b \in Purse : b = [A |-> a[1], B |-> a[2]]
  <2>1. [A |-> a[1], B |-> a[2]] \in Purse
    BY <1>2 DEF Purse, Party
  <2> QED BY <2>1
<1>4. PICK hs \in [{"player", "dealer"} -> Hand] : hs = [player |-> Empty, dealer |-> Empty]
  <2>1. Empty \in Hand
    BY DEF Hand, Empty
  <2>2. [player |-> Empty, dealer |-> Empty] \in [{"player", "dealer"} -> Hand]
    BY <2>1
  <2> QED BY <2>2
<1>5. PICK d \in [forHand : {"none", "player", "dealer"}, reason : {"none", "deal", "hit", "dealer_auto"}] : d = NoDraw
  BY Zenon DEF NoDraw
<1>6. PICK r : r = initialState(a[1], a[2])
  OBVIOUS
<1>7. r = [phase |-> "round_over", round |-> 0, drawCount |-> 0, hand |-> hs, draw |-> d,
           commit |-> Blank, reveal |-> Blank, secret |-> Blank, bal |-> b, total |-> a[1] + a[2], bet |-> 0]
  BY <1>3, <1>4, <1>5, <1>6 DEF initialState, Party, Unset, Blank
<1>8. Blank \in [Party -> Share]
  BY DEF Blank, Share
<1>9. r \in Table
  BY <1>2, <1>7, <1>8 DEF Table
<1>10. /\ r.phase = "round_over" /\ r.commit = Blank /\ r.secret = Blank /\ r.bal = b /\ r.bet = 0
       /\ r.total = b.A + b.B /\ b.A \in Nat
  BY <1>2, <1>3, <1>7
<1>11. own = b /\ st["A"] = r /\ st["B"] = r /\ \A p \in Party : st[p] = r
  BY <1>1, <1>6, <1>10 DEF Party
<1>12. Sound(r, b)
  BY <1>9, <1>10 DEF Sound
<1>13. Same(r, r) /\ \A p \in Party : r.secret = [q \in Party |-> IF q = p THEN r.commit[q] ELSE -1]
  BY <1>10 DEF Same, Blank
<1>14. st \in [Party -> Table]
  BY <1>1, <1>6, <1>9 DEF Party
<1>15. \A p \in Party : st[p].secret = [q \in Party |-> IF q = p THEN st[p].commit[q] ELSE -1]
  <2> SUFFICES ASSUME NEW p \in Party
               PROVE  st[p].secret = [q \in Party |-> IF q = p THEN st[p].commit[q] ELSE -1]
    BY Zenon
  <2>1. r.secret = [q \in Party |-> IF q = p THEN r.commit[q] ELSE -1]
    BY <1>13, Zenon
  <2>2. st[p] = r
    BY <1>11
  <2> QED BY <2>1, <2>2
<1>16. own \in Purse /\ Sound(st["A"], own) /\ Same(st["A"], st["B"])
  BY <1>3, <1>11, <1>12, <1>13, Zenon
<1> QED BY <1>14, <1>15, <1>16, Zenon DEF TableInv

\* A move both replicas take alike gives one table.
LEMMA TakenAlike ==
  ASSUME TableInv, NEW by \in Party, NEW m, Play(by, m), m.kind # "commit",
         Apply(st["A"], m, by) = Apply(st["B"], m, by)
  PROVE  st' = [p \in Party |-> Apply(st["A"], m, by)]
<1>1. moveCodec(m) = m
  BY DEF moveCodec
<1>2. \A p \in Party : Apply(st[p], IF p = by THEN m ELSE moveCodec(m), by) = Apply(st["A"], m, by)
  BY <1>1, Zenon DEF Party
<1>3. st' = [p \in Party |-> Apply(st[p], IF p = by THEN m ELSE moveCodec(m), by)]
  BY DEF Play, Party
<1> QED BY <1>2, <1>3, Zenon

\* A bet the smaller balance covers opens a round: beginRound.
LEMMA BetTable ==
  ASSUME TableInv, NEW by \in Party, Bet(by)
  PROVE  TableInv'
<1>1. PICK m, amount : m = [kind |-> "bet", amount |-> amount] /\ Play(by, m)
  BY DEF Bet
<1>2. m.kind = "bet" /\ m.amount = amount
  BY <1>1
<1>3. st["A"] \in Table /\ st["B"] \in Table /\ st[by] \in Table /\ Same(st["A"], st["B"]) /\ Same(st["A"], st[by])
  BY DEF TableInv, Same, Party
<1>4. st[by].phase = "round_over" /\ amount \in 1..maxBet(st[by])
  <2>1. Legal(st[by], m, by)
    BY <1>1 DEF Play
  <2>2. st[by].phase \in {"round_over", "draw_commit", "draw_reveal", "player"}
    BY <1>3 DEF Table
  <2> QED BY <1>2, <2>1, <2>2, Zenon DEF Legal, MIN_BET
<1>5. PICK s : s = st["A"]
  OBVIOUS
<1>6. /\ s \in Table /\ s.bal \in Purse /\ s.total = s.bal.A + s.bal.B
      /\ amount \in Nat /\ amount <= s.bal.A /\ amount <= s.bal.B
  <2>1. s \in Table /\ s.bal \in Purse /\ s.total = s.bal.A + s.bal.B /\ st[by].bal = s.bal
    BY <1>3, <1>5, Zenon DEF TableInv, Sound, Table, Same
  <2>2. s.bal.A \in Nat /\ s.bal.B \in Nat
    BY <2>1 DEF Purse, Party
  <2> QED BY <1>4, <2>1, <2>2 DEF maxBet, Lesser
<1>7. PICK hs \in [{"player", "dealer"} -> Hand] : hs = [player |-> Empty, dealer |-> Empty]
  <2>1. Empty \in Hand
    BY DEF Hand, Empty
  <2>2. [player |-> Empty, dealer |-> Empty] \in [{"player", "dealer"} -> Hand]
    BY <2>1
  <2> QED BY <2>2
<1>k. PICK k \in Nat : k = s.round + 1
  BY <1>6 DEF Table
<1>8. PICK t : t = [s EXCEPT !.bet = amount, !.round = k, !.drawCount = 0, !.hand = hs]
  OBVIOUS
<1>9. /\ t \in Table /\ t.bal = s.bal /\ t.total = s.total /\ t.bet = amount
      /\ t.phase = s.phase /\ t.round = k /\ t.drawCount = 0 /\ t.hand = hs /\ t.draw = s.draw
      /\ t.commit = s.commit /\ t.reveal = s.reveal
  BY <1>6, <1>8, Zenon DEF Table
<1>10. Running(t, s.bal)
  BY <1>6, <1>9 DEF Running
<1>11. Apply(s, m, by) = beginDraw(t, "player", "deal")
  <2>1. t = [[s EXCEPT !.bet = amount] EXCEPT !.round = @ + 1, !.drawCount = 0,
                 !.hand = [player |-> Empty, dealer |-> Empty]]
    BY <1>6, <1>7, <1>k, <1>8 DEF Table
  <2> QED BY <1>2, <2>1 DEF Apply, beginRound
<1>12. Apply(st["B"], m, by) = beginDraw(t, "player", "deal")
  <2>1. PICK u : u = [st["B"] EXCEPT !.bet = amount, !.round = k, !.drawCount = 0, !.hand = hs]
    OBVIOUS
  <2>2. u \in Table /\ Same(t, u)
    <3>1. /\ u \in Table /\ u.bal = st["B"].bal /\ u.total = st["B"].total /\ u.bet = amount
          /\ u.phase = st["B"].phase /\ u.round = k /\ u.drawCount = 0 /\ u.hand = hs /\ u.draw = st["B"].draw
          /\ u.commit = st["B"].commit /\ u.reveal = st["B"].reveal
      BY <1>3, <1>6, <2>1, Zenon DEF Table
    <3> QED BY <1>3, <1>5, <1>9, <3>1, Zenon DEF Same
  <2>3. NoPending(t) = NoPending(u)
    BY <1>9, <2>2, ClearedAlike
  <2>4. Apply(st["B"], m, by) = beginDraw(u, "player", "deal")
    <3>1. u = [[st["B"] EXCEPT !.bet = amount] EXCEPT !.round = @ + 1, !.drawCount = 0,
                   !.hand = [player |-> Empty, dealer |-> Empty]]
      BY <1>3, <1>5, <1>7, <1>k, <2>1, Zenon DEF Table, Same
    <3> QED BY <1>2, <3>1 DEF Apply, beginRound
  <2> QED BY <2>3, <2>4, Zenon DEF beginDraw
<1>13. Cleared(Apply(s, m, by), s.bal)
  BY <1>6, <1>10, <1>11, DrawOpens
<1>14. own' = s.bal
  BY <1>1, <1>2, <1>5 DEF Play
<1>15. st' = [p \in Party |-> Apply(s, m, by)]
  BY <1>1, <1>2, <1>5, <1>11, <1>12, TakenAlike
<1> QED BY <1>6, <1>13, <1>14, <1>15, BothCleared

\* What the table becomes on seat p's replica when the commitments are cs.
Noted(r, p, cs) ==
  /\ r \in Table /\ Sound(r, own)
  /\ r.phase = IF \A q \in Party : cs[q] # -1 THEN "draw_reveal" ELSE "draw_commit"
  /\ r.commit = cs /\ r.round = st["A"].round /\ r.drawCount = st["A"].drawCount /\ r.hand = st["A"].hand
  /\ r.draw = st["A"].draw /\ r.reveal = st["A"].reveal /\ r.bal = st["A"].bal
  /\ r.total = st["A"].total /\ r.bet = st["A"].bet
  /\ r.secret = [q \in Party |-> IF q = p THEN cs[q] ELSE -1]

\* One seat's commitment on one replica; only its own replica keeps the secret: applyCommit.
LEMMA CommitOne ==
  ASSUME TableInv, NEW by \in Party, NEW p \in Party, NEW v \in Nat, NEW m,
         m.share = v, m.localSecret = IF p = by THEN v ELSE -1,
         st["A"].phase = "draw_commit", st["A"].commit[by] = -1,
         NEW r, r = applyCommit(st[p], m, by), NEW cs, cs = [st["A"].commit EXCEPT ![by] = v]
  PROVE  Noted(r, p, cs)
<1>1. PICK a, s : a = st["A"] /\ s = st[p]
  OBVIOUS
<1>2. a \in Table /\ s \in Table /\ Same(a, s) /\ Sound(a, own) /\ own \in Purse
  BY <1>1, Zenon DEF TableInv, Same, Party
<1>3. PICK ks \in [Party -> Share] : ks = cs /\ ks = [a.commit EXCEPT ![by] = v]
  BY <1>1, <1>2 DEF Table, Share
<1>4. s.secret = [q \in Party |-> IF q = p THEN a.commit[q] ELSE -1] /\ s.commit = a.commit /\ s.phase = "draw_commit"
  <2>1. s.secret = [q \in Party |-> IF q = p THEN s.commit[q] ELSE -1]
    BY <1>1, Zenon DEF TableInv
  <2>2. s.commit = a.commit /\ s.phase = "draw_commit"
    BY <1>1, <1>2 DEF Same
  <2> QED BY <2>1, <2>2
<1>5. PICK ss \in [Party -> Share] : ss = [q \in Party |-> IF q = p THEN ks[q] ELSE -1]
  BY Zenon DEF Share
<1>6. ss = [s.secret EXCEPT ![by] = m.localSecret]
  <2>1. a.commit \in [Party -> Share]
    BY <1>2 DEF Table
  <2>2. CASE p = by
    <3>1. m.localSecret = v /\ \A q \in Party : q # p => ss[q] = -1 /\ s.secret[q] = -1
      BY <2>2, <1>4, <1>5
    <3>2. ss[by] = v
      BY <2>1, <2>2, <1>3, <1>5
    <3> QED BY <2>2, <3>1, <3>2, <1>4, <1>5, Zenon
  <2>3. CASE p # by
    <3>1. m.localSecret = -1 /\ ss[by] = -1 /\ ss[p] = a.commit[p] /\ s.secret[p] = a.commit[p]
      BY <2>1, <2>3, <1>3, <1>4, <1>5
    <3>2. \A q \in Party : q # by => q = p
      BY <2>3 DEF Party
    <3> QED BY <2>3, <3>1, <3>2, <1>4, <1>5, Zenon
  <2> QED BY <2>2, <2>3
<1>7. PICK next : next = [s EXCEPT !.commit = ks, !.secret = ss]
  OBVIOUS
<1>8. next = [s EXCEPT !.commit[by] = m.share, !.secret[by] = m.localSecret]
  BY <1>2, <1>3, <1>4, <1>6, <1>7, Zenon DEF Table
<1>9. /\ next \in Table /\ next.commit = ks /\ next.secret = ss /\ next.phase = "draw_commit"
      /\ next.round = a.round /\ next.drawCount = a.drawCount /\ next.hand = a.hand /\ next.draw = a.draw
      /\ next.reveal = a.reveal /\ next.bal = a.bal /\ next.total = a.total /\ next.bet = a.bet
  BY <1>2, <1>4, <1>7, Zenon DEF Table, Same
<1>10. PICK ph \in {"draw_commit", "draw_reveal"} : ph = IF \A q \in Party : ks[q] # -1 THEN "draw_reveal" ELSE "draw_commit"
  OBVIOUS
<1>11. PICK z : z = [next EXCEPT !.phase = ph]
  BY Zenon
<1>12. r = z
  <2>1. applyCommit(s, m, by) = IF \A q \in Party : next.commit[q] # -1
                                   THEN [next EXCEPT !.phase = "draw_reveal"] ELSE next
    BY <1>8 DEF applyCommit, Party, Unset
  <2>2. next = [next EXCEPT !.phase = "draw_commit"]
    BY <1>9 DEF Table
  <2> QED BY <1>1, <1>9, <1>10, <1>11, <2>1, <2>2
<1>13. /\ r \in Table /\ r.commit = ks /\ r.secret = ss /\ r.phase = ph
       /\ r.round = a.round /\ r.drawCount = a.drawCount /\ r.hand = a.hand /\ r.draw = a.draw
       /\ r.reveal = a.reveal /\ r.bal = a.bal /\ r.total = a.total /\ r.bet = a.bet
  BY <1>9, <1>11, <1>12 DEF Table
<1>14. Sound(r, own)
  <2>1. /\ Running(a, own) /\ a.draw.forHand # "none" /\ a.draw.reason # "none" /\ a.reveal = Blank
    BY <1>1, <1>2 DEF Sound
  <2>2. Running(r, own)
    BY <2>1, <1>13 DEF Running
  <2>3. Blank["A"] = -1 /\ "A" \in Party
    BY DEF Blank, Party
  <2> QED BY <1>10, <1>13, <2>1, <2>2, <2>3 DEF Sound, Running
<1> QED BY <1>1, <1>3, <1>5, <1>10, <1>13, <1>14 DEF Noted

\* Commitments come in any order, and the replicas still agree.
LEMMA CommitTable ==
  ASSUME \A p \in Party : Shares[p] \subseteq Nat, TableInv, NEW by \in Party, Commit(by)
  PROVE  TableInv'
<1>1. PICK v, m : v \in Nat /\ m = [kind |-> "commit", share |-> v, localSecret |-> v] /\ Play(by, m)
  BY DEF Commit
<1>2. PICK w : w = moveCodec(m)
  OBVIOUS
<1>3. /\ m.kind = "commit" /\ m.share = v /\ m.localSecret = v
      /\ w.kind = "commit" /\ w.share = v /\ w.localSecret = -1
  BY <1>1, <1>2 DEF moveCodec, Unset
<1>4. st["A"].phase = "draw_commit" /\ st["A"].commit[by] = -1
  <2>1. Legal(st[by], m, by)
    BY <1>1 DEF Play
  <2>2. st[by].phase \in {"round_over", "draw_commit", "draw_reveal", "player"}
    BY Zenon DEF TableInv, Table
  <2>3. st[by].phase = "draw_commit" /\ st[by].commit[by] = -1
    BY <1>3, <2>1, <2>2, Zenon DEF Legal, Unset
  <2>4. st[by].phase = st["A"].phase /\ st[by].commit = st["A"].commit
    BY DEF TableInv, Same, Party
  <2> QED BY <2>3, <2>4
<1>5. own' = own /\ own \in Purse
  BY <1>1, <1>3 DEF Play, TableInv
<1>6. ASSUME NEW p \in Party
      PROVE  st'[p] = applyCommit(st[p], IF p = by THEN m ELSE w, by)
  <2>1. st'[p] = Apply(st[p], IF p = by THEN m ELSE w, by)
    BY <1>1, <1>2 DEF Play, Party
  <2>2. CASE p = by
    BY <2>1, <2>2, <1>3 DEF Apply
  <2>3. CASE p # by
    BY <2>1, <2>3, <1>3 DEF Apply
  <2> QED BY <2>2, <2>3
<1>7. PICK cs : cs = [st["A"].commit EXCEPT ![by] = v]
  BY Zenon
<1>8. ASSUME NEW p \in Party
      PROVE  /\ st'[p] \in Table /\ Sound(st'[p], own)
             /\ st'[p].phase = IF \A q \in Party : cs[q] # -1 THEN "draw_reveal" ELSE "draw_commit"
             /\ st'[p].commit = cs /\ st'[p].round = st["A"].round /\ st'[p].drawCount = st["A"].drawCount
             /\ st'[p].hand = st["A"].hand
             /\ st'[p].draw = st["A"].draw /\ st'[p].reveal = st["A"].reveal /\ st'[p].bal = st["A"].bal
             /\ st'[p].total = st["A"].total /\ st'[p].bet = st["A"].bet
             /\ st'[p].secret = [q \in Party |-> IF q = p THEN cs[q] ELSE -1]
  <2>1. PICK x : x = IF p = by THEN m ELSE w
    OBVIOUS
  <2>2. x.share = v /\ x.localSecret = IF p = by THEN v ELSE -1
    BY <1>3, <2>1
  <2>3. PICK r : r = applyCommit(st[p], x, by)
    OBVIOUS
  <2>4. Noted(r, p, cs)
    BY <1>1, <1>4, <1>7, <2>2, <2>3, CommitOne
  <2>5. st'[p] = r
    BY <1>6, <2>1, <2>3, Zenon
  <2> QED BY <2>4, <2>5, Zenon DEF Noted
<1>9. st' \in [Party -> Table]
  <2>1. st' = [p \in Party |-> Apply(st[p], IF p = by THEN m ELSE w, by)]
    BY <1>1, <1>2 DEF Play, Party
  <2> QED BY <1>8, <2>1, Zenon
<1>10. Same(st'["A"], st'["B"])
  BY <1>8 DEF Same, Party
<1>11. \A p \in Party : st'[p].secret = [q \in Party |-> IF q = p THEN st'[p].commit[q] ELSE -1]
  <2>1. \A p \in Party : st'[p].secret = [q \in Party |-> IF q = p THEN cs[q] ELSE -1] /\ st'[p].commit = cs
    BY <1>8, Zenon
  <2> QED BY <2>1, Zenon
<1>12. Sound(st'["A"], own)
  BY <1>8 DEF Party
<1> QED BY <1>5, <1>9, <1>10, <1>11, <1>12 DEF TableInv

\* A reveal must match the commitment; the second one draws the card: applyReveal.
LEMMA RevealTable ==
  ASSUME TableInv, NEW by \in Party, Reveal(by)
  PROVE  TableInv'
<1>1. PICK v, m : v = st[by].secret[by] /\ m = [kind |-> "reveal", share |-> v] /\ Play(by, m)
  BY DEF Reveal
<1>2. m.kind = "reveal" /\ m.share = v /\ m.kind # "commit" /\ m.kind # "bet" /\ moveCodec(m) = m
  BY <1>1 DEF moveCodec
<1>3. PICK a, b : a = st["A"] /\ b = st["B"]
  OBVIOUS
<1>4. a \in Table /\ b \in Table /\ Same(a, b) /\ Sound(a, own) /\ own \in Purse /\ own' = own
  BY <1>1, <1>2, <1>3 DEF TableInv, Play, Party
<1>5. a.phase = "draw_reveal" /\ a.reveal[by] = -1 /\ v = a.commit[by] /\ v \in Nat
  <2>1. Legal(st[by], m, by)
    BY <1>1 DEF Play
  <2>2. st[by].phase \in {"round_over", "draw_commit", "draw_reveal", "player"}
    BY Zenon DEF TableInv, Table
  <2>3. st[by].phase = "draw_reveal" /\ st[by].reveal[by] = -1 /\ st[by].commit[by] = v
    BY <1>2, <2>1, <2>2, Zenon DEF Legal, Unset
  <2>4. st[by].phase = a.phase /\ st[by].commit = a.commit /\ st[by].reveal = a.reveal
    BY <1>3 DEF TableInv, Same, Party
  <2>5. a.commit[by] \in Nat \cup {-1} /\ a.commit[by] # -1
    BY <1>4, <2>3, <2>4 DEF Sound, Table, Share
  <2> QED BY <2>3, <2>4, <2>5
<1>6. Running(a, own) /\ a.draw.forHand # "none" /\ a.draw.reason # "none" /\ \A p \in Party : a.commit[p] # -1
  BY <1>4, <1>5 DEF Sound
<1>7. PICK rs \in [Party -> Share] : rs = [a.reveal EXCEPT ![by] = v]
  BY <1>4, <1>5, Zenon DEF Table, Share
<1>8. PICK na, nb : na = [a EXCEPT !.reveal = rs] /\ nb = [b EXCEPT !.reveal = rs]
  BY Zenon
<1>9. na = [a EXCEPT !.reveal[by] = m.share] /\ nb = [b EXCEPT !.reveal[by] = m.share]
  BY <1>2, <1>4, <1>7, <1>8 DEF Table, Same
<1>10. /\ na \in Table /\ nb \in Table /\ na.reveal = rs /\ nb.reveal = rs /\ na.phase = "draw_reveal"
       /\ na.draw = a.draw /\ na.commit = a.commit /\ na.secret = a.secret /\ na.bal = a.bal /\ na.total = a.total /\ na.bet = a.bet
       /\ nb.commit = b.commit /\ nb.secret = b.secret
  BY <1>4, <1>5, <1>8 DEF Table
<1>11. Same(na, nb)
  BY <1>4, <1>8 DEF Same, Table
<1>12. Running(na, own)
  BY <1>6, <1>10 DEF Running
<1>13. PICK rank : rank = deriveRank(rs.A, rs.B)
  OBVIOUS
<1>14. /\ Apply(a, m, by) = IF \A p \in Party : rs[p] # -1 THEN afterDraw(na, rank) ELSE na
       /\ Apply(b, m, by) = IF \A p \in Party : rs[p] # -1 THEN afterDraw(nb, rank) ELSE nb
  <2>1. /\ Apply(a, m, by) = applyReveal(a, m, by)
        /\ Apply(b, m, by) = applyReveal(b, m, by)
    BY <1>2 DEF Apply
  <2> QED BY <2>1, <1>9, <1>10, <1>13, Zenon DEF applyReveal, Party, Unset
<1>15. CASE \A p \in Party : rs[p] # -1
  <2>1. Apply(a, m, by) = afterDraw(na, rank) /\ Apply(b, m, by) = Apply(a, m, by)
    BY <1>10, <1>11, <1>14, <1>15, CardLandsAlike
  <2>2. rank \in 1..13
    <3>1. rs["A"] \in Nat /\ rs["B"] \in Nat
      BY <1>7, <1>15 DEF Party, Share
    <3> QED BY <3>1, <1>13 DEF deriveRank
  <2>3. Cleared(afterDraw(na, rank), own)
    BY <1>4, <1>6, <1>10, <1>12, <2>2, CardLands
  <2>4. st' = [p \in Party |-> Apply(a, m, by)]
    BY <1>1, <1>2, <1>3, <2>1, TakenAlike
  <2> QED BY <1>4, <2>1, <2>3, <2>4, BothCleared
<1>16. CASE ~ \A p \in Party : rs[p] # -1
  <2>1. st' = [p \in Party |-> IF p = "A" THEN na ELSE nb]
    <3>1. st' = [p \in Party |-> Apply(st[p], IF p = by THEN m ELSE moveCodec(m), by)]
      BY <1>1 DEF Play, Party
    <3>2. \A p \in Party : Apply(st[p], IF p = by THEN m ELSE moveCodec(m), by) = IF p = "A" THEN na ELSE nb
      BY <1>2, <1>3, <1>14, <1>16, Zenon DEF Party
    <3> QED BY <3>1, <3>2, Zenon
  <2>2. st'["A"] = na /\ st'["B"] = nb /\ st' \in [Party -> Table]
    BY <1>10, <2>1 DEF Party
  <2>3. Sound(na, own)
    BY <1>6, <1>10, <1>12, <1>16 DEF Sound, Running
  <2>4. \A p \in Party : st'[p].secret = st[p].secret /\ st'[p].commit = st[p].commit
    BY <1>3, <1>10, <2>2 DEF Party
  <2>5. \A p \in Party : st'[p].secret = [q \in Party |-> IF q = p THEN st'[p].commit[q] ELSE -1]
    BY <2>4, Zenon DEF TableInv
  <2> QED BY <1>4, <1>11, <2>2, <2>3, <2>5 DEF TableInv
<1> QED BY <1>15, <1>16

\* The player draws again or stands: hit, stand.
LEMMA ChoiceTable ==
  ASSUME TableInv, NEW by \in Party, HitOrStand(by)
  PROVE  TableInv'
<1>1. PICK k, m : k \in {"hit", "stand"} /\ m = [kind |-> k] /\ Play(by, m)
  BY DEF HitOrStand
<1>2. m.kind = k /\ m.kind # "commit" /\ m.kind # "bet"
  BY <1>1
<1>3. PICK a, b : a = st["A"] /\ b = st["B"]
  OBVIOUS
<1>4. a \in Table /\ b \in Table /\ Same(a, b) /\ Sound(a, own) /\ own \in Purse /\ own' = own
  BY <1>1, <1>2, <1>3 DEF TableInv, Play, Party
<1>5. a.phase = "player"
  <2>1. Legal(st[by], m, by)
    BY <1>1 DEF Play
  <2>2. st[by].phase \in {"round_over", "draw_commit", "draw_reveal", "player"} /\ st[by].phase = a.phase
    BY <1>3 DEF TableInv, Table, Same, Party
  <2> QED BY <1>1, <1>2, <2>1, <2>2, Zenon DEF Legal
<1>6. Running(a, own)
  BY <1>4, <1>5 DEF Sound
<1>7. NoPending(a) = NoPending(b) /\ a.hand = b.hand /\ a.round = b.round /\ a.bet = b.bet
  BY <1>4, ClearedAlike DEF Same
<1>8. CASE k = "hit"
  <2>1. Apply(a, m, by) = beginDraw(a, "player", "hit") /\ Apply(b, m, by) = beginDraw(b, "player", "hit")
    BY <1>2, <1>8 DEF Apply
  <2>2. beginDraw(a, "player", "hit") = beginDraw(b, "player", "hit")
    BY <1>7, Zenon DEF beginDraw
  <2>3. st' = [p \in Party |-> Apply(a, m, by)]
    BY <1>1, <1>2, <1>3, <2>1, <2>2, TakenAlike
  <2>4. Cleared(Apply(a, m, by), own)
    BY <1>4, <1>6, <2>1, DrawOpens
  <2> QED BY <1>4, <2>3, <2>4, BothCleared
<1>9. CASE k = "stand"
  <2>1. Apply(a, m, by) = Stand(a) /\ Apply(b, m, by) = Stand(b)
    BY <1>2, <1>9 DEF Apply
  <2>2. Stand(a) = Stand(b)
    BY <1>7, Zenon DEF Stand, beginDraw, resolveShowdown, settle
  <2>3. st' = [p \in Party |-> Apply(a, m, by)]
    BY <1>1, <1>2, <1>3, <2>1, <2>2, TakenAlike
  <2>4. Cleared(Apply(a, m, by), own)
    BY <1>4, <1>6, <2>1, StandGoesOn
  <2> QED BY <1>4, <2>3, <2>4, BothCleared
<1> QED BY <1>1, <1>8, <1>9

\* A seat that did its part takes the round of one that did not: forfeit.
LEMMA ForfeitTable ==
  ASSUME TableInv, NEW by \in Party, Forfeit(by)
  PROVE  TableInv'
<1>1. PICK m : m = [kind |-> "forfeit"] /\ Play(by, m)
  BY DEF Forfeit
<1>2. m.kind = "forfeit" /\ m.kind # "commit" /\ m.kind # "bet"
  BY <1>1
<1>3. PICK a, b : a = st["A"] /\ b = st["B"]
  OBVIOUS
<1>4. a \in Table /\ b \in Table /\ Same(a, b) /\ Sound(a, own) /\ own \in Purse /\ own' = own
  BY <1>1, <1>2, <1>3 DEF TableInv, Play, Party
<1>5. a.phase # "round_over"
  <2>1. Legal(st[by], m, by)
    BY <1>1 DEF Play
  <2>2. st[by].phase \in {"round_over", "draw_commit", "draw_reveal", "player"} /\ st[by].phase = a.phase
    BY <1>3 DEF TableInv, Table, Same, Party
  <2> QED BY <1>2, <2>1, <2>2, Zenon DEF Legal
<1>6. Running(a, own)
  BY <1>4, <1>5 DEF Sound
<1>7. NoPending(a) = NoPending(b) /\ a.bet = b.bet
  BY <1>4, ClearedAlike DEF Same
<1>8. Apply(a, m, by) = settle(a, by) /\ Apply(b, m, by) = settle(b, by)
  BY <1>2 DEF Apply
<1>9. settle(a, by) = settle(b, by)
  BY <1>7, Zenon DEF settle
<1>10. st' = [p \in Party |-> Apply(a, m, by)]
  BY <1>1, <1>2, <1>3, <1>8, <1>9, TakenAlike
<1> QED BY <1>4, <1>6, <1>8, <1>10, SettleMovesTheBet, BothCleared, Zenon

\* Every move keeps the two tables in step.
LEMMA NextTable ==
  ASSUME \A p \in Party : Shares[p] \subseteq Nat, TableInv, [Next]_vars
  PROVE  TableInv'
<1>1. CASE Next
  <2>1. PICK by \in Party : Bet(by) \/ Commit(by) \/ Reveal(by) \/ HitOrStand(by) \/ Forfeit(by)
    BY <1>1 DEF Next, Party
  <2> QED BY <2>1, BetTable, CommitTable, RevealTable, ChoiceTable, ForfeitTable
<1>2. CASE UNCHANGED vars
  <2>1. st' = st /\ own' = own
    BY <1>2 DEF vars
  <2> QED BY <2>1 DEF TableInv
<1> QED BY <1>1, <1>2

\* At a blackjack table, for every stake, share and number of rounds: both seats always
\* hold the same state to sign although neither ever learns the other's secret before it
\* is revealed, the balances sum to what the tunnel locks, and a round moves the bet whole
\* or nothing.
THEOREM TablesAgreeAndPayTheBet ==
  ASSUME Stakes \subseteq Nat \X Nat, \A p \in Party : Shares[p] \subseteq Nat
  PROVE  TableSpec => [](ReplicasAgree /\ Conserved /\ RoundMovesTheBet)
<1>1. TableSpec => []TableInv
  BY InitTable, NextTable, PTL DEF TableSpec
<1>2. TableInv => ReplicasAgree
  <2> SUFFICES ASSUME TableInv PROVE ReplicasAgree
    OBVIOUS
  <2>1. encodeState(st.A) = encodeState(st.B)
    BY Zenon DEF TableInv, Same, encodeState
  <2>2. \A p \in Party : st[p].secret[otherParty(p)] = -1
    BY DEF TableInv, otherParty, Party
  <2> QED BY <2>1, <2>2 DEF ReplicasAgree, Party, otherParty, Unset
<1>3. TableInv => Conserved
  <2> SUFFICES ASSUME TableInv, NEW p \in Party PROVE SumsTo(st[p].bal, st[p].total)
    BY DEF Conserved, Party
  <2>1. st[p].bal = st["A"].bal /\ st[p].total = st["A"].total
    BY DEF TableInv, Same, Party
  <2>2. st["A"].total = st["A"].bal.A + st["A"].bal.B /\ st["A"].bal \in Purse
    BY Zenon DEF TableInv, Sound, Table
  <2> QED BY <2>1, <2>2 DEF SumsTo, Purse, Party
<1>4. TableInv => RoundMovesTheBet
  BY Zenon DEF TableInv, Sound, RoundMovesTheBet
<1> QED BY <1>1, <1>2, <1>3, <1>4, PTL

\* Until the game is over the seat the bot loop waits for has an automatic move, and its
\* own rules accept it (randomMove).
THEOREM BlackjackBotNeverStuck ==
  ASSUME Stakes \subseteq Nat \X Nat, \A p \in Party : Shares[p] \subseteq Nat /\ Shares[p] # {}
  PROVE  TableSpec => []BotNeverStuck
<1>1. TableSpec => []TableInv
  <2>1. \A p \in Party : Shares[p] \subseteq Nat
    BY Zenon
  <2> QED BY <2>1, InitTable, NextTable, PTL DEF TableSpec
<1>2. TableInv => BotNeverStuck
  <2> SUFFICES ASSUME TableInv, ~isTerminal(st["A"]), NEW p, p = actorFor(st["A"])
               PROVE  /\ p \in Party
                      /\ randomMove(st[p], p) # {}
                      /\ \A m \in randomMove(st[p], p) : Legal(st[p], m, p)
    BY Zenon DEF BotNeverStuck, Party
  <2>1. PICK a : a = st["A"]
    OBVIOUS
  <2>2. a \in Table /\ Sound(a, own)
    BY <2>1 DEF TableInv, Party
  <2>3. p \in Party
    <3>1. playerPartyFor(a.round) \in Party /\ playerPartyFor(a.round + 1) \in Party
      BY Seated
    <3>2. a.phase = "draw_commit" => FirstUnset(a.commit) \in Party
      BY <2>2 DEF Sound, FirstUnset, Unset, Party
    <3>3. a.phase = "draw_reveal" => FirstUnset(a.reveal) \in Party
      BY <2>2 DEF Sound, FirstUnset, Unset, Party
    <3>4. a.phase \in {"round_over", "draw_commit", "draw_reveal", "player"}
      BY <2>2 DEF Table
    <3> QED BY <2>1, <3>1, <3>2, <3>3, <3>4 DEF actorFor
  <2>4. PICK s : s = st[p]
    OBVIOUS
  <2>5. s \in Table /\ Same(a, s) /\ s.secret = [q \in Party |-> IF q = p THEN s.commit[q] ELSE -1]
    BY <2>1, <2>3, <2>4 DEF TableInv, Same, Party
  <2>6. ~isTerminal(s) /\ actorFor(s) = p
    BY <2>1, <2>5, Zenon DEF isTerminal, actorFor, maxBet, Same
  <2>7. CASE a.phase = "round_over"
    <3>1. s.phase = "round_over" /\ p = playerPartyFor(s.round + 1)
      BY <2>5, <2>6, <2>7, Zenon DEF Same, actorFor
    <3>2. randomMove(s, p) = {[kind |-> "bet", amount |-> 1]}
      BY <2>6, <3>1 DEF randomMove, MIN_BET
    <3>3. s.bal.A \in Nat /\ s.bal.B \in Nat
      BY <2>5 DEF Table, Purse, Party
    <3>4. 1 \in 1..maxBet(s)
      BY <2>6, <3>1, <3>3 DEF isTerminal, MIN_BET, maxBet, Lesser
    <3>5. PICK m : m = [kind |-> "bet", amount |-> 1]
      BY Zenon
    <3>6. m.kind = "bet" /\ m.amount = 1
      BY <3>5
    <3>7. Legal(s, m, p)
      BY <2>6, <3>1, <3>4, <3>6 DEF Legal, MIN_BET
    <3> QED BY <2>3, <2>4, <3>2, <3>5, <3>7
  <2>8. CASE a.phase = "draw_commit"
    <3>1. s.phase = "draw_commit" /\ s.commit[p] = -1
      BY <2>1, <2>2, <2>5, <2>8 DEF Same, Sound, actorFor, FirstUnset, Unset, Party
    <3>2. randomMove(s, p) = {[kind |-> "commit", share |-> v, localSecret |-> v] : v \in Shares[p]}
      BY <2>6, <3>1 DEF randomMove, Unset
    <3>3. \A v : Legal(s, [kind |-> "commit", share |-> v, localSecret |-> v], p)
      BY <3>1 DEF Legal, Unset
    <3>4. randomMove(s, p) # {}
      <4>1. PICK v : v \in Shares[p]
        BY <2>3
      <4> QED BY <4>1, <3>2, Zenon
    <3>5. \A m \in randomMove(s, p) : Legal(s, m, p)
      BY <3>2, <3>3, Zenon
    <3> QED BY <2>3, <2>4, <3>4, <3>5
  <2>9. CASE a.phase = "draw_reveal"
    <3>1. s.phase = "draw_reveal" /\ s.reveal[p] = -1 /\ s.secret[p] = s.commit[p] /\ s.secret[p] # -1
      <4>1. s.phase = "draw_reveal" /\ s.reveal[p] = -1 /\ s.commit = a.commit
        BY <2>1, <2>2, <2>5, <2>9 DEF Same, Sound, actorFor, FirstUnset, Unset, Party
      <4>2. a.commit[p] # -1
        BY <2>2, <2>3, <2>9 DEF Sound
      <4> QED BY <2>3, <2>5, <4>1, <4>2
    <3>2. randomMove(s, p) = {[kind |-> "reveal", share |-> s.secret[p]]}
      BY <2>6, <3>1 DEF randomMove, Unset
    <3>3. PICK m : m = [kind |-> "reveal", share |-> s.secret[p]]
      BY Zenon
    <3>4. m.kind = "reveal" /\ m.share = s.commit[p]
      BY <3>1, <3>3
    <3>5. Legal(s, m, p)
      BY <3>1, <3>4 DEF Legal, Unset
    <3> QED BY <2>3, <2>4, <3>2, <3>3, <3>5
  <2>10. CASE a.phase = "player"
    <3>1. s.phase = "player" /\ p = playerPartyFor(s.round)
      BY <2>5, <2>6, <2>10, Zenon DEF Same, actorFor
    <3>2. PICK k \in {"hit", "stand"} : k = IF handValue(s.hand.player) < 17 THEN "hit" ELSE "stand"
      OBVIOUS
    <3>3. randomMove(s, p) = {[kind |-> k]}
      BY <2>6, <3>1, <3>2 DEF randomMove
    <3>4. PICK m : m = [kind |-> k]
      BY Zenon
    <3>5. m.kind \in {"hit", "stand"}
      BY <3>4
    <3>6. Legal(s, m, p)
      BY <3>1, <3>5 DEF Legal
    <3> QED BY <2>3, <2>4, <3>3, <3>4, <3>6
  <2> QED BY <2>2, <2>7, <2>8, <2>9, <2>10 DEF Table
<1> QED BY <1>1, <1>2, PTL

=============================================================================

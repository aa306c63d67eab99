------------------------------ MODULE PayGames ------------------------------
(***************************************************************************)
(* The tunnels that only pay (sui-tunnel-ts/src/protocol): free transfers  *)
(* (payments.ts), metered calls (apiCredits.ts) and a chat whose messages  *)
(* may carry a tip (chat.ts).  The rolling digest of the chat is the       *)
(* sequence it folds: two transcripts have one digest iff they are equal.  *)
(*                                                                         *)
(* Below them, two chat bots over the relay (backend/chat-agent/src): each *)
(* keeps its own chatProtocol() (chat.ts) and asks the language model for  *)
(* its next line while it is its turn.  The turn is read before the        *)
(* question is asked and the line is applied after the answer came.  A     *)
(* message is identified by the hash of its bytes, that is by its sender   *)
(* and its text.                                                           *)
(***************************************************************************)
EXTENDS GameBase, Sequences, FiniteSets

CONSTANTS Stakes, costPerCall,
          Amounts,     \* amounts a party may ask to send, zero included
          Texts,       \* message texts, "" among them
          MaxPayments, \* bound: moves of a behaviour
          Answers,     \* what the language model may answer, "" included
          maxMoves     \* lines a chat bot sends (ChatMatchDriver.maxMoves)

VARIABLES st,   \* kind, bal, count and transcript; of the bots, per seat: messages,
                \* applied, asking, sent, loop
          own   \* what the tunnel locked at the open; of the bots, the frames on their way

vars == <<st, own>>

Pay(bal, by, amount) == [bal EXCEPT ![by] = @ - amount, ![otherParty(by)] = @ + amount]

\* Variant: the sender need not have the amount.
applyPaymentAtLeast(s, by, amount) ==
    IF amount > 0 THEN <<[s EXCEPT !.bal = Pay(@, by, amount), !.count = @ + 1]>> ELSE <<>>

\* PaymentsProtocol.applyMove: a positive amount the sender has.
applyPayment(s, by, amount) ==
    IF amount > 0 /\ amount <= s.bal[by]
    THEN <<[s EXCEPT !.bal = Pay(@, by, amount), !.count = @ + 1]>> ELSE <<>>

\* ApiCreditsProtocol.applyMove: the client buys one call at the fixed price.
applyCall(s, by) ==
    IF by = "A" /\ s.bal.A >= costPerCall
    THEN <<[s EXCEPT !.bal = Pay(@, "A", costPerCall), !.count = @ + 1]>> ELSE <<>>

\* ChatProtocol.applyMove: a non-empty text, and a tip the sender can afford.
applyMessage(s, by, text, tip) ==
    IF text # "" /\ (tip = 0 \/ tip <= s.bal[by])
    THEN <<[s EXCEPT !.bal = Pay(@, by, tip), !.count = @ + 1,
                     !.transcript = Append(@, <<by, text>>)]>> ELSE <<>>

\* isTerminal(): payments and chat run until the tunnel is closed.
isTerminal(s) == s.kind = "api" /\ s.bal.A < costPerCall

\* randomMove: the states the automatic player of a seat may ask for.
payerMoves(s, by) ==
    CASE s.kind = "pay" -> {applyPayment(s, by, n) : n \in 1..Lesser(s.bal[by], 1000)}
      [] s.kind = "api" -> IF by = "A" /\ s.bal.A >= costPerCall THEN {applyCall(s, by)} ELSE {}
      [] OTHER -> {applyMessage(s, by, "msg", n) : n \in 0..Lesser(s.bal[by], 10)}

Init ==
    /\ \E b \in Stakes, kind \in {"pay", "api", "chat"} :
          st = [kind |-> kind, bal |-> [A |-> b[1], B |-> b[2]], count |-> 0, transcript |-> <<>>]
    /\ own = st.bal.A + st.bal.B

Move(by) ==
    /\ st.count < MaxPayments
    /\ \E n \in Amounts, text \in Texts :
          LET result == CASE st.kind = "pay" -> applyPayment(st, by, n)
                          [] st.kind = "api" -> applyCall(st, by)
                          [] OTHER -> applyMessage(st, by, text, n)
          IN  result # <<>> /\ st' = result[1]
    /\ UNCHANGED own

Next == \E by \in Party : Move(by)

-----------------------------------------------------------------------------
\* A payment is money the sender has: balances stay amounts, and sum to what
\* the tunnel locks.
Conserved == SumsTo(st.bal, own)

\* The automatic payer never asks for a payment the rules refuse.
OfferedIsLegal == \A by \in Party : <<>> \notin payerMoves(st, by)

Terminal == isTerminal(st)

-----------------------------------------------------------------------------
\* The chat bots.

\* Variant: only the opening is a matter of turn.
ourTurnAny(d, me) == d.messages = <<>> => me = "A"

\* ourTurn(): A opens, then whoever did not speak last.
ourTurn(d, me) ==
    IF d.messages = <<>> THEN me = "A" ELSE d.messages[Len(d.messages)][1] # me

\* Apply a line unless its bytes were applied before.
Fold(d, line) ==
    IF line \in d.applied THEN d
    ELSE [d EXCEPT !.applied = @ \cup {line}, !.messages = Append(@, line)]

\* createMove followed by applyMove of the same bytes.  An empty line is
\* marked applied and then refused, which ends the driver's loop.
createMove(d, line) ==
    IF line[2] = "" /\ line \notin d.applied
    THEN [d EXCEPT !.applied = @ \cup {line}, !.loop = FALSE, !.asking = FALSE]
    ELSE [Fold(d, line) EXCEPT !.asking = FALSE, !.sent = @ + 1]

ChatInit ==
    /\ st = [p \in Party |-> [messages |-> <<>>, applied |-> {}, asking |-> FALSE,
                              sent |-> 0, loop |-> TRUE]]
    /\ own = [p \in Party |-> <<>>]

\* runLoop: our turn, so ask for a line.
Ask(p) ==
    /\ st[p].loop /\ ~st[p].asking
    /\ ourTurn(st[p], p)
    /\ st[p].sent < maxMoves
    /\ st' = [st EXCEPT ![p].asking = TRUE]
    /\ UNCHANGED own

\* The answer comes: apply the line and send it, an empty one apart.
Answer(p) ==
    /\ st[p].asking
    /\ \E text \in Answers :
          /\ st' = [st EXCEPT ![p] = createMove(@, <<p, text>>)]
          /\ own' = IF st'[p].loop THEN [own EXCEPT ![otherParty(p)] = Append(@, <<p, text>>)]
                                   ELSE own

\* A frame arrives: onFrame(applyMove).
Frame(p) ==
    /\ own[p] # <<>>
    /\ st' = [st EXCEPT ![p] = Fold(@, Head(own[p]))]
    /\ own' = [own EXCEPT ![p] = Tail(@)]

\* requestStop, after the time of the match.
Stop(p) ==
    /\ st[p].loop /\ ~st[p].asking
    /\ st' = [st EXCEPT ![p].loop = FALSE]
    /\ UNCHANGED own

ChatNext == \E p \in Party : Ask(p) \/ Answer(p) \/ Frame(p) \/ Stop(p)

-----------------------------------------------------------------------------
\* The two transcripts agree up to what is under way, whatever is answered,
\* repeated or refused: the line asked for in a turn is still the next one
\* when the answer comes.
TranscriptsAgree ==
    \E p \in Party :
       LET a == st[p].messages
           b == st[otherParty(p)].messages
       IN  /\ Len(a) \in {Len(b), Len(b) + 1}
           /\ SubSeq(a, 1, Len(b)) = b
           /\ own[otherParty(p)] = <<>> => a = b

\* The two seats never both ask for the same turn.
OneAsks == ~(st.A.asking /\ st.B.asking)
=============================================================================

----------------------------- MODULE SdkTrades -----------------------------
(***************************************************************************)
(* Four payment contracts of the SDK's examples (escrow, dutch auction,    *)
(* streaming payment, hash-locked swap), each a Move object, and the       *)
(* TypeScript calls that drive them.  A party calls the contract through   *)
(* the SDK or by a transaction of their own; an SDK transaction is refused *)
(* as a whole when it names an object its sender cannot use, or when its   *)
(* arguments or the results it moves are not those of the Move function.   *)
(***************************************************************************)
EXTENDS Integers, Sequences, FiniteSets

CONSTANTS Horizon,              \* last instant
          MIN_DURATION_MS,                              \* of an auction and of a stream
          DISPUTE_WINDOW_MS, AUTO_RELEASE_WINDOW_MS,    \* escrow
          StartPrice, EndPrice, AuctionMs,              \* auction
          Total, StreamMs, Extra, ExtraMs, MaxTopUps,   \* stream
          LockMs, SWAP_TIME_BUFFER_MS, MIN_LOCK_TIME_MS, MaxLocks   \* swap

VARIABLE st

A == 1                          \* buyer, payer, initiator
B == 2                          \* seller, payee, responder
C == 3                          \* a second buyer
Parties == {A, B, C}
Nothing == <<0, 0, 0>>
Only(p, x) == [q \in Parties |-> IF q = p THEN x ELSE 0]
Plus(f, g) == [p \in Parties |-> f[p] + g[p]]
All(f) == f[A] + f[B] + f[C]

Init ==
    \E kind \in {"escrow", "auction", "stream", "swap"} :
      st = [kind |-> kind, now |-> 0, o |-> <<>>, put |-> Nothing, paid |-> Nothing,
            quote |-> <<>>, refused |-> "none"]
Tick == st.now < Horizon /\ st' = [st EXCEPT !.now = @ + 1, !.refused = "none"]

\* One committed transaction: the object it leaves, what it takes in and what it pays out.
Commits(o, in, out) ==
    st' = [st EXCEPT !.o = o, !.refused = "none", !.put = Plus(@, in), !.paid = Plus(@, out)]
New(kind) == st.kind = kind /\ st.o = <<>>
Live(kind) == st.kind = kind /\ st.o # <<>>
Object == st.o[1]

\* A programmable transaction fits a Move function when it passes the arguments the function
\* takes and hands on exactly the results that are objects.
Fn(takes, returns) == [takes |-> takes, returns |-> returns]
Fits(fn, passes, moves) ==
    /\ passes = fn.takes
    /\ moves = {i \in DOMAIN fn.returns : fn.returns[i] = "object"}
Refused(call) == st.o # <<>> /\ st' = [st EXCEPT !.refused = call]

-----------------------------------------------------------------------------
\* example_escrow.  An object is used by its owner, or by everybody once it is shared.
create_escrow(owner) ==
    /\ New("escrow")
    /\ Commits(<<[owner |-> owner, status |-> "funded", funds |-> 1, deliveredAt |-> 0,
                  releaseAt |-> st.now + AUTO_RELEASE_WINDOW_MS]>>, Only(A, 1), Nothing)
MayUse(p) == Live("escrow") /\ Object.owner \in {0, p}
EscrowIs(statuses) == Live("escrow") /\ Object.status \in statuses
Release(status, to) ==
    Commits(<<[Object EXCEPT !.status = status, !.funds = 0]>>, Nothing, Only(to, Object.funds))
mark_delivered ==
    /\ MayUse(B) /\ EscrowIs({"funded"})
    /\ Commits(<<[Object EXCEPT !.status = "delivered", !.deliveredAt = st.now]>>,
               Nothing, Nothing)
confirm_and_release ==
    MayUse(A) /\ EscrowIs({"funded", "delivered"}) /\ Release("completed", B)
WindowOver == st.now > Object.deliveredAt + DISPUTE_WINDOW_MS
raise_dispute ==
    /\ MayUse(A) /\ EscrowIs({"delivered"}) /\ ~WindowOver
    /\ Commits(<<[Object EXCEPT !.status = "disputed"]>>, Nothing, Nothing)
auto_release == MayUse(B) /\ EscrowIs({"delivered"}) /\ WindowOver /\ Release("completed", B)
force_release ==
    /\ MayUse(B) /\ EscrowIs({"funded", "delivered"}) /\ st.now > Object.releaseAt
    /\ Release("completed", B)
refund_buyer ==
    MayUse(B) /\ EscrowIs({"funded", "delivered", "disputed"}) /\ Release("refunded", A)
cancel_escrow == MayUse(A) /\ EscrowIs({"funded"}) /\ Release("cancelled", A)

\* examples/escrow.ts.  The buyer keeps the escrow they create instead of sharing it.
createEscrow ==
    /\ Fits(Fn(<<"address", "bytes", "coin", "u64", "clock">>, <<"object">>),
            <<"address", "bytes", "coin", "u64", "clock">>, {1})
    /\ create_escrow(A)
EscrowCall(p, call, fits, Call) ==
    Live("escrow") /\ IF fits /\ MayUse(p) THEN Call ELSE Refused(call)
markDelivered ==
    LET fits == Fits(Fn(<<"escrow", "clock">>, <<>>), <<"escrow", "clock">>, {})
    IN  EscrowCall(B, "markDelivered", fits, mark_delivered)
confirmAndRelease ==
    LET fits == Fits(Fn(<<"escrow", "clock">>, <<"receipt">>), <<"escrow">>, {1})
    IN  EscrowCall(A, "confirmAndRelease", fits, confirm_and_release)
raiseDispute ==
    LET fits == Fits(Fn(<<"escrow", "bytes", "clock">>, <<>>),
                     <<"escrow", "bytes", "clock">>, {})
    IN  EscrowCall(A, "raiseDispute", fits, raise_dispute)
autoRelease ==
    LET fits == Fits(Fn(<<"escrow", "clock">>, <<>>), <<"escrow", "clock">>, {1})
    IN  EscrowCall(B, "autoRelease", fits, auto_release)
refundBuyer ==
    LET fits == Fits(Fn(<<"escrow">>, <<>>), <<"escrow">>, {1})
    IN  EscrowCall(B, "refundBuyer", fits, refund_buyer)
cancelEscrow ==
    LET fits == Fits(Fn(<<"escrow">>, <<>>), <<"escrow">>, {1})
    IN  EscrowCall(A, "cancelEscrow", fits, cancel_escrow)

Escrow ==
    \/ createEscrow \/ markDelivered \/ confirmAndRelease \/ raiseDispute \/ autoRelease
    \/ refundBuyer \/ cancelEscrow
    \/ create_escrow(0) \/ confirm_and_release \/ auto_release \/ force_release
    \/ refund_buyer \/ cancel_escrow

-----------------------------------------------------------------------------
\* example_dutch_auction: B sells, A and C may buy.
calculate_price(start, end, from, until, now) ==
    IF now <= from THEN start
    ELSE IF now >= until THEN end
    ELSE start - ((start - end) * (now - from)) \div (until - from)
Price(o, now) == calculate_price(StartPrice, EndPrice, o.from, o.until, now)
AuctionIs(status) == Live("auction") /\ Object.status = status
create_auction ==
    /\ New("auction")
    /\ Commits(<<[status |-> "active", from |-> st.now, until |-> st.now + AuctionMs,
                  payment |-> 0, winner |-> 0]>>, Nothing, Nothing)
Sold(p) ==
    Commits(<<[Object EXCEPT !.status = "sold", !.winner = p,
                             !.payment = Price(Object, st.now)]>>,
            Only(p, Price(Object, st.now)), Nothing)
OnSale == AuctionIs("active") /\ st.now < Object.until
move_buy(p, coin) == OnSale /\ coin >= Price(Object, st.now) /\ Sold(p)
move_buy_exact(p, coin) == OnSale /\ coin = Price(Object, st.now) /\ Sold(p)
withdraw_payment ==
    /\ AuctionIs("sold")
    /\ Commits(<<[Object EXCEPT !.payment = 0]>>, Nothing, Only(B, Object.payment))
mark_expired ==
    /\ AuctionIs("active") /\ st.now >= Object.until
    /\ Commits(<<[Object EXCEPT !.status = "expired"]>>, Nothing, Nothing)
cancel_auction ==
    AuctionIs("active") /\ Commits(<<[Object EXCEPT !.status = "cancelled"]>>, Nothing, Nothing)

\* examples/dutchAuction.ts.
createAuction ==
    /\ AuctionMs >= MIN_DURATION_MS /\ StartPrice > EndPrice /\ EndPrice > 0
    /\ Fits(Fn(<<"bytes", "bytes", "u64", "u64", "u64", "clock">>, <<"object">>),
            <<"bytes", "bytes", "u64", "u64", "u64", "clock">>, {1})
    /\ create_auction
calculatePrice(start, end, from, until, now) ==
    IF now <= from THEN start
    ELSE IF now >= until THEN end
    ELSE start - ((start - end) * (now - from)) \div (until - from)
\* A buyer works out the price, and pays with a coin of that value some time later.
Quote ==
    /\ OnSale
    /\ st' = [st EXCEPT !.quote = <<calculatePrice(StartPrice, EndPrice, Object.from,
                                                   Object.until, st.now)>>, !.refused = "none"]
buy(p) ==
    /\ st.quote # <<>>
    /\ Fits(Fn(<<"auction", "coin", "clock">>, <<"receipt", "object">>),
            <<"auction", "coin", "clock">>, {2})
    /\ move_buy(p, st.quote[1])
buyExact(p) ==
    /\ st.quote # <<>>
    /\ Fits(Fn(<<"auction", "coin", "clock">>, <<"receipt", "object">>),
            <<"auction", "coin", "clock">>, {2})
    /\ move_buy_exact(p, st.quote[1])
withdrawPayment ==
    IF Fits(Fn(<<"auction">>, <<"receipt">>), <<"auction">>, {1})
    THEN withdraw_payment ELSE AuctionIs("sold") /\ Refused("withdrawPayment")
markExpired ==
    Fits(Fn(<<"auction", "clock">>, <<"receipt">>), <<"auction", "clock">>, {}) /\ mark_expired
cancelAuction == Fits(Fn(<<"auction">>, <<"receipt">>), <<"auction">>, {}) /\ cancel_auction
isPurchasable(o, now) == o.status = "active" /\ now < o.until

Auction ==
    \/ createAuction \/ Quote \/ withdrawPayment \/ markExpired \/ cancelAuction
    \/ \E p \in {A, C} : buy(p) \/ buyExact(p)
    \/ withdraw_payment

-----------------------------------------------------------------------------
\* example_streaming_payment: A pays B.
calculate_unlocked(o, now) ==
    IF now <= o.from THEN 0
    ELSE IF now >= o.until THEN o.total
    ELSE (o.total * (now - o.from)) \div (o.until - o.from)
StreamActive == Live("stream") /\ Object.status = "active"
create_stream ==
    /\ New("stream") /\ StreamMs >= MIN_DURATION_MS
    /\ Commits(<<[status |-> "active", total |-> Total, withdrawn |-> 0, funds |-> Total,
                  from |-> st.now, until |-> st.now + StreamMs, topUps |-> 0]>>,
               Only(A, Total), Nothing)
Available == calculate_unlocked(Object, st.now) - Object.withdrawn
PayOut(amount) ==
    Commits(<<[Object EXCEPT !.withdrawn = @ + amount, !.funds = @ - amount,
                 !.status = IF Object.withdrawn + amount >= Object.total THEN "completed" ELSE @]>>,
            Nothing, Only(B, amount))
move_withdraw == StreamActive /\ Available > 0 /\ PayOut(Available)
move_withdraw_amount(amount) == StreamActive /\ amount \in 1..Available /\ PayOut(amount)
cancel_stream ==
    /\ StreamActive
    /\ Commits(<<[Object EXCEPT !.status = "cancelled", !.funds = 0]>>, Nothing,
               Plus(Only(B, Available), Only(A, Object.funds - Available)))
Lengthened(o) == [o EXCEPT !.total = @ + Extra, !.funds = @ + Extra, !.until = @ + ExtraMs,
                           !.topUps = @ + 1]
top_up ==
    /\ StreamActive /\ st.now < Object.until /\ Object.topUps < MaxTopUps
    /\ calculate_unlocked(Lengthened(Object), st.now) >= calculate_unlocked(Object, st.now)
    /\ Commits(<<Lengthened(Object)>>, Only(A, Extra), Nothing)

\* examples/streamingPayment.ts.
createStream ==
    /\ StreamMs >= MIN_DURATION_MS
    /\ Fits(Fn(<<"address", "coin", "u64", "bytes", "clock">>, <<"object">>),
            <<"address", "coin", "u64", "bytes", "clock">>, {1})
    /\ create_stream
withdraw ==
    IF Fits(Fn(<<"stream", "clock">>, <<"receipt">>), <<"stream", "clock">>, {1})
    THEN move_withdraw ELSE StreamActive /\ Refused("withdraw")
withdrawAmount(amount) ==
    IF Fits(Fn(<<"stream", "u64", "clock">>, <<"receipt">>), <<"stream", "u64", "clock">>, {1})
    THEN move_withdraw_amount(amount) ELSE StreamActive /\ Refused("withdrawAmount")
cancelStream ==
    IF Fits(Fn(<<"stream", "clock">>, <<"receipt">>), <<"stream", "clock">>, {1, 2})
    THEN cancel_stream ELSE StreamActive /\ Refused("cancelStream")
topUpStream ==
    /\ Fits(Fn(<<"stream", "coin", "u64", "clock">>, <<>>),
            <<"stream", "coin", "u64", "clock">>, {})
    /\ top_up
calculateUnlocked(total, from, until, now) ==
    IF now <= from THEN 0
    ELSE IF now >= until THEN total
    ELSE (total * (now - from)) \div (until - from)
calculateAvailable(total, from, until, withdrawn, now) ==
    LET unlocked == calculateUnlocked(total, from, until, now)
    IN  IF unlocked > withdrawn THEN unlocked - withdrawn ELSE 0

Stream ==
    \/ createStream \/ withdraw \/ cancelStream \/ topUpStream \/ withdrawAmount(1)
    \/ move_withdraw \/ move_withdraw_amount(1) \/ cancel_stream

-----------------------------------------------------------------------------
\* example_atomic_swap: A locks for B, B answers with locks for A under the same hash.  A
\* knows the secret; B learns it from the receipt of A's claim.
Lock(by, for, until) ==
    [by |-> by, for |-> for, until |-> until, status |-> "locked", claimedAt |-> 0]
Locks == DOMAIN st.o
create_swap_lock ==
    New("swap") /\ LockMs >= MIN_LOCK_TIME_MS
                /\ Commits(<<Lock(A, B, st.now + LockMs)>>, Only(A, 1), Nothing)
create_matching_swap ==
    /\ Live("swap") /\ Object.status = "locked" /\ Len(st.o) < MaxLocks
    /\ Object.until - st.now > SWAP_TIME_BUFFER_MS + MIN_LOCK_TIME_MS
    /\ Commits(Append(st.o, Lock(B, A, Object.until - SWAP_TIME_BUFFER_MS)),
               Only(B, 1), Nothing)
Knows(p) == p = A \/ \E k \in Locks : st.o[k].for = A /\ st.o[k].status = "claimed"
isClaimable(o, now) == o.status = "locked" /\ now < o.until
isRefundable(o, now) == o.status = "locked" /\ now >= o.until
claim_swap(k) ==
    /\ Live("swap") /\ isClaimable(st.o[k], st.now) /\ Knows(st.o[k].for)
    /\ Commits([st.o EXCEPT ![k].status = "claimed", ![k].claimedAt = st.now], Nothing,
               Only(st.o[k].for, 1))
refund_expired(k) ==
    /\ Live("swap") /\ isRefundable(st.o[k], st.now)
    /\ Commits([st.o EXCEPT ![k].status = "refunded"], Nothing, Only(st.o[k].by, 1))

\* examples/atomicSwap.ts.
createSwapLock ==
    /\ LockMs >= MIN_LOCK_TIME_MS
    /\ Fits(Fn(<<"address", "coin", "bytes", "u64", "clock">>, <<"object">>),
            <<"address", "coin", "bytes", "u64", "clock">>, {1})
    /\ create_swap_lock
createMatchingSwap ==
    /\ Fits(Fn(<<"swap", "coin", "clock">>, <<"object">>), <<"swap", "coin", "clock">>, {1})
    /\ create_matching_swap
claimSwap(k) ==
    IF Fits(Fn(<<"swap", "bytes", "clock">>, <<"receipt">>), <<"swap", "bytes", "clock">>, {1})
    THEN claim_swap(k) ELSE Live("swap") /\ Knows(st.o[k].for) /\ Refused("claimSwap")
claimWithReceipt(k) ==      \* the responder's claim, with the secret the initiator showed
    st.o[k].for = B /\ claimSwap(k)
refundExpired(k) ==
    IF Fits(Fn(<<"swap", "clock">>, <<>>), <<"swap", "clock">>, {1})
    THEN refund_expired(k) ELSE Live("swap") /\ Refused("refundExpired")

Swap ==
    \/ createSwapLock \/ createMatchingSwap
    \/ \E k \in Locks : claimSwap(k) \/ claimWithReceipt(k) \/ refundExpired(k)
                          \/ claim_swap(k) \/ refund_expired(k)

Next ==
    \/ Tick
    \/ st.kind = "escrow" /\ Escrow
    \/ st.kind = "auction" /\ Auction
    \/ st.kind = "stream" /\ Stream
    \/ st.kind = "swap" /\ Swap

-----------------------------------------------------------------------------
Held(s) ==
    CASE s.o = <<>> -> 0
      [] s.o # <<>> /\ s.kind \in {"escrow", "stream"} -> s.o[1].funds
      [] s.o # <<>> /\ s.kind = "auction" -> s.o[1].payment
      [] OTHER -> Cardinality({k \in DOMAIN s.o : s.o[k].status = "locked"})
\* What was paid into a contract is in it or was paid out.
Conserved(s) == Held(s) + All(s.paid) = All(s.put)

Unlocked(s) == calculateAvailable(s.o[1].total, s.o[1].from, s.o[1].until, s.o[1].withdrawn,
                                  s.now)
\* What a party has been shown, promised or has earned holds for as long as it should:
\* a buyer's quote still buys while the auction is on, and the price never exceeds it; what a
\* stream unlocked is never locked again; an escrow in dispute pays nobody but the buyer; and
\* an initiator who takes the responder's money leaves them the buffer to take theirs.
Kept(s) ==
    s.o # <<>> =>
      LET o == s.o[1]
      IN  CASE s.kind = "auction" ->
                 (isPurchasable(o, s.now) /\ s.quote # <<>>) => s.quote[1] >= Price(o, s.now)
            [] s.kind = "stream" ->
                 o.status = "active" =>
                   /\ calculate_unlocked(o, s.now) >= o.withdrawn
                   /\ s.paid[B] = o.withdrawn
                   /\ calculateAvailable(o.total, o.from, o.until, o.withdrawn, s.now)
                        = calculate_unlocked(o, s.now) - o.withdrawn
            [] s.kind = "swap" ->
                 \A k \in DOMAIN s.o : (s.o[k].status = "claimed" /\ s.o[k].for = A
                                           /\ o.status = "refunded") =>
                   s.now - s.o[k].claimedAt >= SWAP_TIME_BUFFER_MS
            [] OTHER -> TRUE
KeptStep(s, t) ==
    (s.o # <<>> /\ t.o # <<>>) =>
      LET o == s.o[1]  n == t.o[1]
      IN  CASE s.kind = "escrow" ->
                 o.status = "disputed" => t.paid[B] = s.paid[B] /\ n.status # "completed"
            [] s.kind = "stream" ->
                 n.status = "active" =>
                   calculate_unlocked(n, t.now) >= calculate_unlocked(o, s.now)
            [] OTHER -> TRUE
=============================================================================

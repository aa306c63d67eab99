---------------------------- MODULE OpenBatcher ----------------------------
(***************************************************************************)
(* How every window of one wallet puts its stake on chain: self-play opens *)
(* and arena deposits are coalesced by the shared batcher                  *)
(* (tunnelOpenBatcher), seats of a two-wallet match go out alone           *)
(* (stakeTunnel).  A transaction may be refused before it runs, may run    *)
(* with its answer lost, or may run and then be unreadable; sponsored      *)
(* attempts fall back to the wallet, batches to single transactions.       *)
(* A stale-object reject is resubmitted for ever and changes nothing, so   *)
(* it is a stuttering step here.                                           *)
(***************************************************************************)
EXTENDS Naturals, Sequences, SequencesExt

CONSTANTS Requests,          \* 1..n
          MaxBatch,
          Kinds,             \* what a request may be
          AddressBalance,    \* values of usesAddressBalance
          Configured,        \* values of isMtpsConfigured
          Faucet, Pulls,     \* amount of a faucet pull, and how many there may be
          MTPS_MIN_BALANCE,
          Funds              \* initial address balances

VARIABLE st

Wallet == 0
Nobody == [kind |-> "none", balance |-> FALSE, state |-> "new", got |-> <<>>, paid |-> 0]
Init ==
    \E mtps \in Configured, bal \in Funds, coins \in Funds :
      st = [mtps |-> mtps, bal |-> bal, coins |-> coins, pulls |-> Pulls, conn |-> TRUE,
            queue |-> <<>>, timer |-> FALSE, jobs |-> {}, lost |-> {},
            req |-> [r \in Requests |-> Nobody]]

fundingModeOf(s, r) ==
    IF ~s.mtps THEN "sui" ELSE IF s.req[r].balance THEN "balance" ELSE "mtps-coin"
\* Self-play funds both seats, every other request its own.
stakeTotalOf(s, r) == IF s.req[r].kind = "open" THEN 2 ELSE 1
Total(s, ids) == FoldLeft(LAMBDA sum, r : sum + stakeTotalOf(s, r), 0, ids)
\* A self-play tunnel's party A is a fresh key, a deposit's is the wallet itself.
partyA(s, r) == IF s.req[r].kind = "open" THEN r ELSE Wallet
Address(s) == {partyA(s, r) : r \in Requests}
Ids(s, j) == ToSet(j.ids)

Job(s, ids, stage, batch) ==
    [ids |-> ids, kind |-> s.req[ids[1]].kind, mode |-> fundingModeOf(s, ids[1]),
     stage |-> stage, via |-> "sponsor", batch |-> batch]
Swap(s, j, new) == [s EXCEPT !.jobs = (@ \ {j}) \cup new]
Answer(s, ids, state) ==
    [s EXCEPT !.req = [r \in Requests |->
                         IF r \in ids THEN [s.req[r] EXCEPT !.state = state] ELSE s.req[r]]]
rejectAll(s, j) == Answer(Swap(s, j, {}), Ids(s, j), "rejected")

chunk(ids) ==
    {SubSeq(ids, i, IF i + MaxBatch - 1 < Len(ids) THEN i + MaxBatch - 1 ELSE Len(ids)) :
       i \in {i \in 1..Len(ids) : (i - 1) % MaxBatch = 0}}
flushGroup(s, ids) ==
    IF fundingModeOf(s, ids[1]) = "balance" THEN {Job(s, ids, "top up", TRUE)}
    ELSE {Job(s, c, "send", TRUE) : c \in chunk(ids)}

Asked(s, r, kind, balance) ==
    [s EXCEPT !.req[r] = [Nobody EXCEPT !.kind = kind, !.balance = balance, !.state = "waiting"]]
scheduleFlush(s) == [s EXCEPT !.timer = TRUE]
\* Requests are numbered in the order they are made.
IsNext(s, r) == s.req[r].state = "new" /\ \A q \in Requests : q < r => s.req[q].state # "new"
request(r) ==
    /\ IsNext(st, r)
    /\ \E kind \in Kinds \cap {"open", "deposit"}, balance \in AddressBalance :
         st' = scheduleFlush([Asked(st, r, kind, balance) EXCEPT !.queue = Append(@, r)])

\* A seat of a two-wallet match pays by itself: the host opens and funds, the guest deposits.
Seat(r, kind) ==
    /\ IsNext(st, r) /\ kind \in Kinds
    /\ LET s == Asked(st, r, kind, TRUE)
           stage == IF s.mtps THEN "top up" ELSE "send"
       IN  st' = [s EXCEPT !.jobs = @ \cup {Job(s, <<r>>, stage, FALSE)}]
openSharedTunnelStaked(r) == Seat(r, "host")
depositStakeStaked(r) == Seat(r, "guest")

Key(s, r) == <<s.req[r].kind, fundingModeOf(s, r)>>
Groups(s) ==
    {SelectSeq(s.queue, LAMBDA r : Key(s, r) = key) : key \in {Key(s, r) : r \in ToSet(s.queue)}}
flush ==
    /\ st.timer
    /\ LET s == [st EXCEPT !.timer = FALSE, !.queue = <<>>]
       IN  st' = IF ~st.conn THEN Answer(s, ToSet(st.queue), "rejected")
                 ELSE [s EXCEPT !.jobs = @ \cup UNION {flushGroup(st, g) : g \in Groups(st)}]
configureSharedBatcher == st' = [st EXCEPT !.conn = ~@]

\* The top-up before a withdrawal: nothing to do, a faucet pull, or a sweep of owned coins.
Funded(s, j) ==
    Swap(s, j, IF j.batch THEN {Job(s, c, "send", TRUE) : c \in chunk(j.ids)}
               ELSE {[j EXCEPT !.stage = "send"]})
faucetMtps(s) == [s EXCEPT !.bal = @ + Faucet, !.pulls = @ - 1]
buildSweepToAddressBalance(s) == [s EXCEPT !.bal = @ + s.coins, !.coins = 0]
ensureMtpsAddressBalance(j) ==
    /\ j.stage = "top up"
    /\ LET need == Total(st, j.ids)
       IN  \/ st.bal >= need /\ st' = Funded(st, j)
           \/ /\ st.bal < need /\ st.bal + st.coins < need /\ st.pulls > 0
              /\ st' = Funded(faucetMtps(st), j)
           \/ /\ st.bal < need /\ st.bal + st.coins >= need
              /\ st' = Funded(buildSweepToAddressBalance(st), j)
topUpFails(j) ==
    j.stage = "top up" /\ st.bal < Total(st, j.ids) /\ st' = rejectAll(st, j)
\* The page's own interval refills a connected wallet that has run low.
useMtpsAutoFaucet ==
    /\ st.mtps /\ st.conn /\ st.bal < MTPS_MIN_BALANCE /\ st.pulls > 0
    /\ st' = faucetMtps(st)

\* Whether the chain runs the transaction: the withdrawal is covered, and no deposit in it
\* goes to a seat that is funded already (the contract aborts the whole transaction).
Covered(s, j) == j.mode = "balance" => s.bal >= Total(s, j.ids)
Runs(s, j) ==
    /\ j.stage = "send" /\ Covered(s, j)
    /\ j.kind \in {"deposit", "guest"} => \A r \in Ids(s, j) : s.req[r].paid = 0
Withdrawn(s, j) == [s EXCEPT !.bal = IF j.mode = "balance" THEN @ - Total(s, j.ids) ELSE @]
Pay(s, ids) ==
    [s EXCEPT !.req = [r \in Requests |-> IF r \in ids THEN [s.req[r] EXCEPT !.paid = @ + 1]
                                          ELSE s.req[r]]]
buildOpenAndFundMany(s, j) == Pay(Withdrawn(s, j), Ids(s, j))
buildDepositMany(s, j) == Pay(Withdrawn(s, j), Ids(s, j))
buildOpenAndFundSeatA(s, j) == Pay(Withdrawn(s, j), Ids(s, j))
buildDeposit(s, j) == Pay(Withdrawn(s, j), Ids(s, j))
Spent(s, j) ==
    CASE j.kind = "open" -> buildOpenAndFundMany(s, j)
      [] j.kind = "deposit" -> buildDepositMany(s, j)
      [] j.kind = "host" -> buildOpenAndFundSeatA(s, j)
      [] j.kind = "guest" -> buildDeposit(s, j)
\* What the caller does once the transaction is in: all but a guest's deposit are read back.
ReadBack(s, j) == Swap(Spent(s, j), j, {[j EXCEPT !.stage = "read"]})
openAndFundMany(s, j) == ReadBack(s, j)
openAndFundSelfPlay(s, j) == ReadBack(s, j)
depositSeatAMany(s, j) == ReadBack(s, j)
openAndFundSharedTunnel(s, j) == ReadBack(s, j)
depositStake(s, j) == Answer(Swap(Spent(s, j), j, {}), Ids(s, j), "resolved")

\* An error the caller takes for one before the commit: the wallet is tried after the sponsor,
\* then each request of a batch by itself.
withSponsorFallback(j) == [j EXCEPT !.stage = "send", !.via = "wallet"]
Fails(s, j) ==
    IF j.mode = "sui" /\ j.via = "sponsor" THEN Swap(s, j, {withSponsorFallback(j)})
    ELSE IF j.batch THEN Swap(s, j, {Job(s, <<r>>, "send", FALSE) : r \in Ids(s, j)})
    ELSE rejectAll(s, j)

Sends(j, kind, batch) == j.kind = kind /\ j.batch = batch /\ Runs(st, j)
openChunk(j) == Sends(j, "open", TRUE) /\ st' = openAndFundMany(st, j)
openSingle(j) == Sends(j, "open", FALSE) /\ st' = openAndFundSelfPlay(st, j)
depositChunk(j) == Sends(j, "deposit", TRUE) /\ st' = depositSeatAMany(st, j)
depositSingle(j) == Sends(j, "deposit", FALSE) /\ st' = depositSeatAMany(st, j)
hostSends(j) == Sends(j, "host", FALSE) /\ st' = openAndFundSharedTunnel(st, j)
guestSends(j) == Sends(j, "guest", FALSE) /\ st' = depositStake(st, j)
signExec(j) ==
    \/ openChunk(j) \/ openSingle(j) \/ depositChunk(j) \/ depositSingle(j)
    \/ hostSends(j) \/ guestSends(j)
\* The transaction runs but the call that submitted it throws.
answerLost(j) ==
    Runs(st, j) /\ st' = [Fails(Spent(st, j), j) EXCEPT !.lost = @ \cup Ids(st, j)]
\* Refused before it runs; a withdrawal that is not covered is retried instead.
Refused(j) == j.stage = "send" /\ Covered(st, j) /\ st' = Fails(st, j)

\* Reading back the tunnels: opens are told apart by party A, a deposit knows its tunnel.
byPartyA(s, ids) ==
    [a \in Address(s) |->
       LET mine == SelectSeq(ids, LAMBDA r : partyA(s, r) = a)
       IN  IF mine = <<>> THEN <<>> ELSE <<Last(mine)>>]
resolve(s, j, r) == IF j.kind = "open" THEN byPartyA(s, j.ids)[partyA(s, r)] ELSE <<r>>
Resolved(s, j) ==
    [Swap(s, j, {}) EXCEPT
       !.req = [r \in Requests |->
                  IF r \notin Ids(s, j) THEN s.req[r]
                  ELSE LET id == resolve(s, j, r)
                       IN  [s.req[r] EXCEPT !.got = id,
                              !.state = IF id = <<>> THEN "rejected" ELSE "resolved"]]]
flushChunk(j) == j.stage = "read" /\ st' = Resolved(st, j)

\* A committed batch, and a committed deposit, are never retried; a single open whose read
\* fails throws a plain error, which the sponsor fallback takes for a refusal.
readFails(j) ==
    /\ j.stage = "read"
    /\ st' = IF j.batch \/ j.kind = "deposit" THEN rejectAll(st, j)
             ELSE [Fails(st, j) EXCEPT !.lost = @ \cup Ids(st, j)]

Step(j) ==
    \/ ensureMtpsAddressBalance(j) \/ topUpFails(j)
    \/ signExec(j) \/ answerLost(j) \/ Refused(j)
    \/ flushChunk(j) \/ readFails(j)
Progress(r) == \E j \in st.jobs : r \in Ids(st, j) /\ Step(j)
Next ==
    \/ \E r \in Requests : request(r) \/ openSharedTunnelStaked(r) \/ depositStakeStaked(r)
    \/ flush \/ configureSharedBatcher \/ useMtpsAutoFaucet
    \/ \E j \in st.jobs : Step(j)

-----------------------------------------------------------------------------
\* A request's stake is taken once, except where a transaction ran and only its answer or
\* its read-back failed (a deposit is safe even then: the seat is funded already), and then
\* at most once per attempt: batch and single, each sponsored and by the wallet.
StakedOnce(s) ==
    \A r \in Requests :
      \/ s.req[r].paid <= 1
      \/ r \in s.lost /\ s.req[r].kind \in {"open", "host"} /\ s.req[r].paid <= 4
\* A request is resolved with a tunnel that holds its stake and is its own; one whose stake
\* was never taken is never told it was.
OwnTunnel(s) ==
    \A r \in Requests :
      /\ s.req[r].state = "resolved" => s.req[r].paid >= 1
      /\ s.req[r].got \in {<<>>, <<r>>}
\* No request is answered twice or lost: it waits in the queue, or in exactly one job.
Held(s) ==
    \A r \in Requests :
      LET queued == r \in ToSet(s.queue)
          jobs == {j \in s.jobs : r \in Ids(s, j)}
      IN  IF s.req[r].state = "waiting"
          THEN IF queued THEN s.timer /\ jobs = {} ELSE \E j \in s.jobs : jobs = {j}
          ELSE ~queued /\ jobs = {}
\* A withdrawal nothing will cover any more is retried for ever: the balance is too small for
\* it, and too large (or the wallet gone, or the faucet dry) for the page to refill it.
Starved(s, j) ==
    /\ j.stage = "send" /\ ~Covered(s, j)
    /\ s.bal >= MTPS_MIN_BALANCE \/ ~s.conn \/ s.pulls = 0
Waiting(s, r) ==
    s.req[r].state = "waiting" /\ ~\E j \in s.jobs : r \in Ids(s, j) /\ Starved(s, j)
=============================================================================

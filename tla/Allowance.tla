----------------------------- MODULE Allowance -----------------------------
(***************************************************************************)
(* The agent allowance: the shared on-chain object that vests a capped     *)
(* budget to a payee (example_agent_allowance.move), the window that       *)
(* deploys, pays from, pauses and revokes it on the strength of a snapshot *)
(* read some time ago (AgentAllowanceWindow), and the script calls any of  *)
(* the other parties may make at the same time (examples/agentAllowance).  *)
(***************************************************************************)
EXTENDS Integers, Sequences

CONSTANTS Agents,    \* allowances the window may deploy
          Scripts,   \* calls made from outside the window
          Horizon,   \* last instant
          SECOND,    \* instants per second of the vesting clock
          CLAIM_SKEW_MS,
          Rates, Caps

VARIABLE st

Lesser(x, y) == IF x < y THEN x ELSE y
Greater(x, y) == IF x > y THEN x ELSE y
Ids == 1..Agents

rateVested(a, now) ==
    IF a.status # "active" THEN Lesser(a.floor, a.cap)
    ELSE LET deadline == IF a.expiry = 0 THEN now ELSE Lesser(a.expiry, now)
             elapsed == IF deadline > a.anchor THEN (deadline - a.anchor) \div SECOND ELSE 0
         IN  Lesser(a.floor + a.rate * elapsed, a.cap)
computeEntitled(a, now) == Lesser(Greater(rateVested(a, now), a.auth), a.cap)
Unspent(a, now) == Greater(computeEntitled(a, now) - a.spent, 0)
computeAvailable(a, now) ==
    IF a.status # "active" THEN 0 ELSE Lesser(Unspent(a, now), a.escrow)

\* The contract: what each entry function requires, and the object it leaves.
reanchor(a, now) == [a EXCEPT !.floor = rateVested(a, now), !.anchor = now]
CanClaim(a, amount, now) ==
    /\ a.status = "active"
    /\ amount > 0
    /\ amount <= a.cap - a.spent
    /\ amount <= Unspent(a, now)
    /\ amount <= a.escrow
claim(a, amount) == [a EXCEPT !.spent = @ + amount, !.escrow = @ - amount]
CanAuthorize(a, total) == a.status = "active" /\ total > a.auth /\ total <= a.cap
\* Variant: a pause forgets what vested since the last anchor.
pauseUnanchored(a, now) == [a EXCEPT !.status = "paused"]
pause(a, now) == [reanchor(a, now) EXCEPT !.status = "paused"]
resume(a, now) == [a EXCEPT !.anchor = now, !.status = "active"]
revoke(a, now) ==
    LET payable == Lesser(Unspent(a, now), a.escrow)
    IN  [a EXCEPT !.spent = @ + payable, !.back = a.escrow - payable, !.escrow = 0,
                  !.status = "revoked"]
Created(rate, cap, expiry, now) ==
    [rate |-> rate, cap |-> cap, floor |-> 0, anchor |-> now, auth |-> 0, expiry |-> expiry,
     status |-> "active", spent |-> 0, escrow |-> cap, put |-> cap, back |-> 0]

Idle == [op |-> "none", k |-> 0, stage |-> "none", amount |-> 0, fresh |-> FALSE]
Init ==
    st = [now |-> 1, clk |-> 1, made |-> 0, chain |-> <<>>, prev |-> <<>>, calls |-> 0,
          id |-> 0, snap |-> <<>>, tx |-> Idle]

\* The Sui clock trails the wall clock by at most the skew the window discounts.
WallClock == /\ st.now < Horizon /\ st.now - st.clk < CLAIM_SKEW_MS
             /\ st' = [st EXCEPT !.now = @ + 1]
SuiClock == st.clk < st.now /\ st' = [st EXCEPT !.clk = @ + 1]

\* A transaction on allowance k; a node that lags still serves the object before it.
Put(s, k, a) ==
    [s EXCEPT !.chain[k] = a, !.prev[k] = s.chain[k], !.tx.fresh = @ /\ s.tx.k # k]
Shown(s) == s.snap # <<>>
Snap(s) == s.snap[1]
Paused(s) == Shown(s) /\ Snap(s).status = "paused"
Revoked(s) == Shown(s) /\ Snap(s).status = "revoked"

Claimable(s) == computeAvailable(Snap(s), s.now - CLAIM_SKEW_MS)
Quiet(s) == s.tx.op = "none"
FormOffers(s) == {x \in {"deploy"} : Quiet(s)}
DashboardOffers(s) ==
    {x \in {"pay", "pause", "resume", "stop", "new"} :
       CASE x = "pay" -> Quiet(s) /\ Claimable(s) > 0 /\ ~Paused(s)
         [] x = "pause" -> Quiet(s) /\ ~Paused(s)
         [] x = "resume" -> Quiet(s) /\ Paused(s)
         [] x = "stop" -> Quiet(s)
         [] x = "new" -> TRUE}
Offers(s) ==
    IF s.id = 0 \/ Revoked(s) THEN FormOffers(s)
    ELSE IF Shown(s) THEN DashboardOffers(s) ELSE {}

\* The transactions; the terms of a new allowance are the player's choice.
buildCreateAllowanceTx == [Idle EXCEPT !.op = "deploy", !.stage = "sign"]
buildClaimTx(k, amount) ==
    [Idle EXCEPT !.op = "pay", !.k = k, !.amount = amount, !.stage = "sign"]
buildClockOnlyTx(op, k) == [Idle EXCEPT !.op = op, !.k = k, !.stage = "sign"]

run(s, tx) ==
    [s EXCEPT !.tx = [tx EXCEPT !.fresh = tx.k # 0 /\ Snap(s) = s.chain[tx.k]]]
onDeploy == /\ "deploy" \in Offers(st) /\ st.made < Agents
            /\ st' = run(st, buildCreateAllowanceTx)
onSettle == "pay" \in Offers(st) /\ st' = run(st, buildClaimTx(st.id, Claimable(st)))
onPause == "pause" \in Offers(st) /\ st' = run(st, buildClockOnlyTx("pause", st.id))
onResume == "resume" \in Offers(st) /\ st' = run(st, buildClockOnlyTx("resume", st.id))
onRevoke == "stop" \in Offers(st) /\ st' = run(st, buildClockOnlyTx("stop", st.id))
\* "New agent" is offered at any time, a transaction under way included.
reset == "new" \in Offers(st) /\ st' = [st EXCEPT !.id = 0, !.snap = <<>>]

Accepts(a, tx, now) ==
    CASE tx.op = "pay" -> CanClaim(a, tx.amount, now)
      [] tx.op = "pause" -> a.status = "active"
      [] tx.op = "resume" -> a.status = "paused"
      [] tx.op = "stop" -> a.status # "revoked"
After(a, tx, now) ==
    CASE tx.op = "pay" -> claim(a, tx.amount)
      [] tx.op = "pause" -> pause(a, now)
      [] tx.op = "resume" -> resume(a, now)
      [] tx.op = "stop" -> revoke(a, now)
signExec ==
    /\ st.tx.stage = "sign"
    /\ IF st.tx.op = "deploy"
       THEN \E rate \in Rates, cap \in Caps, expiry \in {0, st.now + SECOND} :
              LET a == Created(rate, cap, expiry, st.clk)
              IN  st' = [st EXCEPT !.made = @ + 1, !.chain = Append(@, a),
                                   !.prev = Append(@, a), !.tx.k = st.made + 1,
                                   !.tx.stage = "find"]
       ELSE LET a == st.chain[st.tx.k]
            IN  st' = IF Accepts(a, st.tx, st.clk)
                      THEN [Put(st, st.tx.k, After(a, st.tx, st.clk)) EXCEPT
                              !.tx.stage = "read"]
                      ELSE [st EXCEPT !.tx = Idle]
Rejected == st.tx.stage = "sign" /\ st' = [st EXCEPT !.tx = Idle]
findCreatedAllowanceId ==
    /\ st.tx.stage = "find"
    /\ st' = [st EXCEPT !.id = st.tx.k, !.tx.stage = "read"]
NotIndexed ==
    /\ st.tx.stage = "find"
    /\ st' = [st EXCEPT !.tx = Idle]

Reads(k) == {st.chain[k], st.prev[k]}
\* The read that ends an operation lands in whatever the window shows by then.
fetchAllowance ==
    /\ st.tx.stage = "read"
    /\ \E a \in Reads(st.tx.k) : st' = [st EXCEPT !.snap = <<a>>, !.tx = Idle]
readFails == st.tx.stage = "read" /\ st' = [st EXCEPT !.tx = Idle]
poll ==
    /\ st.id # 0
    /\ \E a \in Reads(st.id) : st.snap # <<a>> /\ st' = [st EXCEPT !.snap = <<a>>]

\* Calls of the payee, the delegate or the principal from elsewhere.
Call(k, a) == st' = [Put(st, k, a) EXCEPT !.calls = @ + 1]
claimScript(k) ==
    \E amount \in 1..st.chain[k].cap :
      CanClaim(st.chain[k], amount, st.clk) /\ Call(k, claim(st.chain[k], amount))
authorizeSpend(k) ==
    \E total \in 1..st.chain[k].cap :
      CanAuthorize(st.chain[k], total) /\ Call(k, [st.chain[k] EXCEPT !.auth = total])
claimWithVoucher(k) ==
    \E total, amount \in 1..st.chain[k].cap :
      LET a == [st.chain[k] EXCEPT !.auth = total]
      IN  /\ CanAuthorize(st.chain[k], total)
          /\ CanClaim(a, amount, st.clk)
          /\ Call(k, claim(a, amount))
topUp(k) ==
    /\ st.chain[k].status # "revoked"
    /\ Call(k, [st.chain[k] EXCEPT !.escrow = @ + 1, !.put = @ + 1])
setRate(k) ==
    /\ st.chain[k].status = "active"
    /\ \E r \in Rates \cup {0} : Call(k, [reanchor(st.chain[k], st.clk) EXCEPT !.rate = r])
increaseCap(k) ==
    /\ st.chain[k].status # "revoked"
    /\ Call(k, [st.chain[k] EXCEPT !.cap = @ + 1])
pauseAllowance(k) ==
    st.chain[k].status = "active" /\ Call(k, pause(st.chain[k], st.clk))
resumeAllowance(k) ==
    st.chain[k].status = "paused" /\ Call(k, resume(st.chain[k], st.clk))
revokeAllowance(k) ==
    st.chain[k].status # "revoked" /\ Call(k, revoke(st.chain[k], st.clk))

Next ==
    \/ WallClock \/ SuiClock
    \/ onDeploy \/ onSettle \/ onPause \/ onResume \/ onRevoke \/ reset
    \/ signExec \/ Rejected \/ findCreatedAllowanceId \/ NotIndexed
    \/ fetchAllowance \/ readFails \/ poll
    \/ /\ st.calls < Scripts
       /\ \E k \in 1..st.made : \/ claimScript(k) \/ authorizeSpend(k) \/ claimWithVoucher(k)
                                \/ topUp(k) \/ setRate(k) \/ increaseCap(k)
                                \/ pauseAllowance(k) \/ resumeAllowance(k)
                                \/ revokeAllowance(k)

-----------------------------------------------------------------------------
\* Whatever was escrowed is in the escrow, with the payee or back with the principal, and
\* the payee has never been paid more than it was entitled to or than the cap.
Escrowed(s) ==
    \A k \in 1..s.made :
      LET a == s.chain[k]
      IN  /\ a.put = a.escrow + a.spent + a.back
          /\ a.spent <= a.cap
          /\ a.status # "revoked" => a.spent <= computeEntitled(a, s.clk)
          /\ a.status = "revoked" => a.escrow = 0
\* What the payee has earned is never taken back by a pause, a resume or a new rate.
EarnedStays(s, t) ==
    \A k \in 1..s.made :
      t.chain[k].status # "revoked" =>
        computeEntitled(s.chain[k], s.clk) <= computeEntitled(t.chain[k], t.clk)
\* "Pay now" from a snapshot that was current, and still is, is accepted: the skew covers
\* the lag of the Sui clock.
FreshClaimAccepted(s) ==
    s.tx.stage = "sign" /\ s.tx.op = "pay" /\ s.tx.fresh
      => Accepts(s.chain[s.tx.k], s.tx, s.clk)
=============================================================================

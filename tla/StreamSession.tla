--------------------------- MODULE StreamSession ---------------------------
(***************************************************************************)
(* useStreamingPaymentSession and the stream it drives: an escrow on chain *)
(* that unlocks linearly, the ticks the window co-signs against the clock, *)
(* and the transactions (create, top up, cancel) that take their time      *)
(* while the clock runs on.  el counts the time since a stream's start.    *)
(***************************************************************************)
EXTENDS Naturals

CONSTANTS Streams,    \* how many streams the window may create
          TopUps,     \* how often it may top up
          Total,      \* the amount of a stream
          DURATIONS,  \* the durations offered
          Longest,    \* bound on a stream's duration, top-ups included
          Lag         \* may the indexer still answer with the old object after ten reads

VARIABLE st

Ids == 1..Streams

\* The unlock curve, the tick B accepts, and the constant-rate top-up.
computeUnlocked(f, el) == IF el >= f.dur THEN f.total ELSE (f.total * el) \div f.dur
\* Variant: the amount is rounded down.
topUpAmountForFloor(f, added) == (f.total * added) \div f.dur
topUpAmountFor(f, added) == (f.total * added + f.dur - 1) \div f.dur
Extended(f, by, added) == [f EXCEPT !.total = @ + by, !.dur = @ + added]
verifyTick(f, tick, prior, el) ==
    /\ f.status = "active"
    /\ tick.nonce = prior.nonce + 1
    /\ el <= f.dur
    /\ tick.accrued = computeUnlocked(f, el)
    /\ tick.accrued <= f.total
    /\ prior.nonce > 0 => tick.accrued >= prior.accrued

None == [total |-> 0, dur |-> 1, status |-> "none"]
buildTick(f, prior, el) ==
    [nonce |-> prior.nonce + 1, accrued |-> computeUnlocked(f, el)]
noTick == [nonce |-> 0, accrued |-> 0]
isSessionTxPhase(p) == p \in {"creating", "toppingUp", "cancelling"}

Fresh ==
    [screen |-> "lobby", phase |-> "idle", id |-> 0, of |-> 0, stream |-> None,
     vest |-> FALSE, tick |-> noTick, ticking |-> FALSE, watch |-> FALSE, auto |-> TRUE,
     loop |-> "top", abort |-> FALSE, txs |-> {}, made |-> 0, tops |-> 0, stale |-> FALSE,
     chain |-> [k \in Ids |-> None], el |-> [k \in Ids |-> 0]]

Terminal(s) == s.vest \/ s.stream.status = "cancelled"
LobbyOffers(s) == {b \in {"start"} : ~isSessionTxPhase(s.phase)}
CompleteOffers(s) == {b \in {"complete"} : Terminal(s)}
DashboardOffers(s) ==
    {b \in {"auto", "topUp", "cancel"} :
       /\ s.stream.status = "active"
       /\ ~isSessionTxPhase(s.phase)
       /\ b # "auto" => ~Terminal(s)}
Offers(s) ==
    IF s.screen = "lobby" THEN LobbyOffers(s) ELSE DashboardOffers(s) \cup CompleteOffers(s)

abandon(s) ==
    [s EXCEPT !.id = 0, !.of = 0, !.stream = None, !.tick = noTick, !.vest = FALSE]

\* ++gen: every flow under way is overtaken.
Bumped(s) == [s EXCEPT !.txs = {[t EXCEPT !.over = TRUE] : t \in s.txs}]
buildCreateStreamTx(k, dur) ==
    [op |-> "create", k |-> k, by |-> Total, added |-> dur, at |-> "sign", over |-> FALSE]
buildCancelStreamTx(k) ==
    [op |-> "cancel", k |-> k, by |-> 0, added |-> 0, at |-> "sign", over |-> FALSE]
buildTopUpTx(k, by, added) ==
    [op |-> "topUp", k |-> k, by |-> by, added |-> added, at |-> "sign", over |-> FALSE]
Sent(s, tx) == [Bumped(s) EXCEPT !.txs = @ \cup {tx}]
startStream(s, dur) ==
    IF isSessionTxPhase(s.phase) THEN s
    ELSE [Sent(s, buildCreateStreamTx(s.made + 1, dur)) EXCEPT !.phase = "creating",
                                                           !.made = @ + 1]
topUp(s, added) ==
    [Sent(s, buildTopUpTx(s.id, topUpAmountFor(s.stream, added), added))
       EXCEPT !.phase = "toppingUp", !.tops = @ + 1]
cancelStream(s) == [Sent(s, buildCancelStreamTx(s.id)) EXCEPT !.phase = "cancelling"]
completeRound(s) ==
    IF s.screen = "lobby" /\ s.id = 0 THEN s
    ELSE [abandon(Bumped(s)) EXCEPT !.ticking = FALSE, !.watch = FALSE, !.screen = "lobby",
                                    !.phase = "idle"]

\* What the contract makes of a transaction, and whether it takes it.
Accepts(s, t) ==
    LET f == s.chain[t.k]
    IN  CASE t.op = "create" -> TRUE
          [] t.op = "topUp"  ->
               /\ f.status = "active"
               /\ s.el[t.k] < f.dur
               /\ computeUnlocked(Extended(f, t.by, t.added), s.el[t.k])
                    >= computeUnlocked(f, s.el[t.k])
          [] t.op = "cancel" -> f.status = "active"
Executed(s, t) ==
    CASE t.op = "create" ->
           [s EXCEPT !.chain[t.k] = [total |-> t.by, dur |-> t.added, status |-> "active"]]
      [] t.op = "topUp"  -> [s EXCEPT !.chain[t.k] = Extended(@, t.by, t.added)]
      [] t.op = "cancel" -> [s EXCEPT !.chain[t.k].status = "cancelled"]

Dropped(s, t) == [s EXCEPT !.txs = @ \ {t}]
\* signExec returns: an overtaken flow stops here, a cancel stops the meter.
signExec(t) ==
    /\ t.at = "sign"
    /\ Accepts(st, t)
    /\ LET s == Executed(Dropped(st, t), t)
           u == [s EXCEPT !.txs = @ \cup {[t EXCEPT !.at = "read"]}]
       IN  st' = IF t.over THEN s
                 ELSE IF t.op = "cancel" THEN [u EXCEPT !.ticking = FALSE, !.watch = FALSE]
                 ELSE u
\* A transaction the wallet or the contract refused, or a new stream not indexed in time.
\* A failed cancel does not look at the generation.
Failed(t) ==
    /\ t.at = "sign" \/ (t.op = "create" /\ Lag)
    /\ LET s == Dropped(st, t)
       IN  st' = CASE t.op = "create" ->
                        IF t.over THEN s
                        ELSE [s EXCEPT !.id = 0, !.stream = None, !.of = 0,
                                       !.phase = "idle", !.screen = "lobby"]
                   [] t.op = "topUp" ->
                        IF t.over THEN s ELSE [s EXCEPT !.phase = "streaming"]
                   [] t.op = "cancel" ->
                        [s EXCEPT !.phase = "streaming", !.stale = @ \/ t.over]

\* The reads after a transaction, which do not look at the generation again.
Read(t, f) ==
    LET s == [Dropped(st, t) EXCEPT !.stale = @ \/ t.over]
    IN  CASE t.op = "create" ->
               [s EXCEPT !.screen = "dashboard", !.phase = "streaming", !.id = t.k,
                         !.of = t.k, !.stream = f, !.vest = FALSE, !.ticking = TRUE,
                         !.watch = TRUE]
          [] t.op = "topUp" ->
               [s EXCEPT !.stream = f, !.of = t.k, !.tick = noTick, !.phase = "streaming"]
          [] t.op = "cancel" -> [s EXCEPT !.stream = f, !.of = t.k, !.phase = "idle"]
fetchStreamAfterMutation(t) ==
    /\ t.at = "read"
    /\ st' = Read(t, st.chain[t.k])
fetchStreamStale(t) ==
    /\ t.at = "read"
    /\ Lag
    /\ t.op # "create"
    /\ st.of = t.k
    /\ st' = Read(t, st.stream)

runTickStep ==
    /\ st.ticking
    /\ st.of # 0
    /\ LET el == st.el[st.of]
           tick == buildTick(st.stream, st.tick, el)
       IN  \/ /\ verifyTick(st.stream, tick, st.tick, el)
              \* every tick counts; only a change of the meter is a step here
              /\ tick.accrued # st.tick.accrued \/ st.tick.nonce = 0
              /\ st' = [st EXCEPT !.tick = [tick EXCEPT !.nonce = 1]]
           \/ el > st.stream.dur /\ st' = [st EXCEPT !.ticking = FALSE]
checkVestComplete ==
    /\ st.watch
    /\ st.of # 0
    /\ st.stream.status = "active"
    /\ ~st.vest
    /\ st.el[st.of] >= st.stream.dur
    /\ st' = [st EXCEPT !.vest = TRUE, !.ticking = FALSE, !.watch = FALSE, !.phase = "idle"]

\* Time passes, until just after its end, for a stream the window still deals with.
Running(s, k) ==
    /\ s.chain[k].status = "active"
    /\ s.el[k] <= s.chain[k].dur
    /\ k = s.of \/ \E t \in s.txs : t.k = k
Clock ==
    /\ \E k \in Ids : Running(st, k)
    /\ st' = [st EXCEPT !.el = [k \in Ids |-> IF Running(st, k) THEN @[k] + 1 ELSE @[k]]]

stopAutoLoop(s) == [s EXCEPT !.abort = s.loop # "off"]
startAutoLoop(s) ==
    IF s.loop # "off" \/ ~s.auto THEN s ELSE [s EXCEPT !.loop = "top", !.abort = FALSE]
\* The window's effect runs on every change of autoMode: the cleanup of the last one
\* stops the loop, then the loop is bound again.
bindAutoLoop(s) == IF s.auto THEN startAutoLoop(stopAutoLoop(s)) ELSE stopAutoLoop(s)
toggleAutoMode(s) ==
    LET t == [s EXCEPT !.auto = ~@]
    IN  bindAutoLoop(IF t.auto THEN startAutoLoop(t) ELSE stopAutoLoop(t))

At(s, l) == [s EXCEPT !.loop = l]
Live(s) == s.screen = "dashboard" /\ s.phase = "streaming" /\ s.stream.status = "active"
Turns(s) ==
    CASE s.abort \/ ~s.auto -> {At(s, "off")}
      [] s.loop = "top" ->
           IF s.screen # "lobby" \/ s.phase # "idle" THEN {At(s, "live")}
           ELSE IF s.made < Streams THEN {At(startStream(s, d), "live") : d \in DURATIONS}
           ELSE {}
      [] s.loop = "live"  -> IF Live(s) THEN {At(s, "ended")} ELSE {}
      [] s.loop = "ended" -> IF Terminal(s) THEN {At(s, "home")} ELSE {}
      [] s.loop = "home"  -> IF s.screen = "lobby" THEN {At(s, "top")} ELSE {}
      [] OTHER -> {}
runAutoLoop == st.loop # "off" /\ st' \in Turns(st)
\* A wait that times out ends the loop, but for the wait for a live stream.
waitForState ==
    /\ Turns(st) = {}
    /\ \/ st.loop = "live" /\ st' = At(st, "ended")
       \/ st.loop \in {"ended", "home"} /\ st' = At(st, "off")

Press(b) ==
    /\ b \in Offers(st)
    /\ \E d \in DURATIONS :
         CASE b = "start"    -> st.made < Streams /\ st' = startStream(st, d)
           [] b = "topUp"    ->
                /\ st.id # 0
                /\ st.tops < TopUps
                /\ st.stream.dur + d <= Longest
                /\ st' = topUp(st, d)
           [] b = "cancel"   -> st.id # 0 /\ st' = cancelStream(st)
           [] b = "auto"     -> st' = toggleAutoMode(st)
           [] b = "complete" -> st' = completeRound(st)

Init == st = Fresh
Complete == Press("complete")
Settles(op) ==
    \E t \in st.txs : t.op = op /\ (signExec(t) \/ Failed(t) \/ fetchStreamAfterMutation(t))
Next ==
    \/ \E t \in st.txs : signExec(t) \/ Failed(t) \/ fetchStreamAfterMutation(t)
                         \/ fetchStreamStale(t)
    \/ \E b \in {"start", "topUp", "cancel", "auto"} : Press(b)
    \/ Complete
    \/ runTickStep \/ checkVestComplete \/ Clock \/ runAutoLoop \/ waitForState

-----------------------------------------------------------------------------
\* The meter never shows the recipient more than the contract has unlocked for them while
\* the stream runs, whatever was topped up or read late.
MeterTrue(s) ==
    s.id # 0 /\ s.of = s.id /\ s.chain[s.id].status = "active" =>
      s.tick.accrued <= computeUnlocked(s.chain[s.id], s.el[s.id])
\* A constant-rate top-up on the stream's present terms is never one the contract refuses
\* for taking back what is already unlocked.
TopUpAccepted(s) ==
    \A t \in s.txs :
      t.op = "topUp" /\ t.at = "sign" /\ t.by = topUpAmountFor(s.chain[t.k], t.added) =>
        s.el[t.k] >= s.chain[t.k].dur
          \/ computeUnlocked(Extended(s.chain[t.k], t.by, t.added), s.el[t.k])
               >= computeUnlocked(s.chain[t.k], s.el[t.k])
\* The dashboard always has a stream to draw; and unless a top-up or a cancel outlived its
\* round, the lobby has none and can start one.
ScreenTrue(s) ==
    IF s.screen = "dashboard" THEN s.of # 0 /\ s.stream.status # "none"
    ELSE s.stale \/ (s.of = 0 /\ s.phase \in {"idle", "creating"})
=============================================================================

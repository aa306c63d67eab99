---------------------------- MODULE ShopSession ----------------------------
(***************************************************************************)
(* useRegularPaymentsSession: a shopping round against the shop bot.  The  *)
(* player, or the auto loop in their place, finds a shop (a fresh arena    *)
(* allocation, or the entry the desktop deposited), fills the cart one     *)
(* co-signed payment at a time, pays, and returns to the lobby.  A flow is *)
(* told that it was overtaken by the generation counter alone.             *)
(***************************************************************************)
EXTENDS MatchSession

VARIABLE st

\* x: the screen, the generation and the one each flow and the payment started under, the
\* auto loop's place ("off": none runs) and whether it was aborted, the pick in flight and
\* the number of items in the cart.
Start ==
    [screen |-> "lobby", gen |-> 0, of |-> Each(0), pay |-> 0, loop |-> "top",
     abort |-> FALSE, pick |-> FALSE, cart |-> 0]

busy(s) == s.status \in {"opening", "settling"}
\* The buttons, per component of the window.
LobbyOffers(s) == {b \in {"find"} : ~busy(s)}
HeaderOffers(s) == {"auto"} \cup {b \in {"lobby"} : ~busy(s)}
BodyOffers(s) == {b \in {"pick"} : ~busy(s) /\ ~s.x.pick}
CartOffers(s) == {b \in {"pay", "remove"} : ~busy(s) /\ ~s.x.pick /\ s.x.cart > 0}
ThankYouOffers(s) == {"home"}
Offers(s) ==
    CASE s.x.screen = "lobby" -> LobbyOffers(s)
      [] s.x.screen = "shop" -> HeaderOffers(s) \cup BodyOffers(s) \cup CartOffers(s)
      [] OTHER -> ThankYouOffers(s)

\* teardownRelay and abandonTunnel: a tunnel left before its close leaves its stake behind.
abandonTunnel(s) ==
    [s EXCEPT !.open = @ \ {s.mp}, !.mp = 0, !.buf = 0, !.waiter = 0, !.tun = 0,
              !.x.cart = 0, !.x.pick = FALSE]

\* The desktop's entry carries a stake already paid; the phase stays idle while it is joined.
\* Both ways of entering come here.
enterArenaMatch(s, k) ==
    LET t == abandonTunnel(s)
    IN  [t EXCEPT !.x.gen = @ + 1, !.x.of[k] = s.x.gen + 1, !.open = @ \cup {k}, !.mp = k,
                  !.flow[k] = "join"]
ArenaEntry(s) ==
    LET k == s.started + 1
    IN  enterArenaMatch([s EXCEPT !.started = k, !.sock[k] = k, !.staked = @ \cup {k},
                                  !.entered = TRUE], k)
fundArenaAndEnter(s) ==
    LET k == s.started + 1
    IN  [s EXCEPT !.started = k, !.sock[k] = k, !.flow[k] = "open", !.status = "opening",
                  !.x.gen = @ + 1, !.x.of[k] = s.x.gen + 1,
                  !.stale = @ \/ \E j \in Ids : s.flow[j] \in Waiting]
\* The shops findShop can lead to: the one at hand, the entry in store, or a new one.
findShop(s) ==
    IF busy(s) \/ s.x.pick THEN {s}
    ELSE IF s.tun # 0 /\ s.status = "shopping" THEN {[s EXCEPT !.x.screen = "shop"]}
    ELSE IF ~Room(s) THEN {}
    ELSE {fundArenaAndEnter(s)} \cup (IF s.entered THEN {} ELSE {ArenaEntry(s)})

Allocated(k) ==
    /\ st.flow[k] = "open"
    /\ LET s == [st EXCEPT !.staked = @ \cup {k}]
       IN  st' = IF s.x.of[k] # s.x.gen THEN [s EXCEPT !.flow[k] = "gone"]
                 ELSE enterArenaMatch(s, k)
\* The generation is looked at after the join, and not again after the peer's hello.
Joined(k) ==
    /\ st.flow[k] = "join"
    /\ Online(st, k)
    /\ st' = IF st.x.of[k] # st.x.gen THEN [st EXCEPT !.flow[k] = "gone"]
             ELSE [st EXCEPT !.flow[k] = "hello", !.buf = 0, !.waiter = 0]
wireDistributedTunnel(k) ==
    /\ st.flow[k] = "hello"
    /\ Online(st, k)
    /\ st' = [st EXCEPT !.flow[k] = "live", !.tun = k, !.game[k].at = "break",
                        !.x.screen = "shop", !.status = "shopping"]
Failed(k) ==
    /\ st.flow[k] \in Waiting
    /\ LET s == Threw(st, k)
           t == [s EXCEPT !.status = "error", !.x.screen = "lobby", !.entered = FALSE]
       IN  st' = IF s.x.of[k] # s.x.gen THEN s
                 ELSE IF st.flow[k] = "open" THEN t ELSE abandonTunnel(t)

\* A pick needs its ACK before the next; the tunnel's balance bounds their number.
addToCart(s) ==
    IF s.status # "shopping" \/ s.x.pick \/ s.tun = 0 \/ s.x.cart = Moves THEN s
    ELSE [s EXCEPT !.game[s.tun].pend = TRUE, !.x.cart = @ + 1, !.x.pick = TRUE]
onConfirmed(k) ==
    /\ st.flow[k] = "live"
    /\ st.game[k].pend
    /\ Online(st, k)
    /\ k \notin st.signed
    /\ st' = [st EXCEPT !.game[k].pend = FALSE, !.game[k].n = @ + 1, !.x.pick = FALSE]

\* An item is paid for as it is picked: nothing is ever taken out.
removeFromCart(s) == s

\* payNow: stop, then the bot's half, which may already wait in the buffer.
payNow(s) ==
    IF s.tun = 0 \/ s.status # "shopping" \/ s.x.pick \/ s.x.cart = 0 THEN s
    ELSE [s EXCEPT !.status = "settling", !.stops = @ \cup {s.tun}, !.x.pay = s.x.gen,
                   !.fin[s.tun] = IF s.buf # 0 THEN "paying" ELSE "half", !.buf = 0,
                   !.waiter = IF s.buf # 0 THEN @ ELSE s.tun]
botSigns(k) == CanBotSign(st, k) /\ ~st.game[k].pend /\ st' = BotSigns(st, k)
settleHalf(k) ==
    /\ k \in st.halves
    /\ Online(st, k)
    /\ LET s == [st EXCEPT !.halves = @ \ {k}]
       IN  st' = IF s.waiter = 0 THEN [s EXCEPT !.buf = k]
                 ELSE [s EXCEPT !.waiter = 0, !.fin[s.waiter] = "paying"]
\* coSignCloseFromPeerRoot, for the tunnel the session names by then.
coSign(k) ==
    /\ st.fin[k] = "paying"
    /\ st' = IF st.tun = k /\ Verifies(st, k, k)
             THEN [st EXCEPT !.fin[k] = "submit", !.subs[k] = @ + 1]
             ELSE [st EXCEPT !.fin[k] = "refused"]
Paid(k) ==
    /\ st.fin[k] = "submit"
    /\ LET s == [st EXCEPT !.fin[k] = "done", !.closed = @ \cup {k}]
       IN  st' = IF s.x.gen # s.x.pay THEN s
                 ELSE [s EXCEPT !.x.screen = "thankYou", !.status = "idle"]
\* SETTLE_HALF_TIMEOUT_MS, a refused half or a failed submit: back to the shop.
PayFails(k) ==
    /\ st.fin[k] \in {"half", "refused", "submit"}
    /\ LET s == [st EXCEPT !.fin[k] = "failed", !.waiter = 0]
       IN  st' = IF s.x.gen # s.x.pay THEN s ELSE [s EXCEPT !.status = "shopping"]

goLobby(s) == [s EXCEPT !.x.screen = "lobby", !.status = IF s.tun # 0 THEN "shopping" ELSE "idle"]
completeRound(s) ==
    [abandonTunnel(s) EXCEPT !.entered = FALSE, !.x.screen = "lobby", !.status = "idle"]

stopAutoLoop(s) == [s EXCEPT !.x.abort = s.x.loop # "off"]
startAutoLoop(s) ==
    IF s.x.loop # "off" \/ ~s.auto THEN s ELSE [s EXCEPT !.x.loop = "top", !.x.abort = FALSE]
toggleAutoMode(s) ==
    IF s.auto THEN [stopAutoLoop(s) EXCEPT !.auto = FALSE]
    ELSE startAutoLoop([s EXCEPT !.auto = TRUE])

\* runAutoLoop, from one await to the next.
At(s, l) == [s EXCEPT !.x.loop = l]
ShopReady(s) == s.x.screen = "shop" /\ s.status = "shopping" /\ ~s.x.pick
Turns(s) ==
    CASE s.x.abort \/ ~s.auto -> {At(s, "off")}
      [] s.x.loop = "top" ->
           IF s.x.screen # "shop" \/ s.status \in {"idle", "opening", "error"}
           THEN {At(t, "wait") : t \in findShop(s)} ELSE {At(s, "burst")}
      [] s.x.loop = "wait" ->
           IF s.status = "error" THEN {At(s, "top")}
           ELSE IF ShopReady(s) THEN {At(s, "burst")} ELSE {}
      [] s.x.loop = "burst" /\ ~s.x.pick ->
           {addToCart(s)} \cup (IF s.x.cart > 0 \/ s.status # "shopping"
                                THEN {At(payNow(s), "thank")} ELSE {})
      [] s.x.loop = "thank" ->
           IF s.x.screen = "thankYou" /\ s.status = "idle" THEN {At(s, "home")} ELSE {}
      [] s.x.loop = "home" -> IF s.x.screen = "lobby" THEN {At(s, "top")} ELSE {}
      [] OTHER -> {}
runAutoLoop == st.x.loop # "off" /\ st' \in Turns(st)
\* waitForState gives up after three minutes, and the loop with it.
waitForState ==
    /\ st.x.loop \in {"wait", "thank", "home"}
    /\ Turns(st) = {}
    /\ st' = At(st, "off")

Press(b) ==
    /\ b \in Offers(st)
    /\ CASE b = "find"  -> st' \in findShop(st)
         [] b = "lobby" -> st' = goLobby(st)
         [] b = "pick"  -> st' = addToCart(IF st.auto THEN toggleAutoMode(st) ELSE st)
         [] b = "remove" -> st' = removeFromCart(IF st.auto THEN toggleAutoMode(st) ELSE st)
         [] b = "pay"   -> st' = payNow(st)
         [] b = "auto"  -> st' = toggleAutoMode(st)
         [] b = "home"  -> st' = completeRound(st)
\* consumeArenaEntry, tried on every change of phase or screen.
tryEnter ==
    /\ st.status = "idle"
    /\ st.x.screen = "lobby"
    /\ CanEnter(st)
    /\ st' = ArenaEntry(st)
dispose ==
    /\ st.reloads = 0
    /\ st' = [Mounted(st) EXCEPT !.auto = TRUE, !.x = Start,
                                 !.left = @ \cup (st.staked \ st.closed)]

Init == st = [Fresh EXCEPT !.auto = TRUE, !.x = Start]
Next ==
    \/ \E k \in Ids : \/ Allocated(k) \/ Joined(k) \/ wireDistributedTunnel(k) \/ Failed(k)
                      \/ onConfirmed(k) \/ botSigns(k) \/ settleHalf(k) \/ coSign(k)
                      \/ Paid(k) \/ PayFails(k)
    \/ \E b \in {"find", "lobby", "pick", "remove", "pay", "auto", "home"} : Press(b)
    \/ runAutoLoop \/ waitForState \/ tryEnter \/ dispose

-----------------------------------------------------------------------------
\* The cart on the screen is what the tunnel at hand has been charged: each item is one
\* co-signed payment, the last of them perhaps still in flight.
CartPaid(s) ==
    s.tun # 0 => s.x.cart = s.game[s.tun].n + (IF s.game[s.tun].pend THEN 1 ELSE 0)
=============================================================================

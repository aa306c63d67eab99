-------------------------- MODULE PvpQuantumPoker --------------------------
(***************************************************************************)
(* usePvpQuantumPoker: the session of the poker window.  The boards are    *)
(* "draw" (commit and reveal plumbing), "play" (a bet is due), "break"     *)
(* (hand_over) and "over".  Every move of the seat but the player's own    *)
(* bets goes through a timer, one per nonce; a timer names the nonce it is *)
(* for and not the match, and a commit carries secrets minted when it was  *)
(* scheduled.  Each match has its own inbox, so halves never mix.          *)
(***************************************************************************)
EXTENDS MatchSession

VARIABLE st

Refs == [foldOut |-> FALSE, peerLeft |-> FALSE, now |-> 0, due |-> 0, tm |-> {},
         mint |-> 0, sent |-> 0, duo |-> {}, leaving |-> FALSE]

\* The buttons of the window: before the match, and at the table.
LobbyOffers(s) ==
    CASE s.status = "idle" -> {"play"}
      [] s.status \in {"matching", "funding", "error"} -> {"reset"}
      [] OTHER -> {}
TableOffers(s) ==
    CASE s.status \in {"idle", "matching", "funding", "error"} -> {}
      [] s.status = "settled" -> {"back", "reset"}
      [] s.status = "settling" -> {"back"}
      [] OTHER -> {"back", "auto"}
                  \cup (IF s.game[s.tun].at = "play" /\ s.game[s.tun].mine THEN {"bet"} ELSE {})
                  \cup (IF s.game[s.tun].at \notin {"break", "over"} /\ ~s.stopping
                        THEN {"settle"} ELSE {})

Offers(s) == LobbyOffers(s) \cup TableOffers(s)

Cleared(s) ==
    [s EXCEPT !.stopping = FALSE, !.once = FALSE, !.x.foldOut = FALSE, !.x.peerLeft = FALSE]
reset(s) ==
    [Cleared(s) EXCEPT !.attached = {}, !.open = @ \ {s.mp}, !.mp = 0, !.tun = 0,
                       !.auto = s.pref, !.status = "idle", !.x.due = 0, !.x.now = 0]

\* The move the seat makes by itself: plumbing always, a fold once the player is leaving,
\* the persona's bet under Auto.
plumbingProposer(s, k) == s.game[k].mine /\ s.game[k].at \in {"draw", "break"}
\* Variant: a player who does not use Auto has to make the plumbing moves too.
MovesItselfAuto(s, k) == s.game[k].mine /\ (s.x.foldOut \/ s.auto)
MovesItself(s, k) ==
    \/ plumbingProposer(s, k)
    \/ s.game[k].mine /\ s.game[k].at = "play" /\ (s.x.foldOut \/ s.auto)

\* Variant: every nudge sets a timer of its own.
maybeAutoProposeEager(s) ==
    IF \/ s.tun = 0 \/ s.once \/ s.game[s.tun].pend \/ ~MovesItself(s, s.tun)
       \/ (s.stopping /\ s.game[s.tun].at = "break") \/ s.x.mint = 2
    THEN s
    ELSE LET n == s.game[s.tun].n + 1
             m == IF s.game[s.tun].at = "draw" THEN s.x.mint + 1 ELSE 0
         IN  [s EXCEPT !.x.due = n, !.x.tm = @ \cup {[n |-> n, mint |-> m]},
                       !.x.mint = IF m = 0 THEN @ ELSE m]
\* At most one timer per nonce; a commit's secrets are minted here.
maybeAutoPropose(s) ==
    IF \/ s.tun = 0 \/ s.once \/ s.game[s.tun].pend \/ ~MovesItself(s, s.tun)
       \/ (s.stopping /\ s.game[s.tun].at = "break") \/ s.x.due = s.game[s.tun].n + 1
    THEN s
    ELSE LET n == s.game[s.tun].n + 1
             m == IF s.game[s.tun].at = "draw" THEN s.x.mint + 1 ELSE 0
         IN  [s EXCEPT !.x.due = n, !.x.tm = @ \cup {[n |-> n, mint |-> m]},
                       !.x.mint = IF m = 0 THEN @ ELSE m]

\* The debounce is released before the re-checks, whatever they decide.
TimerFires ==
    \E t \in st.x.tm :
      LET s == [st EXCEPT !.x.tm = @ \ {t}, !.x.due = 0]
          k == s.tun
      IN  st' = IF k = 0 \/ s.once THEN s
                ELSE IF s.game[k].n + 1 # t.n \/ s.game[k].pend THEN s
                ELSE [propose(s, k) EXCEPT !.x.sent = t.mint]

setAuto ==
    /\ "auto" \in Offers(st)
    /\ LET s == [st EXCEPT !.auto = ~@, !.pref = ~st.auto]
       IN  st' = IF s.auto THEN maybeAutoPropose(s) ELSE s
bet == "bet" \in Offers(st) /\ Owed(st, st.tun) /\ st' = propose(st, st.tun)
\* The countdown of a turn to bet, after TURN_SECONDS: check or fold.
TurnTimeout ==
    /\ "bet" \in Offers(st)
    /\ Owed(st, st.tun)
    /\ st' = propose(st, st.tun)

\* A settlement that only publishes has nothing to wait for: the match is Published before
\* anything else happens.
triggerSettle(s, k, publishOnly) ==
    IF s.once THEN s
    ELSE [s EXCEPT !.once = TRUE, !.status = "settling",
                   !.fin[k] = IF publishOnly THEN "leave" ELSE "half"]
Published(s, k) ==
    IF s.fin[k] # "leave" THEN s
    ELSE [s EXCEPT !.fin[k] = "left", !.rec = @ \ {k}, !.status = "settled",
                   !.left = @ \cup {k}]

requestSettle ==
    /\ "settle" \in Offers(st)
    /\ ~st.once
    /\ LET s == [st EXCEPT !.stopping = TRUE]
       IN  st' = IF s.game[s.tun].at = "break" THEN triggerSettle(s, s.x.now, FALSE) ELSE s
backOut(s) ==
    IF s.once \/ s.stopping THEN s
    ELSE LET t == [s EXCEPT !.x.foldOut = TRUE, !.stopping = TRUE]
         IN  IF t.tun # 0 /\ t.game[t.tun].at = "break"
             THEN Published(triggerSettle(t, t.x.now, TRUE), t.x.now)
             ELSE maybeAutoPropose(t)

\* Back in the window: bail out, and leave once settled or after BAIL_MS.
Gone(s) ==
    {k \in s.staked : k = s.tun \/ s.flow[k] \in Waiting}
back ==
    /\ "back" \in Offers(st)
    /\ ~st.x.leaving
    /\ st' = backOut([st EXCEPT !.x.leaving = TRUE])
Exit ==
    /\ st.x.leaving
    /\ st' = [reset(st) EXCEPT !.x.leaving = FALSE, !.left = @ \cup Gone(st)]
Reset ==
    /\ "reset" \in Offers(st)
    /\ st' = [reset(st) EXCEPT !.left = @ \cup Gone(st)]

\* Timing assumption: the timers of a match (at most HAND_OVER_DELAY_MS) are due before the
\* window is in another one, and a bet's timer (no delay) before the answer to a bet the player
\* sent first.  A timer releases the debounce of whatever nonce and match it fires in.
TimersDue(s) == s.x.tm = {}

activatePokerSession(s, k) ==
    [s EXCEPT !.tun = k, !.attached = {k}, !.flow[k] = "live", !.status = "playing",
              !.x.due = 0, !.x.now = k, !.x.mint = 0, !.x.sent = 0,
              !.stale = @ \/ s.tun \notin {0, k}]

\* findMatch: seat A opens and funds, seat B hears of the tunnel and deposits; seat A
\* waits for the peer's ready before its first move.
findMatch(s) == [Started(s, 0, "connect") EXCEPT !.status = "matching"]
Connected(k) ==
    /\ st.flow[k] = "connect"
    /\ Online(st, k)
    /\ st' = [st EXCEPT !.flow[k] = "match"]
Found(k) ==
    \E s \in quickMatch(st, k) : st' = [Cleared(s) EXCEPT !.x.duo = @ \cup {k}]
Exchanged(k) == \E s \in hello(st, k) : st' = [s EXCEPT !.status = "funding"]
startTunnelRound(k) ==
    /\ st.flow[k] = "open"
    /\ st.role[k] = "A" \/ Online(st, k)
    /\ TimersDue(st)
    /\ LET s == activatePokerSession([st EXCEPT !.once = FALSE, !.staked = @ \cup {k}], k)
       IN  st' = IF s.role[k] = "A" THEN [s EXCEPT !.timers = @ \cup {k}]
                 ELSE maybeAutoPropose(s)
ready(k) ==
    /\ k \in st.timers
    /\ Online(st, k)
    /\ st' = maybeAutoPropose([st EXCEPT !.timers = @ \ {k}])

\* playArena pays in first and then enters the match, whatever the window does meanwhile.
playArena ==
    /\ "play" \in Offers(st)
    /\ Room(st)
    /\ LET k == st.started + 1
       IN  st' = [st EXCEPT !.started = k, !.flow[k] = "alloc", !.status = "funding"]
Entered(s, k) ==
    [s EXCEPT !.auto = TRUE, !.status = "funding", !.sock[k] = k, !.mp = k,
              !.open = @ \cup {k}, !.flow[k] = "join"]
Allocated(k) ==
    /\ st.flow[k] = "alloc"
    /\ st' = Entered([st EXCEPT !.staked = @ \cup {k}], k)
enterArenaMatch ==
    /\ st.status = "idle"
    /\ CanEnter(st)
    /\ st' = Entered(joinMatch(st), st.started + 1)
Joined(k) ==
    /\ st.flow[k] = "join"
    /\ Online(st, k)
    /\ TimersDue(st)
    /\ st' = maybeAutoPropose(activatePokerSession(Cleared(st), k))
Failed(k) ==
    /\ st.flow[k] \in Waiting \cup {"alloc"}
    /\ st' = [Threw(st, k) EXCEPT !.status = "error"]

\* Cold load: a finished match is dropped, any other one is taken up again.
resume ==
    /\ st.mp = 0
    /\ st.status = "idle"
    /\ Room(st)
    /\ TimersDue(st)
    /\ \E r \in st.rec :
         st' = IF Over(st, r) THEN [st EXCEPT !.rec = @ \ {r}]
               ELSE LET s == Started(st, 0, "gone")
                    IN  maybeAutoPropose(activatePokerSession([s EXCEPT !.sock[r] = s.mp], r))

onConfirmed(k) ==
    /\ CanAdvance(st, k)
    /\ TimersDue(st)
    /\ \E s \in Advanced(st, k, {"draw", "play", "break"}) :
         st' = Published(
                 Persist(IF Over(s, k) \/ (s.stopping /\ s.game[k].at = "break")
                         THEN triggerSettle(s, k, s.x.foldOut) ELSE maybeAutoPropose(s), k), k)
\* Only a player's window says endMatch; the fleet bot neither sends nor reads it.
endMatch(k) ==
    /\ k \in st.x.duo
    /\ st.flow[k] = "live"
    /\ Online(st, k)
    /\ \E leaving \in BOOLEAN :
         LET s == [st EXCEPT !.stopping = TRUE, !.x.peerLeft = @ \/ leaving,
                             !.x.duo = @ \ {k}]
         IN  st' = IF s.game[k].at = "break" THEN triggerSettle(s, k, FALSE) ELSE s

botSigns(k) == CanBotSign(st, k) /\ st' = BotSigns(st, k)
settle(k) ==
    /\ st.fin[k] = "half"
    /\ HalfHere(st, k)
    /\ LET s == [st EXCEPT !.halves = @ \ {k}]
       IN  st' = IF ~Verifies(s, k, k) THEN [s EXCEPT !.fin[k] = "refused"]
                 ELSE IF s.x.peerLeft \/ s.role[k] = "A"
                 THEN [s EXCEPT !.fin[k] = "submit", !.subs[k] = @ + 1]
                 ELSE [s EXCEPT !.fin[k] = "balance"]

\* Settled: the record is dropped; a match that ended by itself is followed by a new one.
settled(k) ==
    /\ st.fin[k] \in {"submit", "balance"}
    /\ LET s == [st EXCEPT !.fin[k] = "done", !.rec = @ \ {k}, !.stale = @ \/ st.tun # k,
                           !.closed = IF st.fin[k] = "submit" THEN @ \cup {k} ELSE @]
       IN  st' = IF s.stopping THEN [s EXCEPT !.status = "settled"]
                 ELSE IF Room(s) THEN findMatch(reset(s)) ELSE reset(s)
settleFails(k) ==
    /\ st.fin[k] \in {"submit", "refused"}
    /\ st' = [st EXCEPT !.fin[k] = "failed", !.lost = @ \cup {k}, !.status = "error"]

reload ==
    /\ st.reloads = 0
    /\ st' = [Mounted(st) EXCEPT !.x = Refs]

Init == st = [Fresh EXCEPT !.x = Refs]

Env(k) ==
    \/ Connected(k) \/ Found(k) \/ Exchanged(k) \/ startTunnelRound(k) \/ ready(k)
    \/ Allocated(k) \/ Joined(k) \/ onConfirmed(k) \/ botSigns(k) \/ settle(k) \/ settled(k)
Next ==
    \/ \E k \in Ids : Env(k) \/ endMatch(k) \/ Failed(k) \/ settleFails(k)
    \/ TimerFires \/ TurnTimeout \/ Exit
    \/ setAuto \/ bet \/ requestSettle \/ back \/ Reset \/ playArena \/ enterArenaMatch
    \/ resume \/ reload

-----------------------------------------------------------------------------
\* A commit that is out for the opponent's signature was made with the secrets the seat
\* driver holds, so the reveals that follow will open it.
SecretsHeld(s) ==
    s.tun # 0 /\ ~s.stale => (s.game[s.tun].pend /\ s.game[s.tun].at = "draw" /\ s.reloads = 0
                    => s.x.sent = s.x.mint)
=============================================================================

---------------------------- MODULE PvpBlackjack ----------------------------
(***************************************************************************)
(* usePvpBlackjack: the blackjack window's match session.  The stages of   *)
(* its asynchronous flows (queue, onMatch, enterArenaMatch, finishSettle)  *)
(* are the awaits they are suspended at; what a flow does when it goes on  *)
(* does not depend on whether the window has left the match since.         *)
(***************************************************************************)
EXTENDS MatchSession

VARIABLE st

InMatch == {"playing", "settling", "done"}

\* The buttons the window shows: before the match, and at the table.
LobbyOffers(s) ==
    IF s.status \in {"idle", "error"} THEN {"queue"}
    ELSE IF s.status = "queuing" THEN {"leave"} ELSE {}
TableOffers(s) ==
    (IF s.status \in InMatch THEN {"leave", "auto"} ELSE {}) \cup
    (IF s.status # "playing" \/ s.tun = 0 THEN {}
     ELSE (IF s.game[s.tun].at \in {"play", "break"} /\ ~s.auto THEN {"move"} ELSE {}) \cup
          (IF s.game[s.tun].at \in {"break", "over"} THEN {"stop"} ELSE {})) \cup
    (IF s.status = "done" THEN {"rematch"} ELSE {})

\* The refs a fresh match starts from.
Cleared(s) ==
    [s EXCEPT !.once = FALSE, !.stopping = FALSE, !.buf = 0, !.waiter = 0]

\* The half is verified against our own state; only seat A sends the close.
coSign(s, k, half) ==
    IF ~Verifies(s, k, half) THEN [s EXCEPT !.fin[k] = "refused"]
    ELSE IF s.role[k] = "A" THEN [s EXCEPT !.fin[k] = "submit", !.subs[k] = @ + 1]
    ELSE [s EXCEPT !.fin[k] = "balance"]

finishSettle(s, k) ==
    IF s.once THEN s
    ELSE LET t == [s EXCEPT !.once = TRUE, !.status = "settling"]
         IN  IF t.buf # 0 THEN coSign(t, k, t.buf)
             ELSE [t EXCEPT !.fin[k] = "half", !.waiter = k]

\* The move loop after every confirmed update: draws are always driven, bets
\* and hits only in auto.
onAdvance(s, k) ==
    IF s.stopping THEN s
    ELSE IF Over(s, k) THEN finishSettle(s, k)
    ELSE IF s.game[k].mine /\ (s.game[k].at = "draw" \/ s.auto)
    THEN [s EXCEPT !.timers = @ \cup {k}]
    ELSE s

activateSession(s, k) ==
    onAdvance([s EXCEPT !.tun = k, !.attached = {k}, !.flow[k] = "live", !.status = "playing"], k)

\* A finished record is dropped, an unfinished one is rebuilt on the socket of
\* start k; the rebuilt channel has no handler for the peer's side messages.
Resumable(s) == {r \in s.rec : ~Over(s, r)}
tryResume(s, r) ==
    activateSession([s EXCEPT !.rec = Resumable(s), !.sock[r] = s.mp, !.heard = @ \ {r}], r)

Queued(s) ==
    LET t == Cleared([s EXCEPT !.status = "connecting", !.auto = s.pref])
    IN  IF Resumable(s) = {} THEN {[Started(t, 0, "connect") EXCEPT !.rec = {}]}
        ELSE {tryResume(Started(t, 0, "gone"), r) : r \in Resumable(s)}
queue ==
    /\ "queue" \in LobbyOffers(st)
    /\ Room(st)
    /\ st' \in Queued(st)

resume ==
    /\ st.status = "idle"
    /\ st.mp = 0
    /\ Room(st)
    /\ st.rec # {}
    /\ IF Resumable(st) = {} THEN st' = [st EXCEPT !.rec = {}]
       ELSE \E r \in Resumable(st) : st' = tryResume(Started(st, 0, "gone"), r)

\* queue goes on: the socket is up, then the relay found an opponent, then onMatch.
Connected(k) ==
    /\ st.flow[k] = "connect"
    /\ Online(st, k)
    /\ st' = [st EXCEPT !.flow[k] = "match", !.status = "queuing"]
Found(k) == st' \in quickMatch(st, k)
Exchanged(k) == \E s \in hello(st, k) : st' = [s EXCEPT !.status = "opening"]
Opened(k) == \E s \in openTunnel(st, k, "B") : st' = [s EXCEPT !.status = "funding"]
Deposited(k) == st' \in deposit(st, k)
Activated(k) ==
    /\ st.flow[k] = "poll"
    /\ st' = activateSession(st, k)
Failed(k) ==
    /\ st.flow[k] \in Waiting
    /\ st' = [Threw(st, k) EXCEPT !.status = "error"]

\* An idle window takes the arena's entry, once, and plays it on autopilot.
enterArenaMatch ==
    /\ st.status = "idle"
    /\ CanEnter(st)
    /\ st' = joinMatch(Cleared([st EXCEPT !.status = "connecting", !.auto = TRUE]))
Joined(k) ==
    /\ st.flow[k] = "join"
    /\ Online(st, k)
    /\ st' = activateSession(st, k)

\* A move: an automatic one whose timer is due, or the player's own hit, stand or bet.
AutoMove(k) ==
    /\ k \in st.timers
    /\ st' = propose([st EXCEPT !.timers = @ \ {k}], k)
proposePlayer(k) ==
    /\ "move" \in TableOffers(st)
    /\ st.tun = k
    /\ Owed(st, k)
    /\ st' = propose(st, k)
onConfirmed(k) ==
    /\ CanAdvance(st, k)
    /\ \E s \in Advanced(st, k, {"draw", "play", "break", "over"}) : st' = Persist(onAdvance(s, k), k)

stop ==
    /\ "stop" \in TableOffers(st)
    /\ st' = finishSettle([st EXCEPT !.stopping = TRUE, !.stops = @ \cup {st.tun}], st.tun)

setAuto ==
    /\ "auto" \in TableOffers(st)
    /\ LET s == [st EXCEPT !.auto = ~@, !.pref = ~st.auto]
       IN  st' = IF s.auto /\ s.tun # 0 /\ ~s.stopping /\ Owed(s, s.tun)
                 THEN [s EXCEPT !.timers = @ \cup {s.tun}] ELSE s

\* The opponent stops at a round boundary: its half of the close follows its word.
peerStops(k) ==
    /\ CanBotSign([st EXCEPT !.stops = @ \cup {k}], k)
    /\ k \in st.heard
    /\ Online(st, k)
    /\ LET s == [BotSigns(st, k) EXCEPT !.stopping = TRUE]
       IN  st' = IF s.tun = 0 THEN s ELSE finishSettle(s, s.tun)

\* The opponent signs its half of the close, and the half arrives where a
\* handler listens: it resumes the waiting settlement or is kept for the next.
botSigns(k) == CanBotSign(st, k) /\ st' = BotSigns(st, k)
settleHalf(k) ==
    /\ k \in st.halves
    /\ Online(st, k)
    /\ LET s == [st EXCEPT !.halves = @ \ {k}]
       IN  st' = IF k \notin s.heard THEN s
                 ELSE IF s.waiter # 0 THEN coSign([s EXCEPT !.waiter = 0], s.waiter, k)
                 ELSE [s EXCEPT !.buf = k]

\* Variant: the settled match stays in the resume store.
closeDoneKeepsRecord(k) ==
    /\ st.fin[k] \in {"submit", "balance"}
    /\ k \notin st.timers
    /\ st' = [st EXCEPT !.closed = IF st.fin[k] = "submit" THEN @ \cup {k} ELSE @,
                        !.fin[k] = "done", !.status = "done", !.stale = @ \/ st.tun # k]
\* /settle or, when it fails, the wallet's own close; then the record goes.  A move's
\* timer, of at most 900 ms, is due before a transaction is final.
closeDone(k) ==
    /\ st.fin[k] \in {"submit", "balance"}
    /\ k \notin st.timers
    /\ st' = [st EXCEPT !.closed = IF st.fin[k] = "submit" THEN @ \cup {k} ELSE @,
                        !.fin[k] = "done", !.rec = @ \ {k}, !.status = "done",
                        !.stale = @ \/ st.tun # k]
closeFails(k) ==
    /\ st.fin[k] = "submit"
    /\ st' = [st EXCEPT !.fin[k] = "threw"]

\* What leave and requeue drop of the match at hand.
Dropped(s) ==
    Cleared([s EXCEPT !.attached = {}, !.rec = @ \ {s.tun}, !.tun = 0])

Left(s) ==
    [Dropped(s) EXCEPT !.open = @ \ {s.mp}, !.mp = 0, !.status = "idle", !.auto = s.pref,
                       !.left = IF s.tun = 0 THEN @ ELSE @ \cup {s.tun}]
leave ==
    /\ "leave" \in LobbyOffers(st) \cup TableOffers(st)
    /\ st' = Left(st)
rematch ==
    /\ "rematch" \in TableOffers(st)
    /\ Room(st)
    /\ st' \in Queued(Left(st))

\* Auto finds the next match on the same socket once this one is done.
requeue ==
    /\ st.status = "done"
    /\ st.auto
    /\ Room(st)
    /\ IF st.mp = 0 THEN st' \in Queued(st)
       ELSE LET s == [Dropped(st) EXCEPT !.status = "queuing", !.heard = @ \ {st.tun}]
            IN  st' = Started(s, st.mp, "match")

reload ==
    /\ st.reloads = 0
    /\ st' = Mounted(st)

Init == st = Fresh

Env(k) ==
    \/ Connected(k) \/ Found(k) \/ Exchanged(k) \/ Opened(k) \/ Deposited(k) \/ Activated(k)
    \/ Joined(k) \/ AutoMove(k) \/ onConfirmed(k) \/ botSigns(k) \/ settleHalf(k) \/ closeDone(k)
    \/ peerStops(k)
User(k) == proposePlayer(k)
Next ==
    \/ \E k \in Ids : Env(k) \/ User(k) \/ Failed(k) \/ closeFails(k)
    \/ queue \/ resume \/ enterArenaMatch \/ stop \/ setAuto \/ leave \/ rematch \/ requeue \/ reload
=============================================================================

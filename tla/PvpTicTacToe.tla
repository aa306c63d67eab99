---------------------------- MODULE PvpTicTacToe ----------------------------
(***************************************************************************)
(* usePvpTicTacToe: the session of the tic-tac-toe and caro windows, one   *)
(* game per tunnel (MAX_GAMES), so no board lies between two games.        *)
(***************************************************************************)
EXTENDS MatchSession

VARIABLE st

InMatch == {"playing", "settling", "done"}

\* The buttons of PvpScene: before the match, and at the board.
LobbyOffers(s) ==
    IF s.status \in {"idle", "error"} THEN {"queue"}
    ELSE IF s.status \in {"queuing", "connecting"} THEN {"leave"} ELSE {}
BoardOffers(s) ==
    IF s.status \notin InMatch THEN {}
    ELSE {"leave", "auto"} \cup (IF s.status = "done" THEN {"requeue"} ELSE {})
         \cup (IF s.status = "playing" /\ ~s.auto /\ s.tun # 0 THEN {"play"} ELSE {})

Cleared(s) == [s EXCEPT !.once = FALSE, !.stopping = FALSE, !.buf = 0, !.waiter = 0]

\* Both ways out of a match drop its record: leave closes the socket as well,
\* requeue keeps it and only releases the match.
teardownMatch(s) ==
    [Cleared(s) EXCEPT !.attached = {}, !.rec = @ \ {s.tun}, !.tun = 0,
                       !.open = @ \ {s.mp}, !.mp = 0]
Released(s) ==
    [Cleared(s) EXCEPT !.attached = {}, !.rec = @ \ {s.tun}, !.tun = 0,
                       !.heard = @ \ {s.tun}, !.status = "queuing"]

\* Seat A sends the close; a half that does not verify throws into the catch.
coSign(s, k, half) ==
    IF ~Verifies(s, k, half) THEN [s EXCEPT !.fin[k] = "refused"]
    ELSE IF s.role[k] = "A" THEN [s EXCEPT !.fin[k] = "submit", !.subs[k] = @ + 1]
    ELSE [s EXCEPT !.fin[k] = "balance"]

finishSettle(s, k) ==
    IF s.once THEN s
    ELSE LET t == [s EXCEPT !.once = TRUE, !.status = "settling"]
         IN  IF t.buf # 0 THEN coSign([t EXCEPT !.buf = 0], k, t.buf)
             ELSE [t EXCEPT !.fin[k] = "half", !.waiter = k]

onAdvance(s, k) ==
    IF s.stopping THEN s
    ELSE IF Over(s, k) THEN finishSettle(s, k)
    ELSE IF s.game[k].mine /\ s.auto THEN [s EXCEPT !.timers = @ \cup {k}]
    ELSE s

activateTttSession(s, k) ==
    onAdvance([s EXCEPT !.tun = k, !.attached = {k}, !.flow[k] = "live", !.status = "playing"],
              k)

\* A resumed match is watched: with no resume.ok it is given up.
Resumable(s) == {r \in s.rec : ~Over(s, r)}
tryResume(s, r) ==
    activateTttSession([s EXCEPT !.rec = Resumable(s), !.sock[r] = s.mp, !.heard = @ \ {r},
                                 !.dog = r], r)
ResumeOk ==
    /\ st.dog # 0
    /\ Online(st, st.dog)
    /\ st' = [st EXCEPT !.dog = 0]
ResumeWatchdog ==
    /\ st.dog # 0
    /\ st' = IF st.sock[st.dog] # st.mp THEN [st EXCEPT !.dog = 0]
             ELSE [st EXCEPT !.rec = @ \ {st.dog}, !.lost = @ \cup ({st.dog} \ st.closed),
                             !.open = @ \ {st.mp}, !.mp = 0, !.status = "idle", !.dog = 0]

Queued(s, auto) ==
    LET t == Cleared([s EXCEPT !.status = "connecting", !.auto = auto])
    IN  IF Resumable(s) = {} THEN {[Started(t, 0, "connect") EXCEPT !.rec = {}]}
        ELSE {tryResume(Started(t, 0, "gone"), r) : r \in Resumable(s)}
queue ==
    /\ "queue" \in LobbyOffers(st)
    /\ Room(st)
    /\ st' \in Queued(st, st.pref)
resume ==
    /\ st.status = "idle"
    /\ st.mp = 0
    /\ Room(st)
    /\ st.rec # {}
    /\ IF Resumable(st) = {} THEN st' = [st EXCEPT !.rec = {}]
       ELSE \E r \in Resumable(st) : st' = tryResume(Started(st, 0, "gone"), r)

\* queue and requeue go on to onMatch, whose seat A opens the tunnel.
Connected(k) ==
    /\ st.flow[k] = "connect"
    /\ Online(st, k)
    /\ st' = [st EXCEPT !.flow[k] = "match", !.status = "queuing"]
Found(k) == st' \in quickMatch(st, k)
Opening(k) == \E s \in hello(st, k) : st' = [s EXCEPT !.status = "opening"]
Funding(k) == \E s \in openTunnel(st, k, "A") : st' = [s EXCEPT !.status = "funding"]
Deposited(k) == st' \in deposit(st, k)
Activated(k) ==
    /\ st.flow[k] = "poll"
    /\ st' = activateTttSession(st, k)
Failed(k) ==
    /\ st.flow[k] \in Waiting
    /\ st' = [Threw(st, k) EXCEPT !.status = "error"]

\* The arena entry does not reset the settled flag.
enterArenaMatch ==
    /\ st.status = "idle"
    /\ CanEnter(st)
    /\ st' = joinMatch([Cleared([st EXCEPT !.status = "connecting", !.auto = TRUE])
                          EXCEPT !.once = st.once])
Joined(k) ==
    /\ st.flow[k] = "join"
    /\ Online(st, k)
    /\ st' = activateTttSession(st, k)

AutoMove(k) ==
    /\ k \in st.timers
    /\ st' = propose([st EXCEPT !.timers = @ \ {k}], k)
play(k) ==
    /\ "play" \in BoardOffers(st)
    /\ st.tun = k
    /\ Owed(st, k)
    /\ st' = propose(st, k)
onConfirmed(k) ==
    /\ CanAdvance(st, k)
    /\ \E s \in Advanced(st, k, {"play", "over"}) : st' = Persist(onAdvance(s, k), k)
setAuto ==
    /\ "auto" \in BoardOffers(st)
    /\ LET s == [st EXCEPT !.auto = ~@, !.pref = ~st.auto]
       IN  st' = IF s.auto /\ s.tun # 0 /\ ~s.stopping /\ Owed(s, s.tun)
                 THEN [s EXCEPT !.timers = @ \cup {s.tun}] ELSE s

botSigns(k) == CanBotSign(st, k) /\ st' = BotSigns(st, k)
settleHalf(k) ==
    /\ k \in st.halves
    /\ Online(st, k)
    /\ LET s == [st EXCEPT !.halves = @ \ {k}]
       IN  st' = IF k \notin s.heard THEN s
                 ELSE IF s.waiter # 0 THEN coSign([s EXCEPT !.waiter = 0], s.waiter, k)
                 ELSE [s EXCEPT !.buf = k]
closeDone(k) ==
    /\ st.fin[k] \in {"submit", "balance"}
    /\ k \notin st.timers
    /\ st' = [st EXCEPT !.closed = IF st.fin[k] = "submit" THEN @ \cup {k} ELSE @,
                        !.fin[k] = "done", !.rec = @ \ {k}, !.status = "done",
                        !.stale = @ \/ st.tun # k]

\* After a lost half (SETTLE_TIMEOUT_MS), a refused half or a failed close, auto looks for
\* the next match and a player sees the error; either way this one is given up.
Requeued(s) ==
    IF s.mp = 0 THEN Queued(s, s.auto) ELSE {Started(Released(s), s.mp, "match")}
settleFails(k) ==
    /\ st.fin[k] \in {"half", "submit", "refused"}
    /\ LET s == [st EXCEPT !.fin[k] = "failed", !.once = FALSE, !.waiter = 0,
                           !.lost = @ \cup {k}, !.stale = @ \/ st.tun # k]
       IN  IF s.auto THEN Room(s) /\ st' \in Requeued(s)
           ELSE st' = [s EXCEPT !.status = "error"]
requeue ==
    /\ "requeue" \in BoardOffers(st)
    /\ Room(st)
    /\ st' \in Requeued(st)

leave ==
    /\ "leave" \in LobbyOffers(st) \cup BoardOffers(st)
    /\ st' = [teardownMatch(st) EXCEPT !.status = "idle", !.auto = st.pref,
                !.left = IF st.tun = 0 THEN @ ELSE @ \cup {st.tun}]

reload ==
    /\ st.reloads = 0
    /\ st' = Mounted(st)

Init == st = Fresh

Env(k) ==
    \/ Connected(k) \/ Found(k) \/ Opening(k) \/ Funding(k) \/ Deposited(k) \/ Activated(k)
    \/ Joined(k) \/ AutoMove(k) \/ onConfirmed(k) \/ botSigns(k) \/ settleHalf(k) \/ closeDone(k)
    \/ settleFails(k)
Next ==
    \/ \E k \in Ids : Env(k) \/ play(k) \/ Failed(k)
    \/ queue \/ resume \/ ResumeOk \/ ResumeWatchdog \/ enterArenaMatch \/ setAuto \/ leave
    \/ requeue \/ reload
=============================================================================

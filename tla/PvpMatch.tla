------------------------------ MODULE PvpMatch ------------------------------
(***************************************************************************)
(* pvpMatchHook: the session of the bomb, cross and canvas windows.  The   *)
(* seats move in turn; one propose timer is re-planned on every change, so *)
(* a seat whose player is away proposes an idle move.  Publishing a half   *)
(* alone has nothing to send and nothing to wait for.                      *)
(***************************************************************************)
EXTENDS MatchSession

VARIABLE st

\* The buttons of the arena window, of its boards and of the canvas: a finished board offers
\* Play again, which is leave, and the canvas offers Play over an error or a settled match.
Offers(s) ==
    CASE s.status = "idle" -> {"find"}
      [] s.status \in {"error", "settled"} -> {"find", "leave"}
      [] s.status = "matching" -> {"leave"}
      [] s.status = "funding" -> {}
      [] s.status = "settling" -> {"leave"}
      [] OTHER -> {"leave", "intent"}

Idle == [timer |-> FALSE, leaving |-> FALSE, now |-> 0]

maybePropose(s) == [s EXCEPT !.x.timer = s.tun # 0 /\ Owed(s, s.tun)]
TimerFires ==
    /\ st.x.timer
    /\ LET s == [st EXCEPT !.x.timer = FALSE]
       IN  st' = IF s.tun = 0 THEN s ELSE propose(s, s.tun)
setIntent == "intent" \in Offers(st) /\ st.tun # 0 /\ st' = maybePropose(st)

reset(s) ==
    [s EXCEPT !.x = Idle, !.dog = 0, !.attached = {}, !.open = @ \ {s.mp}, !.mp = 0,
              !.tun = 0, !.status = "idle"]
Gone(s) == {k \in s.staked : k = s.tun \/ s.flow[k] \in Waiting}

\* Settled, by either path: a player who is leaving goes back to the lobby.
Resolved(s, k) ==
    LET t == [s EXCEPT !.status = "settled"]
    IN  IF t.x.leaving THEN [reset(t) EXCEPT !.left = @ \cup Gone(t)] ELSE t
triggerSettle(s, k, publishOnly) ==
    IF s.fin[k] # "none" THEN s
    ELSE IF publishOnly
    THEN Resolved([s EXCEPT !.fin[k] = "left", !.left = @ \cup {k}], k)
    ELSE [s EXCEPT !.fin[k] = "half", !.status = "settling"]
leave ==
    /\ "leave" \in Offers(st)
    /\ st' = IF st.x.now # 0 /\ st.status \in {"playing", "settling"}
             THEN triggerSettle([st EXCEPT !.x.leaving = TRUE], st.x.now, TRUE)
             ELSE [reset(st) EXCEPT !.left = @ \cup Gone(st)]

activateSession(s, k) ==
    [s EXCEPT !.tun = k, !.attached = {k}, !.flow[k] = "live", !.status = "playing",
              !.fin[k] = "none", !.x.now = k, !.stale = @ \/ s.tun \notin {0, k}]

\* findMatch: seat A opens the tunnel, seat B deposits; seat A moves after the peer's ready.
findMatch ==
    /\ "find" \in Offers(st)
    /\ Room(st)
    /\ st' = [Started(st, 0, "connect") EXCEPT !.status = "matching"]
Connected(k) ==
    /\ st.flow[k] = "connect"
    /\ Online(st, k)
    /\ st' = [st EXCEPT !.flow[k] = "match"]
Found(k) == st' \in quickMatch(st, k)
Exchanged(k) == \E s \in hello(st, k) : st' = [s EXCEPT !.status = "funding"]
Funded(k) ==
    /\ st.flow[k] = "open"
    /\ st.role[k] = "A" \/ Online(st, k)
    /\ LET s == activateSession([st EXCEPT !.staked = @ \cup {k},
                                           !.game[k].mine = st.role[k] = "A"], k)
       IN  st' = IF s.role[k] = "A" THEN [s EXCEPT !.timers = @ \cup {k}] ELSE maybePropose(s)
ready(k) ==
    /\ k \in st.timers
    /\ Online(st, k)
    /\ st' = maybePropose([st EXCEPT !.timers = @ \ {k}])
Failed(k) ==
    /\ st.flow[k] \in Waiting
    /\ st' = [Threw(st, k) EXCEPT !.status = "error"]

enterArenaMatch ==
    /\ st.status = "idle"
    /\ CanEnter(st)
    /\ st' = [joinMatch(st) EXCEPT !.status = "matching"]
Joined(k) ==
    /\ st.flow[k] = "join"
    /\ Online(st, k)
    /\ st' = maybePropose(activateSession(st, k))

\* Cold load: finished matches are dropped.  The watchdog is armed only while the next word
\* is the peer's, and the first confirmed update disarms it.
Resumable(s) == {r \in s.rec : ~Over(s, r)}
armResumeWatchdog(s, r) ==
    [s EXCEPT !.dog = IF s.game[r].pend \/ ~s.game[r].mine THEN r ELSE 0]
resume ==
    /\ st.mp = 0
    /\ st.status = "idle"
    /\ Room(st)
    /\ st.rec # {}
    /\ IF Resumable(st) = {} THEN st' = [st EXCEPT !.rec = {}]
       ELSE \E r \in Resumable(st) :
              LET s == Started([st EXCEPT !.rec = Resumable(st)], 0, "gone")
              IN  st' = armResumeWatchdog(
                          maybePropose(activateSession([s EXCEPT !.sock[r] = s.mp], r)), r)
ResumeWatchdog ==
    /\ st.dog # 0
    /\ st' = [reset(st) EXCEPT !.rec = @ \ {st.dog}, !.lost = @ \cup ({st.dog} \ st.closed)]

onConfirmed(k) ==
    /\ CanAdvance(st, k)
    /\ \E s \in Advanced(st, k, {"draw"}) :
         /\ s.game[k].mine # st.game[k].mine
         /\ LET t == maybePropose([s EXCEPT !.dog = 0])
            IN  st' = Persist(IF Over(t, k) THEN triggerSettle(t, k, FALSE) ELSE t, k)

botSigns(k) == CanBotSign(st, k) /\ st' = BotSigns(st, k)
settle(k) ==
    /\ st.fin[k] = "half"
    /\ HalfHere(st, k)
    /\ LET s == [st EXCEPT !.halves = @ \ {k}]
       IN  st' = IF ~Verifies(s, k, k) THEN [s EXCEPT !.fin[k] = "refused"]
                 ELSE IF s.role[k] = "A"
                 THEN [s EXCEPT !.fin[k] = "submit", !.subs[k] = @ + 1]
                 ELSE [s EXCEPT !.fin[k] = "balance"]
settled(k) ==
    /\ st.fin[k] \in {"submit", "balance"}
    /\ st' = Resolved([st EXCEPT !.fin[k] = "done", !.stale = @ \/ st.tun # k,
                         !.closed = IF st.fin[k] = "submit" THEN @ \cup {k} ELSE @], k)
settleFails(k) ==
    /\ st.fin[k] \in {"submit", "refused"}
    /\ LET s == [st EXCEPT !.fin[k] = "failed", !.lost = @ \cup {k}]
       IN  st' = IF s.x.leaving THEN reset(s) ELSE [s EXCEPT !.status = "error"]

reload ==
    /\ st.reloads = 0
    /\ st' = [Mounted(st) EXCEPT !.x = Idle]

Init == st = [Fresh EXCEPT !.x = Idle]

Env(k) ==
    \/ Connected(k) \/ Found(k) \/ Exchanged(k) \/ Funded(k) \/ ready(k) \/ Joined(k)
    \/ onConfirmed(k) \/ settle(k) \/ settled(k)
Next ==
    \/ \E k \in Ids : Env(k) \/ botSigns(k) \/ Failed(k) \/ settleFails(k)
    \/ TimerFires \/ ResumeWatchdog
    \/ findMatch \/ enterArenaMatch \/ resume \/ setIntent \/ leave \/ reload
=============================================================================

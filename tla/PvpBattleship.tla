---------------------------- MODULE PvpBattleship ----------------------------
(***************************************************************************)
(* useBattleshipPvp: the session of the battleship window.  The boards are *)
(* "draw" (a commit or a reveal is due, which the session makes by itself) *)
(* "play" (a shot) and "over".  A settlement is guarded per activation,    *)
(* and a settled match keeps its record, which a cold load drops.          *)
(***************************************************************************)
EXTENDS MatchSession

VARIABLE st

\* The buttons of the window.
Offers(s) ==
    CASE s.status = "idle" -> {"find"}
      [] s.status \in {"matching", "funding", "error", "settled"} -> {"reset"}
      [] s.status = "settling" -> {"back"}
      [] OTHER -> {"back", "settle", "auto", "fire"}

reset(s) ==
    [s EXCEPT !.attached = {}, !.open = @ \ {s.mp}, !.mp = 0, !.tun = 0, !.status = "idle"]
Gone(s) == {k \in s.staked : k = s.tun \/ s.flow[k] \in Waiting}
Reset ==
    /\ "reset" \in Offers(st)
    /\ st' = [reset(st) EXCEPT !.left = @ \cup Gone(st)]

proposeDue(s, k) == IF s.game[k].at = "draw" THEN propose(s, k) ELSE s
fire(s, k) == IF k # 0 /\ s.game[k].at = "play" THEN propose(s, k) ELSE s
autoFireIfDue(s) == IF s.auto THEN fire(s, s.tun) ELSE s
Fire ==
    /\ "fire" \in Offers(st)
    /\ Owed(st, st.tun)
    /\ st' = fire(st, st.tun)
setAuto ==
    /\ "auto" \in Offers(st)
    /\ LET s == [st EXCEPT !.auto = ~@] IN st' = autoFireIfDue(s)
\* A player who has not fired within the window's idle time is put on autopilot.
IdleAutopilot ==
    /\ st.status = "playing"
    /\ ~st.auto
    /\ st.game[st.tun].at = "play" /\ Owed(st, st.tun)
    /\ st' = autoFireIfDue([st EXCEPT !.auto = TRUE])

\* Publishing alone has nothing to wait for.
triggerSettle(s, k, publishOnly) ==
    IF s.fin[k] # "none" THEN s
    ELSE IF publishOnly
    THEN [s EXCEPT !.fin[k] = "left", !.status = "settled", !.left = @ \cup {k}]
    ELSE [s EXCEPT !.fin[k] = "half", !.status = "settling"]

\* The Settle button, and Back, which leaves once settled or after eight seconds.
endMatch == "settle" \in Offers(st) /\ st' = triggerSettle(st, st.tun, TRUE)
back ==
    /\ "back" \in Offers(st)
    /\ ~st.x
    /\ st' = triggerSettle([st EXCEPT !.x = TRUE], st.tun, TRUE)
Exit ==
    /\ st.x
    /\ st' = [reset(st) EXCEPT !.x = FALSE, !.left = @ \cup Gone(st)]

activateSession(s, k) ==
    [s EXCEPT !.tun = k, !.attached = {k}, !.flow[k] = "live", !.status = "playing",
              !.fin[k] = "none", !.stale = @ \/ s.tun \notin {0, k}]

\* findMatch: seat A opens the tunnel, seat B deposits; seat A commits after the peer's ready.
findMatch ==
    /\ "find" \in Offers(st)
    /\ Room(st)
    /\ st' = [Started(st, 0, "connect") EXCEPT !.status = "matching"]
Connected(k) ==
    /\ st.flow[k] = "connect"
    /\ Online(st, k)
    /\ st' = [st EXCEPT !.flow[k] = "match"]
Found(k) == st' \in quickMatch(st, k)
Exchanged(k) == \E s \in hello(st, k) : st' = [s EXCEPT !.status = "funding"]
Funded(k) ==
    /\ st.flow[k] = "open"
    /\ st.role[k] = "A" \/ Online(st, k)
    /\ LET s == activateSession([st EXCEPT !.staked = @ \cup {k}], k)
       IN  st' = IF s.role[k] = "A" THEN [s EXCEPT !.timers = @ \cup {k}] ELSE proposeDue(s, k)
ready(k) ==
    /\ k \in st.timers
    /\ Online(st, k)
    /\ st' = proposeDue([st EXCEPT !.timers = @ \ {k}], k)
Failed(k) ==
    /\ st.flow[k] \in Waiting
    /\ st' = [Threw(st, k) EXCEPT !.status = "error"]

enterArenaMatch ==
    /\ st.status = "idle"
    /\ CanEnter(st)
    /\ st' = [joinMatch(st) EXCEPT !.status = "matching", !.auto = TRUE]
Joined(k) ==
    /\ st.flow[k] = "join"
    /\ Online(st, k)
    /\ st' = proposeDue(activateSession(st, k), k)

\* Cold load: finished matches are dropped; a match that gets no resume.ok is given up.
Resumable(s) == {r \in s.rec : ~Over(s, r)}
resume ==
    /\ st.mp = 0
    /\ st.status = "idle"
    /\ Room(st)
    /\ st.rec # {}
    /\ IF Resumable(st) = {} THEN st' = [st EXCEPT !.rec = {}]
       ELSE \E r \in Resumable(st) :
              LET s == Started([st EXCEPT !.rec = Resumable(st)], 0, "gone")
              IN  st' = proposeDue(activateSession([s EXCEPT !.sock[r] = s.mp, !.dog = r], r), r)
ResumeOk ==
    /\ st.dog # 0
    /\ Online(st, st.dog)
    /\ st' = [st EXCEPT !.dog = 0]
abandonResume ==
    /\ st.dog # 0
    /\ st' = IF st.sock[st.dog] # st.mp THEN [st EXCEPT !.dog = 0]
             ELSE [reset(st) EXCEPT !.rec = @ \ {st.dog}, !.dog = 0,
                                    !.lost = @ \cup ({st.dog} \ st.closed)]

onConfirmed(k) ==
    /\ CanAdvance(st, k)
    /\ \E s \in Advanced(st, k, {"draw", "play"}) :
         LET t == proposeDue(s, k)
             u == IF t # s THEN t ELSE autoFireIfDue(s)
         IN  st' = Persist(IF Over(s, k) THEN triggerSettle(u, k, FALSE) ELSE u, k)

botSigns(k) == CanBotSign(st, k) /\ st' = BotSigns(st, k)
settle(k) ==
    /\ st.fin[k] = "half"
    /\ HalfHere(st, k)
    /\ LET s == [st EXCEPT !.halves = @ \ {k}]
       IN  st' = IF ~Verifies(s, k, k) THEN [s EXCEPT !.fin[k] = "refused"]
                 ELSE IF s.role[k] = "A"
                 THEN [s EXCEPT !.fin[k] = "submit", !.subs[k] = @ + 1]
                 ELSE [s EXCEPT !.fin[k] = "balance"]
settled(k) ==
    /\ st.fin[k] \in {"submit", "balance"}
    /\ st' = [st EXCEPT !.fin[k] = "done", !.status = "settled", !.stale = @ \/ st.tun # k,
                        !.closed = IF st.fin[k] = "submit" THEN @ \cup {k} ELSE @]
settleFails(k) ==
    /\ st.fin[k] \in {"submit", "refused"}
    /\ st' = [st EXCEPT !.fin[k] = "failed", !.lost = @ \cup {k}, !.status = "error"]

reload ==
    /\ st.reloads = 0
    /\ st' = [Mounted(st) EXCEPT !.x = FALSE]

Init == st = [Fresh EXCEPT !.x = FALSE]

Env(k) ==
    \/ Connected(k) \/ Found(k) \/ Exchanged(k) \/ Funded(k) \/ ready(k) \/ Joined(k)
    \/ onConfirmed(k) \/ botSigns(k) \/ settle(k) \/ settled(k)
Next ==
    \/ \E k \in Ids : Env(k) \/ Failed(k) \/ settleFails(k)
    \/ ResumeOk \/ abandonResume \/ IdleAutopilot \/ Exit
    \/ findMatch \/ enterArenaMatch \/ resume \/ Reset \/ Fire \/ setAuto \/ endMatch \/ back
    \/ reload
=============================================================================

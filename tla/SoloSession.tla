---------------------------- MODULE SoloSession ----------------------------
(***************************************************************************)
(* The sessions that hold both seats of their tunnel: the chat with a bot  *)
(* (useArenaChatSession) and the metered-payment run (useTunnelSelfPlay).  *)
(* One wallet funds both seats, every update is co-signed on the spot, and *)
(* the close goes to the backend, or to the chain when the backend fails.  *)
(***************************************************************************)
EXTENDS Naturals, Sequences

CONSTANTS Starts,   \* how many tunnels a session may open
          Msgs      \* bound on the updates of one tunnel

VARIABLE st

Ids == 1..Starts
Each(x) == [k \in Ids |-> x]

Fresh(kind) ==
    [kind |-> kind, status |-> "idle", tun |-> 0, id |-> 0, req |-> FALSE, started |-> 0,
     flow |-> Each("none"), over |-> {}, msgs |-> <<>>, n |-> Each(0), api |-> {},
     closing |-> Each("none"), subs |-> Each(0), funded |-> {}, closed |-> {}, left |-> {},
     lost |-> {}, stale |-> FALSE]

Chat(s) == s.kind = "chat"
Last(s) == IF s.msgs = <<>> THEN "none" ELSE s.msgs[Len(s.msgs)]
canSend(s) == s.status = "playing" /\ ~s.req /\ Last(s) # "You"

\* The chat window per status; the payment window has one button, dark while it is busy.
ChatOffers(s) ==
    CASE s.status = "idle" -> {"start"}
      [] s.status = "playing" -> {"settle"} \cup {b \in {"send"} : canSend(s)}
      [] s.status \in {"settling", "settled", "error"} -> {"reset"}
      [] OTHER -> {}
PayOffers(s) == {b \in {"start"} : s.status \notin {"opening", "playing", "settling", "gone"}}
Offers(s) == IF Chat(s) THEN ChatOffers(s) ELSE PayOffers(s)

\* ++gen: every start so far is overtaken.
Bumped(s) == [s EXCEPT !.over = 1..s.started]

Begun(s, status) ==
    [Bumped(s) EXCEPT !.started = @ + 1, !.flow[s.started + 1] = "fund", !.msgs = <<>>,
                      !.tun = 0, !.req = FALSE, !.status = status]
CanStart == "start" \in Offers(st) /\ st.started < Starts
startChat == Chat(st) /\ CanStart /\ st' = Begun(st, "funding")
startRun == ~Chat(st) /\ CanStart /\ st' = Begun(st, "opening")

\* openAndFundSelfPlay and readCreatedAt, then the tunnel is the session's.
Funded(k) ==
    IF k \in st.over THEN [st EXCEPT !.funded = @ \cup {k}, !.flow[k] = "gone"]
    ELSE [st EXCEPT !.funded = @ \cup {k}, !.tun = k, !.id = k, !.flow[k] = "live"]
chatFunded(k) ==
    /\ Chat(st)
    /\ st.flow[k] = "fund"
    /\ st' = IF k \in st.over THEN Funded(k) ELSE [Funded(k) EXCEPT !.flow[k] = "topic"]
runFunded(k) ==
    /\ ~Chat(st)
    /\ st.flow[k] = "fund"
    /\ st' = IF k \in st.over THEN Funded(k) ELSE [Funded(k) EXCEPT !.status = "playing"]
\* api.topic, with the tunnel already at hand.
Topic(k) ==
    /\ st.flow[k] = "topic"
    /\ st' = IF k \in st.over THEN [st EXCEPT !.flow[k] = "gone"]
             ELSE [st EXCEPT !.flow[k] = "live", !.status = "playing"]
Failed(k) ==
    /\ st.flow[k] \in {"fund", "topic"}
    /\ LET s == [st EXCEPT !.flow[k] = "gone", !.lost = @ \cup {k}]
       IN  st' = IF k \in s.over THEN s ELSE [s EXCEPT !.status = "error"]

\* Our message is co-signed by both seats at once; the bot's follows when the API answers.
send ==
    /\ "send" \in Offers(st)
    /\ st.tun # 0
    /\ st.n[st.tun] < Msgs
    /\ st' = [st EXCEPT !.n[st.tun] = @ + 1, !.msgs = Append(@, "You"),
                        !.api = @ \cup {st.tun}]
Reply(k) ==
    /\ k \in st.api
    /\ LET s == [st EXCEPT !.api = @ \ {k}]
       IN  st' = IF k \in s.over \/ s.req THEN s
                 ELSE [s EXCEPT !.n[k] = @ + 1, !.msgs = Append(@, "Bot")]
ReplyFails(k) == k \in st.api /\ st' = [st EXCEPT !.api = @ \ {k}]
\* The payment run meters one call per step until its bot has nothing more to pay.
meter(k) ==
    /\ ~Chat(st)
    /\ st.flow[k] = "live"
    /\ st.status = "playing"
    /\ k \notin st.over
    /\ st.n[k] < Msgs
    /\ st' = [st EXCEPT !.n[k] = @ + 1, !.msgs = Append(@, "Bot")]

settle(s, k) ==
    [s EXCEPT !.status = "settling", !.closing[k] = "backend", !.subs[k] = @ + 1]
\* Variant: Settle acts again while the first settlement is under way.
settleNowAgain ==
    /\ "settle" \in Offers(st) \/ (Chat(st) /\ st.status = "settling")
    /\ LET s == [st EXCEPT !.req = TRUE]
       IN  st' = IF s.tun = 0 THEN [s EXCEPT !.status = "settled"] ELSE settle(s, s.tun)
settleNow ==
    /\ "settle" \in Offers(st)
    /\ LET s == [st EXCEPT !.req = TRUE]
       IN  st' = IF s.tun = 0 THEN [s EXCEPT !.status = "settled"] ELSE settle(s, s.tun)
RunEnds(k) ==
    /\ ~Chat(st)
    /\ st.flow[k] = "live"
    /\ st.status = "playing"
    /\ k \notin st.over
    /\ st' = settle([st EXCEPT !.flow[k] = "gone"], k)
\* A chat's close reports to whatever the session shows by then; a run's only to its own.
Reported(s, k, status) ==
    IF s.status = "gone" \/ (~Chat(s) /\ k \in s.over) THEN s
    ELSE [s EXCEPT !.status = status, !.stale = @ \/ s.started > k]
settleViaBackend(k) ==
    /\ st.closing[k] = "backend"
    /\ st' = Reported([st EXCEPT !.closing[k] = "done", !.closed = @ \cup {k}], k, "settled")
\* fallbackClose names the tunnel the session holds when it is called.
fallbackClose(k) ==
    /\ st.closing[k] = "backend"
    /\ st' = IF st.id = k \/ ~Chat(st)
             THEN Reported([st EXCEPT !.closing[k] = "done", !.closed = @ \cup {k}], k,
                           "settled")
             ELSE Reported([st EXCEPT !.closing[k] = "failed", !.lost = @ \cup {k}], k, "error")
settleFails(k) ==
    /\ st.closing[k] = "backend"
    /\ st' = Reported([st EXCEPT !.closing[k] = "failed", !.lost = @ \cup {k}], k, "error")

reset ==
    /\ "reset" \in Offers(st)
    /\ st' = [Bumped(st) EXCEPT !.req = FALSE, !.tun = 0, !.id = 0, !.msgs = <<>>,
                                !.status = "idle"]
\* Closing the window drops the session and with it both seats' keys.
dispose ==
    /\ st.status # "gone"
    /\ st' = [Bumped(st) EXCEPT !.tun = 0, !.status = "gone",
                                !.left = 1..st.started]

Init == st \in {Fresh(kind) : kind \in {"chat", "pay"}}
Env(k) == chatFunded(k) \/ runFunded(k) \/ Topic(k) \/ meter(k) \/ RunEnds(k) \/ settleViaBackend(k)
Next ==
    \/ \E k \in Ids : \/ Env(k) \/ Failed(k) \/ Reply(k) \/ ReplyFails(k)
                      \/ fallbackClose(k) \/ settleFails(k)
    \/ startChat \/ startRun \/ send \/ settleNow \/ reset \/ dispose

-----------------------------------------------------------------------------
\* A tunnel's settlement is asked for once, however the close ends.
CloseOnce(s) == \A k \in Ids : s.subs[k] <= 1
\* The conversation on the screen is the co-signed one: a message per update of the tunnel
\* at hand, and never two of the player's in a row.
Transcribed(s) ==
    /\ s.tun # 0 => Len(s.msgs) = s.n[s.tun]
    /\ Chat(s) => \A i \in 1..(Len(s.msgs) - 1) : s.msgs[i] # s.msgs[i + 1]
\* Money put into a tunnel can still be got out by this session: it is being funded,
\* talked over or settled.  The exceptions are a failed step, the closed window, and a late
\* answer to an earlier chat's close that took the status of the present one.
StakeKept(s) ==
    \A k \in s.funded \ (s.closed \cup s.lost \cup s.left) :
      s.tun = k \/ s.closing[k] = "backend" \/ s.stale
=============================================================================

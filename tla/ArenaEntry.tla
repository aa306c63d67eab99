----------------------------- MODULE ArenaEntry -----------------------------
(***************************************************************************)
(* How a page stakes and enters its arena games: the batched entry at       *)
(* wallet connect (onchain/arenaAutoEnter.tsx), the late entry of a window  *)
(* added afterwards (arenaLazyEntry.ts), the explicit Play (arenaPlay.ts),  *)
(* all three through enterArena (arenaEnter.ts), and the store that hands   *)
(* an entry to a window of its game (arenaAllocationStore.ts).              *)
(*                                                                          *)
(* A tunnel is the number of its allocation.  `loss` names the event that   *)
(* put a paid stake out of the page's reach: the entry it belonged to       *)
(* failed, a later entry overwrote it in the store, or the page reloaded.   *)
(* The signing key is lost with it.                                         *)
(***************************************************************************)
EXTENDS Naturals, Sequences, FiniteSets

CONSTANTS Windows,     \* the windows of the desktop
          GameOf,      \* the arena game each of them shows
          Shop,        \* the one game whose lobby has a Play of its own
          MaxTunnels,  \* bound: tunnels allocated
          MaxEntries   \* bound: entries started

VARIABLE st

Games == {GameOf[w] : w \in Windows}
Tunnels(s) == DOMAIN s.tun
Closed == [at |-> "closed", entered |-> FALSE, t |-> 0]

Init ==
    \E open \in SUBSET Windows :
      st = [connected |-> FALSE, armed |-> TRUE,
            win |-> [w \in Windows |-> IF w \in open THEN [Closed EXCEPT !.at = "lobby"] ELSE Closed],
            entry |-> <<>>, tun |-> <<>>, store |-> [g \in Games |-> 0], record |-> {}]

Lose(s, ts, why) ==
    [s EXCEPT !.tun = [t \in Tunnels(s) |-> IF t \in ts THEN [@[t] EXCEPT !.loss = why] ELSE @[t]]]

\* A window that would take an entry: in its lobby, and its entered ref not yet set.
Idle(s, g) == {w \in Windows : GameOf[w] = g /\ s.win[w].at = "lobby" /\ ~s.win[w].entered}

enterArenaMatch(s, w, t) == [s EXCEPT !.win[w] = [@ EXCEPT !.at = "playing", !.t = t]]
Enter(s, w, t) == [enterArenaMatch(s, w, t) EXCEPT !.win[w].entered = TRUE]

\* consumeArenaEntry, from the effect of a window that has just come to its lobby.
consumeArenaEntry(s, w) ==
    LET g == GameOf[w]
    IN IF s.store[g] # 0 /\ w \in Idle(s, g)
       THEN [Enter(s, w, s.store[g]) EXCEPT !.store[g] = 0] ELSE s

\* setArenaEntry: the first subscribed idle window of the game takes it, else it stays for a
\* later one and replaces what was there.
setArenaEntry(s, t) ==
    LET g == s.tun[t].game
    IN IF Idle(s, g) # {} THEN {Enter(s, w, t) : w \in Idle(s, g)}
       ELSE {[Lose(s, {s.store[g]}, "overwritten") EXCEPT !.store[g] = t]}
RECURSIVE Publish(_, _)
Publish(ss, ts) ==
    IF ts = {} THEN ss
    ELSE LET t == CHOOSE x \in ts : \A y \in ts : x <= y
         IN Publish(UNION {setArenaEntry(s, t) : s \in ss}, ts \ {t})

-----------------------------------------------------------------------------
\* Starting an entry.

Start(s, kind, games, w) ==
    [s EXCEPT !.entry = Append(@, [kind |-> kind, games |-> games, win |-> w,
                                   stage |-> "allocate", ts |-> {}])]
Room == Len(st.entry) < MaxEntries

openModuleIds == {GameOf[w] : w \in {x \in Windows : st.win[x].at # "closed"}}
\* resumingGameKeysOf: the games whose record is of a match still in progress.
resumingGameKeysOf == {st.tun[t].game : t \in st.record}
\* No open window counts as an unknown layout, and then every game is entered.
arenaGameIdsForOpenWindows ==
    (IF openModuleIds = {} THEN Games ELSE openModuleIds) \ resumingGameKeysOf

\* The effect of useArenaAutoEnter at a wallet connect.
useArenaAutoEnter ==
    /\ ~st.connected /\ Room
    /\ LET s == [st EXCEPT !.connected = TRUE]
       IN st' = IF arenaGameIdsForOpenWindows = {} \/ ~st.armed THEN s
                ELSE Start([s EXCEPT !.armed = FALSE], "batch", arenaGameIdsForOpenWindows, 0)
Disconnect == st.connected /\ st' = [st EXCEPT !.connected = FALSE]

InFlight(g) ==
    \E i \in DOMAIN st.entry :
      st.entry[i].kind = "lazy" /\ st.entry[i].games = {g} /\ st.entry[i].stage # "end"
\* requestArenaGame, called when a window is added.
requestArenaGame(s, g) ==
    IF ~st.connected \/ st.store[g] # 0 \/ InFlight(g) THEN s ELSE Start(s, "lazy", {g}, 0)
addWindow(w) ==
    /\ st.win[w].at = "closed" /\ Room
    /\ st' = consumeArenaEntry(
               requestArenaGame([st EXCEPT !.win[w].at = "lobby"], GameOf[w]), w)
closeWindow(w) ==
    /\ st.win[w].at \in {"lobby", "error"}
    /\ st' = [st EXCEPT !.win[w] = Closed]

allocateArenaGameForPlay(s, w) == Start([s EXCEPT !.win[w].at = "entering"], "play", {Shop}, w)
\* findShop, from the Play button of the shop's lobby, also after an error: an entry in the
\* store is taken, else allocateArenaGameForPlay stakes one for this window.
findShop(w) ==
    /\ st.connected /\ GameOf[w] = Shop /\ st.win[w].at \in {"lobby", "error"}
    /\ IF st.store[Shop] # 0
       THEN st' = [enterArenaMatch(st, w, st.store[Shop]) EXCEPT !.store[Shop] = 0]
       ELSE Room /\ st' = allocateArenaGameForPlay(st, w)

-----------------------------------------------------------------------------
\* enterArena, one stage at a time.

Entry(i) == st.entry[i]
Done(s, i) == [s EXCEPT !.entry[i].stage = "end", !.entry[i].win = 0]
\* A Play without a bot, or that failed, shows the error in the lobby and releases the gate.
Back(s, i) ==
    LET w == Entry(i).win
    IN IF w = 0 THEN Done(s, i) ELSE [Done(s, i) EXCEPT !.win[w] = [Closed EXCEPT !.at = "error"]]
Paid(s, ts) == {t \in ts : s.tun[t].paid = "yes"}
\* The entry throws: the batch re-arms itself, and what its deposits have paid is dropped.
Fail(s, i, why) ==
    LET s1 == Back(Lose(s, Paid(s, Entry(i).ts), why), i)
    IN IF Entry(i).kind = "batch" THEN [s1 EXCEPT !.armed = TRUE] ELSE s1

\* The backend answers with the games a bot was free for, or the request fails.
allocateArenaBots(i, got) ==
    /\ Entry(i).stage = "allocate" /\ got \subseteq Entry(i).games
    /\ Len(st.tun) + Cardinality(got) <= MaxTunnels
    /\ \E order \in [1 .. Cardinality(got) -> got] :
         /\ \A g \in got : \E k \in DOMAIN order : order[k] = g
         /\ st' = IF got = {} THEN Back(st, i)
                  ELSE [st EXCEPT !.tun = @ \o [k \in DOMAIN order |->
                                                 [game |-> order[k], paid |-> "asked", loss |-> "no"]],
                                  !.entry[i].stage = "deposit",
                                  !.entry[i].ts = {Len(st.tun) + k : k \in DOMAIN order}]
allocateFails(i) == Entry(i).stage = "allocate" /\ st' = Fail(st, i, "failed")

\* One deposit of an entry lands; if the entry is over (or the page reloaded) nobody waits
\* for it any more.
depositLands(t) ==
    /\ st.tun[t].paid = "asked"
    /\ LET waits == \E i \in DOMAIN st.entry : t \in Entry(i).ts /\ Entry(i).stage = "deposit"
       IN st' = [st EXCEPT !.tun[t].paid = "yes", !.tun[t].loss = IF waits THEN @ ELSE "failed"]
\* One is refused: Promise.all rejects at once, whatever the others do.
depositRefused(i, t) ==
    /\ Entry(i).stage = "deposit" /\ t \in Entry(i).ts /\ st.tun[t].paid = "asked"
    /\ st' = Fail([st EXCEPT !.tun[t].paid = "refused"], i, "failed")

\* All have landed and the bots are told; the entries are published, or handed to Play's window.
reportArenaOpened(i) ==
    /\ Entry(i).stage = "deposit" /\ Paid(st, Entry(i).ts) = Entry(i).ts
    /\ IF Entry(i).kind = "play"
       THEN \E t \in Entry(i).ts :
              st' = Done(enterArenaMatch(st, Entry(i).win, t), i)
       ELSE \E s \in Publish({Done(st, i)}, Entry(i).ts) : st' = s
reportFails(i) ==
    /\ Entry(i).stage = "deposit" /\ Paid(st, Entry(i).ts) = Entry(i).ts
    /\ st' = Fail(st, i, "failed")

-----------------------------------------------------------------------------
\* The match of a window: its first co-signed state writes the resume record, its settlement
\* clears it.  Only the shop's completeRound lets its window take another entry.
confirmed(w) ==
    /\ st.win[w].at = "playing"
    /\ st' = [st EXCEPT !.record = @ \cup {st.win[w].t}]
settled(w) ==
    /\ st.win[w].at = "playing" /\ st.win[w].t \in st.record
    /\ st' = consumeArenaEntry(
               [st EXCEPT !.win[w] = [at |-> "lobby", t |-> 0,
                                      entered |-> @.entered /\ GameOf[w] # Shop],
                          !.record = @ \ {st.win[w].t}, !.tun[st.win[w].t].paid = "settled"], w)

\* The page starts again: memory is gone, the layout and the resume records stay.
Reload ==
    /\ st.entry # <<>>
    /\ LET kept == {w \in Windows : st.win[w].t \in st.record /\ st.win[w].at = "playing"}
           held == UNION {st.entry[i].ts : i \in {j \in DOMAIN st.entry : Entry(j).stage = "deposit"}}
                     \cup {st.store[g] : g \in Games}
                     \cup {st.win[w].t : w \in Windows \ kept}
           s == Lose(st, {t \in Tunnels(st) : t \in held /\ st.tun[t].paid = "yes"}, "reload")
       IN st' = [s EXCEPT !.connected = FALSE, !.armed = TRUE,
                          !.store = [g \in Games |-> 0],
                          !.entry = [i \in DOMAIN @ |-> [@[i] EXCEPT !.stage = "end", !.win = 0]],
                          !.win = [w \in Windows |->
                                     IF w \in kept THEN [@[w] EXCEPT !.entered = FALSE]
                                     ELSE IF @[w].at = "closed" THEN @[w]
                                     ELSE [Closed EXCEPT !.at = "lobby"]]]

-----------------------------------------------------------------------------
Next ==
    \/ useArenaAutoEnter \/ Disconnect \/ Reload
    \/ \E w \in Windows : \/ addWindow(w) \/ closeWindow(w) \/ findShop(w)
                          \/ confirmed(w) \/ settled(w)
    \/ \E t \in Tunnels(st) : depositLands(t)
    \/ \E i \in DOMAIN st.entry :
         \/ \E got \in SUBSET Entry(i).games : allocateArenaBots(i, got)
         \/ allocateFails(i) \/ reportArenaOpened(i) \/ reportFails(i)
         \/ \E t \in Entry(i).ts : depositRefused(i, t)

-----------------------------------------------------------------------------
\* Properties.

Held(s, t) ==
    Cardinality({w \in Windows : s.win[w].t = t}) + Cardinality({g \in Games : s.store[g] = t})
      + Cardinality({i \in DOMAIN s.entry : t \in s.entry[i].ts /\ s.entry[i].stage = "deposit"})

\* A paid stake is in exactly one hand (an entry under way, the store, or one window) or was
\* lost to a failed entry, an overwritten entry or a reload: two windows never play the same
\* tunnel, and consuming, publishing and closing lose nothing.
Accounted(s) ==
    \A t \in Tunnels(s) : s.tun[t].paid = "yes" =>
      IF s.tun[t].loss = "no" THEN Held(s, t) = 1 ELSE Held(s, t) = 0

\* An entry in the store or in a window is paid in full, and none waits in the store while a
\* window of its game would take it.
Backed(s) ==
    /\ \A w \in Windows : s.win[w].t # 0 => s.tun[s.win[w].t].paid = "yes"
    /\ \A g \in Games : s.store[g] # 0 => s.tun[s.store[g]].paid = "yes" /\ Idle(s, g) = {}

=============================================================================

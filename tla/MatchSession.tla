---------------------------- MODULE MatchSession ----------------------------
(***************************************************************************)
(* What the browser's match sessions share: one window's session, as the   *)
(* record s, and the parts of its world that outlive a page (the tunnels   *)
(* on chain, the opponent of each match, the resume records in storage).   *)
(* Matches, their sockets and their tunnels are numbered by the start that *)
(* made them.  One co-signed update is one step of both seats.             *)
(***************************************************************************)
EXTENDS Naturals

CONSTANTS Starts,   \* how many matches the window may start
          Moves     \* co-signed updates after which a match is over

Ids == 1..Starts
Each(x) == [k \in Ids |-> x]

Open == [at |-> "draw", mine |-> TRUE, pend |-> FALSE, n |-> 0]

\* A freshly mounted window: nothing in memory.
Mounted(s) ==
    [s EXCEPT !.status = "idle", !.mp = 0, !.open = {}, !.tun = 0, !.flow = [k \in Ids |->
                 IF s.flow[k] = "none" THEN "none" ELSE "gone"],
              !.fin = Each("none"), !.heard = {}, !.buf = 0, !.waiter = 0, !.once = FALSE,
              !.stopping = FALSE, !.auto = FALSE, !.pref = FALSE, !.attached = {},
              !.timers = {}, !.entered = FALSE, !.dog = 0, !.reloads = @ + 1,
              !.lost = @ \cup {k \in s.staked : k \notin s.rec \/ s.game[k].at = "over"}]

Fresh ==
    [status |-> "idle", mp |-> 0, open |-> {}, tun |-> 0, started |-> 0,
     sock |-> Each(0), role |-> Each("A"), flow |-> Each("none"), game |-> Each(Open),
     fin |-> Each("none"), heard |-> {}, buf |-> 0, waiter |-> 0, once |-> FALSE,
     stopping |-> FALSE, auto |-> FALSE, pref |-> FALSE, attached |-> {}, timers |-> {},
     entered |-> FALSE, left |-> {}, lost |-> {}, rec |-> {}, staked |-> {}, closed |-> {},
     subs |-> Each(0), stops |-> {}, halves |-> {}, signed |-> {}, halfAt |-> Each(0),
     dog |-> 0, stale |-> FALSE, reloads |-> 0, x |-> <<>>]

\* The next start: its socket is the one given (0: a new one, numbered like the start).
Started(s, sock, flow) ==
    LET k == s.started + 1
    IN  [s EXCEPT !.started = k, !.sock[k] = IF sock = 0 THEN k ELSE sock,
                  !.open = IF sock = 0 THEN @ \cup {k} ELSE @,
                  !.mp = IF sock = 0 THEN k ELSE @, !.flow[k] = flow]
Room(s) == s.started < Starts

Online(s, k) == s.sock[k] \in s.open
Over(s, k) == s.game[k].at = "over"
Owed(s, k) == s.game[k].mine /\ ~s.game[k].pend /\ ~Over(s, k)

InPlay(s) == s.status = "playing" /\ s.tun # 0 /\ Online(s, s.tun)

\* DistributedTunnel.propose: refused while a proposal awaits its ACK or it is not our move.
propose(s, k) ==
    IF ~Owed(s, k) THEN s
    ELSE LET t == [s EXCEPT !.game[k].pend = TRUE]
         IN  IF k \in s.attached /\ s.game[k].n > 0 THEN [t EXCEPT !.rec = @ \cup {k}] ELSE t

\* One more co-signed update of match k, leading to one of the game's boards.
Advanced(s, k, boards) ==
    LET n == s.game[k].n + 1
    IN  {[s EXCEPT !.game[k] = [at |-> at, mine |-> m, pend |-> FALSE, n |-> n]] :
           at \in IF n = Moves THEN {"over"} ELSE boards, m \in BOOLEAN}

\* The steps of a matched flow, up to its last await: hello is exchanged, one seat opens the
\* tunnel and the other waits to hear of it, and each seat deposits and waits for the other's
\* deposit.
hello(s, k) ==
    IF s.flow[k] = "hello" /\ Online(s, k) THEN {[s EXCEPT !.flow[k] = "open"]} ELSE {}
openTunnel(s, k, opener) ==
    IF s.flow[k] = "open" /\ (s.role[k] = opener \/ Online(s, k))
    THEN {[s EXCEPT !.flow[k] = "fund"]} ELSE {}
deposit(s, k) ==
    IF s.flow[k] = "fund" THEN {[s EXCEPT !.flow[k] = "poll", !.staked = @ \cup {k}]} ELSE {}
Waiting == {"connect", "match", "hello", "open", "fund", "poll", "join"}

\* The relay seats the window at either side of the match it found.
quickMatch(s, k) ==
    IF s.flow[k] = "match" /\ Online(s, k)
    THEN {[s EXCEPT !.flow[k] = "hello", !.role[k] = r, !.heard = @ \cup {k}] : r \in {"A", "B"}}
    ELSE {}

\* A flow that throws leaves nothing behind but the error; a stake it had paid in stays there.
Threw(s, k) == [s EXCEPT !.flow[k] = "gone", !.lost = @ \cup ({k} \cap s.staked)]

\* The next start joins the match its arena entry names: seat A of a tunnel that both
\* seats have already funded.
joinMatch(s) ==
    LET k == s.started + 1
    IN  [Started(s, 0, "join") EXCEPT !.staked = @ \cup {k}, !.heard = @ \cup {k},
                                      !.entered = TRUE]
CanEnter(s) == ~s.entered /\ Room(s)

\* attachResume: every confirmed update and every proposal of an attached tunnel that
\* has a co-signed state is written to storage, after the game's own handler.
Persist(s, k) ==
    IF k \in s.attached /\ s.game[k].n > 0 THEN [s EXCEPT !.rec = @ \cup {k}] ELSE s

\* The opponent's answer to our pending move, or its own move.
CanAdvance(s, k) ==
    /\ s.flow[k] = "live"
    /\ Online(s, k)
    /\ k \notin s.signed
    /\ ~Over(s, k)
    /\ s.game[k].mine => s.game[k].pend

\* The fleet bot signs its half of the close at its terminal state, or at a
\* round boundary once our stop reached it, and sends it once.
BotSigns(s, k) ==
    [s EXCEPT !.signed = @ \cup {k}, !.halves = @ \cup {k}, !.halfAt[k] = s.game[k].n]
CanBotSign(s, k) ==
    /\ s.flow[k] = "live"
    /\ k \notin s.signed
    /\ Over(s, k) \/ (k \in s.stops /\ s.game[k].at = "break")

\* The inbox of a match: a half waits there until the settlement asks for it.
HalfHere(s, k) == k \in s.halves /\ Online(s, k)

\* combineSettlementWithRoot: the peer's signature covers our own latest balances.
Verifies(s, k, half) == half = k /\ s.halfAt[k] = s.game[k].n

-----------------------------------------------------------------------------
\* However often the terminal state, the Stop button, the peer and the auto-settle
\* effect ask for it, a tunnel's close is submitted at most once.
CloseOnce(s) == \A k \in Ids : s.subs[k] <= 1

\* A settlement is never handed a half of another match, or of an older state, unless an
\* earlier settlement of this page was given up (its half may still come in late).
RightHalf(s) ==
    (\A k \in Ids : s.fin[k] # "failed") => \A k \in Ids : s.fin[k] # "refused"

\* A tunnel this page has settled is never resumed: its record is gone, or is that of a
\* finished match, which a cold load drops.
RecordTrue(s) == \A k \in s.rec : s.fin[k] = "done" => Over(s, k)

\* A stake in an open tunnel is within the window's reach: a flow is still running for it,
\* it is the match at hand, or a reload finds its record.  The exceptions are the player's own
\* Back, a flow that failed, a reload before the first co-signed update or after the last, a
\* settlement that outlived its match, and an entry that outlived the player's Back.
StakeKept(s) ==
    \A k \in s.staked \ (s.closed \cup s.left \cup s.lost) :
      \/ s.tun = k \/ k \in s.rec \/ s.stale
      \/ s.flow[k] \notin {"none", "live", "gone"}
      \/ s.fin[k] # "none"
=============================================================================

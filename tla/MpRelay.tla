------------------------------ MODULE MpRelay ------------------------------
(***************************************************************************)
(* The relay between two pages: each page's MpClient (pvp/mpClient.ts) with *)
(* the resume driver on it (pvp/resumeSession.ts), and the server's task    *)
(* per connection (backend mp/ws.rs) with its cache of the match record,    *)
(* the store and the bus.  A socket breaks without either end noticing at   *)
(* once: the page sees onclose and the server's loop ends at times of their *)
(* own.                                                                     *)
(*                                                                          *)
(* What the frames say is DistributedTunnel's; here one only fills a cache  *)
(* on its way, so a page may always have one under way.  A Resume handler   *)
(* awaits the store between rebind_match_conn and get_match, so it is two   *)
(* steps; the other handlers do one thing to the shared state and are one.  *)
(* A page whose first connection fails shows an error and is followed no    *)
(* further.                                                                 *)
(***************************************************************************)
EXTENDS Naturals, Sequences, FiniteSets

CONSTANTS MaxA, MaxB   \* bounds: connections of the two pages

VARIABLE st

Page == {"a", "b"}
Other(p) == IF p = "a" THEN "b" ELSE "a"
Conns(s) == DOMAIN s.conns

\* handle_socket starts: the challenge is the first thing sent.
handle_socket(p) ==
    [who |-> p, net |-> TRUE, open |-> TRUE, reg |-> FALSE, cache |-> <<>>,
     in |-> <<>>, out |-> <<[t |-> "challenge"]>>, ctrl |-> <<>>, rebound |-> FALSE]

\* create_and_announce_match: the record is put, both pages are told, and both caches are
\* about to be warmed.
create_and_announce_match(r) ==
    <<[handle_socket("a") EXCEPT !.reg = TRUE, !.out = <<>>,
                                 !.ctrl = <<[t |-> "populate", rec |-> r]>>],
      [handle_socket("b") EXCEPT !.reg = TRUE, !.out = <<>>,
                                 !.ctrl = <<[t |-> "populate", rec |-> r]>>]>>

\* Both pages have taken match.found, opened the match's channel and attached to it.
Init ==
    LET r == [p \in Page |-> IF p = "a" THEN 1 ELSE 2]
    IN st = [conns |-> create_and_announce_match(r), store |-> r, presence |-> r, ws |-> r,
             opened |-> [p \in Page |-> TRUE], known |-> [p \in Page |-> TRUE],
             timer |-> [p \in Page |-> FALSE],
             attached |-> [p \in Page |-> TRUE], grace |-> [p \in Page |-> "off"],
             overtaken |-> FALSE]

-----------------------------------------------------------------------------
\* The bus: deliver drops what is addressed to a connection that is not registered.
deliver(s, c, m) ==
    IF s.conns[c].reg /\ s.conns[c].net THEN [s EXCEPT !.conns[c].out = Append(@, m)] ELSE s
control(s, c, m) ==
    IF s.conns[c].reg THEN [s EXCEPT !.conns[c].ctrl = Append(@, m)] ELSE s
\* Variant: a resume leaves the other connection's cache alone.
evictNothing(s, c) == s
evict(s, c) == control(s, c, [t |-> "evict"])

\* MpClient.#send: nothing without a socket; what is written to a broken one is lost.
send(s, p, ts) ==
    IF s.ws[p] # 0 /\ s.conns[s.ws[p]].net
    THEN [s EXCEPT !.conns[s.ws[p]].in = @ \o ts] ELSE s

\* #resumeActive, at every connect: a reconnect resumes, and so does a cold load, which has
\* marked its match active before it connects.
resumeActive(s, p) == send(s, p, <<"connect", "resume">>)

cancelGrace(s, p) == [s EXCEPT !.grace[p] = "off"]

-----------------------------------------------------------------------------
\* The page.

Sockets(s, p) == {c \in Conns(s) : s.conns[c].who = p}
SocketFor(s, p) ==
    [s EXCEPT !.conns = Append(@, handle_socket(p)), !.ws[p] = Len(s.conns) + 1,
              !.opened[p] = FALSE]
Room(s, p) == Cardinality(Sockets(s, p)) < (IF p = "a" THEN MaxA ELSE MaxB)

\* #scheduleReconnect's timer fires.
openSocket(p) ==
    /\ st.timer[p] /\ st.ws[p] = 0 /\ Room(st, p)
    /\ st' = [SocketFor(st, p) EXCEPT !.timer[p] = FALSE]

Inbox(p) == IF st.ws[p] = 0 THEN <<>> ELSE st.conns[st.ws[p]].out
Arrived(p, t) == Inbox(p) # <<>> /\ Head(Inbox(p)).t = t
Taken(p) == [st EXCEPT !.conns[st.ws[p]].out = Tail(@)]

challenge(p) ==
    /\ Arrived(p, "challenge")
    /\ st' = resumeActive([Taken(p) EXCEPT !.known[p] = TRUE, !.opened[p] = TRUE], p)

\* Both notices of a return also make the page send its resync and what is pending.
resumeOk(p) ==
    /\ Arrived(p, "ok")
    /\ st' = IF Head(Inbox(p)).peerOnline THEN cancelGrace(Taken(p), p) ELSE Taken(p)
peerResumed(p) == Arrived(p, "resumed") /\ st' = cancelGrace(Taken(p), p)
\* The grace timer starts; the model remembers whether the notice was sent for a connection
\* that a resume had already replaced.
peerDropped(p) ==
    /\ Arrived(p, "dropped")
    /\ st' = [Taken(p) EXCEPT !.grace[p] = IF Head(Inbox(p)).late THEN "late" ELSE "on"]

\* releaseMatch and close: detach, and no reconnect.
close(p) ==
    /\ st.attached[p]
    /\ LET c == st.ws[p]
           left == [st EXCEPT !.attached[p] = FALSE, !.grace[p] = "off",
                              !.timer[p] = FALSE, !.ws[p] = 0, !.opened[p] = FALSE]
       IN st' = IF c = 0 THEN left
                ELSE [left EXCEPT !.conns[c].net = FALSE, !.conns[c].out = <<>>]

\* The page is loaded again with a record on disk: resumeActiveTunnels rebuilds the tunnel,
\* marks the match active and attaches before a new MpClient connects.
resumeActiveTunnels(p) ==
    /\ st.attached[p] /\ Room(st, p)
    /\ LET c == st.ws[p]
           gone == IF c = 0 THEN st
                   ELSE [st EXCEPT !.conns[c].net = FALSE, !.conns[c].out = <<>>]
       IN st' = [SocketFor(gone, p) EXCEPT !.known[p] = FALSE, !.timer[p] = FALSE, !.grace[p] = "off"]

\* ws.onclose.  If the client was never connected ws.onerror has also rejected connect(), and
\* the hook shows the error.
scheduleReconnect(p) ==
    /\ st.ws[p] # 0 /\ ~st.conns[st.ws[p]].net
    /\ st' = [st EXCEPT !.ws[p] = 0, !.opened[p] = FALSE, !.timer[p] = st.known[p],
                        !.attached[p] = st.known[p],
                        !.grace[p] = IF st.known[p] THEN @ ELSE "off"]

-----------------------------------------------------------------------------
\* The network: connection c breaks; the server may yet read k of the frames sent.
breaks(c, k) ==
    /\ st.conns[c].net
    /\ st' = [st EXCEPT !.conns[c].net = FALSE, !.conns[c].out = <<>>,
                        !.conns[c].in = SubSeq(@, 1, k)]

-----------------------------------------------------------------------------
\* The server: one task per connection.  Nothing orders two connections of one page: what
\* was sent on the older may be read after the newer has resumed.  `overtaken` says so, and
\* ends the behaviour.

Serving(c, t) ==
    /\ st.conns[c].open /\ ~st.conns[c].rebound
    /\ st.conns[c].in # <<>> /\ Head(st.conns[c].in) = t
Served(c) == [st EXCEPT !.conns[c].in = Tail(@)]
Who(c) == st.conns[c].who

handle_message(c) ==
    /\ Serving(c, "connect")
    /\ st' = [Served(c) EXCEPT !.conns[c].reg = TRUE, !.presence[Who(c)] = c,
                                !.overtaken = @ \/ st.presence[Who(c)] > c]

\* Resume: rebind_match_conn ...
rebind_match_conn(c) ==
    /\ Serving(c, "resume")
    /\ st' = [Served(c) EXCEPT !.conns[c].rebound = TRUE, !.store[Who(c)] = c,
                                !.overtaken = @ \/ st.store[Who(c)] > c]
\* ... then the record is read, cached, and both seats are told.
Resume(c) ==
    /\ st.conns[c].rebound
    /\ LET r == st.store
           opp == r[Other(Who(c))]
           s == [st EXCEPT !.conns[c].rebound = FALSE, !.conns[c].cache = <<r>>]
           ok == deliver(s, c, [t |-> "ok", peerOnline |-> st.presence[Other(Who(c))] # 0])
       IN st' = evict(deliver(ok, opp, [t |-> "resumed"]), opp)

\* A frame from the page, behind its connect and resume: the record is read from the store
\* when it is not cached, and the frame goes to the other connection it names.
relay_to_other(c) ==
    /\ st.conns[c].open /\ st.conns[c].reg /\ ~st.conns[c].rebound
    /\ st.conns[c].in = <<>> /\ st.conns[c].cache = <<>>
    /\ st' = [st EXCEPT !.conns[c].cache = <<st.store>>]

CtrlMsg(c) ==
    /\ st.conns[c].open /\ ~st.conns[c].rebound /\ st.conns[c].ctrl # <<>>
    /\ LET m == Head(st.conns[c].ctrl)
       IN st' = [st EXCEPT !.conns[c].ctrl = Tail(@),
                           !.conns[c].cache = IF m.t = "evict" THEN <<>> ELSE <<m.rec>>]

notify_peers_dropped(s, c) ==
    LET r == s.conns[c].cache
        p == s.conns[c].who
    IN IF r = <<>> \/ r[1][p] # c THEN s
       ELSE deliver(s, r[1][Other(p)], [t |-> "dropped", late |-> s.store[p] # c])
\* The read fails or a ping stays unanswered: the loop ends and cleans up.
disconnect(c) ==
    /\ st.conns[c].open /\ ~st.conns[c].net /\ ~st.conns[c].rebound
    /\ LET p == Who(c)
           s == [st EXCEPT !.presence[p] = IF @ = c THEN 0 ELSE @]
       IN st' = [notify_peers_dropped(s, c) EXCEPT
                   !.conns[c] = [@ EXCEPT !.open = FALSE, !.reg = FALSE, !.cache = <<>>,
                                          !.in = <<>>, !.ctrl = <<>>]]

-----------------------------------------------------------------------------
Step ==
    \/ \E p \in Page :
         \/ openSocket(p) \/ challenge(p)
         \/ resumeOk(p) \/ peerResumed(p) \/ peerDropped(p)
         \/ close(p) \/ resumeActiveTunnels(p) \/ scheduleReconnect(p)
    \/ \E c \in Conns(st) :
         \/ \E k \in 0 .. Len(st.conns[c].in) : breaks(c, k)
         \/ handle_message(c) \/ rebind_match_conn(c) \/ Resume(c)
         \/ relay_to_other(c) \/ CtrlMsg(c) \/ disconnect(c)
Next == ~st.overtaken /\ Step

-----------------------------------------------------------------------------
\* Properties.

\* A connection's cached record names the other seat's present connection, unless the
\* resume that replaced it is still under way or its evict is queued (relay_to_other
\* routes every frame from this copy, never from the store).
Routed(s) ==
    \A p \in Page :
      LET r == s.store
          c == s.conns[r[p]]
      IN c.open /\ c.net /\ c.cache # <<>> /\ c.cache[1][Other(p)] # r[Other(p)]
           => \/ \E i \in DOMAIN c.ctrl : c.ctrl[i].t = "evict"
              \/ s.conns[r[Other(p)]].rebound

Quiet(s) ==
    \A c \in Conns(s) : s.conns[c].open =>
         /\ s.conns[c].net /\ ~s.conns[c].rebound
         /\ s.conns[c].in = <<>> /\ s.conns[c].out = <<>> /\ s.conns[c].ctrl = <<>>
Online(s, p) == s.attached[p] /\ s.opened[p] /\ s.conns[s.ws[p]].net

\* When both pages are connected again and nothing is under way, the match record names
\* the connections they hold: a frame sent by either reaches the other, unless a resume was
\* overtaken by that of a newer connection.
Reachable(s) ==
    ~s.overtaken /\ Quiet(s) /\ (\A p \in Page : Online(s, p)) => \A p \in Page : s.store[p] = s.ws[p]

\* A peer's return stops the grace timer its drop started: one that runs while both are
\* online was started by the notice of a connection already replaced, read after the return.
GraceTrue(s) ==
    ~s.overtaken /\ Quiet(s) /\ (\A p \in Page : Online(s, p)) =>
      \A p \in Page : s.grace[p] # "on"
=============================================================================

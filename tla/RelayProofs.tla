---------------------------- MODULE RelayProofs ----------------------------
(***************************************************************************)
(* The relay between two pages, for any number of connections: a match is  *)
(* routed by a current copy of its record, and the record ends up naming   *)
(* the connections the pages hold.                                         *)
(*                                                                         *)
(* Most steps change one connection in a way that cannot disturb the       *)
(* routing (Kin): the lemmas on one connection say which, and Harmless     *)
(* lifts them to the state.  The two halves of a resume are the others.    *)
(***************************************************************************)
EXTENDS MpRelay, SequenceTheorems, TLAPS

\* What a match record, a frame to a page and a control message may be.
Rec == [Page -> Nat]
Note == [t : {"challenge", "resumed"}] \cup [t : {"ok"}, peerOnline : BOOLEAN]
        \cup [t : {"dropped"}, late : BOOLEAN]
Ctrl == [t : {"evict"}] \cup [t : {"populate"}, rec : Rec]
Conn == [who : Page, net : BOOLEAN, open : BOOLEAN, reg : BOOLEAN, cache : Seq(Rec),
         in : Seq({"connect", "resume"}), out : Seq(Note), ctrl : Seq(Ctrl), rebound : BOOLEAN]
State == [conns : Seq(Conn), store : Rec, presence : Rec, ws : Rec,
          opened : [Page -> BOOLEAN], known : [Page -> BOOLEAN], timer : [Page -> BOOLEAN],
          attached : [Page -> BOOLEAN], grace : [Page -> {"off", "on", "late"}],
          overtaken : BOOLEAN]

\* An evict is queued for the connection; a resume waits to be read on it; its challenge has
\* not been read; nothing queued would fill its cache.
HasEvict(r) == \E i \in DOMAIN r.ctrl : r.ctrl[i].t = "evict"
HasResume(r) == \E i \in DOMAIN r.in : r.in[i] = "resume"
Fresh(r) == \E i \in DOMAIN r.out : r.out[i].t = "challenge"
NoPopulate(r) == \A i \in DOMAIN r.ctrl : r.ctrl[i].t # "populate"

\* What holds of every connection by itself.  Until its challenge is read a page has sent
\* nothing on it, and the server knows nothing of it.  A resume is the last frame of a page and
\* follows the connect that registers it.  While frames wait or a resume is half done, nothing
\* is cached and nothing will be but by that resume: only the record of a new match is sent to a
\* cache, and it is the first message there.
OK(r) ==
    /\ Fresh(r) => r.in = <<>> /\ ~r.reg /\ r.cache = <<>> /\ ~r.rebound /\ r.ctrl = <<>>
    /\ \A i \in DOMAIN r.out : r.out[i].t = "challenge" => i = 1
    /\ \A i \in DOMAIN r.in : r.in[i] = "resume" => i = Len(r.in) /\ (i = 1 => r.reg)
    /\ r.in # <<>> => r.cache = <<>> /\ ~r.rebound /\ NoPopulate(r)
    /\ r.rebound => r.open /\ r.reg /\ r.cache = <<>> /\ NoPopulate(r)
    /\ \A i \in DOMAIN r.ctrl : r.ctrl[i].t = "populate" => i = 1
    /\ r.net => r.open

\* What connection r has cached, or is about to cache, names n as the connection of seat q, unless
\* an evict is queued behind it or the resume that made n current is half done (reb).
Fine(r, q, n, reb) ==
    r.open =>
      /\ r.net /\ r.cache # <<>> /\ r.cache[1][q] # n => HasEvict(r) \/ reb
      /\ \A i \in DOMAIN r.ctrl :
           r.ctrl[i].t = "populate" => r.ctrl[i].rec[q] = n \/ HasEvict(r) \/ reb

\* The record names for every seat a connection of that seat, registered while it is open, and
\* that connection routes by a current copy.
Seated(cs, sto, p) ==
    /\ sto[p] \in DOMAIN cs
    /\ cs[sto[p]].who = p
    /\ cs[sto[p]].open => cs[sto[p]].reg
    /\ Fine(cs[sto[p]], Other(p), sto[Other(p)], cs[sto[Other(p)]].rebound)
\* The socket a page holds is its newest connection; once opened and while it is up, the record
\* names it, or its resume is still on the way.
AtPage(cs, sto, w, up, late, p) ==
    /\ up[p] => w[p] # 0
    /\ w[p] # 0 =>
         /\ w[p] \in DOMAIN cs
         /\ cs[w[p]].who = p
         /\ \A d \in DOMAIN cs : cs[d].who = p => d <= w[p]
         /\ up[p] /\ cs[w[p]].net => sto[p] = w[p] \/ late \/ HasResume(cs[w[p]])
\* The inductive invariant.
RInv(s) ==
    /\ s \in State
    /\ \A c \in DOMAIN s.conns : OK(s.conns[c])
    /\ \A p \in Page : Seated(s.conns, s.store, p)
    /\ \A p \in Page : AtPage(s.conns, s.store, s.ws, s.opened, s.overtaken, p)

\* A connection's step that does not disturb the routing.
Kin(o, r, q, n) ==
    /\ r.who = o.who
    /\ r.open => o.open /\ (o.reg => r.reg)
    /\ r.net => o.net
    /\ o.rebound => r.rebound
    /\ \A reb \in BOOLEAN : Fine(o, q, n, reb) => Fine(r, q, n, reb)
    /\ r.net /\ HasResume(o) => HasResume(r)

\* The two pages are each other's peers.
LEMMA OtherPage == \A p \in Page : Other(p) \in Page /\ Other(p) # p /\ Other(Other(p)) = p
                                   /\ \A q \in Page : q = p \/ q = Other(p)
BY DEF Other, Page

\* A list of connections with one entry replaced.
LEMMA Replaced ==
    ASSUME NEW cs \in Seq(Conn), NEW c \in DOMAIN cs, NEW r \in Conn,
           NEW ds, ds = [cs EXCEPT ![c] = r]
    PROVE  /\ ds \in Seq(Conn) /\ DOMAIN ds = DOMAIN cs /\ Len(ds) = Len(cs) /\ ds[c] = r
           /\ \A d \in DOMAIN cs : d # c => ds[d] = cs[d]
           /\ DOMAIN cs = 1 .. Len(cs) /\ \A d \in DOMAIN cs : cs[d] \in Conn /\ d \in Nat
<1>1. DOMAIN cs = 1 .. Len(cs) /\ Len(cs) \in Nat /\ \A d \in DOMAIN cs : cs[d] \in Conn BY LenProperties
<1>2. ds \in Seq(Conn) /\ Len(ds) = Len(cs) BY <1>1, ExceptSeq
<1>3. DOMAIN ds = 1 .. Len(ds) BY <1>2, LenProperties
<1> QED BY <1>1, <1>2, <1>3

\* A harmless step of one connection leaves every seat routed by a current copy.
LEMMA SeatsKept ==
    ASSUME NEW cs \in Seq(Conn), NEW c \in DOMAIN cs, NEW r \in Conn,
           NEW ds, ds = [cs EXCEPT ![c] = r], NEW sto \in Rec,
           \A p \in Page : Seated(cs, sto, p),
           Kin(cs[c], r, Other(cs[c].who), sto[Other(cs[c].who)])
    PROVE  \A p \in Page : Seated(ds, sto, p)
<1> SUFFICES ASSUME NEW p \in Page PROVE Seated(ds, sto, p) BY Zenon
<1> PICK q \in Page : q = Other(p) BY OtherPage
<1>1. /\ DOMAIN ds = DOMAIN cs /\ ds[c] = r /\ \A d \in DOMAIN cs : d # c => ds[d] = cs[d]
      /\ \A d \in DOMAIN cs : cs[d] \in Conn
  BY Replaced
<1>2. /\ sto[p] \in DOMAIN cs /\ cs[sto[p]].who = p /\ (cs[sto[p]].open => cs[sto[p]].reg)
      /\ Fine(cs[sto[p]], q, sto[q], cs[sto[q]].rebound) /\ sto[q] \in DOMAIN cs
  BY DEF Seated
<1> PICK a \in DOMAIN cs : a = sto[p] BY <1>2
<1> PICK b \in DOMAIN cs : b = sto[q] BY <1>2
<1>3. cs[b].rebound \in BOOLEAN /\ ds[b].rebound \in BOOLEAN BY <1>1, Zenon DEF Conn
<1>4. cs[b].rebound => ds[b].rebound BY <1>1 DEF Kin
<1>5. Fine(ds[a], q, sto[q], cs[b].rebound)
  <2>1. CASE a = c BY <1>1, <1>2, <1>3, <2>1 DEF Kin
  <2>2. CASE a # c BY <1>1, <1>2, <2>2
  <2> QED BY <2>1, <2>2
<1>6. Fine(ds[a], q, sto[q], ds[b].rebound) BY <1>4, <1>5 DEF Fine
<1>7. ds[a].who = p /\ (ds[a].open => ds[a].reg) BY <1>1, <1>2 DEF Kin
<1> QED BY <1>1, <1>2, <1>6, <1>7 DEF Seated

\* It leaves every page's socket its newest connection, named by the record or resuming.
LEMMA PagesKept ==
    ASSUME NEW cs \in Seq(Conn), NEW c \in DOMAIN cs, NEW r \in Conn,
           NEW ds, ds = [cs EXCEPT ![c] = r], NEW sto \in Rec, NEW w \in Rec, NEW up,
           NEW late \in BOOLEAN, NEW late2 \in BOOLEAN, late => late2,
           \A p \in Page : AtPage(cs, sto, w, up, late, p),
           r.who = cs[c].who, r.net => cs[c].net, r.net /\ HasResume(cs[c]) => HasResume(r)
    PROVE  \A p \in Page : AtPage(ds, sto, w, up, late2, p)
<1> SUFFICES ASSUME NEW p \in Page PROVE AtPage(ds, sto, w, up, late2, p) BY Zenon
<1>1. /\ DOMAIN ds = DOMAIN cs /\ ds[c] = r /\ \A d \in DOMAIN cs : d # c => ds[d] = cs[d]
  BY Replaced
<1>2. \A d \in DOMAIN cs : /\ ds[d].who = cs[d].who /\ (ds[d].net => cs[d].net)
                           /\ ds[d].net /\ HasResume(cs[d]) => HasResume(ds[d])
  BY <1>1
<1> QED BY <1>1, <1>2 DEF AtPage

\* So it keeps the invariant, whatever else happens outside the routing.
LEMMA Harmless ==
    ASSUME NEW s, RInv(s), NEW c \in DOMAIN s.conns, NEW r \in Conn, OK(r), NEW t \in State,
           t.conns = [s.conns EXCEPT ![c] = r], t.store = s.store, t.ws = s.ws,
           t.opened = s.opened, s.overtaken => t.overtaken,
           Kin(s.conns[c], r, Other(s.conns[c].who), s.store[Other(s.conns[c].who)])
    PROVE  RInv(t)
<1>1. s.conns \in Seq(Conn) /\ s.store \in Rec /\ s.ws \in Rec BY DEF RInv, State
<1>2. \A p \in Page : Seated(t.conns, t.store, p) BY <1>1, SeatsKept DEF RInv
<1>3. \A p \in Page : AtPage(t.conns, t.store, t.ws, t.opened, t.overtaken, p)
  <2> PICK cs \in Seq(Conn) : cs = s.conns BY <1>1
  <2> PICK late \in BOOLEAN, late2 \in BOOLEAN : late = s.overtaken /\ late2 = t.overtaken
    BY DEF RInv, State
  <2>1. \A p \in Page : AtPage(cs, s.store, s.ws, s.opened, late, p) BY Zenon DEF RInv
  <2>2. r.who = cs[c].who /\ (r.net => cs[c].net) /\ (r.net /\ HasResume(cs[c]) => HasResume(r))
    BY Zenon DEF Kin
  <2>3. \A p \in Page : AtPage(t.conns, s.store, s.ws, s.opened, late2, p)
    BY <1>1, <2>1, <2>2, PagesKept
  <2> QED BY <2>3
<1>4. \A d \in DOMAIN t.conns : OK(t.conns[d]) BY <1>1, Replaced DEF RInv
<1> QED BY <1>2, <1>3, <1>4 DEF RInv

\* Length, domain, elements, head and tail of a sequence.
LEMMA Lens ==
    ASSUME NEW S, NEW s \in Seq(S)
    PROVE  /\ DOMAIN s = 1 .. Len(s) /\ Len(s) \in Nat /\ (s = <<>> <=> Len(s) = 0)
           /\ \A i \in DOMAIN s : s[i] \in S
           /\ s # <<>> => /\ Tail(s) \in Seq(S) /\ DOMAIN Tail(s) = 1 .. Len(s) - 1
                          /\ Len(Tail(s)) = Len(s) - 1 /\ Head(s) = s[1]
                          /\ \A i \in 1 .. Len(s) - 1 : Tail(s)[i] = s[i + 1]
<1>1. DOMAIN s = 1 .. Len(s) /\ Len(s) \in Nat /\ \A i \in DOMAIN s : s[i] \in S BY LenProperties
<1>2. s = <<>> <=> Len(s) = 0 BY EmptySeq
<1>3. ASSUME s # <<>>
      PROVE  /\ Tail(s) \in Seq(S) /\ DOMAIN Tail(s) = 1 .. Len(s) - 1
             /\ Len(Tail(s)) = Len(s) - 1 /\ Head(s) = s[1]
             /\ \A i \in 1 .. Len(s) - 1 : Tail(s)[i] = s[i + 1]
  <2>1. Tail(s) \in Seq(S) /\ Len(Tail(s)) = Len(s) - 1
        /\ \A i \in 1 .. Len(Tail(s)) : Tail(s)[i] = s[i + 1]
    BY <1>3, HeadTailProperties
  <2>2. DOMAIN Tail(s) = 1 .. Len(Tail(s)) BY <2>1, LenProperties
  <2>3. Head(s) = s[1] BY <1>3 DEF Head
  <2> QED BY <2>1, <2>2, <2>3
<1> QED BY <1>1, <1>2, <1>3

\* What appending an element gives.
LEMMA Appended ==
    ASSUME NEW S, NEW s \in Seq(S), NEW e \in S, NEW u, u = Append(s, e)
    PROVE  /\ u \in Seq(S) /\ DOMAIN u = 1 .. Len(s) + 1 /\ u # <<>> /\ Len(u) = Len(s) + 1
           /\ u[Len(s) + 1] = e /\ \A i \in 1 .. Len(s) : u[i] = s[i]
<1>1. u \in Seq(S) /\ u # <<>> /\ Len(u) = Len(s) + 1 /\ u[Len(s) + 1] = e
      /\ \A i \in 1 .. Len(s) : u[i] = s[i]
  BY AppendProperties
<1> QED BY <1>1, LenProperties

\* Reading a connect is harmless.
LEMMA Registered ==
    ASSUME NEW o \in Conn, OK(o), o.in # <<>>, Head(o.in) = "connect",
           NEW r, r = [o EXCEPT !.in = Tail(o.in), !.reg = TRUE], NEW q, NEW n
    PROVE  r \in Conn /\ OK(r) /\ Kin(o, r, q, n)
<1> PICK s \in Seq({"connect", "resume"}) : s = o.in BY DEF Conn
<1>1. /\ DOMAIN s = 1 .. Len(s) /\ Len(s) \in Nat /\ s[1] = "connect" /\ Len(s) # 0
      /\ Tail(s) \in Seq({"connect", "resume"}) /\ DOMAIN Tail(s) = 1 .. Len(s) - 1
      /\ Len(Tail(s)) = Len(s) - 1
      /\ \A i \in 1 .. Len(s) - 1 : Tail(s)[i] = s[i + 1]
  BY Lens
<1>2. r \in Conn BY <1>1, Zenon DEF Conn
<1>3. /\ r.who = o.who /\ r.net = o.net /\ r.open = o.open /\ r.reg = TRUE /\ r.cache = o.cache
      /\ r.in = Tail(s) /\ r.out = o.out /\ r.ctrl = o.ctrl /\ r.rebound = o.rebound
  BY DEF Conn
<1>4. OK(r)
  <2>1. ~Fresh(r) /\ r.cache = <<>> /\ ~r.rebound /\ NoPopulate(r) BY <1>3 DEF OK, Fresh, NoPopulate
  <2>2. \A i \in DOMAIN r.in : r.in[i] = "resume" => i = Len(r.in) /\ (i = 1 => r.reg)
    BY <1>1, <1>3 DEF OK
  <2> QED BY <2>1, <2>2, <1>3 DEF OK
<1>5. HasResume(o) => HasResume(r)
  <2>1. ASSUME NEW i \in DOMAIN s, s[i] = "resume" PROVE i - 1 \in DOMAIN Tail(s) /\ Tail(s)[i - 1] = "resume"
    BY <1>1, <2>1
  <2> QED BY <1>3, <2>1, ZenonT(40) DEF HasResume
<1>6. \A reb \in BOOLEAN : Fine(o, q, n, reb) => Fine(r, q, n, reb)
  BY <1>3 DEF Fine, HasEvict
<1> QED BY <1>2, <1>3, <1>4, <1>5, <1>6 DEF Kin

\* Filling an empty cache from the store (relay_to_other) is harmless.
LEMMA Cached ==
    ASSUME NEW o \in Conn, OK(o), o.reg, ~o.rebound, o.in = <<>>, NEW sto \in Rec,
           NEW r, r = [o EXCEPT !.cache = <<sto>>], NEW q
    PROVE  r \in Conn /\ OK(r) /\ Kin(o, r, q, sto[q])
<1>0. <<sto>> \in Seq(Rec) OBVIOUS
<1> PICK h \in Seq(Rec) : h = <<sto>> BY <1>0, Zenon
<1>1. r \in Conn BY Zenon DEF Conn
<1>2. /\ r.who = o.who /\ r.net = o.net /\ r.open = o.open /\ r.reg = o.reg /\ r.cache = <<sto>>
      /\ r.in = o.in /\ r.out = o.out /\ r.ctrl = o.ctrl /\ r.rebound = o.rebound
  BY Zenon DEF Conn
<1>3. OK(r)
  <2>1. ~Fresh(r) BY <1>2, Zenon DEF OK, Fresh
  <2> QED BY <1>2, <2>1 DEF OK
<1>4. \A reb \in BOOLEAN : Fine(o, q, sto[q], reb) => Fine(r, q, sto[q], reb)
  <2>1. r.cache[1] = sto BY <1>2
  <2> QED BY <1>2, <2>1 DEF Fine, HasEvict
<1> QED BY <1>1, <1>2, <1>3, <1>4 DEF Kin, HasResume

\* Taking a control message is harmless: an evict empties the cache, and the one record that may
\* be queued comes before every evict.
LEMMA Controlled ==
    ASSUME NEW o \in Conn, OK(o), o.open, ~o.rebound, o.ctrl # <<>>, NEW n, NEW q,
           NEW r, r = [o EXCEPT !.ctrl = Tail(o.ctrl),
                                !.cache = IF Head(o.ctrl).t = "evict" THEN <<>> ELSE <<Head(o.ctrl).rec>>]
    PROVE  r \in Conn /\ OK(r) /\ Kin(o, r, q, n)
<1> PICK s \in Seq(Ctrl) : s = o.ctrl BY DEF Conn
<1> PICK m \in Ctrl : m = s[1] BY Lens
<1>1. /\ DOMAIN s = 1 .. Len(s) /\ Len(s) \in Nat /\ Head(s) = m /\ Len(s) # 0
      /\ Tail(s) \in Seq(Ctrl) /\ DOMAIN Tail(s) = 1 .. Len(s) - 1
      /\ Len(Tail(s)) = Len(s) - 1
      /\ \A i \in 1 .. Len(s) - 1 : Tail(s)[i] = s[i + 1]
  BY Lens
<1> PICK h : h = IF m.t = "evict" THEN <<>> ELSE <<m.rec>> BY Zenon
<1>2. h \in Seq(Rec) /\ (m.t = "evict" \/ (m.t = "populate" /\ m.rec \in Rec)) BY DEF Ctrl
<1>3. r = [o EXCEPT !.ctrl = Tail(s), !.cache = h] BY <1>1
<1>4. r \in Conn BY <1>1, <1>2, <1>3, Zenon DEF Conn
<1>5. /\ r.who = o.who /\ r.net = o.net /\ r.open = o.open /\ r.reg = o.reg /\ r.cache = h
      /\ r.in = o.in /\ r.out = o.out /\ r.ctrl = Tail(s) /\ r.rebound = o.rebound
  BY <1>3, Zenon DEF Conn
<1>6. NoPopulate(r)
  <2>1. \A i \in DOMAIN s : s[i].t = "populate" => i = 1 BY DEF OK
  <2> QED BY <1>1, <1>5, <2>1 DEF NoPopulate
<1>7. OK(r)
  <2>1. r.in # <<>> => r.cache = <<>>
    <3>1. ASSUME r.in # <<>> PROVE m.t = "evict" BY <1>1, <1>2, <1>5, <3>1 DEF OK, NoPopulate
    <3> QED BY <1>5, <3>1
  <2>2. ~Fresh(r) BY <1>5, Zenon DEF OK, Fresh
  <2> QED BY <1>5, <1>6, <2>1, <2>2 DEF OK, NoPopulate
<1>8. ASSUME NEW reb \in BOOLEAN, Fine(o, q, n, reb) PROVE Fine(r, q, n, reb)
  <2>1. CASE m.t = "evict" BY <1>5, <1>6, <2>1 DEF Fine, NoPopulate
  <2>2. CASE m.t = "populate"
    <3>1. m.rec[q] = n \/ HasEvict(o) \/ reb BY <1>1, <1>8, <2>2 DEF Fine
    <3>2. HasEvict(o) => HasEvict(r)
      <4>1. ASSUME NEW i \in DOMAIN s, s[i].t = "evict" PROVE i - 1 \in DOMAIN Tail(s) /\ Tail(s)[i - 1].t = "evict"
        <5>1. i # 1 BY <2>2, <4>1
        <5> QED BY <1>1, <4>1, <5>1
      <4> QED BY <1>5, <4>1, Zenon DEF HasEvict
    <3>3. r.cache[1] = m.rec BY <1>5, <2>2
    <3> QED BY <1>6, <3>1, <3>2, <3>3 DEF Fine, NoPopulate
  <2> QED BY <1>2, <2>1, <2>2
<1> QED BY <1>4, <1>5, <1>7, <1>8 DEF Kin, HasResume

\* A break of the network is harmless, whatever the server may still read.
LEMMA Cut ==
    ASSUME NEW o \in Conn, OK(o), NEW k \in 0 .. Len(o.in), NEW q, NEW n,
           NEW r, r = [o EXCEPT !.net = FALSE, !.out = <<>>, !.in = SubSeq(o.in, 1, k)]
    PROVE  r \in Conn /\ OK(r) /\ Kin(o, r, q, n)
<1> PICK s \in Seq({"connect", "resume"}) : s = o.in BY DEF Conn
<1> PICK u : u = SubSeq(s, 1, k) BY Zenon
<1>1. DOMAIN s = 1 .. Len(s) /\ Len(s) \in Nat /\ (s = <<>> <=> Len(s) = 0)
      /\ \A i \in DOMAIN s : s[i] \in {"connect", "resume"}
  BY Lens
<1>2. k \in Nat /\ k \in Int /\ 1 \in Int /\ \A i \in 1 .. k : s[i] \in {"connect", "resume"} BY <1>1
<1>3. /\ u \in Seq({"connect", "resume"}) /\ Len(u) = (IF 1 <= k THEN k - 1 + 1 ELSE 0)
      /\ \A i \in 1 .. k - 1 + 1 : u[i] = s[1 + i - 1]
  BY <1>2, SubSeqProperties
<1>4. DOMAIN u = 1 .. k /\ Len(u) = k /\ (u = <<>> <=> k = 0) /\ \A i \in 1 .. k : u[i] = s[i]
  BY <1>2, <1>3, Lens
<1>0. <<>> \in Seq(Note) OBVIOUS
<1> PICK e \in Seq(Note) : e = <<>> BY <1>0, Zenon
<1>5. r \in Conn BY <1>3, Zenon DEF Conn
<1>6. /\ r.who = o.who /\ r.net = FALSE /\ r.open = o.open /\ r.reg = o.reg /\ r.cache = o.cache
      /\ r.in = u /\ r.out = <<>> /\ r.ctrl = o.ctrl /\ r.rebound = o.rebound
  BY DEF Conn
<1>7. OK(r)
  <2>1. Fresh(r) => FALSE BY <1>6 DEF Fresh
  <2>2. \A i \in DOMAIN r.in : r.in[i] = "resume" => i = Len(r.in) /\ (i = 1 => r.reg)
    BY <1>1, <1>4, <1>6 DEF OK
  <2>3. r.in # <<>> => o.in # <<>> BY <1>1, <1>4, <1>6
  <2> QED BY <1>6, <2>1, <2>2, <2>3 DEF OK, NoPopulate
<1>8. \A reb \in BOOLEAN : Fine(o, q, n, reb) => Fine(r, q, n, reb) BY <1>6 DEF Fine, HasEvict
<1> QED BY <1>5, <1>6, <1>7, <1>8 DEF Kin

\* A page reading a frame is harmless.
LEMMA FrameRead ==
    ASSUME NEW o \in Conn, OK(o), o.out # <<>>, NEW q, NEW n,
           NEW r, r = [o EXCEPT !.out = Tail(o.out)]
    PROVE  r \in Conn /\ OK(r) /\ Kin(o, r, q, n)
<1> PICK s \in Seq(Note) : s = o.out BY DEF Conn
<1>1. /\ DOMAIN s = 1 .. Len(s) /\ Len(s) \in Nat /\ Tail(s) \in Seq(Note)
      /\ DOMAIN Tail(s) = 1 .. Len(s) - 1 /\ \A i \in 1 .. Len(s) - 1 : Tail(s)[i] = s[i + 1]
  BY Lens
<1>2. r \in Conn BY <1>1, Zenon DEF Conn
<1>3. /\ r.who = o.who /\ r.net = o.net /\ r.open = o.open /\ r.reg = o.reg /\ r.cache = o.cache
      /\ r.in = o.in /\ r.out = Tail(s) /\ r.ctrl = o.ctrl /\ r.rebound = o.rebound
  BY DEF Conn
<1>4. Fresh(r) => Fresh(o)
  <2>1. ASSUME NEW i \in DOMAIN Tail(s), Tail(s)[i].t = "challenge" PROVE i + 1 \in DOMAIN s /\ s[i + 1].t = "challenge"
    BY <1>1, <2>1
  <2> QED BY <1>3, <2>1 DEF Fresh
<1>5. OK(r) BY <1>3, <1>4 DEF OK, NoPopulate
<1>6. \A reb \in BOOLEAN : Fine(o, q, n, reb) => Fine(r, q, n, reb) BY <1>3 DEF Fine, HasEvict
<1> QED BY <1>2, <1>3, <1>5, <1>6 DEF Kin, HasResume

\* Delivering a frame to a registered connection is harmless.
LEMMA Delivered ==
    ASSUME NEW o \in Conn, OK(o), o.reg, NEW m \in Note, m.t # "challenge", NEW q, NEW n,
           NEW r, r = [o EXCEPT !.out = Append(o.out, m)]
    PROVE  r \in Conn /\ OK(r) /\ Kin(o, r, q, n)
<1> PICK s \in Seq(Note) : s = o.out BY DEF Conn
<1> PICK u : u = Append(s, m) BY Zenon
<1>1. /\ DOMAIN s = 1 .. Len(s) /\ Len(s) \in Nat BY Lens
<1>2. /\ u \in Seq(Note) /\ DOMAIN u = 1 .. Len(s) + 1
      /\ u[Len(s) + 1] = m /\ \A i \in 1 .. Len(s) : u[i] = s[i]
  BY Appended
<1>3. r \in Conn BY <1>2, Zenon DEF Conn
<1>4. /\ r.who = o.who /\ r.net = o.net /\ r.open = o.open /\ r.reg = o.reg /\ r.cache = o.cache
      /\ r.in = o.in /\ r.out = u /\ r.ctrl = o.ctrl /\ r.rebound = o.rebound
  BY Zenon DEF Conn
<1>5. Fresh(r) => FALSE
  <2>1. ~Fresh(o) BY DEF OK
  <2> QED BY <1>1, <1>2, <1>4, <2>1 DEF Fresh
<1>6. OK(r) BY <1>4, <1>5 DEF OK, NoPopulate
<1>7. \A reb \in BOOLEAN : Fine(o, q, n, reb) => Fine(r, q, n, reb) BY <1>4 DEF Fine, HasEvict
<1> QED BY <1>3, <1>4, <1>6, <1>7, Zenon DEF Kin, HasResume

\* An evict queued for a registered connection is harmless, and is there.
LEMMA Evicted ==
    ASSUME NEW o \in Conn, OK(o), o.reg, NEW q, NEW n,
           NEW r, r = [o EXCEPT !.ctrl = Append(o.ctrl, [t |-> "evict"])]
    PROVE  r \in Conn /\ OK(r) /\ Kin(o, r, q, n) /\ HasEvict(r)
<1> PICK s \in Seq(Ctrl) : s = o.ctrl BY DEF Conn
<1> PICK e \in Ctrl : e = [t |-> "evict"] BY DEF Ctrl
<1> PICK u : u = Append(s, e) BY Zenon
<1>1. /\ DOMAIN s = 1 .. Len(s) /\ Len(s) \in Nat BY Lens
<1>2. /\ u \in Seq(Ctrl) /\ DOMAIN u = 1 .. Len(s) + 1
      /\ u[Len(s) + 1] = e /\ \A i \in 1 .. Len(s) : u[i] = s[i]
  BY Appended
<1>3. r \in Conn BY <1>2, Zenon DEF Conn
<1>4. /\ r.who = o.who /\ r.net = o.net /\ r.open = o.open /\ r.reg = o.reg /\ r.cache = o.cache
      /\ r.in = o.in /\ r.out = o.out /\ r.ctrl = u /\ r.rebound = o.rebound
  BY Zenon DEF Conn
<1>5. HasEvict(r) BY <1>1, <1>2, <1>4 DEF HasEvict
<1>6. \A i \in DOMAIN r.ctrl : r.ctrl[i].t = "populate" => i \in DOMAIN s /\ s[i].t = "populate"
  BY <1>1, <1>2, <1>4
<1>7. OK(r)
  <2>1. Fresh(r) => FALSE BY <1>4 DEF OK, Fresh
  <2>2. NoPopulate(o) => NoPopulate(r) BY <1>6 DEF NoPopulate
  <2>3. \A i \in DOMAIN r.ctrl : r.ctrl[i].t = "populate" => i = 1 BY <1>6 DEF OK
  <2> QED BY <1>4, <2>1, <2>2, <2>3 DEF OK
<1>8. \A reb \in BOOLEAN : Fine(r, q, n, reb) BY <1>5, Zenon DEF Fine
<1> QED BY <1>3, <1>4, <1>5, <1>7, <1>8, Zenon DEF Kin, HasResume

\* A page dropping its socket is harmless.
LEMMA WentAway ==
    ASSUME NEW o \in Conn, OK(o), NEW q, NEW n,
           NEW r, r = [o EXCEPT !.net = FALSE, !.out = <<>>]
    PROVE  r \in Conn /\ OK(r) /\ Kin(o, r, q, n)
<1>0. <<>> \in Seq(Note) OBVIOUS
<1> PICK e \in Seq(Note) : e = <<>> BY <1>0, Zenon
<1>1. r \in Conn BY Zenon DEF Conn
<1>2. /\ r.who = o.who /\ r.net = FALSE /\ r.open = o.open /\ r.reg = o.reg /\ r.cache = o.cache
      /\ r.in = o.in /\ r.out = <<>> /\ r.ctrl = o.ctrl /\ r.rebound = o.rebound
  BY DEF Conn
<1>3. Fresh(r) => FALSE BY <1>2 DEF Fresh
<1>4. OK(r) BY <1>2, <1>3 DEF OK, NoPopulate
<1>5. \A reb \in BOOLEAN : Fine(o, q, n, reb) => Fine(r, q, n, reb) BY <1>2 DEF Fine, HasEvict
<1> QED BY <1>1, <1>2, <1>4, <1>5 DEF Kin

\* The end of a connection's task is harmless.
LEMMA TaskEnded ==
    ASSUME NEW o \in Conn, OK(o), ~o.net, ~o.rebound, NEW q, NEW n,
           NEW r, r = [o EXCEPT !.open = FALSE, !.reg = FALSE, !.cache = <<>>,
                                !.in = <<>>, !.ctrl = <<>>]
    PROVE  r \in Conn /\ OK(r) /\ Kin(o, r, q, n)
<1>0. <<>> \in Seq(Rec) /\ <<>> \in Seq({"connect", "resume"}) /\ <<>> \in Seq(Ctrl) OBVIOUS
<1> PICK e1 \in Seq(Rec) : e1 = <<>> BY <1>0, Zenon
<1> PICK e2 \in Seq({"connect", "resume"}) : e2 = <<>> BY <1>0, Zenon
<1> PICK e3 \in Seq(Ctrl) : e3 = <<>> BY <1>0, Zenon
<1>1. r \in Conn BY Zenon DEF Conn
<1>2. /\ r.who = o.who /\ r.net = FALSE /\ r.open = FALSE /\ r.reg = FALSE /\ r.cache = <<>>
      /\ r.in = <<>> /\ r.out = o.out /\ r.ctrl = <<>> /\ r.rebound = FALSE
  BY DEF Conn
<1>3. OK(r) BY <1>2 DEF OK, NoPopulate
<1>4. \A reb \in BOOLEAN : Fine(r, q, n, reb) BY <1>2 DEF Fine
<1> QED BY <1>1, <1>2, <1>3, <1>4 DEF Kin

\* The parts of a state in the invariant, with their types.
LEMMA Parts ==
    ASSUME NEW s, RInv(s)
    PROVE  /\ s.conns \in Seq(Conn) /\ s.store \in Rec /\ s.presence \in Rec /\ s.ws \in Rec
           /\ s.opened \in [Page -> BOOLEAN] /\ s.known \in [Page -> BOOLEAN]
           /\ s.timer \in [Page -> BOOLEAN] /\ s.attached \in [Page -> BOOLEAN]
           /\ s.grace \in [Page -> {"off", "on", "late"}] /\ s.overtaken \in BOOLEAN
           /\ DOMAIN s.conns = 1 .. Len(s.conns) /\ Len(s.conns) \in Nat
           /\ \A c \in DOMAIN s.conns : /\ c \in Nat /\ s.conns[c] \in Conn /\ OK(s.conns[c])
                                        /\ s.conns[c].who \in Page
           /\ s \in State
<1>1. s \in State BY DEF RInv
<1>2. s.conns \in Seq(Conn) BY <1>1 DEF State
<1>3. DOMAIN s.conns = 1 .. Len(s.conns) /\ Len(s.conns) \in Nat
      /\ \A c \in DOMAIN s.conns : s.conns[c] \in Conn
  BY <1>2, LenProperties
<1>4. \A c \in DOMAIN s.conns : c \in Nat /\ s.conns[c].who \in Page BY <1>3 DEF Conn
<1>5. \A c \in DOMAIN s.conns : OK(s.conns[c]) BY DEF RInv
<1> QED BY <1>1, <1>2, <1>3, <1>4, <1>5 DEF State

\* A state in which one connection took a harmless step.
LEMMA Touched ==
    ASSUME NEW s, RInv(s), NEW c \in DOMAIN s.conns, NEW r \in Conn, OK(r),
           Kin(s.conns[c], r, Other(s.conns[c].who), s.store[Other(s.conns[c].who)]),
           NEW t, t = [s EXCEPT !.conns = [s.conns EXCEPT ![c] = r]]
    PROVE  RInv(t)
<1> PICK ds \in Seq(Conn) : ds = [s.conns EXCEPT ![c] = r] BY Parts, Replaced, Zenon
<1>1. t = [s EXCEPT !.conns = ds] OBVIOUS
<1>2. s \in State BY Parts
<1>3. t \in State BY <1>1, <1>2, Zenon DEF State
<1>4. t.conns = ds /\ t.store = s.store /\ t.ws = s.ws /\ t.opened = s.opened /\ t.overtaken = s.overtaken
  BY <1>1, <1>2 DEF State
<1> PICK late \in BOOLEAN : late = s.overtaken BY Parts
<1>5. t.conns = [s.conns EXCEPT ![c] = r] /\ t.store = s.store /\ t.ws = s.ws
      /\ t.opened = s.opened /\ (s.overtaken => t.overtaken)
  BY <1>4
<1> QED BY <1>3, <1>5, Harmless, Zenon

\* Presence, the grace timers and the overtaken mark do not bear on the routing.
LEMMA Unseen ==
    ASSUME NEW s, RInv(s), NEW P \in Rec, NEW g \in [Page -> {"off", "on", "late"}],
           NEW late \in BOOLEAN, s.overtaken => late,
           NEW t, t = [s EXCEPT !.presence = P, !.grace = g, !.overtaken = late]
    PROVE  RInv(t)
<1>1. s \in State BY Parts
<1>2. t \in State BY <1>1, Zenon DEF State
<1>3. t.conns = s.conns /\ t.store = s.store /\ t.ws = s.ws /\ t.opened = s.opened /\ t.overtaken = late
  BY <1>1 DEF State
<1>4. \A p \in Page : AtPage(s.conns, s.store, s.ws, s.opened, t.overtaken, p)
  BY <1>3 DEF RInv, AtPage
<1> QED BY <1>2, <1>3, <1>4 DEF RInv

\* A connect is read: the connection is registered and the page is present.
LEMMA ConnectKeeps ==
    ASSUME RInv(st), NEW c \in Conns(st), handle_message(c)
    PROVE  RInv(st')
<1> PICK o \in Conn : o = st.conns[c] BY Parts DEF Conns
<1> PICK r : r = [o EXCEPT !.in = Tail(o.in), !.reg = TRUE] OBVIOUS
<1>1. OK(o) /\ o.in # <<>> /\ Head(o.in) = "connect" /\ o.who \in Page /\ c \in Nat
  BY Parts DEF handle_message, Serving, Conns
<1>2. r \in Conn /\ OK(r) /\ Kin(o, r, Other(o.who), st.store[Other(o.who)]) BY <1>1, Registered, Zenon
<1> PICK t : t = [st EXCEPT !.conns = [st.conns EXCEPT ![c] = r]] BY Zenon
<1>3. RInv(t) BY <1>2, Touched DEF Conns
<1> PICK P : P = [st.presence EXCEPT ![o.who] = c] BY Zenon
<1>4. P \in Rec BY <1>1, Parts DEF Rec
<1> PICK late \in BOOLEAN : late = (st.overtaken \/ st.presence[o.who] > c) BY Zenon
<1> PICK g \in [Page -> {"off", "on", "late"}] : g = st.grace BY Parts
<1>5. st \in State /\ t.overtaken = st.overtaken /\ t.grace = g BY Parts DEF State
<1>6. st' = [t EXCEPT !.presence = P, !.overtaken = late]
  <2> PICK u : u = [st EXCEPT !.conns = [st.conns EXCEPT ![c] = [o EXCEPT !.in = Tail(o.in)]]] BY Zenon
  <2>1. st' = [u EXCEPT !.conns[c].reg = TRUE, !.presence[o.who] = c, !.overtaken = late]
    <3>1. u = Served(c) BY Zenon DEF Served
    <3>2. u.overtaken = st.overtaken BY <1>5 DEF State
    <3> QED BY <3>1, <3>2, Zenon DEF handle_message, Who
  <2>2. u.conns = [st.conns EXCEPT ![c] = [o EXCEPT !.in = Tail(o.in)]] /\ u.presence = st.presence
    BY <1>5 DEF State
  <2>3. u.conns[c] = [o EXCEPT !.in = Tail(o.in)] BY <2>2 DEF Conns
  <2>4. [u.conns[c] EXCEPT !.reg = TRUE] = r BY <2>3, Zenon DEF Conn
  <2>5. st' = [u EXCEPT !.conns = [u.conns EXCEPT ![c] = [u.conns[c] EXCEPT !.reg = TRUE]],
                        !.presence = [u.presence EXCEPT ![o.who] = c], !.overtaken = late]
    BY <2>1
  <2>6. [u.conns EXCEPT ![c] = r] = [st.conns EXCEPT ![c] = r] BY <2>2 DEF Conns
  <2>7. st' = [u EXCEPT !.conns = [st.conns EXCEPT ![c] = r], !.presence = P, !.overtaken = late]
    BY <2>2, <2>4, <2>5, <2>6, Zenon
  <2> QED BY <1>5, <2>7, Zenon DEF State
<1>7. st' = [t EXCEPT !.presence = P, !.grace = g, !.overtaken = late]
  <2>1. t \in State BY <1>3, Parts
  <2> QED BY <1>5, <1>6, <2>1, Zenon DEF State
<1> QED BY <1>3, <1>4, <1>5, <1>7, Unseen, ZenonT(40)

\* Replacing a connection twice keeps the second.
LEMMA Overwritten ==
    ASSUME NEW s \in State, NEW c \in DOMAIN s.conns, NEW a, NEW b,
           NEW t, t = [[s EXCEPT !.conns = [s.conns EXCEPT ![c] = a]]
                         EXCEPT !.conns = [[s.conns EXCEPT ![c] = a] EXCEPT ![c] = b]]
    PROVE  t = [s EXCEPT !.conns = [s.conns EXCEPT ![c] = b]]
<1>1. [[s.conns EXCEPT ![c] = a] EXCEPT ![c] = b] = [s.conns EXCEPT ![c] = b]
  BY Parts DEF State
<1> QED BY <1>1, Zenon DEF State

\* A frame fills the cache from the store.
LEMMA RelayKeeps ==
    ASSUME RInv(st), NEW c \in Conns(st), relay_to_other(c)
    PROVE  RInv(st')
<1> PICK o \in Conn : o = st.conns[c] BY Parts DEF Conns
<1> PICK r : r = [o EXCEPT !.cache = <<st.store>>] BY Zenon
<1>1. OK(o) /\ o.reg /\ ~o.rebound /\ o.in = <<>> /\ st.store \in Rec
  BY Parts DEF relay_to_other, Conns
<1>2. r \in Conn /\ OK(r) /\ Kin(o, r, Other(o.who), st.store[Other(o.who)]) BY <1>1, Cached, Zenon
<1>3. st' = [st EXCEPT !.conns = [st.conns EXCEPT ![c] = r]] BY DEF relay_to_other
<1> QED BY <1>2, <1>3, Touched DEF Conns

\* A control message is taken.
LEMMA ControlKeeps ==
    ASSUME RInv(st), NEW c \in Conns(st), CtrlMsg(c)
    PROVE  RInv(st')
<1> PICK o \in Conn : o = st.conns[c] BY Parts DEF Conns
<1> PICK h : h = IF Head(o.ctrl).t = "evict" THEN <<>> ELSE <<Head(o.ctrl).rec>> BY Zenon
<1> PICK a : a = [o EXCEPT !.ctrl = Tail(o.ctrl)] BY Zenon
<1> PICK r : r = [o EXCEPT !.ctrl = Tail(o.ctrl), !.cache = h] OBVIOUS
<1>1. OK(o) /\ o.open /\ ~o.rebound /\ o.ctrl # <<>> /\ st \in State BY Parts DEF CtrlMsg, Conns
<1>2. r \in Conn /\ OK(r) /\ Kin(o, r, Other(o.who), st.store[Other(o.who)]) BY <1>1, Controlled, ZenonT(40)
<1>3. st' = [st EXCEPT !.conns = [st.conns EXCEPT ![c] = r]]
  <2> PICK u : u = [st EXCEPT !.conns = [st.conns EXCEPT ![c] = a]] BY Zenon
  <2>1. st' = [[st EXCEPT !.conns[c].ctrl = Tail(@)] EXCEPT !.conns[c].cache = h]
    BY Zenon DEF CtrlMsg
  <2>2. [st EXCEPT !.conns[c].ctrl = Tail(@)] = u BY Zenon
  <2>3. st' = [u EXCEPT !.conns = [u.conns EXCEPT ![c] = [u.conns[c] EXCEPT !.cache = h]]]
    BY <2>1, <2>2
  <2>4. u.conns = [st.conns EXCEPT ![c] = a] /\ u.conns[c] = a BY <1>1 DEF State, Conns
  <2>5. [a EXCEPT !.cache = h] = r BY DEF Conn
  <2>6. st' = [[st EXCEPT !.conns = [st.conns EXCEPT ![c] = a]]
                 EXCEPT !.conns = [[st.conns EXCEPT ![c] = a] EXCEPT ![c] = r]]
    BY <2>3, <2>4, <2>5, Zenon
  <2> QED BY <1>1, <2>6, Overwritten, Zenon DEF Conns
<1> QED BY <1>2, <1>3, Touched DEF Conns

\* The network breaks under a connection.
LEMMA BreakKeeps ==
    ASSUME RInv(st), NEW c \in Conns(st), NEW k \in 0 .. Len(st.conns[c].in), breaks(c, k)
    PROVE  RInv(st')
<1> PICK o \in Conn : o = st.conns[c] BY Parts DEF Conns
<1> PICK e : e = SubSeq(o.in, 1, k) BY Zenon
<1> PICK a : a = [o EXCEPT !.net = FALSE] BY Zenon
<1> PICK b : b = [o EXCEPT !.net = FALSE, !.out = <<>>] OBVIOUS
<1> PICK r : r = [o EXCEPT !.net = FALSE, !.out = <<>>, !.in = e] OBVIOUS
<1>1. OK(o) /\ k \in 0 .. Len(o.in) /\ st \in State BY Parts DEF Conns
<1>2. r \in Conn /\ OK(r) /\ Kin(o, r, Other(o.who), st.store[Other(o.who)]) BY <1>1, Cut, ZenonT(40)
<1>3. st' = [st EXCEPT !.conns = [st.conns EXCEPT ![c] = r]]
  <2> PICK u : u = [st EXCEPT !.conns = [st.conns EXCEPT ![c] = a]] BY Zenon
  <2> PICK v : v = [st EXCEPT !.conns = [st.conns EXCEPT ![c] = b]] BY Zenon
  <2>1. u.conns = [st.conns EXCEPT ![c] = a] /\ u.conns[c] = a BY <1>1 DEF State, Conns
  <2>2. v.conns = [st.conns EXCEPT ![c] = b] /\ v.conns[c] = b BY <1>1 DEF State, Conns
  <2>3. [st EXCEPT !.conns[c].net = FALSE] = u BY ZenonT(40)
  <2>4. [u EXCEPT !.conns[c].out = <<>>] = v
    <3>1. [u EXCEPT !.conns[c].out = <<>>]
            = [u EXCEPT !.conns = [u.conns EXCEPT ![c] = [u.conns[c] EXCEPT !.out = <<>>]]]
      OBVIOUS
    <3>2. [a EXCEPT !.out = <<>>] = b BY DEF Conn
    <3>3. [u EXCEPT !.conns[c].out = <<>>]
            = [[st EXCEPT !.conns = [st.conns EXCEPT ![c] = a]]
                 EXCEPT !.conns = [[st.conns EXCEPT ![c] = a] EXCEPT ![c] = b]]
      BY <2>1, <3>1, <3>2, Zenon
    <3> QED BY <1>1, <3>3, Overwritten, Zenon DEF Conns
  <2>5. st' = [v EXCEPT !.conns[c].in = SubSeq(@, 1, k)]
    <3>1. st' = [[[st EXCEPT !.conns[c].net = FALSE] EXCEPT !.conns[c].out = <<>>]
                   EXCEPT !.conns[c].in = SubSeq(@, 1, k)]
      BY ZenonT(40) DEF breaks
    <3> QED BY <2>3, <2>4, <3>1, Zenon
  <2>6. st' = [v EXCEPT !.conns = [v.conns EXCEPT ![c] = [v.conns[c] EXCEPT !.in = SubSeq(v.conns[c].in, 1, k)]]]
    BY <2>5
  <2>7. [b EXCEPT !.in = SubSeq(b.in, 1, k)] = r BY DEF Conn
  <2>8. st' = [[st EXCEPT !.conns = [st.conns EXCEPT ![c] = b]]
                 EXCEPT !.conns = [[st.conns EXCEPT ![c] = b] EXCEPT ![c] = r]]
    BY <2>2, <2>6, <2>7, Zenon
  <2> QED BY <1>1, <2>8, Overwritten, Zenon DEF Conns
<1> QED BY <1>2, <1>3, Touched DEF Conns

\* A page reads resume.ok, peer.resumed or peer.dropped.
LEMMA NoticeKeeps ==
    ASSUME RInv(st), NEW p \in Page, resumeOk(p) \/ peerResumed(p) \/ peerDropped(p)
    PROVE  RInv(st')
<1>1. st.ws[p] # 0 /\ Inbox(p) = st.conns[st.ws[p]].out /\ Inbox(p) # <<>>
  BY Zenon DEF resumeOk, peerResumed, peerDropped, Arrived, Inbox
<1> PICK c : c = st.ws[p] OBVIOUS
<1>2. c \in DOMAIN st.conns /\ st \in State BY <1>1, Parts DEF RInv, AtPage
<1> PICK o \in Conn : o = st.conns[c] BY <1>2, Parts
<1> PICK r : r = [o EXCEPT !.out = Tail(o.out)] BY Zenon
<1>3. r \in Conn /\ OK(r) /\ Kin(o, r, Other(o.who), st.store[Other(o.who)])
  BY <1>1, <1>2, Parts, FrameRead, Zenon
<1> PICK t : t = [st EXCEPT !.conns = [st.conns EXCEPT ![c] = r]] BY Zenon
<1>4. t = Taken(p) BY Zenon DEF Taken
<1>5. RInv(t) BY <1>2, <1>3, Touched, Zenon
<1>6. t \in State /\ t.grace \in [Page -> {"off", "on", "late"}] /\ t.presence \in Rec /\ t.overtaken \in BOOLEAN
  BY <1>5, Parts
<1>7. \E x \in {"off", "on", "late"} : st' = t \/ st' = [t EXCEPT !.grace[p] = x]
  BY <1>4, Zenon DEF resumeOk, peerResumed, peerDropped, cancelGrace
<1> PICK x \in {"off", "on", "late"} : st' = t \/ st' = [t EXCEPT !.grace[p] = x] BY <1>7, Zenon
<1>8. CASE st' = [t EXCEPT !.grace[p] = x]
  <2> PICK g : g = [t.grace EXCEPT ![p] = x] BY Zenon
  <2>1. g \in [Page -> {"off", "on", "late"}] BY <1>6
  <2> PICK P \in Rec : P = t.presence BY <1>6
  <2> PICK late \in BOOLEAN : late = t.overtaken BY <1>6
  <2>2. st' = [t EXCEPT !.presence = P, !.grace = g, !.overtaken = late] BY <1>6, <1>8, Zenon DEF State
  <2> QED BY <1>5, <2>1, <2>2, Unseen, Zenon
<1> QED BY <1>5, <1>8, Zenon

\* A resume caches the record it has just read, and the other seat has an evict queued: both
\* route by a current copy.
LEMMA SeatsResumed ==
    ASSUME NEW cs \in Seq(Conn), NEW c \in DOMAIN cs, NEW a \in Conn, NEW sto \in Rec,
           NEW ds, ds = [cs EXCEPT ![c] = a],
           \A p \in Page : Seated(cs, sto, p),
           a.who = cs[c].who, a.open = cs[c].open, a.reg = cs[c].reg,
           a.cache = <<sto>>, NoPopulate(a),
           NEW d, d = sto[Other(cs[c].who)], cs[d].reg => HasEvict(cs[d])
    PROVE  \A p \in Page : Seated(ds, sto, p)
<1> PICK p \in Page : p = cs[c].who BY Replaced DEF Conn
<1> PICK q \in Page : q = Other(p) /\ p = Other(q) /\ q # p BY OtherPage
<1>1. /\ DOMAIN ds = DOMAIN cs /\ ds[c] = a /\ \A e \in DOMAIN cs : e # c => ds[e] = cs[e]
      /\ \A e \in DOMAIN cs : cs[e] \in Conn
  BY Replaced
<1>2. /\ sto[p] \in DOMAIN cs /\ cs[sto[p]].who = p /\ (cs[sto[p]].open => cs[sto[p]].reg)
      /\ Fine(cs[sto[p]], q, sto[q], cs[sto[q]].rebound)
  BY DEF Seated
<1>3. /\ sto[q] \in DOMAIN cs /\ cs[sto[q]].who = q /\ (cs[sto[q]].open => cs[sto[q]].reg)
  BY DEF Seated
<1>4. sto[q] # c /\ ds[sto[q]] = cs[sto[q]] BY <1>1, <1>3
<1>5. Seated(ds, sto, q)
  <2>1. cs[sto[q]].open => HasEvict(cs[sto[q]]) BY <1>3
  <2>2. Fine(ds[sto[q]], p, sto[p], ds[sto[p]].rebound) BY <1>4, <2>1 DEF Fine
  <2> QED BY <1>1, <1>3, <1>4, <2>2 DEF Seated
<1>6. Seated(ds, sto, p)
  <2>1. CASE sto[p] = c
    <3>1. a.cache[1] = sto OBVIOUS
    <3>2. Fine(a, q, sto[q], ds[sto[q]].rebound) BY <3>1 DEF Fine, NoPopulate
    <3> QED BY <1>1, <1>2, <2>1, <3>2 DEF Seated
  <2>2. CASE sto[p] # c
    <3>1. ds[sto[p]] = cs[sto[p]] BY <1>1, <1>2, <2>2
    <3> QED BY <1>1, <1>2, <1>4, <3>1 DEF Seated
  <2> QED BY <2>1, <2>2
<1> QED BY <1>5, <1>6, OtherPage

\* An entry of a function replaced.
Swap(f, x, v) == [f EXCEPT ![x] = v]

\* After rebind_match_conn the seat's connection is the new one, which has nothing cached, and
\* the other's copy is excused until the resume is done.
LEMMA SeatsRebound ==
    ASSUME NEW cs \in Seq(Conn), NEW c \in DOMAIN cs, NEW r \in Conn, NEW sto \in Rec,
           NEW p \in Page, p = cs[c].who,
           \A x \in Page : Seated(cs, sto, x),
           r.who = p, r.reg, r.rebound, r.cache = <<>>, NoPopulate(r)
    PROVE  \A x \in Page : Seated(Swap(cs, c, r), Swap(sto, p, c), x)
<1> PICK ds : ds = [cs EXCEPT ![c] = r] BY Zenon
<1> PICK to : to = [sto EXCEPT ![p] = c] BY Zenon
<1>0. ds = Swap(cs, c, r) /\ to = Swap(sto, p, c) BY DEF Swap
<1> PICK q \in Page : q = Other(p) /\ p = Other(q) /\ q # p BY OtherPage
<1>1. /\ DOMAIN ds = DOMAIN cs /\ ds[c] = r /\ \A e \in DOMAIN cs : e # c => ds[e] = cs[e] BY Replaced
<1>2. to[p] = c /\ to[q] = sto[q] BY DEF Rec
<1>3. /\ sto[q] \in DOMAIN cs /\ cs[sto[q]].who = q /\ (cs[sto[q]].open => cs[sto[q]].reg)
  BY DEF Seated
<1>4. ds[sto[q]] = cs[sto[q]] BY <1>1, <1>3
<1>5. Seated(ds, to, q)
  <2>1. Fine(ds[to[q]], p, to[p], ds[to[p]].rebound) BY <1>1, <1>2 DEF Fine
  <2> QED BY <1>1, <1>2, <1>3, <1>4, <2>1 DEF Seated
<1>6. Seated(ds, to, p)
  <2>1. Fine(ds[to[p]], q, to[q], ds[to[q]].rebound) BY <1>1, <1>2 DEF Fine, NoPopulate
  <2> QED BY <1>1, <1>2, <2>1 DEF Seated
<1>7. \A x \in Page : Seated(ds, to, x) BY <1>5, <1>6, OtherPage
<1> QED BY <1>0, <1>7, Zenon

\* After rebind_match_conn a page's socket is named by the record, unless an older connection
\* overtook it.
LEMMA PagesRebound ==
    ASSUME NEW cs \in Seq(Conn), NEW c \in DOMAIN cs, NEW r \in Conn, NEW sto \in Rec,
           NEW p \in Page, p = cs[c].who, NEW w \in Rec, NEW up,
           NEW late \in BOOLEAN, NEW late2 \in BOOLEAN, late \/ sto[p] > c => late2,
           \A x \in Page : AtPage(cs, sto, w, up, late, x),
           r.who = p
    PROVE  \A x \in Page : AtPage(Swap(cs, c, r), Swap(sto, p, c), w, up, late2, x)
<1> PICK ds : ds = [cs EXCEPT ![c] = r] BY Zenon
<1> PICK to : to = [sto EXCEPT ![p] = c] BY Zenon
<1>0. ds = Swap(cs, c, r) /\ to = Swap(sto, p, c) BY DEF Swap
<1> SUFFICES ASSUME NEW x \in Page PROVE AtPage(ds, to, w, up, late2, x) BY <1>0, Zenon
<1>1. /\ DOMAIN ds = DOMAIN cs /\ ds[c] = r /\ \A e \in DOMAIN cs : e # c => ds[e] = cs[e]
      /\ \A e \in DOMAIN cs : e \in Nat
  BY Replaced
<1>2. to[p] = c /\ (x # p => to[x] = sto[x]) /\ sto[x] \in Nat /\ w[x] \in Nat BY DEF Rec
<1>3. \A e \in DOMAIN cs : ds[e].who = cs[e].who BY <1>1
<1>4. ASSUME w[x] # 0 PROVE w[x] \in DOMAIN cs /\ cs[w[x]].who = x /\ \A d \in DOMAIN cs : cs[d].who = x => d <= w[x]
  BY <1>4 DEF AtPage
<1>5. ASSUME w[x] # 0, up[x], ds[w[x]].net
      PROVE  to[x] = w[x] \/ late2 \/ HasResume(ds[w[x]])
  <2>1. CASE w[x] = c BY <1>2, <1>4, <1>5, <2>1
  <2>2. CASE w[x] # c
    <3>1. ds[w[x]] = cs[w[x]] BY <1>1, <1>4, <1>5, <2>2
    <3>2. sto[x] = w[x] \/ late \/ HasResume(cs[w[x]]) BY <1>5, <3>1 DEF AtPage
    <3>3. CASE x = p
      <4>1. c < w[x] BY <1>1, <1>2, <1>4, <1>5, <2>2, <3>3
      <4> QED BY <1>1, <1>2, <3>1, <3>2, <3>3, <4>1
    <3>4. CASE x # p BY <1>2, <3>1, <3>2, <3>4
    <3> QED BY <3>3, <3>4
  <2> QED BY <2>1, <2>2
<1>6. up[x] => w[x] # 0 BY DEF AtPage
<1> QED BY <1>1, <1>3, <1>4, <1>5, <1>6 DEF AtPage

\* A connection of a state replaced.
Place(s, c, r) == [s EXCEPT !.conns = [s.conns EXCEPT ![c] = r]]
\* A connection that a frame is delivered to, and one that an evict is sent to.
Told(r, m) == IF r.reg /\ r.net THEN [r EXCEPT !.out = Append(@, m)] ELSE r
Warned(r) == IF r.reg THEN [r EXCEPT !.ctrl = Append(@, [t |-> "evict"])] ELSE r

\* A state with one connection replaced: its type, and what stays.
LEMMA Placed ==
    ASSUME NEW s \in State, NEW c \in DOMAIN s.conns, NEW r \in Conn
    PROVE  /\ Place(s, c, r) \in State
           /\ Place(s, c, r).conns[c] = r /\ DOMAIN Place(s, c, r).conns = DOMAIN s.conns
           /\ \A d \in DOMAIN s.conns : d # c => Place(s, c, r).conns[d] = s.conns[d]
           /\ Place(s, c, r).store = s.store /\ Place(s, c, r).ws = s.ws
           /\ Place(s, c, r).opened = s.opened /\ Place(s, c, r).overtaken = s.overtaken
           /\ Place(s, c, r).presence = s.presence /\ Place(s, c, r).grace = s.grace
<1>1. s.conns \in Seq(Conn) BY DEF State
<1> PICK ds : ds = [s.conns EXCEPT ![c] = r] BY Zenon
<1>2. /\ ds \in Seq(Conn) /\ DOMAIN ds = DOMAIN s.conns /\ ds[c] = r
      /\ \A d \in DOMAIN s.conns : d # c => ds[d] = s.conns[d]
  BY <1>1, Replaced
<1>3. Place(s, c, r) = [s EXCEPT !.conns = ds] BY Zenon DEF Place
<1>4. [s EXCEPT !.conns = ds] \in State BY <1>2, Zenon DEF State
<1> QED BY <1>2, <1>3, <1>4, Zenon DEF State

\* Its list of connections.
LEMMA PlacedConns ==
    ASSUME NEW s \in State, NEW c \in DOMAIN s.conns, NEW r \in Conn
    PROVE  Place(s, c, r).conns = [s.conns EXCEPT ![c] = r]
<1>1. Place(s, c, r) = [s EXCEPT !.conns = [s.conns EXCEPT ![c] = r]] BY Zenon DEF Place
<1> QED BY <1>1 DEF State

\* Of two replacements of one connection the second counts.
LEMMA PlacedAgain ==
    ASSUME NEW s \in State, NEW c \in DOMAIN s.conns, NEW r \in Conn, NEW o \in Conn
    PROVE  Place(Place(s, c, o), c, r) = Place(s, c, r)
<1> PICK t : t = Place(s, c, o) OBVIOUS
<1>1. t.conns = [s.conns EXCEPT ![c] = o] BY PlacedConns
<1>2. Place(t, c, r) = [[s EXCEPT !.conns = [s.conns EXCEPT ![c] = o]]
                          EXCEPT !.conns = [[s.conns EXCEPT ![c] = o] EXCEPT ![c] = r]]
  BY <1>1, Zenon DEF Place
<1>3. Place(t, c, r) = [s EXCEPT !.conns = [s.conns EXCEPT ![c] = r]] BY <1>2, Overwritten, Zenon
<1> QED BY <1>3 DEF Place

\* Replacements of two connections commute.
LEMMA PlacedApart ==
    ASSUME NEW s \in State, NEW c \in DOMAIN s.conns, NEW d \in DOMAIN s.conns, c # d,
           NEW a \in Conn, NEW b \in Conn
    PROVE  Place(Place(s, c, a), d, b) = Place(Place(s, d, b), c, a)
<1>1. Place(s, c, a).conns = [s.conns EXCEPT ![c] = a] /\ Place(s, d, b).conns = [s.conns EXCEPT ![d] = b]
  BY PlacedConns
<1>2. [[s.conns EXCEPT ![c] = a] EXCEPT ![d] = b] = [[s.conns EXCEPT ![d] = b] EXCEPT ![c] = a]
  BY DEF State
<1> PICK fs : fs = [[s.conns EXCEPT ![d] = b] EXCEPT ![c] = a] BY Zenon
<1>3. Place(Place(s, c, a), d, b) = [[s EXCEPT !.conns = [s.conns EXCEPT ![c] = a]] EXCEPT !.conns = fs]
  BY <1>1, <1>2, Zenon DEF Place
<1>4. Place(Place(s, d, b), c, a) = [[s EXCEPT !.conns = [s.conns EXCEPT ![d] = b]] EXCEPT !.conns = fs]
  BY <1>1, Zenon DEF Place
<1>5. [[s EXCEPT !.conns = [s.conns EXCEPT ![c] = a]] EXCEPT !.conns = fs] = [s EXCEPT !.conns = fs] BY Zenon DEF State
<1>6. [[s EXCEPT !.conns = [s.conns EXCEPT ![d] = b]] EXCEPT !.conns = fs] = [s EXCEPT !.conns = fs] BY Zenon DEF State
<1> QED BY <1>3, <1>4, <1>5, <1>6

\* A connection replaced by itself changes nothing.
LEMMA PlacedSame ==
    ASSUME NEW s \in State, NEW c \in DOMAIN s.conns
    PROVE  Place(s, c, s.conns[c]) = s
<1>1. s.conns \in Seq(Conn) BY DEF State
<1>2. [s.conns EXCEPT ![c] = s.conns[c]] = s.conns BY <1>1
<1>3. [s EXCEPT !.conns = s.conns] = s BY DEF State
<1> QED BY <1>2, <1>3 DEF Place

\* deliver and evict replace the connection they address.
LEMMA BusForms ==
    ASSUME NEW s \in State, NEW c \in DOMAIN s.conns, NEW m
    PROVE  /\ deliver(s, c, m) = Place(s, c, Told(s.conns[c], m))
           /\ evict(s, c) = Place(s, c, Warned(s.conns[c]))
<1>1. Place(s, c, s.conns[c]) = s BY PlacedSame
<1>2. deliver(s, c, m) = Place(s, c, Told(s.conns[c], m)) BY <1>1, Zenon DEF deliver, Told, Place
<1>3. evict(s, c) = Place(s, c, Warned(s.conns[c])) BY <1>1, Zenon DEF evict, control, Warned, Place
<1> QED BY <1>2, <1>3

\* A delivery is harmless whether or not the connection is registered.
LEMMA ToldFine ==
    ASSUME NEW o \in Conn, OK(o), NEW m \in Note, m.t # "challenge", NEW q, NEW n
    PROVE  /\ Told(o, m) \in Conn /\ OK(Told(o, m)) /\ Kin(o, Told(o, m), q, n)
           /\ Told(o, m).reg = o.reg /\ Told(o, m).net = o.net /\ Told(o, m).rebound = o.rebound
           /\ Told(o, m).who = o.who
<1>1. CASE o.reg /\ o.net
  <2> PICK r : r = [o EXCEPT !.out = Append(o.out, m)] BY Zenon
  <2>1. r = Told(o, m) BY <1>1 DEF Told
  <2>2. r \in Conn /\ OK(r) /\ Kin(o, r, q, n) BY <1>1, Delivered
  <2>3. r.reg = o.reg /\ r.net = o.net /\ r.rebound = o.rebound /\ r.who = o.who BY DEF Conn
  <2> QED BY <2>1, <2>2, <2>3
<1>2. CASE ~(o.reg /\ o.net)
  <2>1. Told(o, m) = o BY <1>2, Zenon DEF Told
  <2>2. Kin(o, o, q, n) BY DEF Kin
  <2> QED BY <2>1, <2>2
<1> QED BY <1>1, <1>2

\* So is an evict, and a registered connection then has it queued.
LEMMA WarnedFine ==
    ASSUME NEW o \in Conn, OK(o), NEW q, NEW n
    PROVE  /\ Warned(o) \in Conn /\ OK(Warned(o)) /\ Kin(o, Warned(o), q, n)
           /\ Warned(o).reg => HasEvict(Warned(o))
           /\ Warned(o).who = o.who
<1>1. CASE o.reg
  <2> PICK r : r = [o EXCEPT !.ctrl = Append(o.ctrl, [t |-> "evict"])] BY Zenon
  <2>1. r = Warned(o) BY <1>1 DEF Warned
  <2>2. r \in Conn /\ OK(r) /\ Kin(o, r, q, n) /\ HasEvict(r) BY <1>1, Evicted
  <2>3. r.who = o.who BY DEF Conn
  <2> QED BY <2>1, <2>2, <2>3
<1>2. CASE ~o.reg
  <2>1. Warned(o) = o BY <1>2, Zenon DEF Warned
  <2>2. Kin(o, o, q, n) BY DEF Kin
  <2> QED BY <1>2, <2>1, <2>2
<1> QED BY <1>1, <1>2

\* A harmless replacement keeps the invariant.
LEMMA TouchedAt ==
    ASSUME NEW s, RInv(s), NEW c \in DOMAIN s.conns, NEW r \in Conn, OK(r),
           Kin(s.conns[c], r, Other(s.conns[c].who), s.store[Other(s.conns[c].who)])
    PROVE  RInv(Place(s, c, r))
BY Touched DEF Place

\* A connection whose resume has read the record.
Refresh(o, sto) == [o EXCEPT !.rebound = FALSE, !.cache = <<sto>>]

\* The connection after the second half of its resume.
LEMMA Refreshed ==
    ASSUME NEW o \in Conn, OK(o), o.rebound, NEW sto \in Rec, NEW m \in Note, m.t # "challenge",
           NEW a, a = Told(Refresh(o, sto), m)
    PROVE  /\ Refresh(o, sto) \in Conn /\ a \in Conn /\ OK(a) /\ a.who = o.who /\ a.open = o.open /\ a.reg = o.reg
           /\ a.net = o.net /\ a.cache = <<sto>> /\ a.in = o.in /\ NoPopulate(a)
<1> PICK a0 : a0 = Refresh(o, sto) OBVIOUS
<1>0. <<sto>> \in Seq(Rec) OBVIOUS
<1> PICK h \in Seq(Rec) : h = <<sto>> BY <1>0, Zenon
<1>1. a0 = [o EXCEPT !.rebound = FALSE, !.cache = h] BY DEF Refresh
<1>2. a0 \in Conn BY <1>1, Zenon DEF Conn
<1>3. /\ a0.who = o.who /\ a0.net = o.net /\ a0.open = o.open /\ a0.reg = o.reg /\ a0.cache = <<sto>>
      /\ a0.in = o.in /\ a0.out = o.out /\ a0.ctrl = o.ctrl /\ a0.rebound = FALSE
  BY <1>1 DEF Conn
<1>4. OK(a0) /\ NoPopulate(a0)
  <2>1. Fresh(a0) => FALSE BY <1>3 DEF OK, Fresh
  <2>2. NoPopulate(a0) /\ o.in = <<>> BY <1>3 DEF OK, NoPopulate
  <2> QED BY <1>3, <2>1, <2>2 DEF OK
<1>5. CASE a0.reg /\ a0.net
  <2> PICK r : r = [a0 EXCEPT !.out = Append(a0.out, m)] BY Zenon
  <2>1. r = a BY <1>5 DEF Told
  <2>2. r \in Conn /\ OK(r) BY <1>2, <1>4, <1>5, Delivered
  <2>3. /\ r.who = o.who /\ r.open = o.open /\ r.reg = o.reg /\ r.net = o.net /\ r.cache = <<sto>>
        /\ r.in = o.in /\ r.ctrl = a0.ctrl
    BY <1>2, <1>3 DEF Conn
  <2>4. NoPopulate(r) BY <1>4, <2>3, Zenon DEF NoPopulate
  <2> QED BY <1>2, <2>1, <2>2, <2>3, <2>4, Zenon
<1>6. CASE ~(a0.reg /\ a0.net)
  <2>1. a = a0 BY <1>6, Zenon DEF Told
  <2> QED BY <1>2, <1>3, <1>4, <2>1
<1> QED BY <1>5, <1>6

\* The second half of a resume, as deliveries to the two connections of the match.
LEMMA ResumeForm ==
    ASSUME RInv(st), NEW c \in Conns(st), Resume(c)
    PROVE  /\ st.conns[c].rebound
           /\ \E m \in Note : /\ m.t # "challenge"
                /\ LET d == st.store[Other(st.conns[c].who)]
                       s == Place(st, c, Refresh(st.conns[c], st.store))
                   IN  st' = evict(deliver(deliver(s, c, m), d, [t |-> "resumed"]), d)
<1> PICK o \in Conn : o = st.conns[c] BY Parts DEF Conns
<1> PICK sto \in Rec : sto = st.store BY Parts
<1>1. st \in State /\ c \in DOMAIN st.conns BY Parts DEF Conns
<1> PICK z : z = [o EXCEPT !.rebound = FALSE] BY Zenon
<1> PICK s0 : s0 = [st EXCEPT !.conns = [st.conns EXCEPT ![c] = z]] BY Zenon
<1>2. [st EXCEPT !.conns[c].rebound = FALSE, !.conns[c].cache = <<st.store>>]
        = [s0 EXCEPT !.conns[c].cache = <<sto>>]
  BY Zenon
<1>3. [s0 EXCEPT !.conns[c].cache = <<sto>>]
        = [s0 EXCEPT !.conns = [s0.conns EXCEPT ![c] = [s0.conns[c] EXCEPT !.cache = <<sto>>]]]
  OBVIOUS
<1>4. s0.conns = [st.conns EXCEPT ![c] = z] /\ s0.conns[c] = z BY <1>1 DEF State
<1>5. [z EXCEPT !.cache = <<sto>>] = Refresh(o, sto) BY DEF Conn, Refresh
<1>6. [s0 EXCEPT !.conns[c].cache = <<sto>>]
        = [[st EXCEPT !.conns = [st.conns EXCEPT ![c] = z]]
             EXCEPT !.conns = [[st.conns EXCEPT ![c] = z] EXCEPT ![c] = Refresh(o, sto)]]
  BY <1>3, <1>4, <1>5, ZenonT(40)
<1>7. [s0 EXCEPT !.conns[c].cache = <<sto>>] = Place(st, c, Refresh(o, sto))
  BY <1>1, <1>6, Overwritten, Zenon DEF Place
<1>8. [st EXCEPT !.conns[c].rebound = FALSE, !.conns[c].cache = <<st.store>>]
        = Place(st, c, Refresh(o, sto))
  BY <1>2, <1>7, Zenon
<1> PICK m : m = [t |-> "ok", peerOnline |-> st.presence[Other(o.who)] # 0] BY Zenon
<1>9. m \in Note /\ m.t # "challenge" BY DEF Note
<1>10. LET d == sto[Other(o.who)]
       IN  st' = evict(deliver(deliver(Place(st, c, Refresh(o, sto)), c, m), d, [t |-> "resumed"]), d)
  BY <1>8, Zenon DEF Resume, Who
<1>11. st.conns[c].rebound BY DEF Resume
<1> QED BY <1>9, <1>10, <1>11

\* Those deliveries replace the two connections and nothing else.
LEMMA ResumePlaced ==
    ASSUME NEW s \in State, NEW c \in DOMAIN s.conns, NEW d \in DOMAIN s.conns, c # d,
           NEW a \in Conn, NEW m, NEW n, Told(a, m) \in Conn,
           Told(s.conns[d], n) \in Conn, Warned(Told(s.conns[d], n)) \in Conn
    PROVE  evict(deliver(deliver(Place(s, c, a), c, m), d, n), d)
             = Place(Place(s, d, Warned(Told(s.conns[d], n))), c, Told(a, m))
<1> PICK x \in Conn : x = Told(a, m) OBVIOUS
<1> PICK g \in Conn : g = Told(s.conns[d], n) OBVIOUS
<1> PICK b \in Conn : b = Warned(g) OBVIOUS
<1>1. deliver(Place(s, c, a), c, m) = Place(s, c, x)
  <2> PICK u : u = Place(s, c, a) OBVIOUS
  <2>1. u \in State /\ u.conns[c] = a /\ DOMAIN u.conns = DOMAIN s.conns BY Placed
  <2>2. deliver(u, c, m) = Place(u, c, x) BY <2>1, BusForms
  <2>3. Place(u, c, x) = Place(s, c, x) BY PlacedAgain
  <2> QED BY <2>2, <2>3
<1> PICK u : u = Place(s, c, x) OBVIOUS
<1>2. u \in State /\ u.conns[d] = s.conns[d] /\ DOMAIN u.conns = DOMAIN s.conns BY Placed
<1>3. deliver(u, d, n) = Place(u, d, g) BY <1>2, BusForms
<1> PICK v : v = Place(u, d, g) OBVIOUS
<1>4. v \in State /\ v.conns[d] = g /\ DOMAIN v.conns = DOMAIN s.conns BY <1>2, Placed
<1>5. evict(v, d) = Place(v, d, b) BY <1>4, BusForms
<1>6. Place(v, d, b) = Place(u, d, b) BY <1>2, PlacedAgain
<1>7. Place(u, d, b) = Place(Place(s, d, b), c, x) BY PlacedApart
<1> QED BY <1>1, <1>3, <1>5, <1>6, <1>7

\* Once the other seat has its evict, a resume that caches the record keeps the invariant.
LEMMA Resumed ==
    ASSUME NEW u, RInv(u), NEW c \in DOMAIN u.conns, NEW o \in Conn, o = u.conns[c],
           NEW sto \in Rec, sto = u.store, NEW d, d = sto[Other(o.who)],
           u.conns[d].reg => HasEvict(u.conns[d]),
           NEW a \in Conn, OK(a), a.who = o.who, a.open = o.open, a.reg = o.reg, a.net = o.net,
           a.cache = <<sto>>, a.in = o.in, NoPopulate(a)
    PROVE  RInv(Place(u, c, a))
<1> PICK cs \in Seq(Conn) : cs = u.conns BY Parts
<1> PICK late \in BOOLEAN : late = u.overtaken BY Parts
<1> PICK w \in Rec : w = u.ws BY Parts
<1> PICK up : up = u.opened OBVIOUS
<1>1. /\ Place(u, c, a) \in State /\ Place(u, c, a).store = sto /\ Place(u, c, a).ws = w
      /\ Place(u, c, a).opened = up /\ Place(u, c, a).overtaken = late
      /\ DOMAIN Place(u, c, a).conns = DOMAIN u.conns
      /\ Place(u, c, a).conns[c] = a
      /\ \A x \in DOMAIN u.conns : x # c => Place(u, c, a).conns[x] = u.conns[x]
  BY Parts, Placed
<1>2. Place(u, c, a).conns = [cs EXCEPT ![c] = a] BY Parts, PlacedConns
<1> PICK ds : ds = [cs EXCEPT ![c] = a] BY Zenon
<1>3. \A x \in Page : Seated(cs, sto, x) BY Zenon DEF RInv
<1>4. \A x \in Page : Seated(ds, sto, x)
  <2>1. cs[c].who = o.who /\ cs[c].open = o.open /\ cs[c].reg = o.reg OBVIOUS
  <2>2. d = sto[Other(cs[c].who)] /\ (cs[d].reg => HasEvict(cs[d])) BY Zenon
  <2> QED BY <1>3, <2>1, <2>2, SeatsResumed, Zenon
<1>5. \A x \in Page : AtPage(cs, sto, w, up, late, x) BY Zenon DEF RInv
<1>6. HasResume(cs[c]) => HasResume(a) BY DEF HasResume
<1>7. \A x \in Page : AtPage(ds, sto, w, up, late, x) BY <1>5, <1>6, PagesKept
<1>8. \A x \in DOMAIN ds : OK(ds[x]) BY <1>1, <1>2 DEF RInv
<1> QED BY <1>1, <1>2, <1>4, <1>7, <1>8, Zenon DEF RInv

\* The other seat is told of the return and has its evict.
LEMMA Warns ==
    ASSUME NEW s, RInv(s), NEW d \in DOMAIN s.conns, NEW n \in Note, n.t # "challenge",
           NEW f \in Conn, f = s.conns[d]
    PROVE  /\ Told(f, n) \in Conn /\ Warned(Told(f, n)) \in Conn
           /\ RInv(Place(s, d, Warned(Told(f, n))))
           /\ Warned(Told(f, n)).reg => HasEvict(Warned(Told(f, n)))
<1> PICK q, k : q = Other(f.who) /\ k = s.store[q] OBVIOUS
<1>1. s \in State /\ OK(f) BY Parts
<1>2. Told(f, n) \in Conn /\ OK(Told(f, n)) /\ Kin(f, Told(f, n), q, k) /\ Told(f, n).who = f.who
  BY <1>1, ToldFine
<1> PICK g \in Conn : g = Told(f, n) BY <1>2
<1>3. Warned(g) \in Conn /\ OK(Warned(g)) /\ Kin(g, Warned(g), q, k) /\ (Warned(g).reg => HasEvict(Warned(g)))
  BY <1>2, WarnedFine
<1>4. RInv(Place(s, d, g)) BY <1>2, TouchedAt
<1>5. Place(s, d, g).conns[d] = g /\ Place(s, d, g).store = s.store /\ d \in DOMAIN Place(s, d, g).conns
  BY <1>1, Placed
<1>6. RInv(Place(Place(s, d, g), d, Warned(g))) BY <1>2, <1>3, <1>4, <1>5, TouchedAt
<1>7. Place(Place(s, d, g), d, Warned(g)) = Place(s, d, Warned(g)) BY <1>1, <1>3, PlacedAgain
<1> QED BY <1>2, <1>3, <1>6, <1>7

\* The second half of a resume keeps the invariant: a page's own connection is never that of the
\* other seat, so the two replacements do not meet.
LEMMA ResumeGood ==
    ASSUME NEW s, RInv(s), NEW c \in DOMAIN s.conns, NEW o \in Conn, o = s.conns[c], o.rebound,
           NEW sto \in Rec, sto = s.store, NEW d, d = sto[Other(o.who)],
           NEW m \in Note, m.t # "challenge", NEW n \in Note, n.t # "challenge"
    PROVE  RInv(evict(deliver(deliver(Place(s, c, Refresh(o, sto)), c, m), d, n), d))
<1>1. OK(o) /\ o.who \in Page /\ s \in State BY Parts
<1>2. d \in DOMAIN s.conns /\ d # c BY <1>1, OtherPage DEF RInv, Seated
<1>3. s.conns[d] \in Conn BY <1>2, Parts
<1>4. /\ Told(s.conns[d], n) \in Conn /\ Warned(Told(s.conns[d], n)) \in Conn
      /\ RInv(Place(s, d, Warned(Told(s.conns[d], n))))
      /\ Warned(Told(s.conns[d], n)).reg => HasEvict(Warned(Told(s.conns[d], n)))
  BY <1>2, <1>3, Warns
<1>5. \E b \in Conn : b = Warned(Told(s.conns[d], n)) BY <1>4, ZenonT(40)
<1>6. PICK b \in Conn : b = Warned(Told(s.conns[d], n)) BY <1>5
<1>7. RInv(Place(s, d, b)) /\ (b.reg => HasEvict(b)) BY <1>4, <1>6, Zenon
<1>8. /\ Place(s, d, b).conns[c] = o /\ Place(s, d, b).conns[d] = b /\ Place(s, d, b).store = sto
      /\ c \in DOMAIN Place(s, d, b).conns
  BY <1>1, <1>2, Placed
<1>9. \E a \in Conn : a = Told(Refresh(o, sto), m) BY <1>1, Refreshed
<1>10. PICK a \in Conn : a = Told(Refresh(o, sto), m) BY <1>9
<1>11. /\ Refresh(o, sto) \in Conn /\ OK(a) /\ a.who = o.who /\ a.open = o.open /\ a.reg = o.reg
       /\ a.net = o.net /\ a.cache = <<sto>> /\ a.in = o.in /\ NoPopulate(a)
  BY <1>1, <1>10, Refreshed
<1>12. RInv(Place(Place(s, d, b), c, a)) BY <1>7, <1>8, <1>11, Resumed
<1>13. evict(deliver(deliver(Place(s, c, Refresh(o, sto)), c, m), d, n), d)
         = Place(Place(s, d, b), c, a)
  <2>1. Told(Refresh(o, sto), m) \in Conn BY <1>10
  <2>2. evict(deliver(deliver(Place(s, c, Refresh(o, sto)), c, m), d, n), d)
          = Place(Place(s, d, Warned(Told(s.conns[d], n))), c, Told(Refresh(o, sto), m))
    <3>1. s \in State /\ d \in DOMAIN s.conns /\ c # d /\ Refresh(o, sto) \in Conn
          /\ Told(s.conns[d], n) \in Conn /\ Warned(Told(s.conns[d], n)) \in Conn
      BY <1>1, <1>2, <1>4, <1>11, Zenon
    <3>2. \A x \in Conn : Told(x, m) \in Conn =>
            evict(deliver(deliver(Place(s, c, x), c, m), d, n), d)
              = Place(Place(s, d, Warned(Told(s.conns[d], n))), c, Told(x, m))
      BY <3>1, ResumePlaced
    <3> QED BY <2>1, <3>1, <3>2
  <2> QED BY <1>6, <1>10, <2>2
<1> QED BY <1>12, <1>13

\* Resume, after the store is awaited.
LEMMA ResumeKeeps ==
    ASSUME RInv(st), NEW c \in Conns(st), Resume(c)
    PROVE  RInv(st')
<1> PICK o \in Conn : o = st.conns[c] BY Parts DEF Conns
<1> PICK sto \in Rec : sto = st.store BY Parts
<1> PICK d : d = sto[Other(o.who)] OBVIOUS
<1>1. o.rebound /\ c \in DOMAIN st.conns BY ResumeForm DEF Conns
<1>2. [t |-> "resumed"] \in Note /\ [t |-> "resumed"].t # "challenge" BY DEF Note
<1>3. \E n \in Note : n = [t |-> "resumed"] /\ n.t # "challenge" BY <1>2
<1>4. PICK n \in Note : n = [t |-> "resumed"] /\ n.t # "challenge" BY <1>3
<1>5. \E m \in Note : /\ m.t # "challenge"
        /\ st' = evict(deliver(deliver(Place(st, c, Refresh(o, sto)), c, m), d, n), d)
  BY <1>4, ResumeForm
<1>6. n.t # "challenge" BY <1>4
<1> QED BY <1>1, <1>5, <1>6, ResumeGood

\* The connection after the first half of its resume: nothing is cached, nothing will be.
LEMMA Rebound ==
    ASSUME NEW o \in Conn, OK(o), o.open, o.in # <<>>, Head(o.in) = "resume",
           NEW r, r = [o EXCEPT !.in = Tail(o.in), !.rebound = TRUE]
    PROVE  /\ r \in Conn /\ OK(r) /\ r.who = o.who /\ r.reg /\ r.rebound /\ r.cache = <<>>
           /\ NoPopulate(r)
<1> PICK s \in Seq({"connect", "resume"}) : s = o.in BY DEF Conn
<1>1. /\ DOMAIN s = 1 .. Len(s) /\ Len(s) \in Nat /\ s[1] = "resume" /\ Len(s) # 0
      /\ Tail(s) \in Seq({"connect", "resume"}) /\ Len(Tail(s)) = Len(s) - 1
  BY Lens
<1>2. Len(s) = 1 /\ o.reg
  <2>1. \A i \in DOMAIN s : s[i] = "resume" => i = Len(s) /\ (i = 1 => o.reg) BY DEF OK
  <2>2. 1 \in DOMAIN s BY <1>1
  <2> QED BY <1>1, <2>1, <2>2, Zenon
<1>3. Tail(s) = <<>>
  <2> PICK e \in Seq({"connect", "resume"}) : e = Tail(s) BY <1>1, Zenon
  <2>1. e = <<>> <=> Len(e) = 0 BY Lens, Zenon
  <2> QED BY <1>1, <1>2, <2>1
<1>4. r \in Conn BY <1>1, Zenon DEF Conn
<1>5. /\ r.who = o.who /\ r.net = o.net /\ r.open = o.open /\ r.reg = o.reg /\ r.cache = o.cache
      /\ r.in = <<>> /\ r.out = o.out /\ r.ctrl = o.ctrl /\ r.rebound = TRUE
  BY <1>3, Zenon DEF Conn
<1>6. r.cache = <<>> /\ NoPopulate(r) BY <1>5 DEF OK, NoPopulate
<1>7. Fresh(r) => FALSE BY <1>5 DEF OK, Fresh
<1>8. OK(r) BY <1>2, <1>5, <1>6, <1>7 DEF OK, NoPopulate
<1> QED BY <1>2, <1>4, <1>5, <1>6, <1>8

\* The record names connection c as that of p, whose task becomes r.
Moved(s, c, r, p, late) ==
    [s EXCEPT !.conns = Swap(s.conns, c, r), !.store = Swap(s.store, p, c), !.overtaken = late]

\* The first half of a resume keeps the invariant.
LEMMA RebindGood ==
    ASSUME NEW s, RInv(s), NEW c \in DOMAIN s.conns, NEW p \in Page, p = s.conns[c].who,
           NEW r \in Conn, OK(r), r.who = p, r.reg, r.rebound, r.cache = <<>>, NoPopulate(r),
           NEW late \in BOOLEAN, s.overtaken \/ s.store[p] > c => late
    PROVE  RInv(Moved(s, c, r, p, late))
<1>1. s \in State /\ c \in Nat /\ s.conns \in Seq(Conn) /\ s.store \in Rec /\ s.ws \in Rec /\ s.overtaken \in BOOLEAN
  BY Parts
<1> PICK ds : ds = [s.conns EXCEPT ![c] = r] BY Zenon
<1> PICK to : to = [s.store EXCEPT ![p] = c] BY Zenon
<1>2. ds = Swap(s.conns, c, r) /\ to = Swap(s.store, p, c) BY DEF Swap
<1>3. ds \in Seq(Conn) /\ DOMAIN ds = DOMAIN s.conns /\ ds[c] = r
      /\ \A d \in DOMAIN s.conns : d # c => ds[d] = s.conns[d]
  BY <1>1, Replaced
<1>4. to \in Rec BY <1>1 DEF Rec
<1> PICK t : t = [s EXCEPT !.conns = ds, !.store = to, !.overtaken = late] OBVIOUS
<1>5. t \in State BY <1>1, <1>3, <1>4, Zenon DEF State
<1>6. t.conns = ds /\ t.store = to /\ t.ws = s.ws /\ t.opened = s.opened /\ t.overtaken = late
  BY <1>1 DEF State
<1>7. \A x \in Page : Seated(Swap(s.conns, c, r), Swap(s.store, p, c), x)
  BY <1>1, SeatsRebound DEF RInv
<1>8. \A x \in Page : AtPage(Swap(s.conns, c, r), Swap(s.store, p, c), s.ws, s.opened, late, x)
  <2> PICK early \in BOOLEAN : early = s.overtaken BY <1>1
  <2>1. \A x \in Page : AtPage(s.conns, s.store, s.ws, s.opened, early, x) BY Zenon DEF RInv
  <2> QED BY <1>1, <2>1, PagesRebound, ZenonT(40)
<1>9. \A d \in DOMAIN ds : OK(ds[d]) BY <1>3 DEF RInv
<1>10. RInv(t)
  <2>1. \A x \in Page : Seated(t.conns, t.store, x) BY <1>2, <1>6, <1>7
  <2>2. \A x \in Page : AtPage(t.conns, t.store, t.ws, t.opened, t.overtaken, x)
    BY <1>2, <1>6, <1>8
  <2>3. \A d \in DOMAIN t.conns : OK(t.conns[d]) BY <1>6, <1>9, Zenon
  <2> QED BY <1>5, <2>1, <2>2, <2>3, Zenon DEF RInv
<1> QED BY <1>2, <1>10, Zenon DEF Moved

\* rebind_match_conn.
LEMMA RebindKeeps ==
    ASSUME RInv(st), NEW c \in Conns(st), rebind_match_conn(c)
    PROVE  RInv(st')
<1> PICK o \in Conn : o = st.conns[c] BY Parts DEF Conns
<1> PICK r : r = [o EXCEPT !.in = Tail(o.in), !.rebound = TRUE] OBVIOUS
<1>1. OK(o) /\ o.open /\ o.in # <<>> /\ Head(o.in) = "resume" /\ c \in DOMAIN st.conns /\ o.who \in Page
  BY Parts DEF rebind_match_conn, Serving, Conns
<1>2. /\ r \in Conn /\ OK(r) /\ r.who = o.who /\ r.reg /\ r.rebound /\ r.cache = <<>>
      /\ NoPopulate(r)
  BY <1>1, Rebound, Zenon
<1> PICK late \in BOOLEAN : late = (st.overtaken \/ st.store[o.who] > c) BY Zenon
<1>3. st \in State BY Parts
<1> PICK u : u = [st EXCEPT !.conns = [st.conns EXCEPT ![c] = [o EXCEPT !.in = Tail(o.in)]]] BY Zenon
<1>4. st' = [u EXCEPT !.conns[c].rebound = TRUE, !.store[o.who] = c, !.overtaken = late]
  <2>1. u = Served(c) BY Zenon DEF Served
  <2>2. u.overtaken = st.overtaken BY <1>3 DEF State
  <2> QED BY <2>1, <2>2, Zenon DEF rebind_match_conn, Who
<1>5. u.conns = [st.conns EXCEPT ![c] = [o EXCEPT !.in = Tail(o.in)]] /\ u.store = st.store
  BY <1>3 DEF State
<1>6. u.conns[c] = [o EXCEPT !.in = Tail(o.in)] BY <1>5 DEF Conns
<1>7. [u.conns[c] EXCEPT !.rebound = TRUE] = r BY <1>6, Zenon DEF Conn
<1>8. st' = [u EXCEPT !.conns = [u.conns EXCEPT ![c] = [u.conns[c] EXCEPT !.rebound = TRUE]],
                      !.store = [u.store EXCEPT ![o.who] = c], !.overtaken = late]
  BY <1>4
<1>9. [u.conns EXCEPT ![c] = r] = [st.conns EXCEPT ![c] = r] BY <1>5 DEF Conns
<1>10. st' = [u EXCEPT !.conns = [st.conns EXCEPT ![c] = r],
                       !.store = [st.store EXCEPT ![o.who] = c], !.overtaken = late]
  BY <1>5, <1>7, <1>8, <1>9, Zenon
<1>11. st' = [st EXCEPT !.conns = [st.conns EXCEPT ![c] = r],
                        !.store = [st.store EXCEPT ![o.who] = c], !.overtaken = late]
  BY <1>3, <1>10, Zenon DEF State
<1>12. st' = Moved(st, c, r, o.who, late) BY <1>11, Zenon DEF Moved, Swap
<1>13. RInv(Moved(st, c, r, o.who, late)) BY <1>1, <1>2, RebindGood, Zenon
<1> QED BY <1>12, <1>13

\* A delivery to any connection, or to none, keeps the invariant.
LEMMA DeliverGood ==
    ASSUME NEW s, RInv(s), NEW d, NEW m \in Note, m.t # "challenge", NEW c \in DOMAIN s.conns,
           NEW t, t = deliver(s, d, m)
    PROVE  /\ RInv(t) /\ c \in DOMAIN t.conns /\ t.conns[c].net = s.conns[c].net
           /\ t.conns[c].rebound = s.conns[c].rebound
<1>1. s \in State /\ s.conns \in Seq(Conn) /\ \A x \in DOMAIN s.conns : s.conns[x] \in Conn /\ OK(s.conns[x])
  BY Parts
<1>2. CASE d \in DOMAIN s.conns
  <2> PICK o \in Conn : o = s.conns[d] BY <1>1, <1>2
  <2>1. /\ Told(o, m) \in Conn /\ OK(Told(o, m)) /\ Kin(o, Told(o, m), Other(o.who), s.store[Other(o.who)])
        /\ Told(o, m).net = o.net /\ Told(o, m).rebound = o.rebound
    BY <1>1, <1>2, ToldFine, Zenon
  <2>2. t = Place(s, d, Told(o, m)) BY <1>1, <1>2, BusForms
  <2>3. RInv(t) BY <1>2, <2>1, <2>2, TouchedAt
  <2>4. DOMAIN t.conns = DOMAIN s.conns /\ t.conns[d] = Told(o, m) /\ (c # d => t.conns[c] = s.conns[c])
    BY <1>1, <1>2, <2>1, <2>2, Placed
  <2> QED BY <2>1, <2>3, <2>4
<1>3. CASE d \notin DOMAIN s.conns
  <2> PICK e : e = [s.conns[d] EXCEPT !.out = Append(s.conns[d].out, m)] BY Zenon
  <2>1. [s.conns EXCEPT ![d] = e] = s.conns BY <1>1, <1>3
  <2>2. [s EXCEPT !.conns = s.conns] = s BY <1>1 DEF State
  <2>3. [s EXCEPT !.conns[d].out = Append(@, m)] = [s EXCEPT !.conns = [s.conns EXCEPT ![d] = e]] BY Zenon
  <2>4. t = s BY <2>1, <2>2, <2>3, Zenon DEF deliver
  <2> QED BY <2>4
<1> QED BY <1>2, <1>3

\* The end of a task keeps the invariant.
LEMMA EndedGood ==
    ASSUME NEW s, RInv(s), NEW c \in DOMAIN s.conns, ~s.conns[c].net, ~s.conns[c].rebound,
           NEW t, t = [s EXCEPT !.conns[c] = [@ EXCEPT !.open = FALSE, !.reg = FALSE, !.cache = <<>>,
                                                       !.in = <<>>, !.ctrl = <<>>]]
    PROVE  RInv(t)
<1> PICK o \in Conn : o = s.conns[c] BY Parts
<1> PICK r : r = [o EXCEPT !.open = FALSE, !.reg = FALSE, !.cache = <<>>, !.in = <<>>, !.ctrl = <<>>] OBVIOUS
<1>1. OK(o) BY Parts
<1>2. r \in Conn /\ OK(r) /\ Kin(o, r, Other(o.who), s.store[Other(o.who)]) BY <1>1, TaskEnded, Zenon
<1>3. t = Place(s, c, r) BY Zenon DEF Place
<1>4. RInv(Place(s, c, r)) BY <1>2, TouchedAt
<1> QED BY <1>3, <1>4

\* A page that is marked absent.
LEMMA Absent ==
    ASSUME NEW s, RInv(s), NEW P \in Rec, NEW t, t = [s EXCEPT !.presence = P]
    PROVE  RInv(t)
<1>1. s \in State BY Parts
<1>2. t \in State BY <1>1 DEF State
<1>3. t.conns = s.conns /\ t.store = s.store /\ t.ws = s.ws /\ t.opened = s.opened
      /\ t.overtaken = s.overtaken
  BY <1>1 DEF State
<1> QED BY <1>2, <1>3, Zenon DEF RInv

\* The notice of a drop keeps the invariant and leaves the dropped connection as it was.
LEMMA NotifyGood ==
    ASSUME NEW s, RInv(s), NEW c \in DOMAIN s.conns
    PROVE  /\ RInv(notify_peers_dropped(s, c)) /\ c \in DOMAIN notify_peers_dropped(s, c).conns
           /\ notify_peers_dropped(s, c).conns[c].net = s.conns[c].net
           /\ notify_peers_dropped(s, c).conns[c].rebound = s.conns[c].rebound
<1>1. \A b \in BOOLEAN : [t |-> "dropped", late |-> b] \in Note /\ [t |-> "dropped", late |-> b].t # "challenge"
  BY DEF Note
<1> PICK b \in BOOLEAN : b = (s.store[s.conns[c].who] # c) BY Zenon
<1>2. \E m \in Note : m = [t |-> "dropped", late |-> b] /\ m.t # "challenge" BY <1>1, Zenon
<1>3. PICK m \in Note : m = [t |-> "dropped", late |-> b] /\ m.t # "challenge" BY <1>2
<1>4. notify_peers_dropped(s, c) = s \/ \E d : notify_peers_dropped(s, c) = deliver(s, d, m)
  BY <1>3, Zenon DEF notify_peers_dropped
<1>5. ASSUME NEW d, NEW t, t = deliver(s, d, m)
      PROVE  /\ RInv(t) /\ c \in DOMAIN t.conns /\ t.conns[c].net = s.conns[c].net
             /\ t.conns[c].rebound = s.conns[c].rebound
  <2>1. m.t # "challenge" BY <1>3
  <2> QED BY <1>5, <2>1, DeliverGood
<1> QED BY <1>4, <1>5, Zenon

\* The notice and the end of the task together.
LEMMA DisconnectGood ==
    ASSUME NEW s, RInv(s), NEW c \in DOMAIN s.conns, ~s.conns[c].net, ~s.conns[c].rebound,
           NEW t, t = [notify_peers_dropped(s, c) EXCEPT
                         !.conns[c] = [@ EXCEPT !.open = FALSE, !.reg = FALSE, !.cache = <<>>,
                                                !.in = <<>>, !.ctrl = <<>>]]
    PROVE  RInv(t)
<1>1. /\ RInv(notify_peers_dropped(s, c)) /\ c \in DOMAIN notify_peers_dropped(s, c).conns
      /\ notify_peers_dropped(s, c).conns[c].net = s.conns[c].net
      /\ notify_peers_dropped(s, c).conns[c].rebound = s.conns[c].rebound
  BY NotifyGood
<1> PICK u : u = notify_peers_dropped(s, c) OBVIOUS
<1>2. RInv(u) /\ c \in DOMAIN u.conns /\ ~u.conns[c].net /\ ~u.conns[c].rebound BY <1>1, Zenon
<1>3. t = [u EXCEPT !.conns[c] = [@ EXCEPT !.open = FALSE, !.reg = FALSE, !.cache = <<>>,
                                           !.in = <<>>, !.ctrl = <<>>]]
  BY Zenon
<1> QED BY <1>2, <1>3, EndedGood, Zenon

\* disconnect: the loop of a broken connection ends and cleans up.
LEMMA DisconnectKeeps ==
    ASSUME RInv(st), NEW c \in Conns(st), disconnect(c)
    PROVE  RInv(st')
<1>1. /\ c \in DOMAIN st.conns /\ c \in Nat /\ st \in State /\ ~st.conns[c].net /\ ~st.conns[c].rebound
      /\ st.conns[c].who \in Page
  BY Parts DEF Conns, disconnect
<1>2. PICK p \in Page : p = st.conns[c].who BY <1>1
<1>3. PICK P : P = [st.presence EXCEPT ![p] = IF st.presence[p] = c THEN 0 ELSE st.presence[p]] BY Zenon
<1>4. P \in Rec BY <1>1, <1>3, Parts DEF Rec
<1>5. PICK s : s = [st EXCEPT !.presence = P] BY Zenon
<1>6. RInv(s) BY <1>4, <1>5, Absent
<1>7. s.conns = st.conns BY <1>1, <1>5 DEF State
<1>8. st' = [notify_peers_dropped(s, c) EXCEPT
               !.conns[c] = [@ EXCEPT !.open = FALSE, !.reg = FALSE, !.cache = <<>>,
                                      !.in = <<>>, !.ctrl = <<>>]]
  <2>1. s = [st EXCEPT !.presence[p] = IF @ = c THEN 0 ELSE @] BY <1>3, <1>5, Zenon
  <2> QED BY <1>2, <2>1, Zenon DEF disconnect, Who
<1>9. c \in DOMAIN s.conns /\ ~s.conns[c].net /\ ~s.conns[c].rebound BY <1>1, <1>7
<1> QED BY <1>6, <1>8, <1>9, DisconnectGood, Zenon

\* Timers, grace and attachment do not bear on the routing.
LEMMA Sidelined ==
    ASSUME NEW s, RInv(s), NEW t \in State, t.conns = s.conns, t.store = s.store,
           t.ws = s.ws, t.opened = s.opened, t.overtaken = s.overtaken
    PROVE  RInv(t)
BY Zenon DEF RInv

\* A page without a socket has no claim on the record.
LEMMA PageGone ==
    ASSUME NEW s, RInv(s), NEW p \in Page, NEW t \in State, t.conns = s.conns, t.store = s.store,
           t.overtaken = s.overtaken,
           t.ws = [s.ws EXCEPT ![p] = 0], t.opened = [s.opened EXCEPT ![p] = FALSE]
    PROVE  RInv(t)
<1>1. s.ws \in Rec /\ s.opened \in [Page -> BOOLEAN] BY Parts
<1>2. t.ws[p] = 0 /\ t.opened[p] = FALSE BY <1>1 DEF Rec
<1>3. \A x \in Page : x # p => t.ws[x] = s.ws[x] /\ t.opened[x] = s.opened[x] BY <1>1 DEF Rec
<1>4. AtPage(t.conns, t.store, t.ws, t.opened, t.overtaken, p) BY <1>2 DEF AtPage
<1>5. \A x \in Page : AtPage(s.conns, s.store, s.ws, s.opened, s.overtaken, x) BY DEF RInv
<1>6. ASSUME NEW x \in Page, x # p PROVE AtPage(t.conns, t.store, t.ws, t.opened, t.overtaken, x)
  BY <1>3, <1>5, <1>6, Zenon DEF AtPage
<1> QED BY <1>4, <1>6, Zenon DEF RInv

\* A page drops its socket.
LEMMA LeftGood ==
    ASSUME NEW s, RInv(s), NEW c \in DOMAIN s.conns,
           NEW t, t = [s EXCEPT !.conns[c].net = FALSE, !.conns[c].out = <<>>]
    PROVE  RInv(t)
<1>1. PICK o \in Conn : o = s.conns[c] BY Parts
<1>2. PICK r : r = [o EXCEPT !.net = FALSE, !.out = <<>>] OBVIOUS
<1>3. PICK a : a = [o EXCEPT !.net = FALSE] BY Zenon
<1>4. OK(o) /\ s \in State BY <1>1, Parts
<1>5. r \in Conn /\ OK(r) /\ Kin(o, r, Other(o.who), s.store[Other(o.who)]) BY <1>2, <1>4, WentAway, Zenon
<1>6. PICK u : u = [s EXCEPT !.conns = [s.conns EXCEPT ![c] = a]] BY Zenon
<1>7. u.conns = [s.conns EXCEPT ![c] = a] /\ u.conns[c] = a BY <1>4, <1>6 DEF State
<1>8. t = [u EXCEPT !.conns[c].out = <<>>] BY <1>1, <1>3, <1>6, Zenon
<1>9. t = [u EXCEPT !.conns = [u.conns EXCEPT ![c] = [u.conns[c] EXCEPT !.out = <<>>]]] BY <1>8, Zenon
<1>10. [a EXCEPT !.out = <<>>] = r BY <1>2, <1>3 DEF Conn
<1>11. t = [[s EXCEPT !.conns = [s.conns EXCEPT ![c] = a]]
              EXCEPT !.conns = [[s.conns EXCEPT ![c] = a] EXCEPT ![c] = r]]
  BY <1>6, <1>7, <1>9, <1>10, Zenon
<1>12. t = Place(s, c, r) BY <1>4, <1>11, Overwritten, Zenon DEF Place
<1> QED BY <1>1, <1>5, <1>12, TouchedAt

\* A new connection, before its challenge is read.
LEMMA NewSocket ==
    ASSUME NEW p \in Page
    PROVE  handle_socket(p) \in Conn /\ OK(handle_socket(p)) /\ handle_socket(p).who = p
<1>1. [t |-> "challenge"] \in Note BY DEF Note
<1>2. <<[t |-> "challenge"]>> \in Seq(Note) /\ <<>> \in Seq(Rec) /\ <<>> \in Seq({"connect", "resume"})
      /\ <<>> \in Seq(Ctrl)
  BY <1>1
<1>3. PICK r : r = handle_socket(p) OBVIOUS
<1>4. r \in Conn BY <1>2, <1>3 DEF handle_socket, Conn
<1>5. /\ r.who = p /\ r.net = TRUE /\ r.open = TRUE /\ r.reg = FALSE /\ r.cache = <<>>
      /\ r.in = <<>> /\ r.out = <<[t |-> "challenge"]>> /\ r.ctrl = <<>> /\ r.rebound = FALSE
  BY <1>3 DEF handle_socket
<1>6. \A i \in DOMAIN r.out : i = 1 BY <1>5
<1>7. OK(r) BY <1>5, <1>6 DEF OK, NoPopulate
<1> QED BY <1>3, <1>4, <1>5, <1>7

\* A page opens a socket: the new connection is the newest, and not yet opened.
LEMMA SocketGood ==
    ASSUME NEW s, RInv(s), NEW p \in Page, NEW t, t = SocketFor(s, p)
    PROVE  RInv(t)
<1>1. PICK h \in Conn : h = handle_socket(p) /\ OK(h) /\ h.who = p BY NewSocket
<1>2. PICK ds : ds = Append(s.conns, h) BY Zenon
<1>3. s \in State /\ s.conns \in Seq(Conn) /\ DOMAIN s.conns = 1 .. Len(s.conns) /\ Len(s.conns) \in Nat
  BY Parts
<1>4. /\ ds \in Seq(Conn) /\ DOMAIN ds = 1 .. Len(s.conns) + 1 /\ ds[Len(s.conns) + 1] = h
      /\ \A i \in 1 .. Len(s.conns) : ds[i] = s.conns[i]
  BY <1>2, <1>3, Appended
<1>5. PICK k \in Nat : k = Len(s.conns) BY <1>3
<1>6. PICK w : w = [s.ws EXCEPT ![p] = k + 1] BY Zenon
<1>7. PICK up : up = [s.opened EXCEPT ![p] = FALSE] BY Zenon
<1>8. t = [s EXCEPT !.conns = ds, !.ws = w, !.opened = up]
  BY <1>1, <1>2, <1>5, <1>6, <1>7, Zenon DEF SocketFor
<1>9. w \in Rec /\ up \in [Page -> BOOLEAN] BY <1>6, <1>7, Parts DEF Rec
<1>10. t \in State BY <1>3, <1>4, <1>8, <1>9, Zenon DEF State
<1>11. t.conns = ds /\ t.store = s.store /\ t.ws = w /\ t.opened = up /\ t.overtaken = s.overtaken
  BY <1>3, <1>8 DEF State
<1>12. /\ w[p] = k + 1 /\ up[p] = FALSE
       /\ \A x \in Page : x # p => w[x] = s.ws[x] /\ up[x] = s.opened[x]
  BY <1>6, <1>7, Parts DEF Rec
<1>13. \A x \in Page : Seated(ds, s.store, x)
  <2>1. ASSUME NEW x \in Page
        PROVE  s.store[x] \in DOMAIN s.conns /\ s.store[Other(x)] \in DOMAIN s.conns /\ Seated(s.conns, s.store, x)
    BY OtherPage DEF RInv, Seated
  <2>2. ASSUME NEW x \in Page PROVE Seated(ds, s.store, x)
    <3>1. s.store[x] \in DOMAIN ds /\ ds[s.store[x]] = s.conns[s.store[x]]
          /\ ds[s.store[Other(x)]] = s.conns[s.store[Other(x)]]
      BY <1>3, <1>4, <2>1
    <3> QED BY <2>1, <3>1, Zenon DEF Seated
  <2> QED BY <2>2
<1>14. AtPage(ds, s.store, w, up, s.overtaken, p)
  BY <1>1, <1>4, <1>5, <1>12 DEF AtPage
<1>15. ASSUME NEW x \in Page, x # p PROVE AtPage(ds, s.store, w, up, s.overtaken, x)
  <2>1. AtPage(s.conns, s.store, s.ws, s.opened, s.overtaken, x) BY DEF RInv
  <2>2. w[x] = s.ws[x] /\ up[x] = s.opened[x] BY <1>12, <1>15
  <2>3. CASE w[x] = 0 BY <2>1, <2>2, <2>3 DEF AtPage
  <2>4. CASE w[x] # 0
    <3>1. s.ws[x] \in DOMAIN s.conns /\ s.conns[s.ws[x]].who = x
          /\ \A d \in DOMAIN s.conns : s.conns[d].who = x => d <= s.ws[x]
      BY <2>1, <2>2, <2>4 DEF AtPage
    <3>2. w[x] \in DOMAIN ds /\ ds[w[x]] = s.conns[s.ws[x]] BY <1>3, <1>4, <2>2, <3>1
    <3>3. \A d \in DOMAIN ds : ds[d].who = x => d <= w[x]
      BY <1>1, <1>3, <1>4, <1>15, <2>2, <3>1
    <3> QED BY <2>1, <2>2, <3>1, <3>2, <3>3, Zenon DEF AtPage
  <2> QED BY <2>3, <2>4
<1>16. \A d \in DOMAIN ds : OK(ds[d]) BY <1>1, <1>3, <1>4 DEF RInv
<1>17. \A x \in Page : AtPage(ds, s.store, w, up, s.overtaken, x) BY <1>14, <1>15
<1> QED BY <1>10, <1>11, <1>13, <1>16, <1>17, Zenon DEF RInv

\* ws.onclose: the page gives up its broken socket.
LEMMA ReconnectKeeps ==
    ASSUME RInv(st), NEW p \in Page, scheduleReconnect(p)
    PROVE  RInv(st')
<1>1. st \in State /\ st.known[p] \in BOOLEAN BY Parts
<1>2. PICK w : w = [st.ws EXCEPT ![p] = 0] BY Zenon
<1>3. PICK up : up = [st.opened EXCEPT ![p] = FALSE] BY Zenon
<1>4. PICK ti : ti = [st.timer EXCEPT ![p] = st.known[p]] BY Zenon
<1>5. PICK at : at = [st.attached EXCEPT ![p] = st.known[p]] BY Zenon
<1>6. PICK gr : gr = [st.grace EXCEPT ![p] = IF st.known[p] THEN st.grace[p] ELSE "off"] BY Zenon
<1>7. /\ w \in Rec /\ up \in [Page -> BOOLEAN] /\ ti \in [Page -> BOOLEAN] /\ at \in [Page -> BOOLEAN]
      /\ gr \in [Page -> {"off", "on", "late"}]
  BY <1>1, <1>2, <1>3, <1>4, <1>5, <1>6, Parts DEF Rec
<1>8. st' = [st EXCEPT !.ws = w, !.opened = up, !.timer = ti, !.attached = at, !.grace = gr]
  BY <1>2, <1>3, <1>4, <1>5, <1>6, Zenon DEF scheduleReconnect
<1>9. st' \in State BY <1>1, <1>7, <1>8, Zenon DEF State
<1>10. st'.conns = st.conns /\ st'.store = st.store /\ st'.overtaken = st.overtaken /\ st'.ws = w /\ st'.opened = up
  BY <1>1, <1>8 DEF State
<1> QED BY <1>2, <1>3, <1>9, <1>10, PageGone

\* The player leaves the match.
LEMMA CloseKeeps ==
    ASSUME RInv(st), NEW p \in Page, close(p)
    PROVE  RInv(st')
<1>1. st \in State BY Parts
<1>2. PICK w : w = [st.ws EXCEPT ![p] = 0] BY Zenon
<1>3. PICK up : up = [st.opened EXCEPT ![p] = FALSE] BY Zenon
<1>4. PICK ti : ti = [st.timer EXCEPT ![p] = FALSE] BY Zenon
<1>5. PICK at : at = [st.attached EXCEPT ![p] = FALSE] BY Zenon
<1>6. PICK gr : gr = [st.grace EXCEPT ![p] = "off"] BY Zenon
<1>7. /\ w \in Rec /\ up \in [Page -> BOOLEAN] /\ ti \in [Page -> BOOLEAN] /\ at \in [Page -> BOOLEAN]
      /\ gr \in [Page -> {"off", "on", "late"}]
  BY <1>1, <1>2, <1>3, <1>4, <1>5, <1>6, Parts DEF Rec
<1>8. PICK left : left = [st EXCEPT !.attached = at, !.grace = gr, !.timer = ti, !.ws = w, !.opened = up]
  OBVIOUS
<1>9. left \in State BY <1>1, <1>7, <1>8, Zenon DEF State
<1>10. left.conns = st.conns /\ left.store = st.store /\ left.overtaken = st.overtaken /\ left.ws = w /\ left.opened = up
  BY <1>1, <1>8 DEF State
<1>11. RInv(left) BY <1>2, <1>3, <1>9, <1>10, PageGone
<1>12. PICK c : c = st.ws[p] OBVIOUS
<1>13. st' = IF c = 0 THEN left ELSE [left EXCEPT !.conns[c].net = FALSE, !.conns[c].out = <<>>]
  <2>1. left = [st EXCEPT !.attached[p] = FALSE, !.grace[p] = "off", !.timer[p] = FALSE,
                          !.ws[p] = 0, !.opened[p] = FALSE]
    BY <1>2, <1>3, <1>4, <1>5, <1>6, <1>8, Zenon
  <2> QED BY <1>12, <2>1 DEF close
<1>14. CASE c = 0 BY <1>11, <1>13, <1>14
<1>15. CASE c # 0
  <2>1. c \in DOMAIN left.conns BY <1>10, <1>12, <1>15 DEF RInv, AtPage
  <2>2. st' = [left EXCEPT !.conns[c].net = FALSE, !.conns[c].out = <<>>] BY <1>13, <1>15, Zenon
  <2> QED BY <1>11, <2>1, <2>2, LeftGood, Zenon
<1> QED BY <1>14, <1>15

\* The reconnect timer fires.
LEMMA OpenKeeps ==
    ASSUME RInv(st), NEW p \in Page, openSocket(p)
    PROVE  RInv(st')
<1>1. PICK s : s = SocketFor(st, p) OBVIOUS
<1>2. RInv(s) BY <1>1, SocketGood
<1>3. PICK ti : ti = [s.timer EXCEPT ![p] = FALSE] BY Zenon
<1>4. s \in State /\ ti \in [Page -> BOOLEAN] BY <1>2, <1>3, Parts
<1>5. st' = [s EXCEPT !.timer = ti] BY <1>1, <1>3, Zenon DEF openSocket
<1>6. st' \in State BY <1>4, <1>5 DEF State
<1>7. st'.conns = s.conns /\ st'.store = s.store /\ st'.ws = s.ws /\ st'.opened = s.opened /\ st'.overtaken = s.overtaken
  BY <1>4, <1>5 DEF State
<1> QED BY <1>2, <1>6, <1>7, Sidelined

\* The page is loaded again.
LEMMA ReloadKeeps ==
    ASSUME RInv(st), NEW p \in Page, resumeActiveTunnels(p)
    PROVE  RInv(st')
<1>1. PICK c : c = st.ws[p] OBVIOUS
<1>2. PICK gone : gone = IF c = 0 THEN st ELSE [st EXCEPT !.conns[c].net = FALSE, !.conns[c].out = <<>>]
  OBVIOUS
<1>3. RInv(gone)
  <2>1. CASE c = 0 BY <1>2, <2>1, Zenon
  <2>2. CASE c # 0
    <3>1. c \in DOMAIN st.conns BY <1>1, <2>2 DEF RInv, AtPage
    <3>2. gone = [st EXCEPT !.conns[c].net = FALSE, !.conns[c].out = <<>>] BY <1>2, <2>2, Zenon
    <3> QED BY <3>1, <3>2, LeftGood, Zenon
  <2> QED BY <2>1, <2>2
<1>4. PICK s : s = SocketFor(gone, p) OBVIOUS
<1>5. RInv(s) BY <1>3, <1>4, SocketGood
<1>6. PICK kn : kn = [s.known EXCEPT ![p] = FALSE] BY Zenon
<1>7. PICK ti : ti = [s.timer EXCEPT ![p] = FALSE] BY Zenon
<1>8. PICK gr : gr = [s.grace EXCEPT ![p] = "off"] BY Zenon
<1>9. s \in State /\ kn \in [Page -> BOOLEAN] /\ ti \in [Page -> BOOLEAN] /\ gr \in [Page -> {"off", "on", "late"}]
  BY <1>5, <1>6, <1>7, <1>8, Parts
<1>10. st' = [s EXCEPT !.known = kn, !.timer = ti, !.grace = gr]
  <2>0. gone = IF st.ws[p] = 0 THEN st
               ELSE [st EXCEPT !.conns[st.ws[p]].net = FALSE, !.conns[st.ws[p]].out = <<>>]
    BY <1>1, <1>2, Zenon
  <2>1. st' = [s EXCEPT !.known[p] = FALSE, !.timer[p] = FALSE, !.grace[p] = "off"]
    <3>1. st' = [SocketFor(IF st.ws[p] = 0 THEN st
                           ELSE [st EXCEPT !.conns[st.ws[p]].net = FALSE,
                                           !.conns[st.ws[p]].out = <<>>], p)
                   EXCEPT !.known[p] = FALSE, !.timer[p] = FALSE, !.grace[p] = "off"]
      BY DEF resumeActiveTunnels
    <3>2. s = SocketFor(IF st.ws[p] = 0 THEN st
                        ELSE [st EXCEPT !.conns[st.ws[p]].net = FALSE,
                                        !.conns[st.ws[p]].out = <<>>], p)
      BY <1>4, <2>0
    <3> QED BY <3>1, <3>2
  <2> QED BY <1>6, <1>7, <1>8, <2>1, ZenonT(40)
<1>11. st' \in State BY <1>9, <1>10, Zenon DEF State
<1>12. st'.conns = s.conns /\ st'.store = s.store /\ st'.ws = s.ws /\ st'.opened = s.opened /\ st'.overtaken = s.overtaken
  BY <1>9, <1>10 DEF State
<1> QED BY <1>5, <1>11, <1>12, Sidelined

\* The challenge is answered by connect and resume: the resume is on the way.
LEMMA Answered ==
    ASSUME NEW o \in Conn, OK(o), o.out # <<>>, Head(o.out).t = "challenge", NEW q, NEW n,
           NEW r, r = [o EXCEPT !.out = Tail(o.out), !.in = o.in \o <<"connect", "resume">>]
    PROVE  r \in Conn /\ OK(r) /\ Kin(o, r, q, n) /\ HasResume(r)
<1>1. PICK s \in Seq(Note) : s = o.out BY DEF Conn
<1>2. /\ DOMAIN s = 1 .. Len(s) /\ Len(s) \in Nat /\ Tail(s) \in Seq(Note) /\ Len(s) # 0 /\ Head(s) = s[1]
      /\ DOMAIN Tail(s) = 1 .. Len(s) - 1 /\ \A i \in 1 .. Len(s) - 1 : Tail(s)[i] = s[i + 1]
  BY <1>1, Lens
<1>3. Fresh(o) BY <1>1, <1>2 DEF Fresh
<1>4. o.in = <<>> /\ ~o.reg /\ o.cache = <<>> /\ ~o.rebound /\ o.ctrl = <<>> BY <1>3 DEF OK
<1>5. o.in \o <<"connect", "resume">> = <<"connect", "resume">> BY <1>4
<1>6. PICK f : f = <<"connect", "resume">> BY Zenon
<1>7. f \in Seq({"connect", "resume"}) /\ DOMAIN f = 1 .. 2 /\ Len(f) = 2 /\ f[1] = "connect" /\ f[2] = "resume"
      /\ f # <<>>
  BY <1>6
<1>8. r = [o EXCEPT !.out = Tail(s), !.in = f] BY <1>1, <1>5, <1>6, Zenon
<1>9. r \in Conn BY <1>2, <1>7, <1>8, Zenon DEF Conn
<1>10. /\ r.who = o.who /\ r.net = o.net /\ r.open = o.open /\ r.reg = o.reg /\ r.cache = <<>>
       /\ r.in = f /\ r.out = Tail(s) /\ r.ctrl = <<>> /\ r.rebound = o.rebound
  BY <1>4, <1>8, Zenon DEF Conn
<1>11. HasResume(r)
  <2>1. 2 \in DOMAIN f /\ f[2] = "resume" BY <1>7
  <2> QED BY <1>10, <2>1, Zenon DEF HasResume
<1>12. \A i \in DOMAIN r.out : r.out[i].t # "challenge"
  <2>1. \A i \in DOMAIN s : s[i].t = "challenge" => i = 1 BY <1>1 DEF OK
  <2> QED BY <1>2, <1>10, <2>1
<1>13. OK(r)
  <2>1. ~Fresh(r) BY <1>12, Zenon DEF Fresh
  <2>2. \A i \in DOMAIN r.in : r.in[i] = "resume" => i = Len(r.in) /\ (i = 1 => r.reg)
    <3>1. \A i \in DOMAIN f : f[i] = "resume" => i = 2 BY <1>7
    <3>2. 2 = Len(f) /\ 2 # 1 BY <1>7
    <3> QED BY <1>10, <3>1, <3>2, Zenon
  <2>3. NoPopulate(r) BY <1>10 DEF NoPopulate
  <2>4. \A i \in DOMAIN r.ctrl : r.ctrl[i].t = "populate" => i = 1 BY <1>10
  <2>5. r.net => r.open BY <1>10 DEF OK
  <2> QED BY <1>4, <1>10, <1>12, <2>1, <2>2, <2>3, <2>4, <2>5 DEF OK
<1>14. \A reb \in BOOLEAN : Fine(r, q, n, reb) BY <1>10 DEF Fine
<1>15. Kin(o, r, q, n) BY <1>4, <1>10, <1>11, <1>14 DEF Kin
<1> QED BY <1>9, <1>11, <1>13, <1>15

\* A socket counts as opened once its resume is on the way.
LEMMA OpenedGood ==
    ASSUME NEW s, RInv(s), NEW p \in Page, NEW c, c = s.ws[p], c # 0,
           s.conns[c].net => HasResume(s.conns[c]),
           NEW kn \in [Page -> BOOLEAN], NEW up, up = [s.opened EXCEPT ![p] = TRUE],
           NEW t, t = [s EXCEPT !.known = kn, !.opened = up]
    PROVE  RInv(t)
<1>1. s \in State /\ up \in [Page -> BOOLEAN] BY Parts
<1>2. t \in State BY <1>1, Zenon DEF State
<1>3. t.conns = s.conns /\ t.store = s.store /\ t.ws = s.ws /\ t.opened = up /\ t.overtaken = s.overtaken
  BY <1>1 DEF State
<1>4. \A x \in Page : AtPage(s.conns, s.store, s.ws, s.opened, s.overtaken, x) BY DEF RInv
<1>5. up[p] = TRUE /\ \A x \in Page : x # p => up[x] = s.opened[x] BY Parts
<1>6. AtPage(s.conns, s.store, s.ws, up, s.overtaken, p) BY <1>4, <1>5, Zenon DEF AtPage
<1>7. ASSUME NEW x \in Page, x # p PROVE AtPage(s.conns, s.store, s.ws, up, s.overtaken, x)
  BY <1>4, <1>5, <1>7, Zenon DEF AtPage
<1>8. \A x \in Page : AtPage(s.conns, s.store, s.ws, up, s.overtaken, x) BY <1>6, <1>7, Zenon
<1> QED BY <1>2, <1>3, <1>8, Zenon DEF RInv

\* The challenge arrives at the page.
LEMMA ChallengeKeeps ==
    ASSUME RInv(st), NEW p \in Page, challenge(p)
    PROVE  RInv(st')
<1>1. PICK c : c = st.ws[p] OBVIOUS
<1>2. c # 0 /\ st.conns[c].out # <<>> /\ Head(st.conns[c].out).t = "challenge"
  BY <1>1, Zenon DEF challenge, Arrived, Inbox
<1>3. c \in DOMAIN st.conns /\ st \in State BY <1>1, <1>2, Parts DEF RInv, AtPage
<1>4. PICK o \in Conn : o = st.conns[c] BY <1>3, Parts
<1>5. OK(o) BY <1>3, <1>4, Parts
<1>6. PICK a : a = [o EXCEPT !.out = Tail(o.out)] BY Zenon
<1>7. a \in Conn /\ OK(a) /\ Kin(o, a, Other(o.who), st.store[Other(o.who)])
  BY <1>2, <1>4, <1>5, <1>6, FrameRead
<1>8. PICK u : u = Place(st, c, a) OBVIOUS
<1>9. RInv(u) BY <1>3, <1>4, <1>7, <1>8, TouchedAt
<1>10. u \in State /\ u.conns[c] = a /\ u.ws = st.ws /\ c \in DOMAIN u.conns BY <1>3, <1>7, <1>8, Placed
<1>11. PICK kn : kn = [u.known EXCEPT ![p] = TRUE] BY Zenon
<1>12. PICK up : up = [u.opened EXCEPT ![p] = TRUE] BY Zenon
<1>13. PICK s : s = [u EXCEPT !.known = kn, !.opened = up] OBVIOUS
<1>14. kn \in [Page -> BOOLEAN] BY <1>9, <1>11, Parts
<1>15. s.ws[p] = c /\ s.conns = u.conns BY <1>1, <1>10, <1>13 DEF State
<1>16. st' = send(s, p, <<"connect", "resume">>)
  <2>1. u = Taken(p) BY <1>1, <1>4, <1>6, <1>8, ZenonT(40) DEF Taken, Place
  <2> QED BY <2>1, <1>11, <1>12, <1>13, Zenon DEF challenge, resumeActive
<1>17. CASE ~a.net
  <2>1. st' = s BY <1>10, <1>15, <1>16, <1>17, ZenonT(40) DEF send
  <2> QED BY <1>1, <1>2, <1>9, <1>10, <1>12, <1>13, <1>14, <1>17, <2>1, OpenedGood, Zenon
<1>18. CASE a.net
  <2>1. PICK r : r = [o EXCEPT !.out = Tail(o.out), !.in = o.in \o <<"connect", "resume">>] OBVIOUS
  <2>2. r \in Conn /\ OK(r) /\ Kin(o, r, Other(o.who), st.store[Other(o.who)]) /\ HasResume(r)
    BY <1>2, <1>4, <1>5, <2>1, Answered, Zenon
  <2>3. PICK v : v = Place(st, c, r) OBVIOUS
  <2>4. RInv(v) BY <1>3, <1>4, <2>2, <2>3, TouchedAt
  <2>5. v \in State /\ v.conns[c] = r /\ v.ws = st.ws /\ v.opened = u.opened
    BY <1>3, <1>7, <1>8, <2>2, <2>3, Placed
  <2>6. Place(u, c, r) = v BY <1>3, <1>7, <1>8, <2>2, <2>3, PlacedAgain
  <2>7. st' = [s EXCEPT !.conns[c].in = @ \o <<"connect", "resume">>]
    BY <1>2, <1>10, <1>15, <1>16, <1>18, Zenon DEF send
  <2>8. [a EXCEPT !.in = a.in \o <<"connect", "resume">>] = r BY <1>6, <2>1 DEF Conn
  <2>9. st' = [s EXCEPT !.conns = [u.conns EXCEPT ![c] = r]]
    <3>1. st' = [s EXCEPT !.conns = [s.conns EXCEPT ![c] =
                            [s.conns[c] EXCEPT !.in = s.conns[c].in \o <<"connect", "resume">>]]]
      BY <2>7
    <3> QED BY <1>10, <1>15, <2>8, <3>1, Zenon
  <2>10. st' = [v EXCEPT !.known = kn, !.opened = up]
    <3>1. v = [u EXCEPT !.conns = [u.conns EXCEPT ![c] = r]] BY <2>6, Zenon DEF Place
    <3> QED BY <1>10, <1>13, <2>9, <3>1, Zenon DEF State
  <2>11. v.ws[p] = c /\ (v.conns[c].net => HasResume(v.conns[c])) /\ up = [v.opened EXCEPT ![p] = TRUE]
    BY <1>1, <1>12, <2>2, <2>5
  <2> QED BY <1>2, <1>14, <2>4, <2>10, <2>11, OpenedGood, Zenon
<1> QED BY <1>17, <1>18

\* The match has just been made.
LEMMA RelayInit == ASSUME Init PROVE RInv(st)
<1>1. PICK r : r = [p \in Page |-> IF p = "a" THEN 1 ELSE 2] BY Zenon
<1>2. r \in Rec /\ r["a"] = 1 /\ r["b"] = 2 BY <1>1 DEF Rec, Page
<1>3. PICK m \in Ctrl : m = [t |-> "populate", rec |-> r] /\ m.t = "populate" /\ m.rec = r
  <2>1. [t |-> "populate", rec |-> r] \in Ctrl BY <1>2 DEF Ctrl
  <2> QED BY <2>1
<1>4. PICK ca : ca = [handle_socket("a") EXCEPT !.reg = TRUE, !.out = <<>>, !.ctrl = <<m>>] OBVIOUS
<1>5. PICK cb : cb = [handle_socket("b") EXCEPT !.reg = TRUE, !.out = <<>>, !.ctrl = <<m>>] OBVIOUS
<1>6. <<m>> \in Seq(Ctrl) /\ <<>> \in Seq(Note) /\ <<>> \in Seq(Rec) /\ <<>> \in Seq({"connect", "resume"})
  OBVIOUS
<1>7. /\ ca.who = "a" /\ ca.net = TRUE /\ ca.open = TRUE /\ ca.reg = TRUE /\ ca.cache = <<>>
      /\ ca.in = <<>> /\ ca.out = <<>> /\ ca.ctrl = <<m>> /\ ca.rebound = FALSE
  BY <1>4 DEF handle_socket
<1>8. /\ cb.who = "b" /\ cb.net = TRUE /\ cb.open = TRUE /\ cb.reg = TRUE /\ cb.cache = <<>>
      /\ cb.in = <<>> /\ cb.out = <<>> /\ cb.ctrl = <<m>> /\ cb.rebound = FALSE
  BY <1>5 DEF handle_socket
<1>9. ca \in Conn
  <2>1. handle_socket("a") \in Conn BY NewSocket DEF Page
  <2> QED BY <1>4, <1>6, <2>1, Zenon DEF Conn
<1>10. cb \in Conn
  <2>1. handle_socket("b") \in Conn BY NewSocket DEF Page
  <2> QED BY <1>5, <1>6, <2>1, Zenon DEF Conn
<1>11. PICK s : s = <<m>> BY Zenon
<1>12. DOMAIN s = {1} /\ s[1] = m BY <1>11
<1>13. ASSUME NEW k \in Conn, k.net, k.open, k.reg, k.cache = <<>>, k.in = <<>>, k.out = <<>>, k.ctrl = s, ~k.rebound
       PROVE  OK(k)
  <2>1. ~Fresh(k) BY <1>13 DEF Fresh
  <2> QED BY <1>12, <1>13, <2>1 DEF OK
<1>14. OK(ca) /\ OK(cb) BY <1>7, <1>8, <1>9, <1>10, <1>11, <1>13
<1>15. PICK cs : cs = <<ca, cb>> BY Zenon
<1>16. cs \in Seq(Conn) /\ DOMAIN cs = 1 .. 2 /\ cs[1] = ca /\ cs[2] = cb BY <1>9, <1>10, <1>15
<1>17. cs = create_and_announce_match(r) BY <1>3, <1>4, <1>5, <1>15, Zenon DEF create_and_announce_match
<1>18. st = [conns |-> cs, store |-> r, presence |-> r, ws |-> r,
             opened |-> [p \in Page |-> TRUE], known |-> [p \in Page |-> TRUE],
             timer |-> [p \in Page |-> FALSE],
             attached |-> [p \in Page |-> TRUE], grace |-> [p \in Page |-> "off"],
             overtaken |-> FALSE]
  BY <1>1, <1>17 DEF Init
<1>19. st \in State BY <1>2, <1>16, <1>18 DEF State
<1>20. st.conns = cs /\ st.store = r /\ st.ws = r BY <1>18
<1>21. ASSUME NEW p \in Page PROVE Seated(cs, r, p) /\ AtPage(cs, r, r, st.opened, st.overtaken, p)
  <2>1. r[p] \in 1 .. 2 /\ cs[r[p]].who = p /\ cs[r[p]].reg /\ cs[r[p]].cache = <<>> /\ cs[r[p]].ctrl = s
    BY <1>2, <1>7, <1>8, <1>11, <1>16 DEF Page
  <2>2. Fine(cs[r[p]], Other(p), r[Other(p)], cs[r[Other(p)]].rebound)
    BY <1>3, <1>12, <2>1 DEF Fine
  <2>3. \A d \in DOMAIN cs : cs[d].who = p => d <= r[p] BY <1>2, <1>7, <1>8, <1>16 DEF Page
  <2>4. r[p] # 0 BY <2>1
  <2>5. Seated(cs, r, p) BY <1>16, <2>1, <2>2 DEF Seated
  <2> QED BY <1>16, <2>1, <2>3, <2>4, <2>5 DEF AtPage
<1>22. \A d \in DOMAIN cs : OK(cs[d]) BY <1>14, <1>16
<1> QED BY <1>19, <1>20, <1>21, <1>22, Zenon DEF RInv

\* Every step keeps the invariant.
LEMMA RelayNext == ASSUME RInv(st), [Next]_st PROVE RInv(st')
<1>1. CASE UNCHANGED st BY <1>1
<1>2. CASE Next
  <2>1. CASE \E p \in Page :
               \/ openSocket(p) \/ challenge(p) \/ resumeOk(p) \/ peerResumed(p) \/ peerDropped(p)
               \/ close(p) \/ resumeActiveTunnels(p) \/ scheduleReconnect(p)
    BY <2>1, OpenKeeps, ChallengeKeeps, NoticeKeeps, CloseKeeps, ReloadKeeps, ReconnectKeeps
  <2>2. CASE \E c \in Conns(st) :
               \/ \E k \in 0 .. Len(st.conns[c].in) : breaks(c, k)
               \/ handle_message(c) \/ rebind_match_conn(c) \/ Resume(c)
               \/ relay_to_other(c) \/ CtrlMsg(c) \/ disconnect(c)
    BY <2>2, BreakKeeps, ConnectKeeps, RebindKeeps, ResumeKeeps, RelayKeeps, ControlKeeps, DisconnectKeeps
  <2> QED BY <1>2, <2>1, <2>2, Zenon DEF Next, Step
<1> QED BY <1>1, <1>2

\* The relay and its two pages, in every order of steps.
RelaySpec == Init /\ [][Next]_st

\* However many connections the two pages go through, and however sockets break, reloads,
\* resumes, evicts and the ends of the server's tasks interleave: a connection routes by a copy
\* of the match record that names the other seat's present connection, unless the evict or the
\* resume that replaces it is under way (relay_to_other, rebind_match_conn, CtrlMsg); and once
\* both pages are connected and nothing is under way, the record names the connections they
\* hold, unless an older connection's frames were read after the newer had resumed.
THEOREM RelayRoutesCurrent == RelaySpec => [](Routed(st) /\ Reachable(st))
<1>1. RInv(st) => Routed(st)
  <2> SUFFICES ASSUME RInv(st), NEW p \in Page
               PROVE  LET r == st.store
                          c == st.conns[r[p]]
                      IN c.open /\ c.net /\ c.cache # <<>> /\ c.cache[1][Other(p)] # r[Other(p)]
                           => \/ \E i \in DOMAIN c.ctrl : c.ctrl[i].t = "evict"
                              \/ st.conns[r[Other(p)]].rebound
    BY Zenon DEF Routed
  <2>1. Fine(st.conns[st.store[p]], Other(p), st.store[Other(p)], st.conns[st.store[Other(p)]].rebound)
    BY DEF RInv, Seated
  <2> QED BY <2>1, Zenon DEF Fine, HasEvict
<1>2. RInv(st) => Reachable(st)
  <2> SUFFICES ASSUME RInv(st), ~st.overtaken, Quiet(st), \A p \in Page : Online(st, p), NEW p \in Page
               PROVE  st.store[p] = st.ws[p]
    BY Zenon DEF Reachable
  <2>1. st.opened[p] /\ st.conns[st.ws[p]].net BY DEF Online
  <2>2. st.ws[p] \in DOMAIN st.conns /\ (st.store[p] = st.ws[p] \/ HasResume(st.conns[st.ws[p]]))
    BY <2>1, Zenon DEF RInv, AtPage
  <2>3. st.conns[st.ws[p]].open BY <2>1, <2>2, Parts DEF OK
  <2>4. st.conns[st.ws[p]].in = <<>> BY <2>2, <2>3 DEF Quiet, Conns
  <2>5. ~HasResume(st.conns[st.ws[p]]) BY <2>4 DEF HasResume
  <2> QED BY <2>2, <2>5
<1>3. Init => RInv(st) BY RelayInit
<1>4. RInv(st) /\ [Next]_st => RInv(st)' BY RelayNext
<1> QED BY <1>1, <1>2, <1>3, <1>4, PTL DEF RelaySpec

=============================================================================

---------------------------- MODULE WorldCanvas ----------------------------
(***************************************************************************)
(* The shared canvas: the co-signed strokes of two painters                *)
(* (sui-tunnel-ts/src/protocol/worldCanvasPvp.ts), the buffer the browser  *)
(* keeps of what its player drew (games/worldCanvas/usePvpWorldCanvas.ts), *)
(* the reload of a page (pvpResumeAdapter.ts), and the paint encoding of   *)
(* the solo wall (worldCanvas.ts).  A proposal and its acknowledgement are *)
(* two steps: the proposer's own picture already shows what it proposed.   *)
(* One of the two symmetric axes is kept, and no colour.                   *)
(***************************************************************************)
EXTENDS GameBase, Sequences, SequencesExt, FiniteSets

CONSTANTS CHUNK_SIZE, MAX_BATCH_CELLS, MAX_RENDER_CELLS, BOT_RUN, WORLD_CANVAS_UPDATE_CAP,
          Coords,      \* global coordinates a player may draw at
          MaxPaint,    \* bound: cells a player draws
          Width,       \* bits of a chunk index (64 in the code)
          Reloads      \* bound: page reloads

VARIABLES st,   \* the co-signed canvas, and the proposal under way
          own   \* per seat: what its browser holds

vars == <<st, own>>

-----------------------------------------------------------------------------
\* Coordinates.

\* A global pixel as a chunk and a cell in it.  floor, so that the cell is in
\* range on the negative side too.
toCellMove(gx, seq) ==
    LET cx == gx \div CHUNK_SIZE
    IN  [cx |-> cx, x |-> gx - cx * CHUNK_SIZE, seq |-> seq]

isLegalCell(c) == c.x \in 0..(CHUNK_SIZE - 1) /\ c.seq >= 0

\* (n << 1) ^ (n >> 63) of a signed index.
zigzag64(n) == IF n < 0 THEN -2 * n - 1 ELSE 2 * n

\* The bytes of one paint on the solo wall.
encodeWorldCanvasMove(m, by) == <<by, zigzag64(m.cx), m.x>>

-----------------------------------------------------------------------------
\* The co-signed canvas.

\* One cell of a run: folded once, if its number is past the seat's cursor.
FoldCell(s, by, c) ==
    IF c.seq <= s.cursor[by] THEN s
    ELSE [s EXCEPT !.cursor[by] = c.seq,
                   !.ink = Append(@, [gx |-> c.cx * CHUNK_SIZE + c.x, by |-> by, pseq |-> c.seq])]

\* applyMove: `ink` is the sequence the rolling digest folds, of which only
\* the last MAX_RENDER_CELLS are kept for drawing.
applyMove(s, by, run) ==
    LET folded == FoldLeft(LAMBDA acc, c : FoldCell(acc, by, c), s, run)
    IN  [folded EXCEPT !.updates = IF Len(folded.ink) > Len(s.ink) THEN @ + 1 ELSE @]

isTerminal(s) == s.updates >= WORLD_CANVAS_UPDATE_CAP

\* deriveView: the cells still kept of what a seat displays.
display(s, by) ==
    IF s.prop = <<>> \/ s.prop[1].by # by THEN s ELSE applyMove(s, by, s.prop[1].run)
view(s) ==
    SubSeq(s.ink, IF Len(s.ink) > MAX_RENDER_CELLS THEN Len(s.ink) - MAX_RENDER_CELLS + 1 ELSE 1,
           Len(s.ink))

\* randomMove: a run of fresh cells from the seat's cursor on, walking from
\* where the seat last drew.
randomMove(s, by) ==
    LET mine == SelectSeq(view(s), LAMBDA c : c.by = by)
        from == IF mine = <<>> THEN 0 ELSE mine[Len(mine)].gx
    IN  [i \in 1..BOT_RUN |-> toCellMove(from + i, s.cursor[by] + i)]

-----------------------------------------------------------------------------
\* The browser of a seat.

flush(o) == SubSeq(o.pending, 1, Lesser(MAX_BATCH_CELLS, Len(o.pending)))

\* The effect that runs when the picture or the auto switch changes: the
\* highest number of mine it shows is confirmed, and leaves the buffer.
MyMax(o, by, cells) ==
    LET mine == {o.confirmed} \cup {cells[i].pseq : i \in {i \in DOMAIN cells : cells[i].by = by}}
    IN  CHOOSE n \in mine : \A m \in mine : m <= n
\* Variant: a cold browser keeps counting from its own memory.
onViewNoReseed(o, by, cells) ==
    LET myMax == MyMax(o, by, cells)
        kept == IF o.auto THEN <<>> ELSE SelectSeq(o.pending, LAMBDA c : c.seq > myMax)
    IN  [o EXCEPT !.confirmed = myMax, !.pending = kept, !.intent = kept]

onView(o, by, cells) ==
    LET myMax == MyMax(o, by, cells)
        kept == IF o.auto THEN <<>> ELSE SelectSeq(o.pending, LAMBDA c : c.seq > myMax)
        next == [o EXCEPT !.confirmed = myMax, !.pending = kept,
                          !.nextSeq = IF @ <= myMax THEN myMax + 1 ELSE @]
    IN  IF o.auto THEN next ELSE [next EXCEPT !.intent = flush(next)]

\* The tally of my own cells for the activity feed: those past the last seen.
tallyPaints(o, by, s) ==
    LET from == IF Len(s.ink) > MAX_RENDER_CELLS THEN Len(s.ink) - MAX_RENDER_CELLS ELSE 0
        new == {i \in (from + 1)..Len(s.ink) : s.ink[i].by = by /\ i > o.seen}
    IN  [o EXCEPT !.tally = @ + Cardinality(new),
                  !.seen = IF new = {} THEN @ ELSE CHOOSE i \in new : \A j \in new : j <= i]

Sync(o, by, s) == tallyPaints(onView(o, by, view(display(s, by))), by, display(s, by))

freshBrowser ==
    [pending |-> <<>>, nextSeq |-> 1, confirmed |-> 0, intent |-> <<>>, seen |-> 0, tally |-> 0]
Fresh == freshBrowser @@ [auto |-> FALSE, drawn |-> 0, gaveUp |-> 0, reloads |-> 0]

Init ==
    /\ st = [ink |-> <<>>, cursor |-> [p \in Party |-> 0], updates |-> 0, turn |-> "A", prop |-> <<>>]
    /\ own = [p \in Party |-> Fresh]

\* paint(): stamp the cell, queue it, offer the head of the queue.
paint(p) ==
    /\ ~own[p].auto
    /\ own[p].drawn < MaxPaint
    /\ \E gx \in Coords :
          LET o == [own[p] EXCEPT !.pending = Append(@, toCellMove(gx, own[p].nextSeq)),
                                  !.nextSeq = @ + 1, !.drawn = @ + 1]
          IN  own' = [own EXCEPT ![p] = [o EXCEPT !.intent = flush(o)]]
    /\ UNCHANGED st

\* toggleAuto: hand the seat to the bot, or take it back.  What was still
\* queued is dropped when the bot takes over.
toggleAuto(p) ==
    /\ LET o == [own[p] EXCEPT !.auto = ~@, !.intent = <<>>,
                               !.gaveUp = IF own[p].auto THEN @ ELSE @ + Len(own[p].pending)]
       IN  own' = [own EXCEPT ![p] = Sync(o, p, st)]
    /\ UNCHANGED st

\* The propose timer of the seat whose turn it is.
propose(p) ==
    /\ st.turn = p /\ st.prop = <<>> /\ ~isTerminal(st)
    /\ LET run == IF own[p].auto THEN randomMove(st, p) ELSE own[p].intent
       IN  /\ Len(run) <= MAX_BATCH_CELLS
           /\ st' = [st EXCEPT !.prop = <<[by |-> p, run |-> run]>>]
           /\ own' = [own EXCEPT ![p] =
                         Sync(IF own[p].auto THEN @ ELSE [@ EXCEPT !.intent = <<>>], p, st')]

\* The other seat co-signs: both pictures show the move.
confirm ==
    /\ st.prop # <<>>
    /\ \A i \in DOMAIN st.prop[1].run : isLegalCell(st.prop[1].run[i])
    /\ LET by == st.prop[1].by
       IN  st' = [applyMove(st, by, st.prop[1].run) EXCEPT !.prop = <<>>, !.turn = otherParty(by)]
    /\ own' = [p \in Party |-> Sync(own[p], p, st')]

\* A cold reload: the canvas and the move under way come back from storage,
\* the buffer and the counters of the page do not.
reload(p) ==
    /\ own[p].reloads < Reloads
    /\ own' = [own EXCEPT ![p] =
                  Sync(freshBrowser @@ [auto |-> FALSE, drawn |-> own[p].drawn,
                                        gaveUp |-> own[p].gaveUp + Len(own[p].pending),
                                        reloads |-> own[p].reloads + 1], p, st)]
    /\ UNCHANGED st

Next == (\E p \in Party : paint(p) \/ toggleAuto(p) \/ propose(p) \/ reload(p)) \/ confirm

-----------------------------------------------------------------------------
\* What a player drew is on the wall, under way or still queued, each cell
\* once: nothing is folded twice and nothing is lost, except what was queued
\* when the player gave the seat to the bot or reloaded the page.
DrawnOnce ==
    \A p \in Party :
       LET wall == display(st, p).ink
           seqs == {wall[i].pseq : i \in {i \in DOMAIN wall : wall[i].by = p}}
           mine == Cardinality({i \in DOMAIN wall : wall[i].by = p})
       IN  /\ mine = Cardinality(seqs)
           /\ \A i \in DOMAIN own[p].pending : own[p].pending[i].seq \notin seqs
           /\ mine + Len(own[p].pending) + own[p].gaveUp >= own[p].drawn

\* "so we never re-stamp a seq the seat already folded": the next cell a
\* player draws is past the seat's cursor, or it would silently be skipped.
SeedAboveCursor == \A p \in Party : own[p].nextSeq > display(st, p).cursor[p]

\* The activity feed counts each of my cells once.
CountedOnce ==
    \A p \in Party :
       LET wall == display(st, p).ink
       IN  own[p].tally = Cardinality({i \in DOMAIN wall : wall[i].by = p})

\* A co-signer never has to refuse a cell the other browser drew.
OfferedIsLegal ==
    st.prop # <<>> => \A i \in DOMAIN st.prop[1].run : isLegalCell(st.prop[1].run[i])

\* Two different paints never have the same bytes, on either side of zero.
PaintsDistinct ==
    LET range == (-(2^(Width - 1)))..(2^(Width - 1) - 1)
    IN  /\ \A n \in range : zigzag64(n) \in 0..(2^Width - 1)
        /\ \A n, m \in range : n # m => encodeWorldCanvasMove([cx |-> n, x |-> 0], "A")
                                       # encodeWorldCanvasMove([cx |-> m, x |-> 0], "A")

Terminal == isTerminal(st)
=============================================================================

---------------------------- MODULE DesktopFloor ----------------------------
(***************************************************************************)
(* One workspace floor of the desktop: windows docked in a grid, minimised *)
(* or floating, moved by gestures that outlive the render they started in, *)
(* and mirrored to localStorage store by store.  A floating window is      *)
(* modelled on one axis; its other axis has the same code.  A drag ends    *)
(* before the floor is left or changes its width.                          *)
(***************************************************************************)
EXTENDS Integers, Sequences, SequencesExt, FiniteSets, TLC

CONSTANTS Modules, Spares,      \* seeded window ids 1..n, and ids for added ones
          TileW, TileH, COLS,
          Breakpoints,          \* column counts of the floor
          MaxRow, MaxH,         \* bounds of the gestures
          Gestures,             \* of "grid", "stores", "float", "views", "disk"
          Screen, FloatW, MIN_W, STEP

VARIABLE st

Lo(a, b) == IF a < b THEN a ELSE b
Hi(a, b) == IF a > b THEN a ELSE b
clamp(n, lo, hi) == Hi(lo, Lo(hi, n))
gameOf(id) == IF id \in Modules THEN id ELSE ((id - 1) % Cardinality(Modules)) + 1
IdsOf(items) == {items[i].id : i \in DOMAIN items}
Names(set) == {item.id : item \in set}

-----------------------------------------------------------------------------
\* The grid engine.
collides(a, b) ==
    /\ a.id # b.id
    /\ a.x < b.x + b.w /\ a.x + a.w > b.x
    /\ a.y < b.y + b.h /\ a.y + a.h > b.y
Rows(items) == 0..FoldLeft(LAMBDA sum, item : sum + item.h, MaxRow + MaxH, items)
Clear(items, item) == \A i \in DOMAIN items : ~collides(items[i], item)
byRowThenCol(a, b) == a.y < b.y \/ (a.y = b.y /\ a.x < b.x)

settle(settled, item) ==
    LET rows == {y \in Rows(settled) : Clear(settled, [item EXCEPT !.y = y])}
    IN  Append(settled, [item EXCEPT !.y = CHOOSE y \in rows : \A z \in rows : y <= z])
compact(layout) ==
    LET settled == FoldLeft(settle, <<>>, SortSeq(layout, byRowThenCol))
    IN  [i \in DOMAIN layout |-> SelectSeq(settled, LAMBDA w : w.id = layout[i].id)[1]]

At(layout, id) == CHOOSE i \in DOMAIN layout : layout[i].id = id

RECURSIVE resolveCollisions(_, _)
Push(layout, moved, id) == [layout EXCEPT ![At(layout, id)].y = moved.y + moved.h]
resolveCollisions(layout, moved) ==
    LET hit == SortSeq(SelectSeq(layout, LAMBDA w : collides(w, moved)), LAMBDA a, b : a.y < b.y)
        shove(acc, w) ==
            LET now == SelectSeq(acc, LAMBDA v : v.id = w.id)[1]
            IN  IF ~collides(now, moved) THEN acc
                ELSE resolveCollisions(Push(acc, moved, w.id),
                                       [now EXCEPT !.y = moved.y + moved.h])
    IN  FoldLeft(shove, layout, hit)
Place(layout, item) == resolveCollisions([layout EXCEPT ![At(layout, item.id)] = item], item)
moveItem(layout, id, x, y, cols) ==
    IF id \notin IdsOf(layout) THEN layout
    ELSE LET w == layout[At(layout, id)]
         IN  Place(layout, [w EXCEPT !.x = clamp(x, 0, cols - w.w), !.y = Hi(0, y)])
resizeItem(layout, id, w, h, cols) ==
    IF id \notin IdsOf(layout) THEN layout
    ELSE LET t == layout[At(layout, id)]
         IN  Place(layout, [t EXCEPT !.w = clamp(w, TileW, Hi(TileW, cols - t.x)), !.h = Hi(TileH, h)])
fitToColumns(layout, cols) ==
    compact([i \in DOMAIN layout |->
               LET w == Lo(layout[i].w, cols)
               IN  [layout[i] EXCEPT !.w = w, !.x = clamp(@, 0, cols - w)]])

\* First-fit packing over the widest breakpoint.
tileNext(placed, item) ==
    LET spots == {s \in Rows(Append(placed, item)) \X (0..(COLS - Lo(item.w, COLS))) :
                    Clear(placed, [item EXCEPT !.y = s[1], !.x = s[2], !.w = Lo(@, COLS)])}
        best == CHOOSE s \in spots : \A t \in spots : s[1] * COLS + s[2] <= t[1] * COLS + t[2]
    IN  Append(placed, [item EXCEPT !.y = best[1], !.x = best[2], !.w = Lo(@, COLS)])
tile(items) == FoldLeft(tileNext, <<>>, items)

-----------------------------------------------------------------------------
\* The three stores.  A window off the grid keeps its size; it is placed anew when it is back.
TILE(id) == [id |-> id, x |-> 0, y |-> 0, w |-> TileW, h |-> TileH]
seedLayoutFor == tile(SetToSortSeq({TILE(m) : m \in Modules}, LAMBDA a, b : a.id < b.id))
Seeded == [layout |-> seedLayoutFor, hidden |-> {}, floating |-> {}]
Ids(f) == IdsOf(f.layout) \cup Names(f.hidden) \cup Names(f.floating)
Init ==
    \E cols \in Breakpoints :
      st = [now |-> [Seeded EXCEPT !.layout = IF cols = COLS THEN @ ELSE fitToColumns(@, cols)],
            disk |-> Seeded, cols |-> cols, view |-> "floor", drag |-> <<>>, pan |-> <<>>,
            open |-> Modules, used |-> Modules, sessions |-> Modules, slipped |-> FALSE,
            torn |-> FALSE]
\* The content of a window makes its session as it renders.
Mounted(s) ==
    CASE s.view \in {"floor", "all"} -> Ids(s.now)
      [] s.view = "phone" -> IdsOf(s.now.layout)
      [] OTHER -> {}
Rendered(s) == [s EXCEPT !.sessions = @ \cup Mounted(s)]
Without(layout, id) == SelectSeq(layout, LAMBDA w : w.id # id)
dropKey(set, id) == {item \in set : item.id # id}
Found(items, id) == SelectSeq(items, LAMBDA w : w.id = id)[1]
Item(set, id) == CHOOSE item \in set : item.id = id
Docked(item) == [id |-> item.id, x |-> 0, y |-> 0, w |-> item.w, h |-> item.h]

disposeWindow(s, ids) == [s EXCEPT !.sessions = @ \ ids, !.open = @ \ ids]

Closed(s, id) ==
    Rendered([disposeWindow(s, {id}) EXCEPT !.now.layout = tile(Without(@, id)),
                !.now.hidden = dropKey(@, id), !.now.floating = dropKey(@, id)])
close(id) == st.view # "all" /\ id \in Mounted(st) /\ st' = Closed(st, id)
closeInWorkspace(id) == st.view = "all" /\ id \in Mounted(st) /\ st' = Closed(st, id)
hide(id) ==
    /\ "stores" \in Gestures /\ st.view = "floor" /\ id \in IdsOf(st.now.layout)
    /\ st' = Rendered([st EXCEPT
               !.now.hidden = dropKey(@, id) \cup {Docked(Found(st.now.layout, id))},
               !.now.layout = tile(Without(@, id))])
show(id) ==
    /\ st.view = "floor" /\ id \in Names(st.now.hidden)
    /\ st' = Rendered([st EXCEPT !.now.hidden = dropKey(@, id),
                         !.now.layout = tile(Append(@, Item(st.now.hidden, id)))])
Fresh(s, m) == {id \in Spares \ s.used : gameOf(id) = m}
addWindowTo(s, m) ==
    LET id == CHOOSE id \in Fresh(s, m) : \A i \in Fresh(s, m) : id <= i
    IN  [s EXCEPT !.now.layout = tile(Append(@, TILE(id))), !.used = @ \cup {id},
                  !.open = @ \cup {id}]
openApp(m) ==
    /\ Fresh(st, m) # {} /\ st.drag = <<>>
    /\ \E view \in IF "views" \in Gestures THEN {"floor", "phone"} ELSE {"floor"} :
         st' = Rendered([addWindowTo(st, m) EXCEPT !.view = view])
addAll ==
    LET absent == Modules \ {gameOf(id) : id \in IdsOf(st.now.layout)}
    IN  /\ st.view \in {"floor", "all"} /\ \A m \in absent : Fresh(st, m) # {}
        /\ st' = Rendered(FoldLeft(addWindowTo, st, SetToSortSeq(absent, <)))
disposeAllSessions(s) == disposeWindow(s, Ids(s.now))
confirmReset ==
    /\ st.view \in {"floor", "all"}
    /\ st' = Rendered([disposeAllSessions(st) EXCEPT !.now = Seeded, !.open = Modules])
confirmRemoveAll ==
    /\ st.view \in {"floor", "all"}
    /\ st' = Rendered([disposeAllSessions(st) EXCEPT
                         !.now = [Seeded EXCEPT !.layout = <<>>], !.open = {}])
arrange ==
    /\ st.view \in {"floor", "all"}
    /\ st' = Rendered([st EXCEPT
               !.now.layout = tile([i \in DOMAIN @ |-> [@[i] EXCEPT !.w = TileW, !.h = TileH]])])
goToSection(view) ==
    /\ "views" \in Gestures /\ st.drag = <<>> /\ st.pan = <<>> /\ view # st.view
    /\ IF view # "floor" THEN st' = Rendered([st EXCEPT !.view = view])
       ELSE \E cols \in Breakpoints :      \* the grid measures itself as it mounts
              st' = Rendered([st EXCEPT !.view = view, !.cols = cols,
                      !.now.layout = IF cols = COLS THEN @ ELSE fitToColumns(@, cols)])

-----------------------------------------------------------------------------
\* Gestures on the grid.  A drag keeps the handlers of the render it started in.
dockedOnly(f) == SelectSeq(f.layout, LAMBDA w : w.id \notin Names(f.hidden) \cup Names(f.floating))
mergeDetached(f, next) ==
    next \o SetToSeq(f.hidden) \o SetToSeq({Docked(item) : item \in f.floating})
Closure(s) == Names(s.now.hidden) \cup Names(s.now.floating)
onLayoutChange(s, c, next) ==
    [s EXCEPT
       !.now.layout = SelectSeq(mergeDetached(s.now, next),
                                LAMBDA w : w.id \notin c),
       !.slipped = @ \/ c # Closure(s)]
Grid(id) ==
    /\ "grid" \in Gestures /\ st.view = "floor" /\ id \in IdsOf(dockedOnly(st.now))
Target(mode, box) == IF mode = "drag" THEN <<box.x, box.y>> ELSE <<box.w, box.h>>
startInteraction(id, mode) ==
    /\ Grid(id) /\ st.drag = <<>>
    /\ st' = [st EXCEPT !.drag = <<[id |-> id, mode |-> mode, closure |-> Closure(st),
                                    ph |-> Target(mode, Found(st.now.layout, id))]>>]
Landed(next, d) == IF d.id \in IdsOf(next) THEN Target(d.mode, Found(next, d.id)) ELSE d.ph
apply(d) ==
    \E a \in 0..COLS, b \in 0..MaxRow :
      LET to == IF d.mode = "drag" THEN <<a, b>> ELSE <<Hi(TileW, a), Lo(MaxH, Hi(TileH, b))>>
          docked == dockedOnly(st.now)
          next == IF d.mode = "drag" THEN moveItem(docked, d.id, to[1], to[2], st.cols)
                  ELSE resizeItem(docked, d.id, to[1], to[2], st.cols)
      IN  /\ Landed(next, d) # d.ph
          /\ st' = [onLayoutChange(st, d.closure, next) EXCEPT !.drag[1].ph = Landed(next, d)]
onUp(d) ==
    st' = Rendered([onLayoutChange(st, d.closure, compact(dockedOnly(st.now))) EXCEPT !.drag = <<>>])
onHandleKeyDown(id) ==
    /\ Grid(id)
    /\ \E dir \in {<<-1, 0>>, <<1, 0>>, <<0, -1>>, <<0, 1>>}, resize \in BOOLEAN :
         LET it == Found(st.now.layout, id)
             docked == dockedOnly(st.now)
         IN  /\ it.y + dir[2] <= MaxRow /\ it.h + dir[2] <= MaxH
             /\ st' = Rendered(onLayoutChange(st, Closure(st),
                        IF resize THEN resizeItem(docked, id, it.w + dir[1], it.h + dir[2], st.cols)
                        ELSE moveItem(docked, id, it.x + dir[1], it.y + dir[2], st.cols)))
refit(cols) ==
    /\ "grid" \in Gestures /\ st.view = "floor" /\ st.drag = <<>> /\ cols # st.cols
    /\ st' = [onLayoutChange(st, Closure(st), fitToColumns(dockedOnly(st.now), cols)) EXCEPT
                !.cols = cols]

-----------------------------------------------------------------------------
\* Floating windows.
Float(item, x, w) == [id |-> item.id, w |-> item.w, h |-> item.h, left |-> x, wide |-> w]
floatWindow(id) ==
    /\ "stores" \in Gestures /\ st.view = "floor" /\ id \in IdsOf(st.now.layout) \ Names(st.now.floating)
    /\ LET x == clamp((Screen - FloatW) \div 2 + Cardinality(st.now.floating), 0, Screen - FloatW)
       IN  st' = Rendered([st EXCEPT
                   !.now.floating = dropKey(@, id) \cup {Float(Found(st.now.layout, id), x, FloatW)},
                   !.now.layout = tile(Without(@, id))])
dockFloat(id) ==
    /\ st.view = "floor" /\ id \in Names(st.now.floating)
    /\ st' = Rendered([st EXCEPT !.now.floating = dropKey(@, id),
               !.now.layout = tile(Append(@, Docked(Item(st.now.floating, id))))])
minimizeFloat(id) ==
    /\ st.view = "floor" /\ id \in Names(st.now.floating)
    /\ st' = Rendered([st EXCEPT !.now.floating = dropKey(@, id),
               !.now.hidden = dropKey(@, id) \cup {Docked(Item(st.now.floating, id))}])
startFloat(id, mode) ==
    /\ "float" \in Gestures /\ st.view = "floor" /\ id \in Names(st.now.floating)
    /\ st.pan = <<>>
    /\ st' = [st EXCEPT !.pan = <<[mode |-> mode, base |-> Item(st.now.floating, id)]>>]
setFloat(s, id, x, w) ==
    [s EXCEPT !.now.floating =
                {IF f.id = id THEN [f EXCEPT !.left = x, !.wide = w] ELSE f : f \in @}]
Pan(s, id, x, w) ==
    [setFloat(s, id, x, w) EXCEPT
       !.slipped = @ \/ \E f \in s.now.floating : f.id = id /\ f.wide # s.pan[1].base.wide]
startFloatDrag(p) ==
    /\ p.mode = "move"
    /\ \E dx \in (-Screen)..Screen :
         LET f == {g \in st.now.floating : g.id = p.base.id}
             x == clamp(p.base.left + dx, 0, Screen - p.base.wide)
         IN  \E g \in f : st' = Pan(st, g.id, x, g.wide)
startFloatResize(p) ==
    \E dx \in (-Screen)..Screen :
      LET edge == p.base.left + p.base.wide
          x == clamp(p.base.left + dx, 0, edge - MIN_W)
      IN  \/ /\ p.mode = "right"
             /\ st' = setFloat(st, p.base.id, p.base.left,
                               clamp(p.base.wide + dx, MIN_W, Screen - p.base.left))
          \/ p.mode = "left" /\ st' = setFloat(st, p.base.id, x, edge - x)
floatUp == st.pan # <<>> /\ st' = Rendered([st EXCEPT !.pan = <<>>])
onFloatKeyDown(id) ==
    /\ "float" \in Gestures /\ st.view = "floor" /\ id \in Names(st.now.floating)
    /\ \E dx \in {-STEP, STEP}, f \in st.now.floating :
         /\ f.id = id
         /\ st' = Rendered(setFloat(st, id, clamp(f.left + dx, 0, Screen - f.wide), f.wide))

-----------------------------------------------------------------------------
\* Each store has its own debounced write, put off for as long as a gesture keeps changing
\* it; a reload reads what was written.
useLocalStorageState ==
    LET moving == (IF st.drag = <<>> THEN {} ELSE {"layout"})
                    \cup (IF st.pan = <<>> THEN {} ELSE {"floating"})
        disk == [key \in DOMAIN st.disk |-> IF key \in moving THEN st.disk[key] ELSE st.now[key]]
    IN  /\ "disk" \in Gestures /\ disk # st.disk
        /\ st' = [st EXCEPT !.disk = disk, !.torn = disk # st.now]
Reload ==
    /\ "disk" \in Gestures
    /\ \E view \in {"phone", "all"} :
         st' = Rendered([st EXCEPT !.now = st.disk, !.view = view, !.drag = <<>>, !.pan = <<>>,
                           !.sessions = {}, !.open = Ids(st.disk), !.slipped = @ \/ st.torn])

Step ==
    \/ addAll \/ confirmReset \/ confirmRemoveAll \/ arrange \/ floatUp \/ Reload \/ useLocalStorageState
    \/ \E id \in Modules \cup Spares :
         \/ close(id) \/ closeInWorkspace(id) \/ hide(id) \/ show(id)
         \/ floatWindow(id) \/ dockFloat(id) \/ minimizeFloat(id)
         \/ onHandleKeyDown(id) \/ onFloatKeyDown(id)
         \/ \E mode \in {"drag", "resize"} : startInteraction(id, mode)
         \/ \E mode \in {"move", "left", "right"} : startFloat(id, mode)
    \/ \E m \in Modules : openApp(m)
    \/ \E view \in {"floor", "phone", "all", "away"} : goToSection(view)
    \/ \E cols \in Breakpoints : refit(cols)
    \/ \E i \in DOMAIN st.drag : apply(st.drag[i]) \/ onUp(st.drag[i])
    \/ \E i \in DOMAIN st.pan : startFloatDrag(st.pan[i]) \/ startFloatResize(st.pan[i])

Next == ~st.slipped /\ Step     \* nothing is claimed of a floor that has slipped

-----------------------------------------------------------------------------
\* No two docked windows overlap, in the middle of a drag included, and every window is
\* inside the widest grid or on the screen.
Tidy(s) ==
    s.slipped \/
    /\ \A i \in DOMAIN s.now.layout :
         /\ Clear(s.now.layout, s.now.layout[i])
         /\ s.now.layout[i].x >= 0 /\ s.now.layout[i].x + s.now.layout[i].w <= COLS
    /\ \A f \in s.now.floating : f.left >= 0 /\ f.wide >= MIN_W /\ f.left + f.wide <= Screen
\* Every window that was opened and not closed is in exactly one store, no closed one is in
\* any, and only open windows have a live session: unless a window changed store in the
\* middle of a drag, whose handler still filters by the stores it started with, or the page
\* was reloaded with one store's write put off by a gesture.
OneStore(s) ==
    s.slipped \/
    /\ Len(s.now.layout) + Cardinality(s.now.hidden) + Cardinality(s.now.floating)
         = Cardinality(s.open)
    /\ Ids(s.now) = s.open
    /\ s.sessions \subseteq s.open
=============================================================================

------------------------------- MODULE Twland -------------------------------
(***************************************************************************)
(* The twland compositor while it serves one client: shm pools and         *)
(* buffers, surfaces with an xdg or a layer role, the window list that is  *)
(* also the stacking order, the layout of layer surfaces, focus, hit       *)
(* testing and dragging.                                                   *)
(*                                                                         *)
(* An xdg_surface, its toplevel and a layer surface are named by the       *)
(* wl_surface they belong to.  Every request is an operator from the       *)
(* state of the client to the next; a protocol error disconnects it.       *)
(***************************************************************************)
EXTENDS Integers, Sequences, FiniteSets, SequencesExt

CONSTANTS
    Surfs, Bufs, Pools,
    BufSize,        \* buffer -> <<width, height>>
    Output,         \* <<0, 0, width, height>>
    Border, Titlebar, CloseSize, CloseInset, FirstAt, Cascade,
    LayerProps,     \* property sets a client gives its layer surfaces
    PointerAt,      \* positions the pointer is moved to
    NoSurf, NoBuf, NullBuf,
    MaxReq          \* bound: requests and input events

VARIABLES
    tl,             \* the client and the compositor's state for it
    tlReq           \* steps so far

tlVars == <<tl, tlReq>>

Layers == 0..3      \* Background, Bottom, Top, Overlay
PropKeys == {"w", "h", "anchor", "zone", "margin", "kbd", "layer"}

ASSUME TwlandSizes ==
    /\ BufSize \in [Bufs -> Nat \X Nat]
    /\ Border \in Nat /\ Titlebar \in Nat /\ CloseSize \in Nat
    /\ CloseInset \in Nat /\ FirstAt \in Nat /\ Cascade \in Nat
    /\ \A p \in LayerProps : DOMAIN p = PropKeys /\ p.layer \in Layers
    /\ MaxReq \in Nat

RectHas(r, x, y) == x >= r[1] /\ y >= r[2] /\ x < r[1] + r[3] /\ y < r[2] + r[4]
AtLeast(a, b) == IF a > b THEN a ELSE b
NoMore(a, b) == IF a < b THEN a ELSE b
Clamp(v, lo, hi) == NoMore(AtLeast(v, lo), hi)

-----------------------------------------------------------------------------
(* Layout of layer surfaces: anchors are subsets of the four edges *)

Inset(p, src) ==
    LET l == IF "left" \in p.anchor THEN p.margin.left ELSE 0
        r == IF "right" \in p.anchor THEN p.margin.right ELSE 0
        t == IF "top" \in p.anchor THEN p.margin.top ELSE 0
        b == IF "bottom" \in p.anchor THEN p.margin.bottom ELSE 0
    IN <<src[1] + l, src[2] + t, AtLeast(src[3] - l - r, 0), AtLeast(src[4] - t - b, 0)>>

Fills(p, a, b) == {a, b} \subseteq p.anchor

Validate(p) ==
    /\ p.w = 0 => Fills(p, "left", "right")
    /\ p.h = 0 => Fills(p, "top", "bottom")

\* Where one axis starts: at the near edge, at the far edge, or centred.
AxisStart(p, near, far, from, room, size) ==
    IF near \in p.anchor /\ far \notin p.anchor THEN from
    ELSE IF far \in p.anchor /\ near \notin p.anchor THEN from + room - size
    ELSE from + (IF room >= size THEN (room - size) \div 2 ELSE -((size - room) \div 2))

Place(p, usable, size) ==
    LET src == Inset(p, IF p.zone < 0 THEN Output ELSE usable)
    IN <<AxisStart(p, "left", "right", src[1], src[3], size[1]),
         AxisStart(p, "top", "bottom", src[2], src[4], size[2]),
         size[1], size[2]>>

Opposite(e) == CASE e = "top" -> "bottom" [] e = "bottom" -> "top"
                 [] e = "left" -> "right" [] OTHER -> "left"

\* The edge an exclusive zone belongs to: one anchor, or the middle of three.
ExclusiveEdge(anchor) ==
    IF Cardinality(anchor) = 1 THEN anchor
    ELSE IF Cardinality(anchor) = 3 THEN {e \in anchor : Opposite(e) \notin anchor}
    ELSE {}

Reserve(usable, p) ==
    LET edge == IF p.zone > 0 THEN ExclusiveEdge(p.anchor) ELSE {}
        cut(e, room) == NoMore(AtLeast(p.zone + p.margin[e], 0), room)
        x == usable[1] y == usable[2] wd == usable[3] ht == usable[4]
    IN CASE edge = {} -> usable
         [] edge = {"top"} -> <<x, y + cut("top", ht), wd, ht - cut("top", ht)>>
         [] edge = {"bottom"} -> <<x, y, wd, ht - cut("bottom", ht)>>
         [] edge = {"left"} -> <<x + cut("left", wd), y, wd - cut("left", wd), ht>>
         [] OTHER -> <<x, y, wd - cut("right", wd), ht>>

-----------------------------------------------------------------------------
(* State *)

NewSurface == [live |-> TRUE, buf |-> NoBuf, pbuf |-> NoBuf, role |-> "none",
               committed |-> FALSE, mapped |-> FALSE, frames |-> 0, x |-> 0, y |-> 0]
DeadSurface == [NewSurface EXCEPT !.live = FALSE]
NoXdg == [live |-> FALSE, conf |-> FALSE, pend |-> 0, top |-> FALSE]
NoMargin == [top |-> 0, right |-> 0, bottom |-> 0, left |-> 0]
InitialProps(layer) == [w |-> 0, h |-> 0, anchor |-> {}, zone |-> 0,
                        margin |-> NoMargin, kbd |-> "none", layer |-> layer]
NewLayer(layer) == [live |-> TRUE, layer0 |-> layer, cur |-> InitialProps(layer),
                    pend |-> InitialProps(layer), sent |-> FALSE, confs |-> <<>>,
                    acked |-> FALSE, mapped |-> FALSE, geom |-> <<>>]
NoLayer == [NewLayer(0) EXCEPT !.live = FALSE]

Fresh ==
    [surf |-> [s \in Surfs |-> DeadSurface],
     xdg |-> [s \in Surfs |-> NoXdg], lay |-> [s \in Surfs |-> NoLayer],
     order |-> <<>>, wins |-> <<>>, cfocus |-> NoSurf, ifocus |-> NoSurf,
     seat |-> FALSE, kfocus |-> NoSurf, pfocus |-> NoSurf, drag |-> <<>>,
     px |-> FirstAt, py |-> FirstAt,
     bufs |-> [b \in Bufs |-> {}], pools |-> [p \in Pools |-> "none"],
     serial |-> 1, offset |-> 0, usable |-> Output, dirty |-> TRUE,
     \* what the client has been sent and not yet acknowledged, and histories
     todo |-> [s \in Surfs |-> <<>>], ackd |-> [s \in Surfs |-> FALSE],
     shown |-> <<<<>>, [n \in 1..4 |-> <<>>]>>, astray |-> FALSE, refused |-> FALSE, gone |-> FALSE]

Gone(w) == [Fresh EXCEPT !.gone = TRUE, !.refused = w.refused]

Size(w, s) == IF w.surf[s].buf \in Bufs /\ w.bufs[w.surf[s].buf] # {}
              THEN <<BufSize[w.surf[s].buf]>> ELSE <<>>

-----------------------------------------------------------------------------
(* Layout and redraw *)

LayerIds(w, layer) ==
    SelectSeq(w.order, LAMBDA s : w.lay[s].mapped /\ w.lay[s].cur.layer = layer)

\* What each drawing routine leaves on the screen.
DrawLayer(w, layer) ==
    [i \in 1..Len(LayerIds(w, layer)) |->
        LET s == LayerIds(w, layer)[i] IN <<s, w.surf[s].x, w.surf[s].y>>]
DrawWindow(w, win) == <<win, win.s = w.cfocus>>

Scene(w) == <<[i \in 1..Len(w.wins) |-> DrawWindow(w, w.wins[i])],
              [n \in 1..4 |-> DrawLayer(w, n - 1)]>>

SyncSurface(w, win) ==
    [w EXCEPT !.surf[win.s].x = win.x + Border,
              !.surf[win.s].y = win.y + Titlebar + Border]

Arrange(w) ==
    LET on(n, excl) == SelectSeq(LayerIds(w, n), LAMBDA s : (w.lay[s].cur.zone > 0) = excl)
        excls == on(3, TRUE) \o on(2, TRUE) \o on(1, TRUE) \o on(0, TRUE)
        others == SelectSeq(w.order, LAMBDA s : w.lay[s].mapped /\ w.lay[s].cur.zone <= 0)
        step(acc, s) ==
            IF Size(w, s) = <<>> THEN acc
            ELSE [w |-> [acc.w EXCEPT !.lay[s].geom =
                            Place(acc.w.lay[s].cur, acc.u, Size(w, s)[1])],
                  u |-> Reserve(acc.u, acc.w.lay[s].cur)]
        done(out) == [out.w EXCEPT !.usable = out.u]
    IN done(FoldLeft(step, [w |-> w, u |-> Output], excls \o others))

RefreshLayout(w) ==
    LET layers(a) == [a EXCEPT !.surf = [s \in Surfs |->
            IF Contains(a.order, s) /\ a.lay[s].mapped /\ a.lay[s].geom # <<>>
            THEN [a.surf[s] EXCEPT !.x = a.lay[s].geom[1], !.y = a.lay[s].geom[2]]
            ELSE a.surf[s]]]
        inside(n, u) ==
            [n EXCEPT !.x = Clamp(@, u[1], u[1] + AtLeast(u[3] - (n.w + 2 * Border), 0)),
                      !.y = Clamp(@, u[2],
                                  u[2] + AtLeast(u[4] - (n.h + Titlebar + 2 * Border), 0))]
        windows(b) == [b EXCEPT !.wins = [i \in DOMAIN @ |-> inside(@[i], b.usable)],
                                !.dirty = FALSE]
        synced(c) == FoldLeft(SyncSurface, c, c.wins)
    IN synced(windows(layers(Arrange(w))))

EnsureLayout(w) == IF w.dirty THEN RefreshLayout(w) ELSE w

Redraw(w) == LET drawn(x) == [x EXCEPT !.shown = Scene(x)] IN drawn(EnsureLayout(w))

-----------------------------------------------------------------------------
(* Hit testing and focus *)

Topmost(w, layer, x, y) ==
    LET hits == SelectSeq(LayerIds(w, layer), LAMBDA s :
                    w.lay[s].geom # <<>> /\ RectHas(w.lay[s].geom, x, y))
    IN IF hits = <<>> THEN NoSurf ELSE Last(hits)

OuterRect(n) == <<n.x, n.y, n.w + 2 * Border, n.h + Titlebar + 2 * Border>>

HitWindow(w, x, y) ==
    LET close(n) == <<n.x + Border + n.w - CloseSize - CloseInset,
                      n.y + Border + ((Titlebar - CloseSize) \div 2), CloseSize, CloseSize>>
        part(n) == IF RectHas(close(n), x, y) THEN "close"
                   ELSE IF RectHas(<<n.x + Border, n.y + Border, n.w, Titlebar>>, x, y)
                   THEN "title"
                   ELSE IF RectHas(<<n.x + Border, n.y + Titlebar + Border, n.w, n.h>>, x, y)
                   THEN "client" ELSE "border"
        topmost(over) == IF over = <<>> THEN <<"none", NoSurf>>
                         ELSE <<part(Last(over)), Last(over).s>>
    IN topmost(SelectSeq(w.wins, LAMBDA n : RectHas(OuterRect(n), x, y)))

HitTest(w) ==
    LET layer(n) == <<"layer", Topmost(w, n, w.px, w.py)>>
        order == <<layer(3), layer(2), HitWindow(w, w.px, w.py), layer(1), layer(0)>>
        first(hits) == IF hits = <<>> THEN <<"none", NoSurf>> ELSE Head(hits)
    IN first(SelectSeq(order, LAMBDA h : h[2] # NoSurf))

PointerTarget(w) ==
    LET target(hit) == IF hit[1] \in {"client", "layer"} THEN hit[2] ELSE NoSurf
    IN target(HitTest(w))

\* Only a bound seat remembers a focus.
UpdatePointerFocus(w, s) == [w EXCEPT !.pfocus = IF w.seat THEN s ELSE @]
UpdateKeyboardFocus(w, s) == [w EXCEPT !.kfocus = IF w.seat THEN s ELSE @]

ReconcilePointer(w) ==
    LET to(s) == IF w.ifocus # s \/ (w.seat /\ w.pfocus # s)
                 THEN [UpdatePointerFocus(w, s) EXCEPT !.ifocus = s] ELSE w
    IN to(PointerTarget(w))

ExclusiveFocus(w) ==
    LET want(n) == SelectSeq(LayerIds(w, n), LAMBDA s : w.lay[s].cur.kbd = "exclusive")
    IN IF want(3) # <<>> THEN Last(want(3))
       ELSE IF want(2) # <<>> THEN Last(want(2)) ELSE NoSurf

KeepsFocus(w, s) == s \in Surfs /\ w.lay[s].mapped /\ w.lay[s].cur.kbd # "none"

ReconcileKeyboard(w) ==
    UpdateKeyboardFocus(w,
        IF ExclusiveFocus(w) # NoSurf THEN ExclusiveFocus(w)
        ELSE IF KeepsFocus(w, w.kfocus) THEN w.kfocus ELSE w.cfocus)

\* A configure event for the xdg surface of s.
SendConfigure(w, s) ==
    [w EXCEPT !.xdg[s].pend = w.serial, !.serial = @ + 1,
              !.todo[s] = Append(@, w.serial)]

FocusConfigure(w, s) ==
    IF s \in Surfs /\ w.surf[s].role = "xdg" /\ w.xdg[s].top /\ Size(w, s) # <<>>
    THEN SendConfigure(w, s) ELSE w

FocusWindow(w, s) ==
    LET raised == SelectSeq(w.wins, LAMBDA n : n.s # s)
                    \o SelectSeq(w.wins, LAMBDA n : n.s = s)
        keys(x) == UpdateKeyboardFocus(x, IF ExclusiveFocus(x) # NoSurf
                                          THEN ExclusiveFocus(x) ELSE s)
    IN IF w.cfocus = s THEN w
       ELSE Redraw(FocusConfigure(FocusConfigure(
                keys([w EXCEPT !.wins = raised, !.cfocus = s]), w.cfocus), s))

-----------------------------------------------------------------------------
(* The window list *)

\* Seeded fault: leaves the windows below without the focus.
RemoveWindowUnfocused(w, s) ==
    LET focus == IF w.cfocus # s THEN w.cfocus ELSE NoSurf
    IN [w EXCEPT !.wins = SelectSeq(@, LAMBDA n : n.s # s), !.cfocus = focus,
                 !.ifocus = IF @ = s THEN focus ELSE @]

RemoveWindow(w, s) ==
    LET rest == SelectSeq(w.wins, LAMBDA n : n.s # s)
        focus == IF w.cfocus # s THEN w.cfocus
                 ELSE IF rest = <<>> THEN NoSurf ELSE Last(rest).s
    IN [w EXCEPT !.wins = rest, !.cfocus = focus,
                 !.ifocus = IF @ = s THEN focus ELSE @]

MapOrUpdate(w, s, size) ==
    LET i == {j \in 1..Len(w.wins) : w.wins[j].s = s}
        wins == IF i # {}
                THEN [j \in 1..Len(w.wins) |->
                        IF j \in i THEN [w.wins[j] EXCEPT !.w = size[1], !.h = size[2]]
                        ELSE w.wins[j]]
                ELSE Append(w.wins, [s |-> s, x |-> w.surf[s].x, y |-> w.surf[s].y,
                                     w |-> size[1], h |-> size[2]])
        x == IF i # {} THEN [w EXCEPT !.wins = wins]
             ELSE [w EXCEPT !.wins = wins, !.cfocus = s, !.ifocus = s]
    IN SyncSurface(x, CHOOSE n \in Range(wins) : n.s = s)

-----------------------------------------------------------------------------
(* Requests *)

\* cleanup_destroyed_pools
CleanupPools(w) ==
    [w EXCEPT !.pools = [p \in Pools |->
        IF w.pools[p] = "dying" /\ \A b \in Bufs : p \notin w.bufs[b]
        THEN "none" ELSE w.pools[p]]]

CreatePool(w, p) == [w EXCEPT !.pools[p] = "live"]
CreateBuffer(w, b, p) == [w EXCEPT !.bufs[b] = {p}]

DestroyPool(w, p) == CleanupPools([w EXCEPT !.pools[p] = "dying"])
DestroyBuffer(w, b) == CleanupPools([w EXCEPT !.bufs[b] = {}])

BindSeat(w) == [w EXCEPT !.seat = TRUE]

CreateSurface(w, s) == [w EXCEPT !.surf[s] = NewSurface]

GetXdgSurface(w, s) ==
    IF w.surf[s].role # "none" \/ w.surf[s].committed THEN Gone(w)
    ELSE [w EXCEPT !.surf[s].role = "xdg", !.xdg[s] = [NoXdg EXCEPT !.live = TRUE]]

GetToplevel(w, s) ==
    IF w.xdg[s].top THEN Gone(w)
    ELSE [w EXCEPT !.xdg[s].top = TRUE, !.offset = NoMore(@ + Cascade, 8 * Cascade),
                   !.surf[s].x = FirstAt + w.offset, !.surf[s].y = FirstAt + w.offset]

\* ack_configure accepts the last serial only.
AckXdg(w, s, serial) ==
    LET i == CHOOSE j \in 1..Len(w.todo[s]) : w.todo[s][j] = serial
    IN IF w.xdg[s].pend # serial THEN Gone([w EXCEPT !.refused = TRUE])
       ELSE [w EXCEPT !.xdg[s].pend = 0, !.xdg[s].conf = TRUE, !.ackd[s] = TRUE,
                      !.todo[s] = SubSeq(@, i + 1, Len(@))]

DestroyToplevel(w, s) ==
    Redraw(RemoveWindow([w EXCEPT !.xdg[s].top = FALSE], s))

DestroyXdg(w, s) ==
    Redraw(RemoveWindow([w EXCEPT !.xdg[s] = NoXdg, !.surf[s].role = "none",
                                  !.surf[s].mapped = FALSE, !.todo[s] = <<>>,
                                  !.ackd[s] = FALSE], s))

GetLayerSurface(w, s, layer) ==
    IF w.surf[s].role # "none" \/ w.surf[s].committed \/ w.surf[s].buf # NoBuf
          \/ w.surf[s].pbuf # NoBuf THEN Gone(w)
    ELSE [w EXCEPT !.surf[s].role = "layer", !.lay[s] = NewLayer(layer),
                   !.order = Append(@, s)]

SetLayerProps(w, s, p) == [w EXCEPT !.lay[s].pend = p]

AckLayer(w, s, i) ==
    [w EXCEPT !.lay[s].acked = TRUE, !.lay[s].confs = SubSeq(@, i + 1, Len(@))]

RemoveLayer(w, s) ==
    [w EXCEPT !.lay[s] = NoLayer, !.order = SelectSeq(@, LAMBDA t : t # s), !.dirty = TRUE]

DestroyLayer(w, s) ==
    LET x == EnsureLayout([RemoveLayer(w, s) EXCEPT !.surf[s].role = "none",
                                                    !.surf[s].mapped = FALSE])
    IN Redraw(ReconcileKeyboard(ReconcilePointer(x)))

DestroySurface(w, s) ==
    LET x == IF w.surf[s].role = "layer" THEN RemoveLayer(w, s) ELSE w
        y == RemoveWindow([x EXCEPT !.surf[s] = DeadSurface, !.xdg[s] = NoXdg,
                                    !.todo[s] = <<>>, !.ackd[s] = FALSE], s)
        z == IF w.surf[s].role = "layer" THEN EnsureLayout(y) ELSE y
    IN Redraw(ReconcileKeyboard(ReconcilePointer(z)))

Attach(w, s, b) == [w EXCEPT !.surf[s].pbuf = b]
Frame(w, s) == [w EXCEPT !.surf[s].frames = @ + 1]

\* wl_surface.commit of an xdg surface; u is the surface with its new buffer.
UnmapXdg(w, s) ==
    RemoveWindow([w EXCEPT !.surf[s].mapped = FALSE, !.xdg[s].conf = FALSE,
                           !.xdg[s].pend = 0, !.ackd[s] = FALSE, !.todo[s] = <<>>], s)

CommitXdg(w, s, unmapped) ==
    LET b == w.surf[s].buf new == ~w.surf[s].mapped
        \* the surface is written back from the copy taken before the mapping
        map == [MapOrUpdate(w, s, BufSize[b]) EXCEPT
                    !.surf[s] = [w.surf[s] EXCEPT !.mapped = TRUE]]
    IN CASE b \in Bufs /\ (~w.xdg[s].conf \/ ~w.xdg[s].top \/ w.bufs[b] = {}) -> Gone(w)
         [] b \in Bufs /\ w.xdg[s].conf /\ w.xdg[s].top /\ w.bufs[b] # {} ->
              Redraw(IF new THEN ReconcileKeyboard(map) ELSE map)
         [] b \notin Bufs /\ unmapped -> Redraw(ReconcileKeyboard(UnmapXdg(w, s)))
         [] b \notin Bufs /\ ~unmapped /\ ~w.xdg[s].conf /\ w.xdg[s].pend = 0 ->
              IF w.xdg[s].top THEN SendConfigure(w, s) ELSE Gone(w)
         [] OTHER -> w

SendInitialLayerConfigure(w, s) ==
    IF w.lay[s].sent THEN w
    ELSE [w EXCEPT !.lay[s].sent = TRUE, !.serial = @ + 1,
                   !.lay[s].confs = Append(@, w.serial)]

CommitLayer(w, s, unmapped) ==
    LET b == w.surf[s].buf
        x == [w EXCEPT !.lay[s].cur = w.lay[s].pend]
        mapped == [x EXCEPT !.lay[s].mapped = TRUE, !.surf[s].mapped = TRUE, !.dirty = TRUE]
        off == [x EXCEPT !.lay[s] = NewLayer(w.lay[s].layer0), !.surf[s].mapped = FALSE,
                         !.dirty = TRUE]
    IN CASE ~Validate(w.lay[s].pend) -> Gone(w)
         [] b \in Bufs /\ Validate(w.lay[s].pend) ->
              IF ~(w.lay[s].sent /\ w.lay[s].acked) \/ w.bufs[b] = {} THEN Gone(w)
              ELSE Redraw(ReconcileKeyboard(mapped))
         [] b \notin Bufs /\ unmapped /\ Validate(w.lay[s].pend) ->
              Redraw(ReconcileKeyboard(off))
         [] OTHER -> SendInitialLayerConfigure(x, s)

Commit(w, s) ==
    LET u == w.surf[s]
        had == u.buf \in Bufs
        assigned == u.pbuf # NoBuf
        x == [w EXCEPT !.surf[s].buf = IF assigned
                                       THEN (IF u.pbuf = NullBuf THEN NoBuf ELSE u.pbuf) ELSE @,
                       !.surf[s].pbuf = NoBuf, !.surf[s].committed = TRUE,
                       !.surf[s].frames = 0]
    IN CASE u.role = "xdg" -> CommitXdg(x, s, had /\ assigned)
         [] u.role = "layer" -> CommitLayer(x, s, had /\ assigned)
         [] OTHER -> IF x.surf[s].buf \in Bufs THEN Gone(w) ELSE x

-----------------------------------------------------------------------------
(* Input *)

Move(w, x, y) ==
    LET dragged(v, d) ==
            [v EXCEPT !.wins = [j \in DOMAIN @ |->
                IF @[j].s = d.s THEN [@[j] EXCEPT !.x = d.wx + v.px - d.px,
                                                  !.y = d.wy + v.py - d.py]
                ELSE @[j]]]
        synced(v, s) == SyncSurface(v, CHOOSE n \in Range(v.wins) : n.s = s)
        motion(v, s) == [v EXCEPT !.astray = @ \/ (s # NoSurf /\ v.seat /\ v.pfocus # s)]
        over(v, s) ==
            motion(IF v.ifocus # s THEN [UpdatePointerFocus(v, s) EXCEPT !.ifocus = s] ELSE v, s)
        at(v) == IF v.drag = <<>> THEN Redraw(over(v, PointerTarget(v)))
                 ELSE IF \A n \in Range(v.wins) : n.s # v.drag[1].s THEN v
                 ELSE Redraw(synced(dragged(v, v.drag[1]), v.drag[1].s))
    IN at([w EXCEPT !.px = Clamp(x, 0, Output[3] - 1), !.py = Clamp(y, 0, Output[4] - 1)])

Press(w) ==
    LET point(v, s) == IF v.ifocus # s THEN [UpdatePointerFocus(v, s) EXCEPT !.ifocus = s] ELSE v
        grab(v, n) == [v EXCEPT !.drag = <<[s |-> n.s, px |-> v.px, py |-> v.py,
                                            wx |-> n.x, wy |-> n.y]>>]
        title(v, s) == grab(v, CHOOSE n \in Range(v.wins) : n.s = s)
        on(part, s) ==
            CASE part \in {"close", "border"} -> FocusWindow(w, s)
              [] part = "title" -> title(FocusWindow(w, s), s)
              [] part = "client" -> point(FocusWindow(w, s), s)
              [] part = "layer" /\ w.lay[s].cur.kbd # "none" ->
                    UpdateKeyboardFocus(point(w, s), s)
              [] OTHER -> point(w, s)
        pressed(hit) == on(hit[1], hit[2])
    IN pressed(HitTest(w))

ReleaseButton(w) == IF w.drag # <<>> THEN Redraw([w EXCEPT !.drag = <<>>]) ELSE w

-----------------------------------------------------------------------------
(* Specification: start in what an orderly client can have set up *)

WithBuffers(w) ==
    LET p == CHOOSE q \in Pools : TRUE
    IN [CreatePool(w, p) EXCEPT !.bufs = [b \in Bufs |-> {p}]]

MapWindow(w, s, b) ==
    LET acked(x) == AckXdg(x, s, x.xdg[s].pend)
        top == GetToplevel(GetXdgSurface(CreateSurface(w, s), s), s)
    IN Commit(Attach(acked(Commit(top, s)), s, b), s)

MapLayer(w, s, b, p) ==
    LET set == SetLayerProps(GetLayerSurface(CreateSurface(w, s), s, p.layer), s, p)
    IN Commit(Attach(AckLayer(Commit(set, s), s, 1), s, b), s)

Starts ==
    LET w == WithBuffers(Fresh) IN
    {Fresh}
      \cup UNION {{MapWindow(MapWindow(BindSeat(w), s, b), t, b)} :
                    s \in Surfs, t \in Surfs \ {CHOOSE u \in Surfs : TRUE},
                    b \in {CHOOSE c \in Bufs : TRUE}}
      \cup {MapLayer(MapWindow(BindSeat(w), s, b), t, b, p) :
              s \in {CHOOSE u \in Surfs : TRUE}, t \in Surfs \ {CHOOSE u \in Surfs : TRUE},
              b \in {CHOOSE c \in Bufs : TRUE}, p \in LayerProps}

TwlandInit == tl \in {w \in Starts : ~w.gone} /\ tlReq = 0

SurfaceRequest(s) ==
    LET u == tl.surf[s] IN
    \/ ~u.live /\ tl' = CreateSurface(tl, s)
    \/ /\ u.live
       /\ \/ tl' = GetXdgSurface(tl, s)
          \/ \E layer \in {0, 2} : tl' = GetLayerSurface(tl, s, layer)
          \/ \E b \in Bufs : tl.bufs[b] # {} /\ tl' = Attach(tl, s, b)
          \/ tl' = Attach(tl, s, NullBuf)
          \/ u.frames = 0 /\ tl' = Frame(tl, s)
          \/ tl' = Commit(tl, s)
          \/ tl' = DestroySurface(tl, s)

RoleRequest(s) ==
    \/ tl.xdg[s].live /\ tl' = GetToplevel(tl, s)
    \/ \E i \in 1..Len(tl.todo[s]) :
         tl.xdg[s].live /\ i = 1 /\ tl' = AckXdg(tl, s, tl.todo[s][i])
    \/ tl.xdg[s].top /\ tl' = DestroyToplevel(tl, s)
    \/ tl.xdg[s].live /\ tl' = DestroyXdg(tl, s)
    \/ \E p \in LayerProps : tl.lay[s].live /\ tl' = SetLayerProps(tl, s, p)
    \/ \E i \in 1..Len(tl.lay[s].confs) : tl' = AckLayer(tl, s, i)
    \/ tl.lay[s].live /\ tl' = DestroyLayer(tl, s)

ShmRequest ==
    \/ \E p \in Pools : tl.pools[p] = "none" /\ tl' = CreatePool(tl, p)
    \/ \E p \in Pools : tl.pools[p] = "live" /\ tl' = DestroyPool(tl, p)
    \/ \E p \in Pools, b \in Bufs :
         tl.pools[p] = "live" /\ tl.bufs[b] = {} /\ tl' = CreateBuffer(tl, b, p)
    \/ \E b \in Bufs : tl.bufs[b] # {} /\ tl' = DestroyBuffer(tl, b)

InputEvent ==
    \/ \E at \in PointerAt : tl' = Move(tl, at[1], at[2])
    \/ tl' = Press(tl)
    \/ tl' = ReleaseButton(tl)

TwlandNext ==
    /\ tlReq < MaxReq /\ tlReq' = tlReq + 1
    /\ \/ ~tl.gone /\ \/ \E s \in Surfs : SurfaceRequest(s) \/ RoleRequest(s)
                      \/ ShmRequest \/ InputEvent
                      \/ ~tl.seat /\ tl' = BindSeat(tl)
       \/ tl.gone /\ tl' = Fresh

TwlandSpec == TwlandInit /\ [][TwlandNext]_tlVars

-----------------------------------------------------------------------------
(* Properties *)

\* Types of the state.
TwlandTypeOK ==
    /\ \A s \in Surfs :
        /\ tl.surf[s].buf \in Bufs \cup {NoBuf}
        /\ tl.surf[s].pbuf \in Bufs \cup {NoBuf, NullBuf}
        /\ tl.surf[s].role \in {"none", "xdg", "layer"}
    /\ {tl.cfocus, tl.ifocus, tl.kfocus, tl.pfocus} \subseteq Surfs \cup {NoSurf}
    /\ \A p \in Pools : tl.pools[p] \in {"none", "live", "dying"}

\* The window with the focus is the top of the stack, whatever was mapped,
\* raised, unmapped or destroyed, and there is one whenever there is a window.
FocusedOnTop ==
    /\ tl.cfocus = IF tl.wins = <<>> THEN NoSurf ELSE Last(tl.wins).s
    /\ \A i, j \in 1..Len(tl.wins) : tl.wins[i].s = tl.wins[j].s => i = j

\* Both input foci name surfaces that exist: destroying a surface moves them.
FocusExists ==
    \A s \in Surfs : s \in {tl.kfocus, tl.pfocus} => tl.surf[s].live

\* The pool behind a live buffer stays mapped, also after wl_shm_pool.destroy.
PoolsKept == \A b \in Bufs : \A p \in tl.bufs[b] : tl.pools[p] # "none"

\* A window is shown only for a toplevel whose client has acknowledged a
\* configure since the surface was last unmapped.
ShownAcked ==
    \A i \in 1..Len(tl.wins) :
        LET s == tl.wins[i].s IN tl.xdg[s].top /\ tl.surf[s].live /\ tl.ackd[s]

\* What the screen shows, windows, focus and layers, is the current
\* arrangement after every request and every event.
SceneShown == tl.shown = Scene(tl)

\* The usable area stays inside the output and below every panel that
\* reserves the top edge.
UsableSound ==
    LET u == tl.usable
        panel(s) == tl.lay[s].mapped /\ ~tl.dirty /\ Size(tl, s) # <<>>
                    /\ tl.lay[s].cur.zone > 0 /\ ExclusiveEdge(tl.lay[s].cur.anchor) = {"top"}
    IN /\ u[1] >= 0 /\ u[2] >= 0 /\ u[3] >= 0 /\ u[4] >= 0
       /\ u[1] + u[3] <= Output[3] /\ u[2] + u[4] <= Output[4]
       /\ \A s \in Surfs : panel(s) /\ tl.lay[s].geom # <<>> =>
            u[2] >= NoMore(tl.lay[s].cur.zone, Output[4])

\* "receive focus, and receive basic pointer/keyboard events": pointer motion
\* reaches a client only for the surface its pointer has entered.
MotionAfterEnter == ~tl.astray

\* "forwarded to the client with coordinates relative to the content area":
\* the surface's position is that of the content of its window.
ContentCoordinates ==
    \A i \in 1..Len(tl.wins) :
        LET n == tl.wins[i] IN
        /\ tl.surf[n.s].x = n.x + Border
        /\ tl.surf[n.s].y = n.y + Titlebar + Border

\* "The client must reply with xdg_surface.ack_configure(serial)": a client
\* that acknowledges every configure, in the order they arrive, is never
\* disconnected for it.
AcksAccepted == ~tl.refused

\* The desktop is consistent: the focused window is the top one, foci and pools
\* exist, only acknowledged windows are shown, the screen is current, and the usable
\* area is free of panels.
DesktopSound ==
    /\ TwlandTypeOK
    /\ FocusedOnTop /\ FocusExists /\ PoolsKept /\ ShownAcked /\ SceneShown /\ UsableSound
=============================================================================

------------------------------ MODULE Terminal ------------------------------
(***************************************************************************)
(* The console's output side: the ANSI parser and output post-processing   *)
(* of sys/console/tty.rs and the text renderer of                          *)
(* sys/console/framebuffer.rs.  Bytes are their codes.  The framebuffer is *)
(* a grid of character cells (its size is a multiple of the 8x16 cell);    *)
(* a cell holds a glyph and the two colours it is drawn with; the glyph    *)
(* CursorBlock marks the solid block the cursor is drawn as.               *)
(***************************************************************************)
EXTENDS Integers, Sequences, SequencesExt

CONSTANTS Rows, Cols,      \* height / 16 and width / 8
          FlushAt,         \* Tty::FLUSH_THRESHOLD
          CsiMax,          \* bytes kept of one control sequence (64)
          Writes,          \* the buffers passed to write(2)
          Prints,          \* the texts the kernel prints
          MaxWrites        \* bound on the number of writes

ASSUME TermSizes == /\ Rows \in Nat \ {0} /\ Cols \in Nat \ {0}
                    /\ FlushAt \in Nat \ {0} /\ CsiMax \in Nat /\ MaxWrites \in Nat

VARIABLES tm,      \* the Tty's output state and the framebuffer
          opost,   \* OPOST and ONLCR, from the termios in force
          typed,   \* history: what was written, while it is plain text
          twrites  \* history: the number of writes
termVars == <<tm, opost, typed, twrites>>

BEL == 7
BS  == 8
NL  == 10
CR  == 13
ESC == 27
DEL == 127

Fg == <<256>>        \* DEFAULT_FG and DEFAULT_BG; a palette entry n is <<n>>
Bg == <<257>>
DefaultPen == [fg |-> Fg, bg |-> Bg, bold |-> FALSE, rev |-> FALSE]

CursorBlock == <<>>
Cell(g, f, b) == [g |-> g, fg |-> f, bg |-> b]
BlankCell(b)  == Cell(<<32>>, b, b)
Ys == 0..(Rows - 1)
Xs == 0..(Cols - 1)

(* Painting: every cell of the region takes the background colour. *)
Fill(t, cells) ==
    [t EXCEPT !.grid = [y \in Ys |-> [x \in Xs |->
        IF <<x, y>> \in cells THEN BlankCell(t.pen.bg) ELSE t.grid[y][x]]]]

(***************************************************************************)
(* The cursor: drawn over a cell whose contents are kept in a backup.      *)
(***************************************************************************)
EraseCursor(t) ==
    IF ~t.drawn THEN t
    ELSE [t EXCEPT !.grid[t.sy][t.sx] = t.backup, !.drawn = FALSE]

DrawCursor(t) ==
    IF ~t.vis THEN t
    ELSE LET e == EraseCursor(t) IN
         IF e.x >= Cols THEN e
         ELSE [e EXCEPT !.backup = e.grid[e.y][e.x],
                        !.grid[e.y][e.x] = Cell(CursorBlock, e.pen.fg, e.pen.fg),
                        !.sx = e.x, !.sy = e.y, !.drawn = TRUE]

SetCursorVisible(t, v) ==
    IF v THEN DrawCursor([t EXCEPT !.vis = TRUE])
    ELSE [EraseCursor(t) EXCEPT !.vis = FALSE]

(***************************************************************************)
(* Rendering one decoded character.                                        *)
(***************************************************************************)
Scroll(t) ==
    [t EXCEPT !.grid = [y \in Ys |-> IF y < Rows - 1 THEN t.grid[y + 1]
                                     ELSE [x \in Xs |-> BlankCell(t.pen.bg)]]]

(* Seeded fault: the row after the last one is used before scrolling starts. *)
NewLineLate(t) ==
    IF t.y + 1 >= Rows THEN [Scroll(t) EXCEPT !.x = 0, !.y = 0] ELSE [t EXCEPT !.x = 0, !.y = @ + 1]

NewLine(t) ==
    IF t.y + 2 > Rows THEN [Scroll(t) EXCEPT !.x = 0] ELSE [t EXCEPT !.x = 0, !.y = @ + 1]

(* A glyph exists for printable ASCII and for U+2500..U+259F; any other    *)
(* character leaves the cell as it was.                                    *)
HasGlyph(c) == \/ Len(c) = 1 /\ c[1] \in 32..126
               \/ Len(c) = 3 /\ c[1] = 226 /\ c[2] \in 148..150

DrawChar(t, c) ==
    IF ~HasGlyph(c) THEN t
    ELSE LET f == IF t.pen.rev THEN t.pen.bg ELSE t.pen.fg
             b == IF t.pen.rev THEN t.pen.fg ELSE t.pen.bg
         IN  [t EXCEPT !.grid[t.y][t.x] = IF c = <<32>> THEN BlankCell(b) ELSE Cell(c, f, b)]

Backspace(t) ==
    IF t.x = 0 THEN t ELSE DrawChar([t EXCEPT !.x = @ - 1], <<32>>)

IsControl(c) == \/ Len(c) = 1 /\ (c[1] < 32 \/ c[1] = DEL)
                \/ Len(c) = 2 /\ c[1] = 194 /\ c[2] < 160

PutChar(t, c) ==
    IF c = <<BEL>> THEN t
    ELSE LET e == EraseCursor(t) IN
         CASE c = <<NL>> -> NewLine(e)
           [] c \in {<<BS>>, <<DEL>>} -> Backspace(e)
           [] c = <<CR>> -> [e EXCEPT !.x = 0]
           [] OTHER ->
                LET w == IF e.x >= Cols THEN NewLine(e) ELSE e
                    d == DrawChar(w, IF IsControl(c) THEN <<63>> ELSE c)
                IN  [d EXCEPT !.x = @ + 1]

(* UTF-8 is decoded a byte at a time; four bytes that are no character     *)
(* become a question mark.                                                 *)
Utf8Length(b) == CASE b \in 194..223 -> 2 [] b \in 224..239 -> 3 [] b \in 240..244 -> 4 [] OTHER -> 0
Utf8Valid(s)  == Len(s) = Utf8Length(s[1]) /\ \A i \in 2..Len(s) : s[i] \in 128..191

PutByte(t, b) ==
    IF t.utf8 = <<>> /\ b < 128 THEN PutChar(t, <<b>>)
    ELSE LET u == Append(t.utf8, b) IN
         CASE Utf8Valid(u) -> [PutChar(t, u) EXCEPT !.utf8 = <<>>]
           [] ~Utf8Valid(u) /\ Len(u) >= 4 -> [PutChar(t, <<63>>) EXCEPT !.utf8 = <<>>]
           [] OTHER -> [t EXCEPT !.utf8 = u]

(* Tty::flush_output: the cursor is redrawn only when something was held. *)
FlushOutput(t) ==
    IF t.out = <<>> THEN t
    ELSE DrawCursor([FoldLeft(PutByte, t, t.out) EXCEPT !.out = <<>>])

(***************************************************************************)
(* Control sequences.                                                      *)
(***************************************************************************)
Split(s) == FoldLeft(LAMBDA acc, b : IF b = 59 THEN Append(acc, <<>>)
                                     ELSE [acc EXCEPT ![Len(acc)] = Append(@, b)],
                     <<<<>>>>, s)

ParseInt(s) == IF s = <<>> \/ \E i \in 1..Len(s) : s[i] \notin 48..57 THEN -1
               ELSE FoldLeft(LAMBDA n, b : 10 * n + (b - 48), 0, s)

Nums(s) == IF s = <<>> THEN <<>> ELSE [i \in 1..Len(Split(s)) |-> ParseInt(Split(s)[i])]
Num(ns, i, default) == IF i <= Len(ns) THEN ns[i] ELSE default
Least1(n) == IF n < 1 THEN 1 ELSE n
AtMost(n, m) == IF n > m THEN m ELSE n
Minus(n, m) == IF n < m THEN 0 ELSE n - m

Ansi16(i, bold) == LET j == AtMost(i, 15) IN <<IF bold /\ j < 8 THEN j + 8 ELSE j>>

SgrSimple(p, c) ==
    CASE c = 0 -> DefaultPen
      [] c = 1 -> [p EXCEPT !.bold = TRUE]
      [] c = 22 -> [p EXCEPT !.bold = FALSE]
      [] c = 7 -> [p EXCEPT !.rev = TRUE]
      [] c = 27 -> [p EXCEPT !.rev = FALSE]
      [] c \in 30..37 -> [p EXCEPT !.fg = Ansi16(c - 30, p.bold)]
      [] c \in 90..97 -> [p EXCEPT !.fg = Ansi16(c - 82, FALSE)]
      [] c = 39 -> [p EXCEPT !.fg = Fg]
      [] c \in 40..47 -> [p EXCEPT !.bg = Ansi16(c - 40, FALSE)]
      [] c \in 100..107 -> [p EXCEPT !.bg = Ansi16(c - 92, FALSE)]
      [] c = 49 -> [p EXCEPT !.bg = Bg]
      [] OTHER -> p

SetColour(p, which, c) == IF which = 38 THEN [p EXCEPT !.fg = c] ELSE [p EXCEPT !.bg = c]

(* 38 and 48 take the codes after them: 5;n or 2;r;g;b. *)
SgrCode(a, c) ==
    LET e == Append(a.ext, c) IN
    CASE Len(e) = 1 -> IF c \in {38, 48} THEN [a EXCEPT !.ext = e]
                       ELSE [a EXCEPT !.pen = SgrSimple(@, c)]
      [] Len(e) = 2 -> [a EXCEPT !.ext = IF c \in {2, 5} THEN e ELSE <<>>]
      [] Len(e) > 2 /\ e[2] = 5 ->
            [pen |-> IF c \in 0..65535 THEN SetColour(a.pen, e[1], <<c % 256>>) ELSE a.pen,
             ext |-> <<>>]
      [] Len(e) > 2 /\ e[2] = 2 ->
            IF Len(e) < 5 THEN [a EXCEPT !.ext = e]
            ELSE [pen |-> IF \A i \in 3..5 : e[i] \in 0..255
                          THEN SetColour(a.pen, e[1], SubSeq(e, 3, 5)) ELSE a.pen,
                  ext |-> <<>>]

ApplySgr(t, s) ==
    LET pieces == Split(s)
        codes == [i \in 1..Len(pieces) |-> IF pieces[i] = <<>> THEN 0 ELSE ParseInt(pieces[i])]
    IN  [t EXCEPT !.pen = FoldLeft(SgrCode, [pen |-> t.pen, ext |-> <<>>], codes).pen]

(* The framebuffer's erasing operations, and the sequences that ask for    *)
(* them: EL (K) and ED (J).                                                *)
Erase(t, cells) == Fill(EraseCursor(t), cells)
Line(t)         == {c \in Xs \X Ys : c[2] = t.y}
After(t)        == {c \in Line(t) : c[1] >= t.x}

EraseLine(t)        == DrawCursor([Erase(t, Line(t)) EXCEPT !.x = 0])
EraseInLineFrom(t)  == DrawCursor(Erase(t, After(t)))
EraseInLineTo(t)    == DrawCursor(Erase(t, Line(t) \ After(t)))
EraseDisplayFrom(t) == DrawCursor(Erase(t, {c \in Xs \X Ys : c[2] > t.y} \cup After(t)))
EraseDisplayTo(t)   == DrawCursor(Erase(t, {c \in Xs \X Ys : c[2] <= t.y} \ After(t)))
Clear(t)            == DrawCursor([Erase(t, Xs \X Ys) EXCEPT !.x = 0, !.y = 0])

CsiEl(t, ns) == CASE Num(ns, 1, 0) = 2 -> EraseLine(t)
                  [] Num(ns, 1, 0) = 1 -> EraseInLineTo(t)
                  [] OTHER -> EraseInLineFrom(t)

CsiEd(t, ns) == CASE Num(ns, 1, 0) = 2 -> Clear(t)
                  [] Num(ns, 1, 0) = 1 -> EraseDisplayTo(t)
                  [] OTHER -> EraseDisplayFrom(t)

MoveCursor(t, final, ns) ==
    LET n == Least1(Num(ns, 1, 1)) IN
    DrawCursor(
      CASE final = 65 -> [t EXCEPT !.y = Minus(@, n)]
        [] final = 66 -> [t EXCEPT !.y = AtMost(@ + n, Rows - 1)]
        [] final = 67 -> [t EXCEPT !.x = AtMost(@ + n, Cols - 1)]
        [] final = 68 -> [t EXCEPT !.x = Minus(@, n)]
        [] OTHER -> [t EXCEPT !.y = AtMost(n - 1, Rows - 1),
                              !.x = AtMost(Least1(Num(ns, 2, 1)) - 1, Cols - 1)])

(* ?25h shows the cursor and ?25l hides it. *)
DecPrivate(t, final, ns) ==
    IF \E i \in 1..Len(ns) : ns[i] = 25 THEN SetCursorVisible(t, final = 104) ELSE t

HandleCsiFinal(t, buf) ==
    LET final   == buf[Len(buf)]
        raw     == SubSeq(buf, 1, Len(buf) - 1)
        private == raw # <<>> /\ raw[1] = 63
        bytes   == IF private THEN Tail(raw) ELSE raw
        params  == IF \E i \in 1..Len(bytes) : bytes[i] >= 128 THEN <<>> ELSE bytes
        ns      == Nums(params)
        f       == FlushOutput([t EXCEPT !.csi = <<>>])
    IN  CASE final = 109 -> ApplySgr(f, params)
          [] final = 74 -> CsiEd(f, ns)
          [] final = 75 -> CsiEl(f, ns)
          [] final \in {65, 66, 67, 68, 72, 102} -> MoveCursor(f, final, ns)
          [] final \in {104, 108} /\ private -> DecPrivate(f, final, ns)
          [] OTHER -> f

AnsiFeed(t, b) ==
    CASE t.ansi = "ground" /\ b = ESC -> [t EXCEPT !.ansi = "esc", !.csi = <<>>]
      [] t.ansi = "ground" /\ b \in 32..126 -> [t EXCEPT !.out = Append(@, b)]
      [] t.ansi = "ground" /\ b # ESC /\ b \notin 32..126 -> PutByte(FlushOutput(t), b)
      [] t.ansi = "esc" /\ b = 91 -> [t EXCEPT !.ansi = "csi", !.csi = <<>>]
      [] t.ansi = "esc" /\ b # 91 -> [t EXCEPT !.ansi = "ground", !.out = @ \o <<ESC, b>>]
      [] t.ansi = "csi" /\ b \in 64..126 ->
            [HandleCsiFinal(t, Append(t.csi, b)) EXCEPT !.ansi = "ground"]
      [] t.ansi = "csi" /\ b \notin 64..126 ->
            IF Len(t.csi) < CsiMax THEN [t EXCEPT !.csi = Append(@, b)] ELSE t

WriteBytesAnsi(t, data) ==
    LET f == FoldLeft(AnsiFeed, t, data) IN
    IF Len(f.out) >= FlushAt THEN FlushOutput(f) ELSE f

(* OPOST and ONLCR: a newline not preceded by a return gets one. *)
Onlcr(data) ==
    FoldLeft(LAMBDA a, b : [text |-> a.text \o (IF b = NL /\ a.prev # CR THEN <<CR, NL>> ELSE <<b>>),
                            prev |-> b],
             [text |-> <<>>, prev |-> 0], data).text

(***************************************************************************)
(* The actions.                                                            *)
(***************************************************************************)
Plain(data) == \A i \in 1..Len(data) : data[i] = NL \/ data[i] \in 32..126
Lost == <<0>>      \* typed once something other than plain text was written

Note(data) == /\ twrites < MaxWrites
              /\ twrites' = twrites + 1
              /\ typed' = IF Plain(data) /\ typed # Lost /\ tm.ansi = "ground" /\ tm.utf8 = <<>>
                          THEN typed \o data ELSE Lost

(* <Tty as VfsNodeOps>::write *)
TtyWrite(data) ==
    /\ Note(data)
    /\ tm' = FlushOutput(WriteBytesAnsi(tm, IF opost THEN Onlcr(data) ELSE data))
    /\ UNCHANGED opost

(* print! and println! *)
KernelPrint(data) ==
    /\ Note(data)
    /\ tm' = FlushOutput(WriteBytesAnsi(tm, data))
    /\ UNCHANGED opost

(* TCSETS: only the output flags matter here. *)
SetOutputFlags == /\ opost' = ~opost
                  /\ UNCHANGED <<tm, typed, twrites>>

TermInit ==
    /\ tm = DrawCursor([grid |-> [y \in Ys |-> [x \in Xs |-> BlankCell(Bg)]],
                        x |-> 0, y |-> 0, pen |-> DefaultPen, vis |-> TRUE, drawn |-> FALSE,
                        sx |-> 0, sy |-> 0, backup |-> BlankCell(Bg), utf8 |-> <<>>,
                        ansi |-> "ground", csi |-> <<>>, out |-> <<>>])
    /\ opost = TRUE /\ typed = <<>> /\ twrites = 0

TermNext == \/ \E w \in Writes : TtyWrite(w)
            \/ \E w \in Prints : KernelPrint(w)
            \/ SetOutputFlags

TermSpec == TermInit /\ [][TermNext]_termVars

(***************************************************************************)
(* Properties.                                                             *)
(***************************************************************************)
(* The Tty's fields keep their ranges: the cursor stays on the screen (or  *)
(* one column past it, before a wrap), at most three bytes of a character  *)
(* are pending, and nothing is left in the output buffer after a write.    *)
TermTypeOK ==
    /\ tm.x \in 0..Cols /\ tm.y \in Ys /\ tm.sx \in Xs /\ tm.sy \in Ys
    /\ Len(tm.utf8) <= 3 /\ Len(tm.csi) <= CsiMax /\ tm.out = <<>>
    /\ tm.ansi \in {"ground", "esc", "csi"}
    /\ opost \in BOOLEAN /\ twrites \in 0..MaxWrites

(* The cursor block is on the screen exactly when cursor_drawn says so, in *)
(* the one cell it was drawn over, which is the cell the next character    *)
(* goes to; the backup that erase_cursor puts back is text, never another  *)
(* block.  So no operation leaves a ghost cursor behind.                   *)
CursorSound ==
    /\ \A y \in Ys, x \in Xs :
          tm.grid[y][x].g = CursorBlock <=> tm.drawn /\ x = tm.sx /\ y = tm.sy
    /\ tm.drawn => tm.vis /\ tm.sx = tm.x /\ tm.sy = tm.y /\ tm.backup.g # CursorBlock

(* The reference layout of plain text: lines are cut at newlines, wrapped  *)
(* at the last column, and the screen shows the last Rows of them.         *)
TextLines == LET split == FoldLeft(LAMBDA acc, b : IF b = NL THEN Append(acc, <<>>)
                                         ELSE [acc EXCEPT ![Len(acc)] = Append(@, b)],
                         <<<<>>>>, typed)
                 wrapped(l) == LET n == IF l = <<>> THEN 1 ELSE (Len(l) + Cols - 1) \div Cols
                               IN  [i \in 1..n |-> SubSeq(l, (i - 1) * Cols + 1, AtMost(i * Cols, Len(l)))]
             IN  FoldLeft(LAMBDA acc, l : acc \o wrapped(l), <<>>, split)

(* While only plain text was written, the screen without its cursor is the *)
(* reference layout of everything written so far, whether the text came    *)
(* through write(2), with or without ONLCR, or from the kernel's print!.   *)
TextLaidOut ==
    typed # Lost =>
      LET text == TextLines
          from == IF Len(text) > Rows THEN Len(text) - Rows ELSE 0
          bare == EraseCursor(tm).grid
          want(y, x) == IF from + y + 1 <= Len(text) /\ x + 1 <= Len(text[from + y + 1])
                        THEN <<text[from + y + 1][x + 1]>> ELSE <<32>>
      IN  \A y \in Ys, x \in Xs : bare[y][x].g = want(y, x)

(* "Lazy cursor: ensure cursor is visible after batch write" (tty.rs): a   *)
(* visible cursor is drawn once a write returns, unless it waits to wrap.  *)
CursorShown == tm.vis /\ tm.x < Cols => tm.drawn

(* The screen shows the text that was written and at most one cursor.      *)
ScreenSound == TermTypeOK /\ CursorSound /\ TextLaidOut
=============================================================================

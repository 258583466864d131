------------------------------ MODULE TtyInput ------------------------------
(***************************************************************************)
(* The console's input side: keys arrive from the PS/2 and serial          *)
(* interrupts (driver/keyboard/mod.rs, driver/uart/mod.rs), processes read *)
(* them through read(2) (sys/syscall/service.rs) and the line discipline   *)
(* of sys/console/tty.rs.  Bytes are their codes; echo is output and is    *)
(* left to Terminal.  A syscall runs with interrupts off, so it is one     *)
(* step up to the point where it sleeps.  A reader that would sleep inside *)
(* the line discipline still holds the descriptor's guards: await_io       *)
(* refuses to switch (SchedulerGuard::try_enter) and the loop runs on with *)
(* interrupts off, which ttySpin records.                                  *)
(***************************************************************************)
EXTENDS Integers, Sequences, SequencesExt, FiniteSets

CONSTANTS Readers,      \* processes that share the terminal
          KeyWords,     \* what one interrupt delivers: a sequence of bytes
          ReadLens,     \* lengths of the buffers passed to read(2)
          Modes,        \* termios settings a process may install
          MaxInput      \* bound on the input buffer

VARIABLES inb,       \* input_buffer
          tmode,     \* [icanon, isig, icrnl, raw, vmin, vtime]
          tcall,     \* tcall[p]: Idle, Exited or the length of the read that sleeps
          twait,     \* INPUT_WAIT_QUEUE
          trun,      \* sleepers that have been woken
          ttySpin,   \* what the reader consumed that loops inside read_canonical
          tstale     \* history: sleepers for whom the termios changed
ttyVars == <<inb, tmode, tcall, twait, trun, ttySpin, tstale>>

Idle   == 0
Exited == -1

VEOF   == 4
VINTR  == 3
VQUIT  == 28
VKILL  == 21
VWERASE == 23
Enter  == 10
Return == 13
Escape == 27
Space  == 32

Cooked == [icanon |-> TRUE, isig |-> TRUE, icrnl |-> TRUE, raw |-> FALSE, vmin |-> 1, vtime |-> 0]

(* Tty::input_read_ready *)
InputReadReady(m, b) ==
    IF m.icanon THEN \E i \in 1..Len(b) : b[i] \in {Enter, Return, VEOF}
    ELSE m.vmin = 0 \/ Len(b) >= m.vmin

(***************************************************************************)
(* read_canonical as a fold over the buffered bytes: used counts the bytes *)
(* taken, line is the buffer up to i, esc the escape filter's state.  If   *)
(* the buffer ends before done, the reader has to wait for more.           *)
(***************************************************************************)
DropWord(l) ==
    LET keep(s, P(_)) == CHOOSE k \in 0..Len(s) :
                            /\ \A i \in (k + 1)..Len(s) : P(s[i])
                            /\ k = 0 \/ ~P(s[k])
        words == SubSeq(l, 1, keep(l, LAMBDA c : c = Space))
    IN  SubSeq(words, 1, keep(words, LAMBDA c : c # Space))

Edit(m, n, a, c) ==
    CASE c = VEOF -> [a EXCEPT !.done = TRUE]
      [] c # VEOF /\ m.isig /\ c \in {VINTR, VQUIT} -> [a EXCEPT !.line = <<>>]
      [] c \in {8, 127} -> [a EXCEPT !.line = IF @ = <<>> THEN @ ELSE Front(@)]
      [] c = VKILL -> [a EXCEPT !.line = <<>>]
      [] c = VWERASE -> [a EXCEPT !.line = DropWord(@)]
      [] OTHER -> [a EXCEPT !.line = Append(@, c), !.done = c = Enter \/ Len(a.line) + 1 = n]

CanonicalizeInput(m, c) == IF m.icrnl /\ c = Return THEN Enter ELSE c

CanonicalStep(m, n, a, b) ==
    LET c == CanonicalizeInput(m, b)
        u == [a EXCEPT !.used = @ + 1]
    IN  CASE a.done -> a
          [] ~a.done /\ a.esc = "ground" /\ c = Escape -> [u EXCEPT !.esc = "esc"]
          [] ~a.done /\ a.esc = "esc" /\ c = 91 -> [u EXCEPT !.esc = "csi"]
          [] ~a.done /\ a.esc = "csi" -> [u EXCEPT !.esc = IF c \in 64..126 THEN "ground" ELSE "csi"]
          [] OTHER -> Edit(m, n, [u EXCEPT !.esc = "ground"], c)

ReadCanonical(m, n, b) ==
    FoldLeft(LAMBDA a, c : CanonicalStep(m, n, a, c),
             [used |-> 0, line |-> <<>>, esc |-> "ground", done |-> FALSE], b)

(* read_noncanonical once input_read_ready holds: the bytes it takes.  The *)
(* VTIME waits run with interrupts off, so nothing arrives during them.    *)
RawCount(m, n, b) ==
    LET most == IF m.vmin = 0 THEN n ELSE IF n < m.vmin THEN n ELSE m.vmin
    IN  IF Len(b) < most THEN Len(b) ELSE most

(***************************************************************************)
(* read(2) on the terminal, w being the wait queue without the caller.     *)
(***************************************************************************)
Finish(p) == tcall' = [tcall EXCEPT ![p] = Idle] /\ tstale' = tstale \ {p}

ReadOnce(p, n, nonblock, w) ==
    \/ /\ ~InputReadReady(tmode, inb)
       /\ IF nonblock
          THEN Finish(p) /\ twait' = w
          ELSE /\ tcall' = [tcall EXCEPT ![p] = n]
               /\ tstale' = tstale \ {p}
               /\ twait' = w \cup {p}
       /\ UNCHANGED <<inb, ttySpin>>
    \/ /\ InputReadReady(tmode, inb)
       /\ nonblock /\ inb = <<>>          \* vfs_node.poll(): EAGAIN
       /\ Finish(p) /\ twait' = w /\ UNCHANGED <<inb, ttySpin>>
    \/ /\ InputReadReady(tmode, inb)
       /\ ~(nonblock /\ inb = <<>>) /\ tmode.icanon
       /\ LET r == ReadCanonical(tmode, n, inb) IN
          /\ inb' = SubSeq(inb, r.used + 1, Len(inb))
          /\ IF r.done THEN Finish(p) /\ UNCHANGED ttySpin
             ELSE ttySpin' = inb /\ UNCHANGED <<tcall, tstale>>
          /\ twait' = w
    \/ /\ InputReadReady(tmode, inb)
       /\ ~(nonblock /\ inb = <<>>) /\ ~tmode.icanon
       /\ inb' = SubSeq(inb, RawCount(tmode, n, inb) + 1, Len(inb))
       /\ Finish(p) /\ twait' = w /\ UNCHANGED ttySpin

TtyRead(p, n, nonblock) ==
    /\ tcall[p] = Idle
    /\ ReadOnce(p, n, nonblock, twait)
    /\ UNCHANGED <<tmode, trun>>

(* wait_for_input returns (finish_wait) and read retries from the top. *)
TtyResume(p) ==
    /\ p \in trun
    /\ trun' = trun \ {p}
    /\ ReadOnce(p, tcall[p], FALSE, twait \ {p})
    /\ UNCHANGED tmode

(***************************************************************************)
(* Input.                                                                  *)
(***************************************************************************)
Asleep(p) == tcall[p] > 0 /\ p \notin trun

(* Seeded fault: input is buffered and only the pollers are told. *)
PutInputQuiet(w) ==
    /\ Len(inb) + Len(w) <= MaxInput
    /\ inb' = inb \o w
    /\ UNCHANGED <<tmode, tcall, twait, trun, ttySpin, tstale>>

(* put_char_in_tty for each byte of one interrupt: put_input, which turns  *)
(* Backspace into DEL in raw mode, then every waiter is woken and taken    *)
(* off the queue.                                                          *)
PutInput(w) ==
    /\ Len(inb) + Len(w) <= MaxInput
    /\ inb' = inb \o [i \in 1..Len(w) |-> IF tmode.raw /\ w[i] = 8 THEN 127 ELSE w[i]]
    /\ trun' = trun \cup {p \in twait : Asleep(p)}
    /\ twait' = {}
    /\ UNCHANGED <<tmode, tcall, ttySpin, tstale>>

(* A decoded key puts its byte, an arrow its three; with Ctrl held down    *)
(* only s does.                                                            *)
KeyboardInterrupt(w) == PutInput(w)

(* The serial line turns a return into a newline. *)
SerialInput(w) == PutInput([i \in 1..Len(w) |-> IF w[i] = Return THEN Enter ELSE w[i]])

(* Ctrl+C in keyboard_interrupt ends the process that the interrupt hit:   *)
(* one in userspace, or one that idles inside its own wait.  The queue     *)
(* keeps its pid.                                                          *)
CtrlC(p) == /\ tcall[p] # Exited
            /\ tcall' = [tcall EXCEPT ![p] = Exited]
            /\ trun' = trun \ {p} /\ tstale' = tstale \ {p}
            /\ UNCHANGED <<inb, tmode, twait, ttySpin>>

(* A signal wakes the sleeper; wait_for_input does not look at the reason. *)
TtySignal(p) == /\ Asleep(p)
                /\ trun' = trun \cup {p}
                /\ UNCHANGED <<inb, tmode, tcall, twait, ttySpin, tstale>>

(* TCSETS, TCSETSW and, with flush, TCSETSF. *)
SetTermios(p, m, flush) ==
    /\ tcall[p] = Idle
    /\ tmode' = m
    /\ inb' = IF flush THEN <<>> ELSE inb
    /\ tstale' = tstale \cup {q \in Readers : tcall[q] > 0}
    /\ UNCHANGED <<tcall, twait, trun, ttySpin>>

TtyInit == /\ inb = <<>> /\ tmode = Cooked
           /\ tcall = [p \in Readers |-> Idle]
           /\ twait = {} /\ trun = {} /\ ttySpin = <<>> /\ tstale = {}

(* While a reader spins, interrupts are off and nothing else runs. *)
TtyNext ==
    /\ ttySpin = <<>>
    /\ \/ \E p \in Readers, n \in ReadLens, nb \in BOOLEAN : TtyRead(p, n, nb)
       \/ \E p \in Readers : TtyResume(p) \/ CtrlC(p) \/ TtySignal(p)
       \/ \E w \in KeyWords : KeyboardInterrupt(w) \/ SerialInput(w)
       \/ \E p \in Readers, m \in Modes, f \in BOOLEAN : SetTermios(p, m, f)

TtySpec == TtyInit /\ [][TtyNext]_ttyVars

(***************************************************************************)
(* Properties.                                                             *)
(***************************************************************************)
(* The reading processes and the queue are well formed. *)
TtyTypeOK ==
    /\ Len(inb) <= MaxInput /\ tmode \in Modes \cup {Cooked}
    /\ \A p \in Readers : tcall[p] \in {Idle, Exited} \cup ReadLens
    /\ twait \subseteq Readers /\ trun \subseteq Readers /\ tstale \subseteq Readers
    /\ Len(ttySpin) <= MaxInput

(* No lost wakeup: a reader that sleeps has nothing to read, unless the    *)
(* termios changed under it (which wakes nobody).                          *)
TtySleepers == \A p \in Readers : Asleep(p) /\ p \notin tstale => ~InputReadReady(tmode, inb)

(* A reader can get stuck inside the line discipline only on input that    *)
(* input_read_ready takes for a full line and read_canonical does not: an  *)
(* escape sequence that swallowed the terminator, or a return that ICRNL   *)
(* does not turn into a newline.                                           *)
SpinsOnlyOnOddLines ==
    ttySpin # <<>> => \/ ~tmode.icrnl
                       \/ \E i \in 2..Len(ttySpin) : ttySpin[i - 1] = Escape /\ ttySpin[i] = 91

(* "Blocking operations must release every guard before calling await_io"  *)
(* (docs/process-management.md): no reader waits inside the discipline.    *)
GuardsReleased == ttySpin = <<>>

(* A reader is woken for input, and once awake it returns, but for the odd *)
(* lines.                                                                  *)
ReadersServed == TtyTypeOK /\ TtySleepers /\ SpinsOnlyOnOddLines
=============================================================================

---------------------------- MODULE UsbKeyboard ----------------------------
(***************************************************************************)
(* The USB boot keyboard driver (driver/usb/keyboard.rs): reports that     *)
(* list the keys held down become make and break events, pushed through    *)
(* keyboard_interrupt into the event queue that /dev/kbd readers drain     *)
(* (driver/keyboard/mod.rs).  A usage stands for its scancode: the table   *)
(* hid_usage_to_scancode is one to one.                                    *)
(***************************************************************************)
EXTENDS Integers, Sequences, SequencesExt, FiniteSets

CONSTANTS Keys,          \* usages with a scancode
          Modifiers,     \* modifier bits, a subset of which are Ctrl keys
          Ctrls,
          RollOver,      \* usage 1, ErrorRollOver; it has no scancode
          NoKey,
          MaxEvents,     \* MAX_KEY_EVENTS
          KbHorizon,     \* bound on the clock
          RepeatDelay, RepeatPeriod

ASSUME KbSizes == MaxEvents \in Nat \ {0} /\ KbHorizon \in Nat
                  /\ RepeatDelay \in Nat /\ RepeatPeriod \in Nat

VARIABLES kb,      \* the driver: last report, repeated key and its next time
          kq,      \* KEY_EVENT_QUEUE: sequences of [key, down]
          kctrl,   \* is_ctrl_pressed
          know,    \* monotonic_ns
          kheld,   \* what a reader that applied every event takes as held
          kdrop,   \* history: the queue overflowed
          kroll    \* history: a roll-over report was seen
kbVars == <<kb, kq, kctrl, know, kheld, kdrop, kroll>>

KeyEvent(k, d) == [key |-> k, down |-> d]

(* enqueue_key_event drops the oldest event of a full queue. *)
EnqueueKeyEvent(s, e) ==
    [s EXCEPT !.q = IF Len(@) >= MaxEvents THEN Append(Tail(@), e) ELSE Append(@, e),
              !.drop = @ \/ Len(s.q) >= MaxEvents]

(* keyboard_interrupt: the Ctrl flag, then the queue. *)
PushEvent(s, e) ==
    EnqueueKeyEvent([s EXCEPT !.ctrl = IF e.key \in Ctrls THEN e.down ELSE @], e)

(* Seeded fault: the break event of a released key is not sent. *)
ReportEventsNoBreak(old, new) ==
    LET evs(S, d) == [i \in 1..Cardinality(S) |-> KeyEvent(SetToSeq(S)[i], d)]
    IN  evs({m \in Modifiers : m \in old.mods /\ m \notin new.mods}, FALSE)
        \o evs({m \in Modifiers : m \in new.mods /\ m \notin old.mods}, TRUE)
        \o evs((new.keys \ old.keys) \cap Keys, TRUE)

(* The events of one report against the last one kept: modifier changes,   *)
(* then keys released, then keys pressed; only usages with a scancode.     *)
ReportEvents(old, new) ==
    LET evs(S, d) == [i \in 1..Cardinality(S) |-> KeyEvent(SetToSeq(S)[i], d)]
    IN  evs({m \in Modifiers : m \in old.mods /\ m \notin new.mods}, FALSE)
        \o evs({m \in Modifiers : m \in new.mods /\ m \notin old.mods}, TRUE)
        \o evs((old.keys \ new.keys) \cap Keys, FALSE)
        \o evs((new.keys \ old.keys) \cap Keys, TRUE)

(* KeyboardDriver::poll with a report in the buffer; newest is the last    *)
(* pressed key of the report.                                              *)
KbReport(new) ==
    LET fresh == new.keys \ kb.last.keys
        gone  == kb.last.keys \ new.keys
    IN  \E newest \in IF fresh = {} THEN {NoKey} ELSE fresh :
        LET held    == IF kb.rep \in gone THEN NoKey ELSE kb.rep
            still   == held # NoKey /\ held \in new.keys
            repeats == newest = NoKey /\ still /\ know >= kb.at
            rep1    == CASE newest # NoKey -> [rep |-> newest, at |-> know + RepeatDelay]
                         [] newest = NoKey /\ ~still -> [rep |-> NoKey, at |-> 0]
                         [] repeats -> [rep |-> held, at |-> know + RepeatPeriod]
                         [] OTHER -> [rep |-> held, at |-> kb.at]
            evs     == ReportEvents(kb.last, new)
                       \o (IF repeats /\ held \in Keys THEN <<KeyEvent(held, TRUE)>> ELSE <<>>)
            s       == FoldLeft(PushEvent, [q |-> kq, ctrl |-> kctrl, drop |-> kdrop], evs)
        IN  /\ kq' = s.q /\ kctrl' = s.ctrl /\ kdrop' = s.drop
            /\ kb' = IF RollOver \notin new.keys THEN [last |-> new, rep |-> rep1.rep, at |-> rep1.at]
                     ELSE [last |-> kb.last, rep |-> NoKey, at |-> 0]
            /\ kroll' = (kroll \/ RollOver \in new.keys)
            /\ UNCHANGED <<know, kheld>>

Apply(held, e) == IF e.down THEN held \cup {e.key} ELSE held \ {e.key}

PopEvents(n) == LET m == IF Len(kq) < n THEN Len(kq) ELSE n
                IN  [got |-> SubSeq(kq, 1, m), left |-> SubSeq(kq, m + 1, Len(kq))]

(* A /dev/kbd read of up to n events. *)
KbRead(n) ==
    /\ kq # <<>>
    /\ kheld' = FoldLeft(Apply, kheld, PopEvents(n).got)
    /\ kq' = PopEvents(n).left
    /\ UNCHANGED <<kb, kctrl, know, kdrop, kroll>>

KbTick == /\ know < KbHorizon /\ know' = know + 1
          /\ UNCHANGED <<kb, kq, kctrl, kheld, kdrop, kroll>>

NoReport == [mods |-> {}, keys |-> {}]
Reports == [mods : SUBSET Modifiers, keys : SUBSET Keys \cup {{RollOver}}]

KbInit == /\ kb = [last |-> NoReport, rep |-> NoKey, at |-> 0]
          /\ kq = <<>> /\ kctrl = FALSE /\ know = 0 /\ kheld = {}
          /\ kdrop = FALSE /\ kroll = FALSE

KbNext == \/ \E r \in Reports : KbReport(r)
          \/ \E n \in {1, MaxEvents} : KbRead(n)
          \/ KbTick

KbSpec == KbInit /\ [][KbNext]_kbVars

(* The driver's state has its type, and a repeated key is a reported one.  *)
KbTypeOK ==
    /\ kb.last \in Reports /\ kb.rep \in Keys \cup {NoKey}
    /\ (kb.rep # NoKey => kb.rep \in kb.last.keys)
    /\ Len(kq) <= MaxEvents /\ kctrl \in BOOLEAN /\ know \in 0..KbHorizon
    /\ kheld \subseteq Keys \cup Modifiers /\ kdrop \in BOOLEAN /\ kroll \in BOOLEAN

(* A reader that drains the queue holds exactly the keys of the last       *)
(* report: no key sticks and none is missed, however reports, repeats and  *)
(* reads interleave, as long as the queue never overflowed and no          *)
(* roll-over report was seen.                                              *)
KeysAgree == ~kdrop /\ ~kroll =>
                FoldLeft(Apply, kheld, kq) = kb.last.keys \cup kb.last.mods

(* The keyboard's state is well formed and its reader is told the truth.   *)
KeyboardSound == KbTypeOK /\ KeysAgree
=============================================================================

------------------------------ MODULE TimerHeap ------------------------------
(***************************************************************************)
(* The deadline queue as it is: a binary heap in a vector, cancellation by *)
(* forgetting the token, entries reclaimed when they reach the head, and   *)
(* expiry in batches, the first in the timer interrupt and the rest after  *)
(* irq_exit.                                                               *)
(***************************************************************************)
EXTENDS Naturals, FiniteSets, Sequences, SequencesExt

CONSTANTS
    TmProcs,    \* processes
    Horizon,    \* the largest time
    LastToken,  \* u64::MAX
    Batch       \* EXPIRY_BATCH

ASSUME TimerSizes == Horizon \in Nat /\ LastToken \in Nat \ {0} /\ Batch \in Nat \ {0}

VARIABLES
    hheap,      \* TimerQueue.heap
    hnext,      \* TimerQueue.next_token
    hwait,      \* the wait_token of each process, 0 for none
    hnow,       \* monotonic_ns
    hirq,       \* the time the queue was last expired for
    hdeferred,  \* DEFERRED_EXPIRY_PENDING
    hphase,     \* "task", or "post" between irq_exit and the deferred expiry
    hwoken      \* the entries the last step woke, in order

heapVars == <<hheap, hnext, hwait, hnow, hirq, hdeferred, hphase, hwoken>>

HEntry == [deadline: 0..Horizon, pid: TmProcs, token: 1..LastToken]

\* key(idx): deadline, then token.
Less(a, b) == \/ a.deadline < b.deadline
              \/ a.deadline = b.deadline /\ a.token < b.token

HSwap(h, i, j) == [h EXCEPT ![i] = h[j], ![j] = h[i]]

RECURSIVE SiftUp(_, _)
\* Entries count from 1: the parent of i is i \div 2.
SiftUp(h, i) ==
    IF i > 1 /\ Less(h[i], h[i \div 2]) THEN SiftUp(HSwap(h, i, i \div 2), i \div 2) ELSE h

\* Seeded fault: the right child is never looked at.
SmallestLeft(h, i) ==
    IF 2 * i <= Len(h) /\ Less(h[2 * i], h[i]) THEN 2 * i ELSE i

\* The least of an entry and its children.
Smallest(h, i) ==
    LET l == IF 2 * i <= Len(h) /\ Less(h[2 * i], h[i]) THEN 2 * i ELSE i
    IN  IF 2 * i + 1 <= Len(h) /\ Less(h[2 * i + 1], h[l]) THEN 2 * i + 1 ELSE l

RECURSIVE SiftDown(_, _)
SiftDown(h, i) ==
    LET s == Smallest(h, i) IN IF s = i THEN h ELSE SiftDown(HSwap(h, i, s), s)

PushRaw(h, e) == SiftUp(Append(h, e), Len(h) + 1)

PopHead(h) ==
    LET rest == SubSeq(HSwap(h, 1, Len(h)), 1, Len(h) - 1)
    IN  IF rest = <<>> THEN rest ELSE SiftDown(rest, 1)

\* is_live_wait
LiveWait(e) == hwait[e.pid] = e.token

RECURSIVE DrainStaleHead(_)
DrainStaleHead(h) ==
    IF h # <<>> /\ ~LiveWait(Head(h)) THEN DrainStaleHead(PopHead(h)) ELSE h

RECURSIVE PopBatch(_, _, _)
\* Up to n calls of pop_due: the heap that is left, and the live entries popped.
PopBatch(h, now, n) ==
    IF n = 0 \/ h = <<>> \/ Head(h).deadline > now THEN [heap |-> h, popped |-> <<>>]
    ELSE LET r == PopBatch(PopHead(h), now, IF LiveWait(Head(h)) THEN n - 1 ELSE n)
         IN  IF LiveWait(Head(h)) THEN [r EXCEPT !.popped = <<Head(h)>> \o @] ELSE r

\* One round of expiry: pop a batch, then peek, which reclaims stale heads.
ExpiryRound(h, now) ==
    LET r == PopBatch(h, now, Batch)
        left == DrainStaleHead(r.heap)
    IN  [heap |-> left, popped |-> r.popped,
         more |-> left # <<>> /\ Head(left).deadline <= now]

\* wake_from_timer clears the wait of the processes woken.
Woken(popped) == [p \in TmProcs |-> IF \E e \in ToSet(popped) : e.pid = p THEN 0 ELSE hwait[p]]

RECURSIVE DrainRounds(_, _)
\* process_deferred_expiry's loop.  Entries popped by one round are live until
\* they are woken, and each process has one.
DrainRounds(h, now) ==
    LET r == ExpiryRound(h, now)
    IN  IF ~r.more THEN r
        ELSE LET q == DrainRounds(r.heap, now)
             IN  [q EXCEPT !.popped = r.popped \o @]

------------------------------------------------------------------------------

HInit ==
    /\ hheap = <<>> /\ hnext = 1 /\ hwait = [p \in TmProcs |-> 0]
    /\ hnow = 0 /\ hirq = 0 /\ hdeferred = FALSE /\ hphase = "task" /\ hwoken = <<>>

\* block_current_until and arm_current_locked: no wait when the deadline is not
\* in the future, the tokens are used up or memory is.
HArm(p, d) ==
    /\ hphase = "task" /\ hwait[p] = 0
    /\ d > hnow /\ hnext # LastToken
    /\ hheap' = PushRaw(hheap, [deadline |-> d, pid |-> p, token |-> hnext])
    /\ hnext' = hnext + 1
    /\ hwait' = [hwait EXCEPT ![p] = hnext]
    /\ hwoken' = <<>>
    /\ UNCHANGED <<hnow, hirq, hdeferred, hphase>>

\* A signal, an event or an exit: cancel_owned, invalidate_wait_token.
HCancel(p) ==
    /\ hphase = "task" /\ hwait[p] # 0
    /\ hwait' = [hwait EXCEPT ![p] = 0]
    /\ hwoken' = <<>>
    /\ UNCHANGED <<hheap, hnext, hnow, hirq, hdeferred, hphase>>

\* next_deadline_ns, called to program the clock event.
HNextDeadline ==
    /\ hphase = "task"
    /\ hheap' = DrainStaleHead(hheap)
    /\ hwoken' = <<>>
    /\ UNCHANGED <<hnext, hwait, hnow, hirq, hdeferred, hphase>>

HClock ==
    /\ hphase = "task" /\ hnow < Horizon
    /\ hnow' = hnow + 1 /\ hwoken' = <<>>
    /\ UNCHANGED <<hheap, hnext, hwait, hirq, hdeferred, hphase>>

\* expire_due, in the timer interrupt.
HExpireDue ==
    LET r == ExpiryRound(hheap, hnow)
    IN  /\ hphase = "task"
        /\ hheap' = r.heap
        /\ hwait' = Woken(r.popped) /\ hwoken' = r.popped
        /\ hdeferred' = (hdeferred \/ r.more)
        /\ hirq' = hnow /\ hphase' = "post"
        /\ UNCHANGED <<hnext, hnow>>

\* process_deferred_expiry, after irq_exit.
HDeferred ==
    LET r == DrainRounds(hheap, hnow)
    IN  /\ hphase = "post" /\ hphase' = "task"
        /\ IF hdeferred
           THEN /\ hheap' = DrainStaleHead(r.heap)
                /\ hwait' = Woken(r.popped) /\ hwoken' = r.popped
                /\ hdeferred' = FALSE /\ hirq' = hnow
           ELSE UNCHANGED <<hheap, hwait, hdeferred, hirq>> /\ hwoken' = <<>>
        /\ UNCHANGED <<hnext, hnow>>

HNext ==
    \/ \E p \in TmProcs, d \in 1..Horizon : HArm(p, d)
    \/ \E p \in TmProcs : HCancel(p)
    \/ HNextDeadline
    \/ HClock
    \/ HExpireDue
    \/ HDeferred

HeapSpec == HInit /\ [][HNext]_heapVars

------------------------------------------------------------------------------
(* Properties                                                              *)

TimerTypeOK ==
    /\ hheap \in Seq(HEntry) /\ hnext \in 1..LastToken
    /\ hwait \in [TmProcs -> 0..LastToken]
    /\ hnow \in 0..Horizon /\ hirq \in 0..Horizon
    /\ hdeferred \in BOOLEAN /\ hphase \in {"task", "post"}
    /\ hwoken \in Seq(HEntry)

Live == {e \in ToSet(hheap) : LiveWait(e)}

\* The heap, lazy cancellation and batches implement the promise of Deadlines:
\* the live entries are the waits, and what a batch wakes is due, earliest first
\* and gone from the queue.
D == INSTANCE Deadlines WITH DlProcs <- TmProcs, dwaits <- Live,
        dexpired <- ToSet(hwoken), dnow <- hirq, dtoken <- hnext - 1
Implements == D!DlSpec

\* The interrupt leaves nothing behind: when the task is back, every live wait
\* is later than the time the interrupt expired for, however many were due
\* beyond one batch; and every process that waits has its entry in the heap.
InterruptDrains ==
    /\ hphase = "task" => ~hdeferred /\ \A e \in Live : e.deadline > hirq
    /\ \A p \in TmProcs : hwait[p] # 0 => \E e \in Live : e.pid = p

\* queue.rs:23: "the heap cannot grow without bound from repeated interrupted
\* long sleeps": with one wait for each process at a time the heap holds at most
\* one cancelled entry for each live one.
StaleBounded == Len(hheap) <= 2 * Cardinality(TmProcs)

\* The heap is an exact deadline queue: it implements Deadlines, and an interrupt
\* leaves no due wait behind.
HeapExact == Implements /\ [](TimerTypeOK /\ InterruptDrains)
==============================================================================

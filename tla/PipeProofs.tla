------------------------------ MODULE PipeProofs ------------------------------
(***************************************************************************)
(* Proofs about Pipe.tla, for any number of processes, pipes and           *)
(* descriptors: an end is counted exactly as long as it is referenced, and *)
(* no wake-up of a reader, a writer or a poller is lost.                   *)
(*                                                                         *)
(* The inductive invariant adds to the two properties that whoever sleeps  *)
(* and was not woken is still on the queue it would be woken from.  Every  *)
(* action builds a kernel state, and Settle then drops the ends that lost  *)
(* their last reference; SettleSound is the half of the argument that all  *)
(* actions share, and an action lemma shows its premises.                  *)
(***************************************************************************)
EXTENDS Pipe, FiniteSetTheorems, TLAPS

(* A set of naturals that is not empty has a least element.  If it had none, *)
(* its lower bounds T would be closed under successor and miss some k; what  *)
(* is not in T could move down by one, and 0..k would fit into 0..(k - 1).   *)
LEMMA WellOrdered ==
    ASSUME NEW S \in SUBSET Nat, S # {}
    PROVE  \E x \in S : \A y \in S : x <= y
<1> SUFFICES ASSUME \A x \in S : \E y \in S : y < x PROVE FALSE
  OBVIOUS
<1> DEFINE T == {n \in Nat : \A s \in S : n <= s}
<1>1. /\ 0 \in T
      /\ \A n \in Nat : n \in T => n + 1 \in T
  OBVIOUS
<1>2. PICK k \in Nat : k \notin T
  <2>1. PICK s \in S : TRUE
    BY Zenon
  <2>2. s \in Nat /\ s \notin T
    <3>1. PICK y \in S : y < s
      OBVIOUS
    <3> QED
      BY <3>1
  <2> QED
    BY <2>2
<1> HIDE DEF T
<1>3. k # 0 /\ k - 1 \in Nat
  BY <1>1, <1>2
<1> DEFINE f == [n \in 0..k |-> IF n \in T THEN n ELSE n - 1]
<1>4. f \in [0..k -> 0..(k - 1)]
  <2> SUFFICES ASSUME NEW n \in 0..k
               PROVE  (IF n \in T THEN n ELSE n - 1) \in 0..(k - 1)
    OBVIOUS
  <2> QED
    BY <1>1, <1>2, <1>3
<1>5. \A x, y \in 0..k : f[x] = f[y] => x = y
  <2> SUFFICES ASSUME NEW x \in 0..k, NEW y \in 0..k, x \in T, y \notin T
               PROVE  x # y - 1
    OBVIOUS
  <2>1. y # 0 /\ y - 1 \in Nat
    BY <1>1
  <2>2. y - 1 \in T => y \in T
    BY <1>1, <2>1
  <2> QED
    BY <2>2
<1>6. /\ IsFiniteSet(0..k) /\ Cardinality(0..k) = k + 1
      /\ IsFiniteSet(0..(k - 1)) /\ Cardinality(0..(k - 1)) = k
  BY FS_Interval, <1>3
<1>7. \E x, y \in 0..k : x # y /\ f[x] = f[y]
  <2>1. Cardinality(0..(k - 1)) < Cardinality(0..k)
    BY <1>6
  <2> HIDE DEF f
  <2> QED
    BY Zenon, <1>4, <1>6, <2>1, FS_PigeonHole
<1> QED
  BY <1>5, <1>7

\* The sleeper p is on the queue that will wake it and has nothing to do.
Parked(s, calls, sig, p) ==
    LET c == calls[p]
    IN  /\ c.op = "read" => /\ p \in s.rq[c.file[1]]
                            /\ s.buf[c.file[1]] = 0 /\ s.writers[c.file[1]] > 0
        /\ c.op = "write" => /\ p \in s.wq[c.file[1]]
                             /\ s.readers[c.file[1]] > 0 /\ ~CanWrite(s, c.file[1], c.len)
        /\ c.op = "poll" => p \in s.pollq /\ ~PollReady(s, p, c.want)
        /\ c # Idle => p \notin sig

\* Everybody who was not woken is parked.
AllParked(s, calls, live, sig) ==
    \A p \in live \ s.pend : Parked(s, calls, sig, p)

\* Before Settle an end counts if it was referenced before the step or is now.
Opened(s, calls) ==
    \A i \in Pipes :
        /\ s.readers[i] = IF Referenced(ps, pcall, <<i, "r">>) \/ Referenced(s, calls, <<i, "r">>)
                          THEN 1 ELSE 0
        /\ s.writers[i] = IF Referenced(ps, pcall, <<i, "w">>) \/ Referenced(s, calls, <<i, "w">>)
                          THEN 1 ELSE 0

\* No wait queue runs out of slots (WAIT_QUEUE_CAPACITY in the code).
QueuesFit == IsFiniteSet(FdProcs) /\ Cardinality(FdProcs) <= QCap

\* The inductive invariant.
PipeInv ==
    /\ PipeTypeOK
    /\ EndsCounted
    /\ QueuesFit => AllParked(ps, pcall, plive, psig)

------------------------------------------------------------------------------
(* Dropping ends                                                           *)

\* What DropEnds does to each field.
LEMMA DropFields ==
    ASSUME NEW s \in PipeState, NEW gone \in SUBSET PFile, gone # {}
    PROVE  LET t == DropEnds(s, gone)
               touched == {f[1] : f \in gone}
           IN  /\ t \in PipeState
               /\ t.fdt = s.fdt /\ t.nb = s.nb /\ t.buf = s.buf
               /\ \A i \in Pipes :
                    /\ t.readers[i] = IF <<i, "r">> \in gone /\ s.readers[i] > 0
                                      THEN s.readers[i] - 1 ELSE s.readers[i]
                    /\ t.writers[i] = IF <<i, "w">> \in gone /\ s.writers[i] > 0
                                      THEN s.writers[i] - 1 ELSE s.writers[i]
                    /\ i \in touched => s.rq[i] \cup s.wq[i] \subseteq t.pend
                    /\ i \notin touched => t.rq[i] = s.rq[i] /\ t.wq[i] = s.wq[i]
               /\ s.pend \cup s.pollq \subseteq t.pend
<1> DEFINE touched == {f[1] : f \in gone}
           woken == UNION {s.rq[i] \cup s.wq[i] : i \in touched}
           rd == [i \in Pipes |-> IF <<i, "r">> \in gone /\ s.readers[i] > 0
                                  THEN s.readers[i] - 1 ELSE s.readers[i]]
           wr == [i \in Pipes |-> IF <<i, "w">> \in gone /\ s.writers[i] > 0
                                  THEN s.writers[i] - 1 ELSE s.writers[i]]
           nrq == [i \in Pipes |-> IF i \in touched THEN {} ELSE s.rq[i]]
           nwq == [i \in Pipes |-> IF i \in touched THEN {} ELSE s.wq[i]]
           npend == s.pend \cup woken \cup s.pollq
           t == DropEnds(s, gone)
<1>1. t = [s EXCEPT !.readers = rd, !.writers = wr, !.rq = nrq, !.wq = nwq,
                    !.pollq = {}, !.pend = npend]
  BY DEF DropEnds
<1>2. touched \subseteq Pipes
  BY DEF PFile
<1>3. rd \in [Pipes -> 0..1] /\ wr \in [Pipes -> 0..1]
  <2>1. s.readers \in [Pipes -> 0..1] /\ s.writers \in [Pipes -> 0..1]
    BY DEF PipeState
  <2> QED
    BY <2>1
<1>4. nrq \in [Pipes -> SUBSET FdProcs] /\ nwq \in [Pipes -> SUBSET FdProcs]
      /\ npend \in SUBSET FdProcs
  <2>1. /\ s.rq \in [Pipes -> SUBSET FdProcs] /\ s.wq \in [Pipes -> SUBSET FdProcs]
        /\ s.pend \in SUBSET FdProcs /\ s.pollq \in SUBSET FdProcs
    BY DEF PipeState
  <2> QED
    BY <1>2, <2>1
<1> HIDE DEF t
<1>5. t \in PipeState
  <2> HIDE DEF rd, wr, nrq, nwq, npend
  <2> QED
    BY Zenon, <1>1, <1>3, <1>4 DEF PipeState
<1>6. /\ t.fdt = s.fdt /\ t.nb = s.nb /\ t.buf = s.buf
      /\ t.readers = rd /\ t.writers = wr /\ t.rq = nrq /\ t.wq = nwq /\ t.pend = npend
  <2> HIDE DEF rd, wr, nrq, nwq, npend
  <2> QED
    BY <1>1 DEF PipeState
<1>7. \A i \in touched : s.rq[i] \cup s.wq[i] \subseteq npend
  OBVIOUS
<1> QED
  BY <1>5, <1>6, <1>7 DEF t

\* Settle leaves the ends counted and the sleepers parked: the processes on the
\* queues of a pipe that loses an end, and all pollers, are woken.
LEMMA SettleSound ==
    ASSUME NEW s \in PipeState, NEW calls \in [FdProcs -> PCall],
           NEW live \in SUBSET FdProcs, NEW sig,
           Opened(s, calls)
    PROVE  LET t == Settle(s, calls)
           IN  /\ t \in PipeState
               /\ AllParked(s, calls, live, sig) => AllParked(t, calls, live, sig)
               /\ \A i \in Pipes :
                    /\ t.readers[i] = IF Referenced(t, calls, <<i, "r">>) THEN 1 ELSE 0
                    /\ t.writers[i] = IF Referenced(t, calls, <<i, "w">>) THEN 1 ELSE 0
<1> DEFINE gone == Gone(s, calls)
           t == DropEnds(s, gone)
           touched == {f[1] : f \in gone}
<1>1. \A i \in Pipes : \A e \in Ends :
        <<i, e>> \in gone <=> Referenced(ps, pcall, <<i, e>>) /\ ~Referenced(s, calls, <<i, e>>)
  BY DEF Gone, PFile
<1>2. gone \in SUBSET PFile
  BY DEF Gone
<1>3. CASE gone = {}
  <2>1. t = s
    BY <1>3 DEF DropEnds
  <2>2. \A i \in Pipes : \A e \in Ends :
          Referenced(ps, pcall, <<i, e>>) => Referenced(s, calls, <<i, e>>)
    BY <1>1, <1>3
  <2> HIDE DEF gone, t
  <2> QED
    BY <2>1, <2>2 DEF Opened, Settle, Ends, t, gone
<1>4. CASE gone # {}
  <2> HIDE DEF gone
  <2>1. /\ t \in PipeState
        /\ t.fdt = s.fdt /\ t.nb = s.nb /\ t.buf = s.buf
        /\ \A i \in Pipes :
             /\ t.readers[i] = IF <<i, "r">> \in gone /\ s.readers[i] > 0
                               THEN s.readers[i] - 1 ELSE s.readers[i]
             /\ t.writers[i] = IF <<i, "w">> \in gone /\ s.writers[i] > 0
                               THEN s.writers[i] - 1 ELSE s.writers[i]
             /\ i \in touched => s.rq[i] \cup s.wq[i] \subseteq t.pend
             /\ i \notin touched => t.rq[i] = s.rq[i] /\ t.wq[i] = s.wq[i]
        /\ s.pend \cup s.pollq \subseteq t.pend
    BY <1>2, <1>4, DropFields
  <2> HIDE DEF t
  <2>2. \A f : Referenced(t, calls, f) <=> Referenced(s, calls, f)
    BY <2>1 DEF Referenced
  <2>3. ASSUME NEW i \in Pipes
        PROVE  /\ t.readers[i] = IF Referenced(t, calls, <<i, "r">>) THEN 1 ELSE 0
               /\ t.writers[i] = IF Referenced(t, calls, <<i, "w">>) THEN 1 ELSE 0
    <3>1. /\ <<i, "r">> \in gone <=> Referenced(ps, pcall, <<i, "r">>) /\ ~Referenced(s, calls, <<i, "r">>)
          /\ <<i, "w">> \in gone <=> Referenced(ps, pcall, <<i, "w">>) /\ ~Referenced(s, calls, <<i, "w">>)
      BY <1>1 DEF Ends
    <3> QED
      BY <2>1, <2>2, <3>1 DEF Opened
  <2>4. \A i \in Pipes : i \notin touched =>
          /\ t.readers[i] = s.readers[i] /\ t.writers[i] = s.writers[i]
          /\ t.rq[i] = s.rq[i] /\ t.wq[i] = s.wq[i]
    <3>1. \A i \in Pipes : i \notin touched => <<i, "r">> \notin gone /\ <<i, "w">> \notin gone
      OBVIOUS
    <3> QED
      BY Zenon, <2>1, <3>1
  <2>5. ASSUME AllParked(s, calls, live, sig), NEW p \in live \ t.pend
        PROVE  Parked(t, calls, sig, p)
    <3> DEFINE c == calls[p]
    <3>1. Parked(s, calls, sig, p)
      BY <2>1, <2>5 DEF AllParked
    <3>2. c \in PCall
      OBVIOUS
    <3>3. c.op # "poll"
      BY <2>1, <3>1 DEF Parked
    <3>4. c.op \in {"read", "write"} => c.file[1] \in Pipes
      BY <3>2 DEF PCall, Idle, PFile
    <3>5. c.op \in {"read", "write"} => c.file[1] \notin touched
      BY Zenon, <2>1, <3>1, <3>4 DEF Parked
    <3>6. CanWrite(t, c.file[1], c.len) <=> CanWrite(s, c.file[1], c.len)
      BY <2>1 DEF CanWrite
    <3> QED
      BY SMTT(20), <2>1, <2>4, <3>1, <3>3, <3>4, <3>5, <3>6 DEF Parked
  <2>6. AllParked(s, calls, live, sig) => AllParked(t, calls, live, sig)
    BY <2>5 DEF AllParked
  <2> QED
    BY <2>1, <2>3, <2>6 DEF Settle, t, gone
<1> QED
  BY <1>3, <1>4

------------------------------------------------------------------------------
(* One step                                                                *)

\* What an action has to show of the state s it hands to Settle, with the calls
\* and the processes after the step.
Handed(s, calls, live, sig) ==
    /\ s \in PipeState
    /\ calls \in [FdProcs -> PCall]
    /\ live \in SUBSET FdProcs /\ sig \in SUBSET FdProcs
    /\ Opened(s, calls)
    /\ QueuesFit => AllParked(s, calls, live, sig)

\* It is enough for the invariant.
LEMMA HandedKeeps ==
    ASSUME NEW s, Handed(s, pcall', plive', psig'), ps' = Settle(s, pcall'),
           ptab' \in 0..MaxTableOps
    PROVE  PipeInv'
<1>1. LET t == Settle(s, pcall')
      IN  /\ t \in PipeState
          /\ AllParked(s, pcall', plive', psig') => AllParked(t, pcall', plive', psig')
          /\ \A i \in Pipes :
               /\ t.readers[i] = IF Referenced(t, pcall', <<i, "r">>) THEN 1 ELSE 0
               /\ t.writers[i] = IF Referenced(t, pcall', <<i, "w">>) THEN 1 ELSE 0
  BY SettleSound DEF Handed
<1>2. PipeTypeOK'
  BY <1>1 DEF Handed, PipeTypeOK
<1>3. EndsCounted'
  <2>1. \A i \in Pipes :
          /\ ps'.readers[i] = IF Referenced(ps', pcall', <<i, "r">>) THEN 1 ELSE 0
          /\ ps'.writers[i] = IF Referenced(ps', pcall', <<i, "w">>) THEN 1 ELSE 0
    BY Zenon, <1>1
  <2> QED
    BY Zenon, <2>1 DEF EndsCounted
<1>4. QueuesFit => AllParked(ps', pcall', plive', psig')
  BY <1>1 DEF Handed
<1> QED
  BY <1>2, <1>3, <1>4 DEF PipeInv, QueuesFit

\* Nothing that the processes outside X sleep on changes from ps to s.
Same(s, X) ==
    /\ s.buf = ps.buf /\ s.readers = ps.readers /\ s.writers = ps.writers
    /\ \A i \in Pipes : ps.rq[i] \ X \subseteq s.rq[i] /\ ps.wq[i] \ X \subseteq s.wq[i]
    /\ ps.pollq \ X \subseteq s.pollq /\ ps.pend \ X \subseteq s.pend
    /\ \A q \in FdProcs \ X : s.fdt[q] = ps.fdt[q]

\* Every file that s and calls refer to was referred to before.
NothingNew(s, calls) ==
    \A f \in PFile : Referenced(s, calls, f) => Referenced(ps, pcall, f)

\* Whether p is parked depends on these fields of the state only.
LEMMA ParkedFrom ==
    ASSUME NEW s, NEW t, NEW calls \in [FdProcs -> PCall], NEW k, NEW sig, NEW sg,
           NEW p \in FdProcs, Parked(s, calls, sig, p), k[p] = calls[p],
           p \in sg => p \in sig,
           t.fdt[p] = s.fdt[p], t.buf = s.buf, t.readers = s.readers, t.writers = s.writers,
           \A i \in Pipes : (p \in s.rq[i] => p \in t.rq[i]) /\ (p \in s.wq[i] => p \in t.wq[i]),
           p \in s.pollq => p \in t.pollq
    PROVE  Parked(t, k, sg, p)
<1> DEFINE c == calls[p]
<1>1. c \in PCall
  OBVIOUS
<1>2. c.op \in {"read", "write"} => c.file[1] \in Pipes
  BY <1>1 DEF PCall, Idle, PFile
<1>3. CanWrite(t, c.file[1], c.len) <=> CanWrite(s, c.file[1], c.len)
  BY DEF CanWrite
<1>4. PollReady(t, p, c.want) <=> PollReady(s, p, c.want)
  BY DEF PollReady, EndReady
<1> HIDE DEF c
<1>5. Parked(s, calls, sig, p) <=>
        /\ c.op = "read" => p \in s.rq[c.file[1]] /\ s.buf[c.file[1]] = 0 /\ s.writers[c.file[1]] > 0
        /\ c.op = "write" => p \in s.wq[c.file[1]] /\ s.readers[c.file[1]] > 0 /\ ~CanWrite(s, c.file[1], c.len)
        /\ c.op = "poll" => p \in s.pollq /\ ~PollReady(s, p, c.want)
        /\ c # Idle => p \notin sig
  BY DEF Parked, c
<1>6. Parked(t, k, sg, p) <=>
        /\ c.op = "read" => p \in t.rq[c.file[1]] /\ t.buf[c.file[1]] = 0 /\ t.writers[c.file[1]] > 0
        /\ c.op = "write" => p \in t.wq[c.file[1]] /\ t.readers[c.file[1]] > 0 /\ ~CanWrite(t, c.file[1], c.len)
        /\ c.op = "poll" => p \in t.pollq /\ ~PollReady(t, p, c.want)
        /\ c # Idle => p \notin sg
  BY DEF Parked, c
<1> QED
  BY <1>2, <1>3, <1>4, <1>5, <1>6

\* A process in user mode is not asleep.
LEMMA IdleParked ==
    ASSUME NEW s, NEW calls, NEW sig, NEW p, calls[p] = Idle
    PROVE  Parked(s, calls, sig, p)
<1>1. calls[p].op = "none"
  BY DEF Idle
<1> QED
  BY <1>1 DEF Parked

\* A step that leaves all but X alone, and parks or ends the calls of X.
LEMMA SameHanded ==
    ASSUME PipeInv, NEW X, NEW s \in PipeState, Same(s, X),
           NEW calls \in [FdProcs -> PCall], NothingNew(s, calls),
           \A q \in FdProcs \ X : calls[q] = pcall[q],
           NEW live \in SUBSET FdProcs, live \ X \subseteq plive,
           NEW sig \in SUBSET FdProcs, sig \ X \subseteq psig,
           QueuesFit => \A q \in X : q \in live => Parked(s, calls, sig, q)
    PROVE  Handed(s, calls, live, sig)
<1>1. Opened(s, calls)
  <2>1. \A i \in Pipes : <<i, "r">> \in PFile /\ <<i, "w">> \in PFile
    BY DEF PFile, Ends
  <2> QED
    BY Zenon, <2>1 DEF Opened, Same, NothingNew, PipeInv, EndsCounted
<1>2. ASSUME QueuesFit, NEW q \in live \ s.pend PROVE Parked(s, calls, sig, q)
  <2>1. CASE q \in X
    BY <1>2, <2>1
  <2>2. CASE q \notin X
    <3>1. q \in plive /\ q \notin ps.pend /\ pcall \in [FdProcs -> PCall] /\ q \in FdProcs
      BY <2>2 DEF Same, PipeInv, PipeTypeOK
    <3>2. Parked(ps, pcall, psig, q)
      BY <1>2, <3>1 DEF PipeInv, AllParked
    <3>3. /\ calls[q] = pcall[q] /\ (q \in sig => q \in psig)
          /\ s.fdt[q] = ps.fdt[q] /\ s.buf = ps.buf
          /\ s.readers = ps.readers /\ s.writers = ps.writers
          /\ \A i \in Pipes : (q \in ps.rq[i] => q \in s.rq[i]) /\ (q \in ps.wq[i] => q \in s.wq[i])
          /\ (q \in ps.pollq => q \in s.pollq)
      BY <2>2, <3>1 DEF Same
    <3> QED
      BY <3>1, <3>2, <3>3, ParkedFrom
  <2> QED
    BY <2>1, <2>2
<1> QED
  BY <1>1, <1>2 DEF Handed, AllParked

\* The descriptors of p in s refer to files that a descriptor of p referred to.
OwnFiles(s, p) ==
    \A fd \in Fd : s.fdt[p][fd].file \in PFile =>
        \E old \in Fd : ps.fdt[p][old].file = s.fdt[p][fd].file

\* Then s refers to nothing new, if the call of p refers to nothing new.
LEMMA OwnNothingNew ==
    ASSUME PipeInv, NEW p \in FdProcs, NEW s \in PipeState, Same(s, {p}), OwnFiles(s, p),
           NEW call \in PCall,
           call.op \in {"read", "write"} => Referenced(ps, pcall, call.file)
    PROVE  NothingNew(s, [pcall EXCEPT ![p] = call])
<1> DEFINE calls == [pcall EXCEPT ![p] = call]
<1> SUFFICES ASSUME NEW f \in PFile, Referenced(s, calls, f)
             PROVE  Referenced(ps, pcall, f)
  BY DEF NothingNew
<1>0. pcall \in [FdProcs -> PCall]
  BY DEF PipeInv, PipeTypeOK
<1>1. CASE \E q \in FdProcs, fd \in Fd : s.fdt[q][fd].file = f
  BY <1>1 DEF OwnFiles, Same, Referenced
<1>2. CASE \E q \in FdProcs : calls[q].op \in {"read", "write"} /\ calls[q].file = f
  BY <1>0, <1>2 DEF Referenced
<1> QED
  BY <1>1, <1>2 DEF Referenced

\* A call of p that returns having changed nothing that others sleep on.
LEMMA ReturnKeeps ==
    ASSUME PipeInv, NEW p \in FdProcs, NEW s \in PipeState, Same(s, {p}), OwnFiles(s, p),
           Return(p, s), ptab' \in 0..MaxTableOps
    PROVE  PipeInv'
<1> DEFINE calls == [pcall EXCEPT ![p] = Idle]
<1>1. pcall \in [FdProcs -> PCall] /\ plive \in SUBSET FdProcs /\ psig \in SUBSET FdProcs
  BY DEF PipeInv, PipeTypeOK
<1>2. Idle \in PCall /\ Idle.op \notin {"read", "write"}
  BY DEF PCall, Idle
<1>3. NothingNew(s, calls)
  BY <1>2, OwnNothingNew
<1>4. calls \in [FdProcs -> PCall] /\ calls[p] = Idle /\ \A q \in FdProcs \ {p} : calls[q] = pcall[q]
  BY <1>1, <1>2
<1>5. /\ ps' = Settle(s, calls) /\ pcall' = calls /\ plive' = plive /\ psig' = psig \ {p}
  BY DEF Return, Step
<1> HIDE DEF calls
<1>6. Handed(s, calls, plive, psig \ {p})
  BY <1>1, <1>3, <1>4, IdleParked, SameHanded
<1> QED
  BY <1>5, <1>6, HandedKeeps

\* A call of p that goes to sleep, on its queue and with nothing to do.
LEMMA SleepKeeps ==
    ASSUME PipeInv, NEW p \in FdProcs, NEW s \in PipeState, Same(s, {p}), OwnFiles(s, p),
           NEW call \in PCall,
           call.op \in {"read", "write"} => Referenced(ps, pcall, call.file),
           QueuesFit => Parked(s, [pcall EXCEPT ![p] = call], psig, p),
           Sleep(p, s, call), ptab' \in 0..MaxTableOps
    PROVE  PipeInv'
<1> DEFINE calls == [pcall EXCEPT ![p] = call]
<1>1. pcall \in [FdProcs -> PCall] /\ plive \in SUBSET FdProcs /\ psig \in SUBSET FdProcs
  BY DEF PipeInv, PipeTypeOK
<1>2. NothingNew(s, calls)
  BY OwnNothingNew
<1>3. calls \in [FdProcs -> PCall] /\ \A q \in FdProcs \ {p} : calls[q] = pcall[q]
  BY <1>1
<1>4. /\ ps' = Settle(s, calls) /\ pcall' = calls /\ plive' = plive /\ psig' = psig
  BY DEF Sleep, Step
<1> HIDE DEF calls
<1>5. Handed(s, calls, plive, psig)
  <2>1. QueuesFit => \A q \in {p} : q \in plive => Parked(s, calls, psig, q)
    BY DEF calls
  <2> QED
    BY <1>1, <1>2, <1>3, <2>1, SameHanded
<1> QED
  BY <1>4, <1>5, HandedKeeps

------------------------------------------------------------------------------
(* The descriptor table                                                    *)

\* A descriptor table of p that refers to no file that p did not refer to.
Lawful(p, table) ==
    /\ table \in [Fd -> FdEntry]
    /\ \A fd \in Fd : \/ table[fd] = NoEntry
                      \/ \E old \in Fd : table[fd].file = ps.fdt[p][old].file

\* A state that differs from ps in the descriptors of p only.
LEMMA OwnTable ==
    ASSUME PipeInv, NEW p \in FdProcs, NEW table, Lawful(p, table),
           NEW nb \in SUBSET PFile,
           NEW s, s = [ps EXCEPT !.fdt = [@ EXCEPT ![p] = table], !.nb = nb]
    PROVE  s \in PipeState /\ Same(s, {p}) /\ OwnFiles(s, p)
<1> DEFINE fdt == [ps.fdt EXCEPT ![p] = table]
<1>1. ps \in PipeState /\ ps.fdt \in [FdProcs -> [Fd -> FdEntry]]
  BY DEF PipeInv, PipeTypeOK, PipeState
<1>2. fdt \in [FdProcs -> [Fd -> FdEntry]]
  BY <1>1 DEF Lawful
<1>3. fdt[p] = table /\ \A q \in FdProcs \ {p} : fdt[q] = ps.fdt[q]
  BY <1>1
<1>4. s = [ps EXCEPT !.fdt = fdt, !.nb = nb]
  OBVIOUS
<1> HIDE DEF fdt
<1>5. s \in PipeState
  BY Zenon, <1>1, <1>2, <1>4 DEF PipeState
<1>6. /\ s.fdt = fdt /\ s.buf = ps.buf /\ s.readers = ps.readers /\ s.writers = ps.writers
      /\ s.rq = ps.rq /\ s.wq = ps.wq /\ s.pollq = ps.pollq /\ s.pend = ps.pend
  BY Zenon, <1>1, <1>4 DEF PipeState
<1>7. Same(s, {p})
  BY <1>3, <1>6 DEF Same
<1>8. NoEntry.file \notin PFile
  BY DEF NoEntry, PFile
<1> QED
  BY <1>3, <1>5, <1>6, <1>7, <1>8 DEF OwnFiles, Lawful

\* The same for a step that only writes the descriptor table of p.
LEMMA TableReturns ==
    ASSUME PipeInv, NEW p \in FdProcs, NEW table, Lawful(p, table),
           Return(p, [ps EXCEPT !.fdt = [@ EXCEPT ![p] = table]]), ptab' \in 0..MaxTableOps
    PROVE  PipeInv'
<1> DEFINE s == [ps EXCEPT !.fdt = [@ EXCEPT ![p] = table]]
<1>1. ps \in PipeState /\ ps.nb \in SUBSET PFile
  BY DEF PipeInv, PipeTypeOK, PipeState
<1>2. s = [ps EXCEPT !.fdt = [@ EXCEPT ![p] = table], !.nb = ps.nb]
  BY Zenon, <1>1 DEF PipeState
<1> HIDE DEF s
<1>3. s \in PipeState /\ Same(s, {p}) /\ OwnFiles(s, p)
  BY Zenon, <1>1, <1>2, OwnTable
<1> QED
  BY <1>3, ReturnKeeps DEF s

\* The table of p with a copy of descriptor fd, and its own flag, installed at to.
Copied(p, fd, to, c) == [ps.fdt[p] EXCEPT ![to] = [ps.fdt[p][fd] EXCEPT !.cloexec = c]]

\* Installing a copy of a descriptor, with another close-on-exec flag.
LEMMA CopiedEntry ==
    ASSUME PipeInv, NEW p \in FdProcs, NEW fd \in Fd, ps.fdt[p][fd] # NoEntry,
           NEW c \in BOOLEAN, NEW to \in Fd
    PROVE  Lawful(p, Copied(p, fd, to, c))
<1> DEFINE e == [ps.fdt[p][fd] EXCEPT !.cloexec = c]
           table == [ps.fdt[p] EXCEPT ![to] = e]
<1>1. ps.fdt[p] \in [Fd -> FdEntry]
  BY DEF PipeInv, PipeTypeOK, PipeState
<1>2. ps.fdt[p][fd] \in [file: PFile, cloexec: BOOLEAN]
  BY <1>1 DEF FdEntry
<1>3. e \in FdEntry /\ e.file = ps.fdt[p][fd].file
  BY <1>2 DEF FdEntry
<1> HIDE DEF e
<1>4. table \in [Fd -> FdEntry] /\ \A x \in Fd : table[x] = IF x = to THEN e ELSE ps.fdt[p][x]
  BY <1>1, <1>3
<1> HIDE DEF table
<1> QED
  BY <1>3, <1>4 DEF table, e, Copied, Lawful

\* The descriptor that install_fd takes.
LowestFd(s, p, lo) == Min({fd \in FreeFds(s, p) : fd >= lo})

\* The lowest free descriptor not below lo is free.
LEMMA LowestFree ==
    ASSUME NEW s, NEW p, NEW lo, \E x \in FreeFds(s, p) : x >= lo
    PROVE  LowestFd(s, p, lo) \in FreeFds(s, p)
<1> DEFINE S == {fd \in FreeFds(s, p) : fd >= lo}
<1>1. S \in SUBSET Nat /\ S # {}
  <2>1. Fd \subseteq Nat
    BY PipeSizes DEF Fd
  <2> QED
    BY Zenon, <2>1 DEF FreeFds
<1> HIDE DEF S
<1>2. \E x \in S : \A y \in S : x <= y
  BY <1>1, WellOrdered
<1>3. Min(S) \in S
  BY <1>2 DEF Min
<1> QED
  BY <1>3 DEF S, LowestFd

\* fcntl(F_DUPFD), dup
LEMMA DupFdKeeps ==
    ASSUME PipeInv, NEW p \in FdProcs, NEW fd \in Fd, NEW lo \in Fd, NEW c \in BOOLEAN,
           DupFd(p, fd, lo, c), ptab' \in 0..MaxTableOps
    PROVE  PipeInv'
<1> DEFINE to == LowestFd(ps, p, lo)
           table == Copied(p, fd, to, c)
<1>1. to \in Fd
  <2>1. to \in FreeFds(ps, p)
    BY LowestFree DEF DupFd
  <2> QED
    BY <2>1 DEF FreeFds
<1>2. Return(p, [ps EXCEPT !.fdt = [@ EXCEPT ![p] = table]]) /\ ps.fdt[p][fd] # NoEntry
  BY DEF DupFd, InstallFd, Copied, LowestFd
<1> HIDE DEF to
<1>3. Lawful(p, table)
  BY <1>1, <1>2, CopiedEntry
<1> HIDE DEF table
<1> QED
  BY <1>2, <1>3, TableReturns

\* dup3, dup2
LEMMA Dup3Keeps ==
    ASSUME PipeInv, NEW p \in FdProcs, NEW fd \in Fd, NEW to \in Fd, NEW c \in BOOLEAN,
           Dup3(p, fd, to, c), ptab' \in 0..MaxTableOps
    PROVE  PipeInv'
<1> DEFINE table == Copied(p, fd, to, c)
<1>1. Return(p, [ps EXCEPT !.fdt = [@ EXCEPT ![p] = table]]) /\ ps.fdt[p][fd] # NoEntry
  BY DEF Dup3, Copied
<1>2. Lawful(p, table)
  BY <1>1, CopiedEntry
<1> HIDE DEF table
<1> QED
  BY <1>1, <1>2, TableReturns

\* close, fcntl(F_SETFD), execve
LEMMA CloseKeeps ==
    ASSUME PipeInv, NEW p \in FdProcs, ptab' \in 0..MaxTableOps,
           \/ \E fd \in Fd : CloseFd(p, fd)
           \/ \E fd \in Fd, c \in BOOLEAN : SetFd(p, fd, c)
           \/ Exec(p)
    PROVE  PipeInv'
<1>0. ps.fdt[p] \in [Fd -> FdEntry] /\ NoEntry \in FdEntry
  BY DEF PipeInv, PipeTypeOK, PipeState, FdEntry
<1>1. ASSUME NEW fd \in Fd, CloseFd(p, fd) PROVE PipeInv'
  <2> DEFINE table == [ps.fdt[p] EXCEPT ![fd] = NoEntry]
  <2>1. Return(p, [ps EXCEPT !.fdt = [@ EXCEPT ![p] = table]])
    BY <1>1 DEF CloseFd
  <2>2. Lawful(p, table)
    BY <1>0 DEF Lawful
  <2> HIDE DEF table
  <2> QED
    BY <2>1, <2>2, TableReturns
<1>2. ASSUME NEW fd \in Fd, NEW c \in BOOLEAN, SetFd(p, fd, c) PROVE PipeInv'
  <2> DEFINE table == Copied(p, fd, fd, c)
  <2>1. Return(p, [ps EXCEPT !.fdt = [@ EXCEPT ![p] = table]]) /\ ps.fdt[p][fd] # NoEntry
    BY <1>2 DEF SetFd, Copied
  <2>2. Lawful(p, table)
    BY <2>1, CopiedEntry
  <2> HIDE DEF table
  <2> QED
    BY <2>1, <2>2, TableReturns
<1>3. ASSUME Exec(p) PROVE PipeInv'
  <2> DEFINE table == [fd \in Fd |-> IF ps.fdt[p][fd].cloexec THEN NoEntry ELSE ps.fdt[p][fd]]
  <2>1. Return(p, [ps EXCEPT !.fdt = [@ EXCEPT ![p] = table]])
    BY <1>3 DEF Exec
  <2>2. Lawful(p, table)
    BY <1>0 DEF Lawful
  <2> HIDE DEF table
  <2> QED
    BY <2>1, <2>2, TableReturns
<1> QED
  BY <1>1, <1>2, <1>3

\* fcntl(F_SETFL)
LEMMA SetFlKeeps ==
    ASSUME PipeInv, NEW p \in FdProcs, NEW fd \in Fd, NEW n \in BOOLEAN,
           SetFl(p, fd, n), ptab' \in 0..MaxTableOps
    PROVE  PipeInv'
<1> DEFINE f == ps.fdt[p][fd].file
           nb == IF n THEN ps.nb \cup {f} ELSE ps.nb \ {f}
           s == [ps EXCEPT !.nb = nb]
<1>1. ps \in PipeState /\ ps.nb \in SUBSET PFile /\ ps.fdt \in [FdProcs -> [Fd -> FdEntry]]
  BY DEF PipeInv, PipeTypeOK, PipeState
<1>2. ps.fdt[p][fd] # NoEntry /\ Return(p, s)
  BY DEF SetFl
<1>3. f \in PFile
  BY <1>1, <1>2 DEF FdEntry
<1>4. nb \in SUBSET PFile
  BY <1>1, <1>3
<1> HIDE DEF nb
<1>5. s = [ps EXCEPT !.fdt = [@ EXCEPT ![p] = ps.fdt[p]], !.nb = nb]
  <2>1. [ps.fdt EXCEPT ![p] = ps.fdt[p]] = ps.fdt
    BY <1>1
  <2> QED
    BY Zenon, <1>1, <2>1 DEF PipeState
<1>6. Lawful(p, ps.fdt[p])
  BY <1>1 DEF Lawful
<1> HIDE DEF s
<1>7. s \in PipeState /\ Same(s, {p}) /\ OwnFiles(s, p)
  BY Zenon, <1>4, <1>5, <1>6, OwnTable
<1> QED
  BY <1>2, <1>7, ReturnKeeps

\* fork and clone: every file of the child is one of the parent's.
LEMMA ForkKeeps ==
    ASSUME PipeInv, NEW p \in FdProcs, NEW c \in FdProcs,
           ForkFds(p, c), ptab' \in 0..MaxTableOps
    PROVE  PipeInv'
<1> DEFINE fdt == [ps.fdt EXCEPT ![c] = ps.fdt[p]]
           pend == ps.pend \ {c}
           s == [ps EXCEPT !.fdt = fdt, !.pend = pend]
           calls == [pcall EXCEPT ![p] = Idle]
<1>1. /\ ps \in PipeState /\ ps.fdt \in [FdProcs -> [Fd -> FdEntry]] /\ ps.pend \in SUBSET FdProcs
      /\ pcall \in [FdProcs -> PCall] /\ plive \in SUBSET FdProcs /\ psig \in SUBSET FdProcs
  BY DEF PipeInv, PipeTypeOK, PipeState
<1>2. /\ ps' = Settle(s, calls) /\ pcall' = calls
      /\ plive' = plive \cup {c} /\ psig' = psig \ {p, c}
      /\ pcall[p] = Idle /\ pcall[c] = Idle
  BY DEF ForkFds, Step, Ready
<1>3. calls = pcall
  BY <1>1, <1>2
<1>4. /\ fdt \in [FdProcs -> [Fd -> FdEntry]] /\ pend \in SUBSET FdProcs
      /\ \A q \in FdProcs : fdt[q] = IF q = c THEN ps.fdt[p] ELSE ps.fdt[q]
  BY <1>1
<1> HIDE DEF fdt
<1>5. s \in PipeState
  BY Zenon, <1>1, <1>4 DEF PipeState
<1>6. /\ s.fdt = fdt /\ s.buf = ps.buf /\ s.readers = ps.readers /\ s.writers = ps.writers
      /\ s.rq = ps.rq /\ s.wq = ps.wq /\ s.pollq = ps.pollq /\ s.pend = pend
  BY <1>1 DEF PipeState
<1> HIDE DEF s
<1>7. Same(s, {p, c})
  BY <1>4, <1>6 DEF Same
<1>8. NothingNew(s, pcall)
  BY <1>4, <1>6 DEF NothingNew, Referenced
<1>9. Handed(s, pcall, plive \cup {c}, psig \ {p, c})
  <2>1. \A q \in {p, c} : Parked(s, pcall, psig \ {p, c}, q)
    BY <1>2, IdleParked
  <2>2. (plive \cup {c}) \ {p, c} \subseteq plive /\ (psig \ {p, c}) \ {p, c} \subseteq psig
    OBVIOUS
  <2>3. plive \cup {c} \in SUBSET FdProcs /\ psig \ {p, c} \in SUBSET FdProcs
    BY <1>1
  <2> QED
    BY <1>1, <1>5, <1>7, <1>8, <2>1, <2>2, <2>3, SameHanded
<1> QED
  BY Zenon, <1>2, <1>3, <1>9, HandedKeeps

\* exit and fatal signals: close_all_fds
LEMMA DieKeeps ==
    ASSUME PipeInv, NEW p \in FdProcs, Die(p), ptab' \in 0..MaxTableOps
    PROVE  PipeInv'
<1> DEFINE s == [ps EXCEPT !.fdt = [@ EXCEPT ![p] = NoFds]]
<1>1. /\ ps \in PipeState /\ pcall \in [FdProcs -> PCall]
      /\ plive \in SUBSET FdProcs /\ psig \in SUBSET FdProcs /\ ps.nb \in SUBSET PFile
  BY DEF PipeInv, PipeTypeOK, PipeState
<1>2. /\ ps' = Settle(s, pcall) /\ pcall' = pcall /\ plive' = plive \ {p} /\ psig' = psig
  BY DEF Die
<1>3. Lawful(p, NoFds)
  BY DEF Lawful, NoFds, FdEntry
<1>4. s = [ps EXCEPT !.fdt = [@ EXCEPT ![p] = NoFds], !.nb = ps.nb]
  BY Zenon, <1>1 DEF PipeState
<1> HIDE DEF s
<1>5. s \in PipeState /\ Same(s, {p}) /\ OwnFiles(s, p)
  BY Zenon, <1>1, <1>3, <1>4, OwnTable
<1>6. NothingNew(s, pcall)
  BY <1>5 DEF NothingNew, Referenced, OwnFiles, Same
<1>7. Handed(s, pcall, plive \ {p}, psig)
  BY <1>1, <1>5, <1>6, SameHanded
<1> QED
  BY <1>2, <1>7, HandedKeeps

\* A signal wakes the sleeper it is for.
LEMMA SignalKeeps ==
    ASSUME PipeInv, NEW p \in FdProcs, SignalProc(p), ptab' \in 0..MaxTableOps
    PROVE  PipeInv'
<1> DEFINE pend == IF pcall[p] = Idle THEN ps.pend ELSE ps.pend \cup {p}
<1>1. /\ ps \in PipeState /\ pcall \in [FdProcs -> PCall] /\ ps.pend \in SUBSET FdProcs
      /\ plive \in SUBSET FdProcs /\ psig \in SUBSET FdProcs
  BY DEF PipeInv, PipeTypeOK, PipeState
<1>2. ps' = [ps EXCEPT !.pend = pend] /\ pcall' = pcall /\ plive' = plive /\ psig' = psig \cup {p}
  <2>1. ps = [ps EXCEPT !.pend = ps.pend]
    BY <1>1 DEF PipeState
  <2> QED
    BY <2>1 DEF SignalProc
<1>3. pend \in SUBSET FdProcs /\ ps.pend \subseteq pend
  BY <1>1
<1>3a. p \in pend \/ pcall[p] = Idle
  OBVIOUS
<1> HIDE DEF pend
<1>4. /\ ps' \in PipeState /\ ps'.fdt = ps.fdt /\ ps'.buf = ps.buf
      /\ ps'.readers = ps.readers /\ ps'.writers = ps.writers
      /\ ps'.rq = ps.rq /\ ps'.wq = ps.wq /\ ps'.pollq = ps.pollq /\ ps'.pend = pend
  BY Zenon, <1>1, <1>2, <1>3 DEF PipeState
<1>5. PipeTypeOK'
  BY <1>1, <1>2, <1>4 DEF PipeTypeOK
<1>6. EndsCounted'
  <2>1. \A f : Referenced(ps', pcall', f) <=> Referenced(ps, pcall, f)
    BY <1>2, <1>4 DEF Referenced
  <2>2. \A i \in Pipes :
          /\ ps'.readers[i] = IF Referenced(ps', pcall', <<i, "r">>) THEN 1 ELSE 0
          /\ ps'.writers[i] = IF Referenced(ps', pcall', <<i, "w">>) THEN 1 ELSE 0
    BY Zenon, <1>4, <2>1 DEF PipeInv, EndsCounted
  <2> QED
    BY Zenon, <2>2 DEF EndsCounted
<1>7. ASSUME QueuesFit, NEW q \in plive' \ ps'.pend PROVE Parked(ps', pcall', psig', q)
  <2>1. CASE q = p
    BY <1>2, <1>3a, <1>4, <1>7, <2>1, IdleParked
  <2>2. CASE q # p
    <3>1. Parked(ps, pcall, psig, q) /\ q \in FdProcs
      BY <1>1, <1>2, <1>3, <1>4, <1>7 DEF PipeInv, AllParked
    <3> QED
      BY Zenon, <1>1, <1>2, <1>4, <2>2, <3>1, ParkedFrom
  <2> QED
    BY <2>1, <2>2
<1>8. QueuesFit => AllParked(ps', pcall', plive', psig')
  BY <1>7 DEF AllParked
<1> QED
  BY <1>5, <1>6, <1>8 DEF PipeInv, QueuesFit

\* pipe2: the two lowest free descriptors are two, and free.
LEMMA TwoFree ==
    ASSUME PipeInv, NEW p \in FdProcs, Cardinality(FreeFds(ps, p)) >= 2,
           NEW s, s.fdt = ps.fdt, NEW e, e # NoEntry,
           NEW a, a = LowestFd(s, p, 0),
           NEW t, t.fdt[p] = [s.fdt[p] EXCEPT ![a] = e]
    PROVE  /\ a \in FreeFds(ps, p)
           /\ LowestFd(t, p, 0) \in FreeFds(ps, p) \ {a}
<1> DEFINE S == FreeFds(ps, p)
<1>1. S \subseteq Fd /\ Fd \subseteq Nat /\ IsFiniteSet(Fd) /\ ps.fdt[p] \in [Fd -> FdEntry]
  <2>0. 0 \in Int /\ MaxFd - 1 \in Int
    BY PipeSizes
  <2>1. IsFiniteSet(Fd)
    BY Zenon, <2>0, FS_Interval DEF Fd
  <2> QED
    BY <2>1, PipeSizes DEF FreeFds, Fd, PipeInv, PipeTypeOK, PipeState
<1>2. IsFiniteSet(S)
  BY <1>1, FS_Subset
<1>3. S # {}
  BY FS_EmptySet
<1>4. S \ {a} # {}
  <2> SUFFICES ASSUME S \ {a} = {} PROVE FALSE
    OBVIOUS
  <2>1. S = {a}
    BY <1>3
  <2> HIDE DEF S
  <2>2. Cardinality(S) = 1
    BY <2>1, FS_Singleton
  <2> QED
    BY <2>2 DEF S
<1>5. FreeFds(s, p) = S
  BY DEF FreeFds
<1>6. a \in S
  <2>0. PICK x \in FreeFds(s, p) : x \in Nat
    BY Zenon, <1>1, <1>3, <1>5
  <2>1. \E y \in FreeFds(s, p) : y >= 0
    BY <2>0
  <2> QED
    BY <2>1, <1>5, LowestFree
<1>7. FreeFds(t, p) = S \ {a}
  BY <1>1, <1>6 DEF FreeFds
<1>8. \E y \in FreeFds(t, p) : y >= 0
  <2>1. PICK x \in FreeFds(t, p) : x \in Nat
    BY Zenon, <1>1, <1>4, <1>7
  <2> QED
    BY <2>1
<1> QED
  BY <1>6, <1>7, <1>8, LowestFree

\* A pipe that nobody refers to: no sleeper is concerned by what becomes of it.
LEMMA UnreferencedPipe ==
    ASSUME PipeInv, NEW i \in Pipes, \A e \in Ends : ~Referenced(ps, pcall, <<i, e>>),
           NEW s, NEW calls, NEW sig, NEW q \in FdProcs, Parked(ps, pcall, psig, q),
           calls[q] = pcall[q], q \in sig => q \in psig,
           s.fdt[q] = ps.fdt[q], s.rq = ps.rq, s.wq = ps.wq, s.pollq = ps.pollq,
           \A j \in Pipes \ {i} : /\ s.buf[j] = ps.buf[j] /\ s.readers[j] = ps.readers[j]
                                  /\ s.writers[j] = ps.writers[j]
    PROVE  Parked(s, calls, sig, q)
<1> DEFINE c == pcall[q]
<1>1. c \in PCall /\ ps.fdt[q] \in [Fd -> FdEntry]
  BY DEF PipeInv, PipeTypeOK, PipeState
<1>2. \A f \in PFile : f = <<f[1], f[2]>> /\ f[1] \in Pipes /\ f[2] \in Ends
  BY DEF PFile
<1>3. c.op \in {"read", "write"} => c.file \in PFile /\ Referenced(ps, pcall, c.file)
  BY SMTT(20), <1>1 DEF PCall, Idle, Referenced
<1>4. c.op \in {"read", "write"} => c.file[1] \in Pipes \ {i}
  BY <1>2, <1>3
<1>5. ASSUME c.op = "poll" PROVE PollReady(s, q, c.want) <=> PollReady(ps, q, c.want)
  <2>1. c.want \subseteq Fd \X {"in", "out"}
    BY <1>1, <1>5 DEF PCall, Idle
  <2>2. ASSUME NEW w \in c.want, ps.fdt[q][w[1]] # NoEntry
        PROVE  EndReady(s, ps.fdt[q][w[1]].file, w[2]) <=> EndReady(ps, ps.fdt[q][w[1]].file, w[2])
    <3> DEFINE f == ps.fdt[q][w[1]].file
    <3>1. w[1] \in Fd
      BY <2>1
    <3>2. f \in PFile /\ Referenced(ps, pcall, f)
      BY <1>1, <2>2, <3>1 DEF FdEntry, Referenced
    <3>3. f[1] \in Pipes \ {i}
      BY <1>2, <3>2
    <3> HIDE DEF f
    <3>4. EndReady(s, f, w[2]) <=> EndReady(ps, f, w[2])
      BY <3>3 DEF EndReady
    <3> QED
      BY Zenon, <3>4 DEF f
  <2> QED
    BY Zenon, <2>2 DEF PollReady
<1>6. c.op = "write" => (CanWrite(s, c.file[1], c.len) <=> CanWrite(ps, c.file[1], c.len))
  BY <1>4 DEF CanWrite
<1> QED
  BY Zenon, <1>4, <1>5, <1>6 DEF Parked

\* pipe2
LEMMA Pipe2Keeps ==
    ASSUME PipeInv, NEW p \in FdProcs, NEW i \in Pipes, NEW c \in BOOLEAN, NEW n \in BOOLEAN,
           Pipe2(p, i, c, n), ptab' \in 0..MaxTableOps
    PROVE  PipeInv'
<1> DEFINE entry(e) == [file |-> <<i, e>>, cloexec |-> c]
           nb == (ps.nb \ {<<i, e>> : e \in Ends}) \cup (IF n THEN {<<i, e>> : e \in Ends} ELSE {})
           buf == [ps.buf EXCEPT ![i] = 0]
           rd == [ps.readers EXCEPT ![i] = 1]
           wr == [ps.writers EXCEPT ![i] = 1]
           new == [ps EXCEPT !.buf = buf, !.readers = rd, !.writers = wr, !.nb = nb]
           a == LowestFd(new, p, 0)
           one == [new EXCEPT !.fdt[p][a] = entry("r")]
           b == LowestFd(one, p, 0)
           s == [one EXCEPT !.fdt[p][b] = entry("w")]
           calls == [pcall EXCEPT ![p] = Idle]
<1>1. /\ ps \in PipeState /\ pcall \in [FdProcs -> PCall]
      /\ plive \in SUBSET FdProcs /\ psig \in SUBSET FdProcs
      /\ ps.fdt \in [FdProcs -> [Fd -> FdEntry]] /\ ps.nb \in SUBSET PFile
      /\ ps.buf \in [Pipes -> 0..PipeCap]
      /\ ps.readers \in [Pipes -> 0..1] /\ ps.writers \in [Pipes -> 0..1]
  BY DEF PipeInv, PipeTypeOK, PipeState
<1>2. /\ Cardinality(FreeFds(ps, p)) >= 2 /\ pcall[p] = Idle
      /\ \A e \in Ends : ~Referenced(ps, pcall, <<i, e>>)
      /\ Return(p, s)
  BY DEF Pipe2, InstallFd, LowestFd, Ready
<1>3. nb \in SUBSET PFile
  BY <1>1 DEF PFile
<1>4. /\ buf \in [Pipes -> 0..PipeCap] /\ rd \in [Pipes -> 0..1] /\ wr \in [Pipes -> 0..1]
      /\ buf[i] = 0 /\ rd[i] = 1 /\ wr[i] = 1
      /\ \A j \in Pipes \ {i} : /\ buf[j] = ps.buf[j] /\ rd[j] = ps.readers[j]
                                /\ wr[j] = ps.writers[j]
  BY <1>1, PipeSizes
<1>5. /\ entry("r") \in FdEntry /\ entry("w") \in FdEntry
      /\ entry("r") # NoEntry /\ entry("w") # NoEntry
      /\ entry("r").file = <<i, "r">> /\ entry("w").file = <<i, "w">>
  <2>1. <<i, "r">> \in PFile /\ <<i, "w">> \in PFile
    BY DEF PFile, Ends
  <2>2. <<>> \notin PFile
    BY DEF PFile
  <2>3. NoEntry.file = <<>>
    BY DEF NoEntry
  <2> QED
    BY <2>1, <2>2, <2>3 DEF FdEntry
<1> HIDE DEF nb, buf, rd, wr, entry
<1>6. /\ new \in PipeState /\ new.fdt = ps.fdt /\ new.buf = buf /\ new.readers = rd
      /\ new.writers = wr /\ new.rq = ps.rq /\ new.wq = ps.wq
      /\ new.pollq = ps.pollq /\ new.pend = ps.pend
  BY Zenon, <1>1, <1>3, <1>4 DEF PipeState
<1> HIDE DEF new
<1>7. one = [new EXCEPT !.fdt = [new.fdt EXCEPT ![p] = [new.fdt[p] EXCEPT ![a] = entry("r")]]]
  OBVIOUS
<1> HIDE DEF a
<1>8. one.fdt = [ps.fdt EXCEPT ![p] = [@ EXCEPT ![a] = entry("r")]]
  BY <1>6, <1>7 DEF PipeState
<1>9. one.fdt[p] = [ps.fdt[p] EXCEPT ![a] = entry("r")]
  BY <1>1, <1>8
<1> HIDE DEF one
<1>10. a \in FreeFds(ps, p) /\ b \in FreeFds(ps, p) \ {a}
  <2>1. a = LowestFd(new, p, 0)
    BY DEF a
  <2> HIDE DEF b
  <2> QED
    BY SMTT(20), <1>2, <1>5, <1>6, <1>9, <2>1, TwoFree DEF b
<1>11. a \in Fd /\ b \in Fd /\ a # b
  BY <1>10 DEF FreeFds
<1> HIDE DEF b
<1> DEFINE table == [[ps.fdt[p] EXCEPT ![a] = entry("r")] EXCEPT ![b] = entry("w")]
           fdt == [ps.fdt EXCEPT ![p] = table]
<1>12. fdt \in [FdProcs -> [Fd -> FdEntry]]
  BY Zenon, <1>1, <1>5
<1>13. /\ fdt[p][a] = entry("r") /\ fdt[p][b] = entry("w")
       /\ \A x \in Fd \ {a, b} : fdt[p][x] = ps.fdt[p][x]
       /\ \A q \in FdProcs \ {p} : fdt[q] = ps.fdt[q]
  BY Zenon, <1>1, <1>11
<1>14. s = [new EXCEPT !.fdt = fdt]
  <2>1. one \in [fdt: {one.fdt}, nb: {new.nb}, buf: {buf}, readers: {rd}, writers: {wr},
                 rq: {ps.rq}, wq: {ps.wq}, pollq: {ps.pollq}, pend: {ps.pend}]
    BY Zenon, <1>6, <1>7 DEF PipeState
  <2>2. s = [one EXCEPT !.fdt = [one.fdt EXCEPT ![p] = [one.fdt[p] EXCEPT ![b] = entry("w")]]]
    OBVIOUS
  <2>3. [one.fdt EXCEPT ![p] = [one.fdt[p] EXCEPT ![b] = entry("w")]] = fdt
    BY Zenon, <1>1, <1>8, <1>9
  <2>4. s = [one EXCEPT !.fdt = fdt]
    BY <2>2, <2>3
  <2> HIDE DEF fdt, s
  <2> QED
    BY Zenon, <1>6, <1>7, <2>4 DEF PipeState
<1> HIDE DEF fdt, s
<1>15. /\ s \in PipeState /\ s.fdt = fdt /\ s.buf = buf /\ s.readers = rd
       /\ s.writers = wr /\ s.rq = ps.rq /\ s.wq = ps.wq
       /\ s.pollq = ps.pollq /\ s.pend = ps.pend
  BY Zenon, <1>6, <1>12, <1>14 DEF PipeState
<1>16. calls = pcall /\ ps' = Settle(s, calls) /\ pcall' = calls /\ plive' = plive /\ psig' = psig \ {p}
  BY Zenon, <1>1, <1>2 DEF Return, Step
<1>17. Opened(s, pcall)
  <2>1. Referenced(s, pcall, <<i, "r">>) /\ Referenced(s, pcall, <<i, "w">>)
    BY Zenon, <1>5, <1>11, <1>13, <1>15 DEF Referenced
  <2>2. ASSUME NEW j \in Pipes \ {i}, NEW e \in Ends, Referenced(s, pcall, <<j, e>>)
        PROVE  Referenced(ps, pcall, <<j, e>>)
    <3>1. fdt[p][a].file # <<j, e>> /\ fdt[p][b].file # <<j, e>>
      BY <1>5, <1>13
    <3> QED
      BY <1>13, <1>15, <2>2, <3>1 DEF Referenced
  <2>3. \A j \in Pipes \ {i} :
          /\ s.readers[j] = IF Referenced(ps, pcall, <<j, "r">>) THEN 1 ELSE 0
          /\ s.writers[j] = IF Referenced(ps, pcall, <<j, "w">>) THEN 1 ELSE 0
    BY Zenon, <1>4, <1>15 DEF PipeInv, EndsCounted
  <2> QED
    BY Zenon, <1>4, <1>15, <2>1, <2>2, <2>3 DEF Opened, Ends
<1>18. ASSUME QueuesFit, NEW q \in plive \ s.pend PROVE Parked(s, pcall, psig \ {p}, q)
  <2>1. CASE q = p
    BY <1>2, <2>1, IdleParked
  <2>2. CASE q # p
    <3>1. Parked(ps, pcall, psig, q) /\ q \in FdProcs
      BY Zenon, <1>1, <1>15, <1>18 DEF PipeInv, AllParked
    <3>2. s.fdt[q] = ps.fdt[q]
      BY <1>13, <1>15, <2>2, <3>1
    <3> QED
      BY Zenon, <1>2, <1>4, <1>15, <3>1, <3>2, UnreferencedPipe
  <2> QED
    BY <2>1, <2>2
<1>19. Handed(s, pcall, plive, psig \ {p})
  BY Zenon, <1>1, <1>15, <1>17, <1>18 DEF Handed, AllParked
<1> QED
  BY Zenon, <1>16, <1>19, HandedKeeps

------------------------------------------------------------------------------
(* Reads and writes                                                        *)

\* The state in which a call of p runs its loop: p may have left its queue.
Base(s, p) == s \in PipeState /\ Same(s, {p}) /\ s.fdt = ps.fdt

\* Such a call refers to nothing new.
LEMMA BaseOwn ==
    ASSUME PipeInv, NEW p \in FdProcs, NEW s, Base(s, p)
    PROVE  OwnFiles(s, p)
  BY DEF Base, OwnFiles

\* Who was parked before the call still is when p has left its queue.
LEMMA BaseParked ==
    ASSUME PipeInv, QueuesFit, NEW p \in FdProcs, NEW s, Base(s, p),
           NEW calls, \A r \in FdProcs \ {p} : calls[r] = pcall[r],
           NEW q \in plive \ s.pend, q # p
    PROVE  Parked(s, calls, psig, q)
<1>1. /\ q \in FdProcs /\ q \notin ps.pend /\ pcall \in [FdProcs -> PCall]
      /\ s.fdt[q] = ps.fdt[q] /\ calls[q] = pcall[q]
  BY DEF Base, Same, PipeInv, PipeTypeOK
<1>2. Parked(ps, pcall, psig, q)
  BY <1>1 DEF PipeInv, AllParked
<1>3. /\ s.buf = ps.buf /\ s.readers = ps.readers /\ s.writers = ps.writers
      /\ \A i \in Pipes : (q \in ps.rq[i] => q \in s.rq[i]) /\ (q \in ps.wq[i] => q \in s.wq[i])
      /\ (q \in ps.pollq => q \in s.pollq)
  BY DEF Base, Same
<1> QED
  BY <1>1, <1>2, <1>3, ParkedFrom

\* Data moved through pipe i, from s to t, and one side and the pollers were
\* notified.
Flowed(s, t, i) ==
    /\ s.pend \cup s.pollq \subseteq t.pend
    /\ t.readers = s.readers /\ t.writers = s.writers
    /\ \A j \in Pipes \ {i} : t.buf[j] = s.buf[j] /\ t.rq[j] = s.rq[j] /\ t.wq[j] = s.wq[j]
    /\ s.rq[i] \subseteq t.pend \/ s.buf[i] > 0
    /\ s.wq[i] \subseteq t.pend \/ (s.buf[i] <= t.buf[i] /\ t.wq[i] = s.wq[i])

\* Nobody else has something to do then.
LEMMA MovedParked ==
    ASSUME NEW s \in PipeState, NEW t \in PipeState, NEW calls \in [FdProcs -> PCall],
           NEW sig, NEW sg, NEW i \in Pipes, NEW q \in FdProcs,
           Parked(s, calls, sig, q), q \notin t.pend, q \in sg => q \in sig,
           Flowed(s, t, i)
    PROVE  Parked(t, calls, sg, q)
<1> DEFINE c == calls[q]
<1>1. c \in PCall
  OBVIOUS
<1>2. c.op \in {"read", "write"} => c.file[1] \in Pipes
  BY <1>1 DEF PCall, Idle, PFile
<1>3. c.op # "poll"
  BY Zenon DEF Parked, Flowed
<1>4. c.op = "read" => c.file[1] # i
  BY DEF Parked, Flowed
<1>5. ASSUME c.op = "write" PROVE q \in t.wq[c.file[1]] /\ ~CanWrite(t, c.file[1], c.len)
  <2>1. q \in s.wq[c.file[1]] /\ ~CanWrite(s, c.file[1], c.len)
    BY Zenon, <1>5 DEF Parked, Flowed
  <2>2. CASE c.file[1] # i
    BY Zenon, <1>2, <1>5, <2>1, <2>2 DEF CanWrite, Flowed
  <2>3. CASE c.file[1] = i
    <3>1. s.buf[i] <= t.buf[i] /\ t.wq[i] = s.wq[i]
      BY <2>1, <2>3 DEF Flowed
    <3>2. s.buf[i] \in 0..PipeCap /\ t.buf[i] \in 0..PipeCap /\ PipeCap \in Nat
      BY PipeSizes DEF PipeState
    <3>3. c.len \in Nat
      <4>1. c.len \in IoLens
        BY <1>1, <1>5 DEF PCall, Idle
      <4> QED
        BY Zenon, <4>1, PipeSizes
    <3> HIDE DEF c
    <3>4. ~CanWrite(t, i, c.len)
      BY <2>1, <2>3, <3>1, <3>2, <3>3 DEF CanWrite
    <3> QED
      BY <2>1, <2>3, <3>1, <3>4
  <2> QED
    BY <2>2, <2>3
<1> QED
  BY Zenon, <1>2, <1>3, <1>4, <1>5 DEF Parked, Flowed

\* A call that moved data through pipe i and returns.
LEMMA MovedKeeps ==
    ASSUME PipeInv, NEW p \in FdProcs, NEW s, Base(s, p), NEW t \in PipeState,
           NEW i \in Pipes, t.fdt = s.fdt,
           Flowed(s, t, i),
           Return(p, t), ptab' \in 0..MaxTableOps
    PROVE  PipeInv'
<1> DEFINE calls == [pcall EXCEPT ![p] = Idle]
<1>1. pcall \in [FdProcs -> PCall] /\ plive \in SUBSET FdProcs /\ psig \in SUBSET FdProcs
  BY DEF PipeInv, PipeTypeOK
<1>2. calls \in [FdProcs -> PCall] /\ calls[p] = Idle /\ \A q \in FdProcs \ {p} : calls[q] = pcall[q]
  BY <1>1 DEF PCall
<1>3. Opened(t, calls)
  <2>1. \A f : Referenced(t, calls, f) => Referenced(ps, pcall, f)
    <3>1. calls[p].op = "none"
      BY <1>2 DEF Idle
    <3> QED
      BY <1>2, <3>1 DEF Referenced, Base
  <2>2. t.readers = ps.readers /\ t.writers = ps.writers
    BY DEF Base, Same, Flowed
  <2> QED
    BY Zenon, <2>1, <2>2 DEF Opened, PipeInv, EndsCounted
<1>4. ps' = Settle(t, calls) /\ pcall' = calls /\ plive' = plive /\ psig' = psig \ {p}
  BY DEF Return, Step
<1> HIDE DEF calls
<1>5. ASSUME QueuesFit, NEW q \in plive \ t.pend PROVE Parked(t, calls, psig \ {p}, q)
  <2>1. CASE q = p
    BY <1>2, <2>1, IdleParked
  <2>2. CASE q # p
    <3>1. Parked(s, calls, psig, q)
      BY <1>2, <1>5, <2>2, BaseParked DEF Flowed
    <3>2. q \in FdProcs /\ s \in PipeState
      BY <1>1 DEF Base
    <3>3. q \in psig \ {p} => q \in psig
      OBVIOUS
    <3> QED
      BY <1>2, <1>5, <3>1, <3>2, <3>3, MovedParked
  <2> QED
    BY <2>1, <2>2
<1>6. Handed(t, calls, plive, psig \ {p})
  BY <1>1, <1>2, <1>3, <1>5 DEF Handed, AllParked
<1> QED
  BY <1>4, <1>6, HandedKeeps

\* Min of two numbers.
LEMMA MinOfTwo ==
    ASSUME NEW a \in Nat, NEW b \in Nat
    PROVE  /\ Min({a, b}) \in {a, b}
           /\ Min({a, b}) <= a /\ Min({a, b}) <= b
<1>1. {a, b} \in SUBSET Nat /\ {a, b} # {}
  OBVIOUS
<1>2. PICK x \in {a, b} : \A y \in {a, b} : x <= y
  OBVIOUS
<1>3. Min({a, b}) \in {a, b} /\ \A y \in {a, b} : Min({a, b}) <= y
  BY <1>2 DEF Min
<1> QED
  BY <1>3

\* A queue with a slot for everyone takes p.
LEMMA PQueueTakes ==
    ASSUME NEW q \in SUBSET FdProcs, NEW p \in FdProcs
    PROVE  /\ PQueue(q, p) \in SUBSET FdProcs /\ q \subseteq PQueue(q, p)
           /\ QueuesFit => p \in PQueue(q, p)
<1>1. PQueue(q, p) \in SUBSET FdProcs /\ q \subseteq PQueue(q, p)
  BY DEF PQueue
<1>2. ASSUME QueuesFit, p \notin PQueue(q, p) PROVE FALSE
  <2>1. p \notin q /\ ~(Cardinality(q) < QCap)
    BY <1>2 DEF PQueue
  <2>2. /\ Cardinality(q) <= Cardinality(FdProcs) /\ Cardinality(q) \in Nat
        /\ Cardinality(FdProcs) \in Nat /\ (Cardinality(FdProcs) = Cardinality(q) => FdProcs = q)
    BY <1>2, FS_Subset, FS_CardinalityType DEF QueuesFit
  <2>3. Cardinality(FdProcs) = Cardinality(q)
    BY <1>2, <2>1, <2>2, PipeSizes DEF QueuesFit
  <2> QED
    BY <2>1, <2>2, <2>3
<1> QED
  BY <1>1, <1>2

\* p sleeps in a read or a write of the end f.
LEMMA EndSleepKeeps ==
    ASSUME PipeInv, NEW p \in FdProcs, NEW s, Base(s, p), NEW f \in PFile,
           Referenced(ps, pcall, f), NEW len \in IoLens, p \notin psig,
           \/ /\ s.buf[f[1]] = 0 /\ s.writers[f[1]] # 0
              /\ Sleep(p, [s EXCEPT !.rq[f[1]] = PQueue(@, p)],
                       [op |-> "read", file |-> f, len |-> len])
           \/ /\ ~CanWrite(s, f[1], len) /\ s.readers[f[1]] # 0
              /\ Sleep(p, [s EXCEPT !.wq[f[1]] = PQueue(@, p)],
                       [op |-> "write", file |-> f, len |-> len]),
           ptab' \in 0..MaxTableOps
    PROVE  PipeInv'
<1> DEFINE i == f[1]
           rd == [op |-> "read", file |-> f, len |-> len]
           wr == [op |-> "write", file |-> f, len |-> len]
           nrq == [s.rq EXCEPT ![i] = PQueue(s.rq[i], p)]
           nwq == [s.wq EXCEPT ![i] = PQueue(s.wq[i], p)]
<1>1. i \in Pipes
  BY DEF PFile
<1>2. /\ s \in PipeState /\ s.rq \in [Pipes -> SUBSET FdProcs] /\ s.wq \in [Pipes -> SUBSET FdProcs]
      /\ s.readers[i] \in 0..1 /\ s.writers[i] \in 0..1
      /\ pcall \in [FdProcs -> PCall]
  BY <1>1 DEF Base, PipeState, PipeInv, PipeTypeOK
<1>3. /\ rd \in PCall /\ rd.op = "read" /\ rd.file = f /\ rd.len = len /\ rd # Idle
      /\ wr \in PCall /\ wr.op = "write" /\ wr.file = f /\ wr.len = len /\ wr # Idle
  BY DEF PCall, Idle
<1>4. /\ PQueue(s.rq[i], p) \in SUBSET FdProcs /\ s.rq[i] \subseteq PQueue(s.rq[i], p)
      /\ QueuesFit => p \in PQueue(s.rq[i], p)
  BY <1>1, <1>2, PQueueTakes
<1>5. /\ PQueue(s.wq[i], p) \in SUBSET FdProcs /\ s.wq[i] \subseteq PQueue(s.wq[i], p)
      /\ QueuesFit => p \in PQueue(s.wq[i], p)
  BY <1>1, <1>2, PQueueTakes
<1>6. /\ nrq \in [Pipes -> SUBSET FdProcs] /\ nwq \in [Pipes -> SUBSET FdProcs]
      /\ \A j \in Pipes : s.rq[j] \subseteq nrq[j] /\ s.wq[j] \subseteq nwq[j]
      /\ QueuesFit => p \in nrq[i] /\ p \in nwq[i]
  BY <1>1, <1>2, <1>4, <1>5
<1> HIDE DEF i, rd, wr, nrq, nwq
<1>7. CASE s.buf[i] = 0 /\ s.writers[i] # 0 /\ Sleep(p, [s EXCEPT !.rq = nrq], rd)
  <2> DEFINE t == [s EXCEPT !.rq = nrq]
  <2>1. /\ t \in PipeState /\ t.fdt = s.fdt /\ t.buf = s.buf /\ t.readers = s.readers
        /\ t.writers = s.writers /\ t.rq = nrq /\ t.wq = s.wq /\ t.pollq = s.pollq
        /\ t.pend = s.pend
    BY Zenon, <1>2, <1>6 DEF PipeState
  <2> HIDE DEF t
  <2>2. Same(t, {p}) /\ OwnFiles(t, p)
    BY <1>6, <2>1 DEF Base, Same, OwnFiles
  <2>3. QueuesFit => Parked(t, [pcall EXCEPT ![p] = rd], psig, p)
    BY <1>2, <1>3, <1>6, <1>7, <2>1 DEF Parked, i
  <2> QED
    BY <1>3, <1>7, <2>1, <2>2, <2>3, SleepKeeps DEF t
<1>8. CASE ~CanWrite(s, i, len) /\ s.readers[i] # 0 /\ Sleep(p, [s EXCEPT !.wq = nwq], wr)
  <2> DEFINE t == [s EXCEPT !.wq = nwq]
  <2>1. /\ t \in PipeState /\ t.fdt = s.fdt /\ t.buf = s.buf /\ t.readers = s.readers
        /\ t.writers = s.writers /\ t.wq = nwq /\ t.rq = s.rq /\ t.pollq = s.pollq
        /\ t.pend = s.pend
    BY Zenon, <1>2, <1>6 DEF PipeState
  <2> HIDE DEF t
  <2>2. Same(t, {p}) /\ OwnFiles(t, p)
    BY <1>6, <2>1 DEF Base, Same, OwnFiles
  <2>3. ~CanWrite(t, i, len)
    BY <1>8, <2>1 DEF CanWrite
  <2>4. QueuesFit => Parked(t, [pcall EXCEPT ![p] = wr], psig, p)
    BY <1>2, <1>3, <1>6, <1>8, <2>1, <2>3 DEF Parked, i
  <2> QED
    BY Zenon, <1>3, <1>8, <2>1, <2>2, <2>4, SleepKeeps DEF t
<1> QED
  BY <1>7, <1>8 DEF i, rd, wr, nrq, nwq

\* The loop of PipeEnd::read, first time round or after a wake-up.
LEMMA ReadLoopKeeps ==
    ASSUME PipeInv, NEW p \in FdProcs, NEW s, Base(s, p), NEW f \in PFile,
           Referenced(ps, pcall, f), NEW len \in IoLens, NEW nonblock,
           ReadLoop(p, s, f, len, nonblock), ptab' \in 0..MaxTableOps
    PROVE  PipeInv'
<1> DEFINE i == f[1]
           n == Min({len, s.buf[i]})
           nbuf == [s.buf EXCEPT ![i] = s.buf[i] - n]
           nwq == [s.wq EXCEPT ![i] = {}]
           npend == (s.pend \cup s.wq[i]) \cup s.pollq
           t == NotifyPoll(NotifyWriters([s EXCEPT !.buf[i] = @ - n], i))
<1>1. i \in Pipes /\ s \in PipeState /\ s.buf \in [Pipes -> 0..PipeCap]
  BY Zenon DEF PFile, Base, PipeState
<1>2. CASE s.buf[i] > 0 /\ Return(p, t)
  <2>1. s.buf[i] \in Nat /\ len \in Nat /\ s.buf[i] \in 0..PipeCap /\ PipeCap \in Nat
    BY <1>1, PipeSizes
  <2>2. n \in {len, s.buf[i]} /\ n <= s.buf[i]
    BY Zenon, <2>1, MinOfTwo
  <2>3. s.buf[i] - n \in 0..PipeCap
    BY <2>1, <2>2
  <2>4. nbuf \in [Pipes -> 0..PipeCap] /\ \A j \in Pipes \ {i} : nbuf[j] = s.buf[j]
    BY <1>1, <2>3
  <2>5. nwq \in [Pipes -> SUBSET FdProcs] /\ npend \in SUBSET FdProcs
        /\ \A j \in Pipes \ {i} : nwq[j] = s.wq[j]
    BY <1>1 DEF PipeState
  <2>6. t = [s EXCEPT !.buf = nbuf, !.wq = nwq, !.pend = npend, !.pollq = {}]
    BY Zenon, <1>1 DEF NotifyPoll, NotifyWriters, PipeState
  <2>7. s.pend \cup s.pollq \subseteq npend /\ s.wq[i] \subseteq npend
    OBVIOUS
  <2> HIDE DEF nbuf, nwq, npend, t, i, n
  <2>8. /\ t \in PipeState /\ t.fdt = s.fdt /\ t.buf = nbuf /\ t.readers = s.readers
        /\ t.writers = s.writers /\ t.rq = s.rq /\ t.wq = nwq /\ t.pend = npend
    BY Zenon, <1>1, <2>4, <2>5, <2>6 DEF PipeState
  <2>9. Flowed(s, t, i)
    BY Zenon, <1>2, <2>4, <2>5, <2>7, <2>8 DEF Flowed
  <2> QED
    BY Zenon, <1>1, <1>2, <2>8, <2>9, MovedKeeps
<1>3. CASE Return(p, s)
  BY Zenon, <1>3, BaseOwn, ReturnKeeps DEF Base
<1>4. CASE /\ s.buf[i] = 0 /\ s.writers[i] # 0 /\ p \notin psig
           /\ Sleep(p, [s EXCEPT !.rq[i] = PQueue(@, p)], [op |-> "read", file |-> f, len |-> len])
  BY Zenon, <1>4, EndSleepKeeps
<1>5. s.buf[i] > 0 \/ s.buf[i] = 0
  BY <1>1, PipeSizes
<1> QED
  BY <1>2, <1>3, <1>4, <1>5 DEF ReadLoop

\* The loop of PipeEnd::write.
LEMMA WriteLoopKeeps ==
    ASSUME PipeInv, NEW p \in FdProcs, NEW s, Base(s, p), NEW f \in PFile,
           Referenced(ps, pcall, f), NEW len \in IoLens, NEW nonblock,
           WriteLoop(p, s, f, len, nonblock), ptab' \in 0..MaxTableOps
    PROVE  PipeInv'
<1> DEFINE i == f[1]
           n == WriteCount(s, i, len)
           nbuf == [s.buf EXCEPT ![i] = s.buf[i] + n]
           nrq == [s.rq EXCEPT ![i] = {}]
           npend == (s.pend \cup s.rq[i]) \cup s.pollq
           t == NotifyPoll(NotifyReaders([s EXCEPT !.buf[i] = @ + n], i))
<1>1. i \in Pipes /\ s \in PipeState /\ s.buf \in [Pipes -> 0..PipeCap]
  BY DEF PFile, Base, PipeState
<1>2. CASE CanWrite(s, i, len) /\ Return(p, t)
  <2>1. s.buf[i] \in Nat /\ len \in Nat /\ s.buf[i] <= PipeCap /\ PipeCap \in Nat
    BY <1>1, PipeSizes
  <2>2. n \in Nat /\ s.buf[i] + n <= PipeCap
    <3>1. CASE len <= PipeCap
      BY <1>2, <2>1, <3>1 DEF CanWrite, WriteCount
    <3>2. CASE ~(len <= PipeCap)
      <4>1. PipeCap - s.buf[i] \in Nat
        BY <2>1
      <4>2. n = Min({len, PipeCap - s.buf[i]})
        BY <3>2 DEF WriteCount
      <4>3. n \in {len, PipeCap - s.buf[i]} /\ n <= PipeCap - s.buf[i]
        BY <2>1, <4>1, <4>2, MinOfTwo
      <4> HIDE DEF n
      <4> QED
        BY <2>1, <4>1, <4>3
    <3> QED
      BY <3>1, <3>2
  <2>3. s.buf[i] + n \in 0..PipeCap
    <3> HIDE DEF n
    <3> QED
      BY <2>1, <2>2
  <2> HIDE DEF n
  <2>4. nbuf \in [Pipes -> 0..PipeCap] /\ nbuf[i] = s.buf[i] + n
        /\ \A j \in Pipes \ {i} : nbuf[j] = s.buf[j]
    BY <1>1, <2>3
  <2>5. nrq \in [Pipes -> SUBSET FdProcs] /\ npend \in SUBSET FdProcs
        /\ \A j \in Pipes \ {i} : nrq[j] = s.rq[j]
    BY <1>1 DEF PipeState
  <2>6. t = [s EXCEPT !.buf = nbuf, !.rq = nrq, !.pend = npend, !.pollq = {}]
    BY Zenon, <1>1 DEF NotifyPoll, NotifyReaders, PipeState
  <2>7. s.pend \cup s.pollq \subseteq npend /\ s.rq[i] \subseteq npend
    OBVIOUS
  <2> HIDE DEF nbuf, nrq, npend, t, i
  <2>8. /\ t \in PipeState /\ t.fdt = s.fdt /\ t.buf = nbuf /\ t.readers = s.readers
        /\ t.writers = s.writers /\ t.wq = s.wq /\ t.rq = nrq /\ t.pend = npend
    BY Zenon, <1>1, <2>4, <2>5, <2>6 DEF PipeState
  <2>9. Flowed(s, t, i)
    BY SMTT(20), <2>1, <2>2, <2>4, <2>5, <2>7, <2>8 DEF Flowed
  <2> QED
    BY Zenon, <1>1, <1>2, <2>8, <2>9, MovedKeeps
<1>3. CASE Return(p, s)
  BY Zenon, <1>3, BaseOwn, ReturnKeeps DEF Base
<1>4. CASE /\ ~CanWrite(s, i, len) /\ s.readers[i] # 0 /\ p \notin psig
           /\ Sleep(p, [s EXCEPT !.wq[i] = PQueue(@, p)], [op |-> "write", file |-> f, len |-> len])
  BY Zenon, <1>4, EndSleepKeeps
<1> QED
  BY <1>2, <1>3, <1>4 DEF WriteLoop

\* A sleeper that leaves its queue and its pending wake-up behind.
LEMMA DequeuedBase ==
    ASSUME PipeInv, NEW p \in FdProcs
    PROVE  /\ Base(ps, p)
           /\ \A i \in Pipes : /\ Base([ps EXCEPT !.pend = @ \ {p}, !.rq[i] = @ \ {p}], p)
                               /\ Base([ps EXCEPT !.pend = @ \ {p}, !.wq[i] = @ \ {p}], p)
           /\ Base([ps EXCEPT !.pend = @ \ {p}, !.pollq = @ \ {p}], p)
<1>1. /\ ps \in PipeState /\ ps.rq \in [Pipes -> SUBSET FdProcs]
      /\ ps.wq \in [Pipes -> SUBSET FdProcs]
      /\ ps.pend \in SUBSET FdProcs /\ ps.pollq \in SUBSET FdProcs
  BY DEF PipeInv, PipeTypeOK, PipeState
<1>2. ASSUME NEW rq \in [Pipes -> SUBSET FdProcs], NEW wq \in [Pipes -> SUBSET FdProcs],
             NEW pollq \in SUBSET FdProcs, NEW pend \in SUBSET FdProcs,
             \A i \in Pipes : ps.rq[i] \ {p} \subseteq rq[i] /\ ps.wq[i] \ {p} \subseteq wq[i],
             ps.pollq \ {p} \subseteq pollq, ps.pend \ {p} \subseteq pend,
             NEW s, s = [ps EXCEPT !.pend = pend, !.rq = rq, !.wq = wq, !.pollq = pollq]
      PROVE  Base(s, p)
  <2>1. /\ s \in PipeState /\ s.fdt = ps.fdt /\ s.buf = ps.buf /\ s.readers = ps.readers
        /\ s.writers = ps.writers /\ s.rq = rq /\ s.wq = wq /\ s.pollq = pollq /\ s.pend = pend
    BY Zenon, <1>1, <1>2 DEF PipeState
  <2> QED
    BY <1>2, <2>1 DEF Base, Same
<1> DEFINE pend == ps.pend \ {p}
<1>3. pend \in SUBSET FdProcs /\ ps.pend \ {p} \subseteq pend
  BY <1>1
<1>4. Base(ps, p)
  BY <1>1 DEF Base, Same
<1>5. ASSUME NEW i \in Pipes PROVE Base([ps EXCEPT !.pend = @ \ {p}, !.rq[i] = @ \ {p}], p)
  <2> DEFINE rq == [ps.rq EXCEPT ![i] = ps.rq[i] \ {p}]
             s == [ps EXCEPT !.pend = pend, !.rq = rq]
  <2>1. rq \in [Pipes -> SUBSET FdProcs] /\ \A j \in Pipes : ps.rq[j] \ {p} \subseteq rq[j]
    BY <1>1
  <2>2. s = [ps EXCEPT !.pend = pend, !.rq = rq, !.wq = ps.wq, !.pollq = ps.pollq]
    BY Zenon, <1>1 DEF PipeState
  <2> HIDE DEF rq, s, pend
  <2>3. Base(s, p)
    BY Zenon, <1>1, <1>2, <1>3, <2>1, <2>2
  <2> QED
    BY <2>3 DEF rq, s, pend
<1>6. ASSUME NEW i \in Pipes PROVE Base([ps EXCEPT !.pend = @ \ {p}, !.wq[i] = @ \ {p}], p)
  <2> DEFINE wq == [ps.wq EXCEPT ![i] = ps.wq[i] \ {p}]
             s == [ps EXCEPT !.pend = pend, !.wq = wq]
  <2>1. wq \in [Pipes -> SUBSET FdProcs] /\ \A j \in Pipes : ps.wq[j] \ {p} \subseteq wq[j]
    BY <1>1
  <2>2. s = [ps EXCEPT !.pend = pend, !.rq = ps.rq, !.wq = wq, !.pollq = ps.pollq]
    BY Zenon, <1>1 DEF PipeState
  <2> HIDE DEF wq, s, pend
  <2>3. Base(s, p)
    BY Zenon, <1>1, <1>2, <1>3, <2>1, <2>2
  <2> QED
    BY <2>3 DEF wq, s, pend
<1>7. Base([ps EXCEPT !.pend = @ \ {p}, !.pollq = @ \ {p}], p)
  <2> DEFINE pollq == ps.pollq \ {p}
             s == [ps EXCEPT !.pend = pend, !.pollq = pollq]
  <2>1. pollq \in SUBSET FdProcs /\ ps.pollq \ {p} \subseteq pollq
    BY <1>1
  <2>2. s = [ps EXCEPT !.pend = pend, !.rq = ps.rq, !.wq = ps.wq, !.pollq = pollq]
    BY Zenon, <1>1 DEF PipeState
  <2> HIDE DEF pollq, s, pend
  <2>3. Base(s, p)
    BY Zenon, <1>1, <1>2, <1>3, <2>1, <2>2
  <2> QED
    BY <2>3 DEF pollq, s, pend
<1> QED
  BY Zenon, <1>4, <1>5, <1>6, <1>7

\* read and write, and their resumption
LEMMA ReadWriteKeeps ==
    ASSUME PipeInv, NEW p \in FdProcs, ptab' \in 0..MaxTableOps,
           \/ \E fd \in Fd, n \in IoLens : PipeRead(p, fd, n) \/ PipeWrite(p, fd, n)
           \/ ReadResume(p) \/ WriteResume(p)
    PROVE  PipeInv'
<1>1. ps.fdt \in [FdProcs -> [Fd -> FdEntry]] /\ pcall \in [FdProcs -> PCall]
  BY DEF PipeInv, PipeTypeOK, PipeState
<1>2. ASSUME NEW fd \in Fd, NEW n \in IoLens, PipeRead(p, fd, n) \/ PipeWrite(p, fd, n)
      PROVE  PipeInv'
  <2> DEFINE f == ps.fdt[p][fd].file
  <2>1. ps.fdt[p][fd] # NoEntry
    BY Zenon, <1>2 DEF PipeRead, PipeWrite
  <2>2. f \in PFile /\ Referenced(ps, pcall, f)
    BY Zenon, <1>1, <2>1 DEF FdEntry, Referenced
  <2>3. Base(ps, p)
    BY Zenon, DequeuedBase
  <2>4. ReadLoop(p, ps, f, n, f \in ps.nb) \/ WriteLoop(p, ps, f, n, f \in ps.nb)
    BY Zenon, <1>2 DEF PipeRead, PipeWrite
  <2> DEFINE nonblock == f \in ps.nb
  <2> HIDE DEF f, nonblock
  <2>5. ReadLoop(p, ps, f, n, nonblock) \/ WriteLoop(p, ps, f, n, nonblock)
    BY <2>4 DEF nonblock
  <2> QED
    BY <2>2, <2>3, <2>5, ReadLoopKeeps, WriteLoopKeeps
<1>3. ASSUME pcall[p].op \in {"read", "write"}
      PROVE  /\ pcall[p].file \in PFile /\ pcall[p].len \in IoLens
             /\ Referenced(ps, pcall, pcall[p].file) /\ pcall[p].file[1] \in Pipes
  <2>1. pcall[p].file \in PFile /\ pcall[p].len \in IoLens
    BY <1>1, <1>3 DEF PCall, Idle
  <2> QED
    BY <1>3, <2>1 DEF Referenced, PFile
<1>4. ASSUME ReadResume(p) PROVE PipeInv'
  <2> DEFINE c == pcall[p]
             s == [ps EXCEPT !.pend = @ \ {p}, !.rq[c.file[1]] = @ \ {p}]
  <2>1. c.op = "read" /\ (Return(p, s) \/ ReadLoop(p, s, c.file, c.len, FALSE))
    BY Zenon, <1>4 DEF ReadResume, Woke
  <2>2. /\ c.file \in PFile /\ c.len \in IoLens
        /\ Referenced(ps, pcall, c.file) /\ c.file[1] \in Pipes
    BY <1>3, <2>1
  <2>3. Base(s, p)
    BY Zenon, <2>2, DequeuedBase
  <2> HIDE DEF s, c
  <2>4. OwnFiles(s, p) /\ s \in PipeState /\ Same(s, {p})
    BY <2>3, BaseOwn DEF Base
  <2> QED
    BY Zenon, <2>1, <2>2, <2>3, <2>4, ReturnKeeps, ReadLoopKeeps
<1>5. ASSUME WriteResume(p) PROVE PipeInv'
  <2> DEFINE c == pcall[p]
             s == [ps EXCEPT !.pend = @ \ {p}, !.wq[c.file[1]] = @ \ {p}]
  <2>1. c.op = "write" /\ (Return(p, s) \/ WriteLoop(p, s, c.file, c.len, FALSE))
    BY Zenon, <1>5 DEF WriteResume, Woke
  <2>2. /\ c.file \in PFile /\ c.len \in IoLens
        /\ Referenced(ps, pcall, c.file) /\ c.file[1] \in Pipes
    BY <1>3, <2>1
  <2>3. Base(s, p)
    BY Zenon, <2>2, DequeuedBase
  <2> HIDE DEF s, c
  <2>4. OwnFiles(s, p) /\ s \in PipeState /\ Same(s, {p})
    BY <2>3, BaseOwn DEF Base
  <2> QED
    BY Zenon, <2>1, <2>2, <2>3, <2>4, ReturnKeeps, WriteLoopKeeps
<1> QED
  BY <1>2, <1>4, <1>5

------------------------------------------------------------------------------
(* poll                                                                    *)

\* The loop of wait_for_ready.
LEMMA PollLoopKeeps ==
    ASSUME PipeInv, NEW p \in FdProcs, NEW s, Base(s, p),
           NEW want \in SUBSET (Fd \X {"in", "out"}),
           PollLoop(p, s, want), ptab' \in 0..MaxTableOps
    PROVE  PipeInv'
<1> DEFINE call == [op |-> "poll", want |-> want]
           pollq == PQueue(s.pollq, p)
           t == [s EXCEPT !.pollq = pollq]
<1>1. s \in PipeState /\ s.pollq \in SUBSET FdProcs /\ pcall \in [FdProcs -> PCall]
  BY DEF Base, PipeState, PipeInv, PipeTypeOK
<1>2. CASE Return(p, s)
  BY <1>2, BaseOwn, ReturnKeeps DEF Base
<1>3. CASE p \notin psig /\ ~PollReady(s, p, want) /\ Sleep(p, t, call)
  <2>1. pollq \in SUBSET FdProcs /\ s.pollq \subseteq pollq /\ (QueuesFit => p \in pollq)
    BY <1>1, PQueueTakes
  <2>2. call \in PCall /\ call.op = "poll" /\ call.want = want
    BY DEF PCall
  <2> HIDE DEF pollq, call
  <2>3. /\ t \in PipeState /\ t.fdt = s.fdt /\ t.buf = s.buf /\ t.readers = s.readers
        /\ t.writers = s.writers /\ t.wq = s.wq /\ t.rq = s.rq /\ t.pollq = pollq
        /\ t.pend = s.pend
    BY Zenon, <1>1, <2>1 DEF PipeState
  <2> HIDE DEF t
  <2>4. Same(t, {p}) /\ OwnFiles(t, p)
    BY <2>1, <2>3 DEF Base, Same, OwnFiles
  <2>5. ~PollReady(t, p, want)
    BY Zenon, <1>3, <2>3 DEF PollReady, EndReady
  <2>6. QueuesFit => Parked(t, [pcall EXCEPT ![p] = call], psig, p)
    BY Zenon, <1>1, <1>3, <2>1, <2>2, <2>3, <2>5 DEF Parked
  <2> QED
    BY Zenon, <1>3, <2>2, <2>3, <2>4, <2>6, SleepKeeps
<1> QED
  BY <1>2, <1>3 DEF PollLoop

\* poll, select, their resumption and their timeout
LEMMA PollKeeps ==
    ASSUME PipeInv, NEW p \in FdProcs, ptab' \in 0..MaxTableOps,
           \/ \E fds \in PollFds : PipePoll(p, fds \X {"in", "out"})
           \/ \E x \in SelectFds : PipeSelect(p, x[1], x[2])
           \/ PollResume(p) \/ PollTimeout(p)
    PROVE  PipeInv'
<1> DEFINE s == [ps EXCEPT !.pend = @ \ {p}, !.pollq = @ \ {p}]
<1>1. Base(ps, p) /\ Base(s, p)
  BY Zenon, DequeuedBase
<1>2. ASSUME NEW want \in SUBSET (Fd \X {"in", "out"}), PipePoll(p, want) PROVE PipeInv'
  <2>1. Return(p, ps) \/ PollLoop(p, ps, want)
    BY <1>2 DEF PipePoll
  <2> QED
    BY <1>1, <2>1, BaseOwn, ReturnKeeps, PollLoopKeeps DEF Base
<1>3. ASSUME NEW fds \in PollFds PROVE fds \X {"in", "out"} \in SUBSET (Fd \X {"in", "out"})
  BY Zenon, PipeSizes DEF Fd
<1>4. ASSUME NEW x \in SelectFds
      PROVE  (x[1] \X {"in"}) \cup (x[2] \X {"out"}) \in SUBSET (Fd \X {"in", "out"})
  <2>1. x[1] \subseteq Fd /\ x[2] \subseteq Fd
    BY Zenon, PipeSizes DEF Fd
  <2> QED
    BY Zenon, <2>1
<1> HIDE DEF s
<1>5. CASE PollResume(p)
  <2>1. pcall[p].op = "poll" /\ PollLoop(p, s, pcall[p].want)
    BY <1>5 DEF PollResume, Woke, s
  <2>2. pcall[p] \in PCall
    BY DEF PipeInv, PipeTypeOK
  <2>3. pcall[p].want \in SUBSET (Fd \X {"in", "out"})
    BY <2>1, <2>2 DEF PCall, Idle
  <2> QED
    BY Zenon, <1>1, <2>1, <2>3, PollLoopKeeps
<1>6. CASE PollTimeout(p)
  BY Zenon, <1>1, <1>6, BaseOwn, ReturnKeeps DEF PollTimeout, Base, s
<1> QED
  BY Zenon, <1>2, <1>3, <1>4, <1>5, <1>6 DEF PipeSelect

------------------------------------------------------------------------------

\* Initially no file is open and nobody sleeps.
LEMMA InitPipe == PipeInit => PipeInv
<1> SUFFICES ASSUME PipeInit PROVE PipeInv
  OBVIOUS
<1>1. NoFds \in [Fd -> FdEntry] /\ \A fd \in Fd : NoFds[fd] = NoEntry
  BY DEF NoFds, FdEntry
<1>2. 0 \in 0..PipeCap /\ 0 \in 0..1 /\ 0 \in 0..MaxTableOps
  BY PipeSizes
<1>3. ps \in PipeState
  BY Zenon, <1>1, <1>2 DEF PipeInit, PipeState
<1>4. PipeTypeOK
  BY Zenon, <1>2, <1>3 DEF PipeInit, PipeTypeOK, PCall
<1>5. \A f \in PFile : ~Referenced(ps, pcall, f)
  <2>1. \A f \in PFile : NoEntry.file # f
    BY DEF NoEntry, PFile
  <2>2. Idle.op = "none"
    BY DEF Idle
  <2>3. \A p \in FdProcs, fd \in Fd : ps.fdt[p][fd] = NoEntry
    BY <1>1 DEF PipeInit
  <2>4. \A p \in FdProcs : pcall[p] = Idle
    BY DEF PipeInit
  <2> QED
    BY <2>1, <2>2, <2>3, <2>4 DEF Referenced
<1>6. EndsCounted
  BY Zenon, <1>5 DEF EndsCounted, PFile, Ends, PipeInit
<1>7. AllParked(ps, pcall, plive, psig)
  BY Zenon, IdleParked DEF AllParked, PipeInit
<1> QED
  BY <1>4, <1>6, <1>7 DEF PipeInv

\* Every step preserves the invariant.
LEMMA NextPipe == PipeInv /\ [PipeNext]_pipeVars => PipeInv'
<1> SUFFICES ASSUME PipeInv, [PipeNext]_pipeVars PROVE PipeInv'
  OBVIOUS
<1>1. ptab \in 0..MaxTableOps /\ MaxTableOps \in Nat
  BY PipeSizes DEF PipeInv, PipeTypeOK
<1>2. CASE UNCHANGED pipeVars
  BY Zenon, <1>2 DEF pipeVars, PipeInv, PipeTypeOK, EndsCounted, QueuesFit
<1>3. ASSUME NEW p \in FdProcs, ptab < MaxTableOps, TableOps(p), ptab' = ptab + 1
      PROVE  PipeInv'
  <2>0. ptab' \in 0..MaxTableOps
    BY <1>1, <1>3
  <2>1. CASE \E i \in Pipes, c, n \in BOOLEAN : Pipe2(p, i, c, n)
    BY <2>0, <2>1, Pipe2Keeps
  <2>2. CASE \E fd, lo \in Fd, c \in BOOLEAN : DupFd(p, fd, lo, c)
    BY <2>0, <2>2, DupFdKeeps
  <2>3. CASE \E fd \in Fd : Dup(p, fd)
    <3>1. 0 \in Fd /\ FALSE \in BOOLEAN
      BY PipeSizes DEF Fd
    <3> QED
      BY Zenon, <2>0, <2>3, <3>1, DupFdKeeps DEF Dup
  <2>4. CASE \E a, b \in Fd, c \in BOOLEAN : Dup3(p, a, b, c)
    BY <2>0, <2>4, Dup3Keeps
  <2>5. CASE \E a, b \in Fd : Dup2(p, a, b)
    <3>1. FALSE \in BOOLEAN
      OBVIOUS
    <3> QED
      BY Zenon, <2>0, <2>5, <3>1, Dup3Keeps DEF Dup2
  <2>6. CASE \E fd \in Fd, c \in BOOLEAN : SetFd(p, fd, c)
    BY <2>0, <2>6, CloseKeeps
  <2>7. CASE \E fd \in Fd, n \in BOOLEAN : SetFl(p, fd, n)
    BY <2>0, <2>7, SetFlKeeps
  <2>8. CASE \E c \in FdProcs : ForkFds(p, c)
    BY <2>0, <2>8, ForkKeeps
  <2>9. CASE Exec(p)
    BY <2>0, <2>9, CloseKeeps
  <2>10. CASE SignalProc(p)
    BY <2>0, <2>10, SignalKeeps
  <2> QED
    BY <1>3, <2>1, <2>2, <2>3, <2>4, <2>5, <2>6, <2>7, <2>8, <2>9, <2>10 DEF TableOps
<1>4. ASSUME NEW p \in FdProcs, InputOutput(p), ptab' = ptab
      PROVE  PipeInv'
  <2>1. ptab' \in 0..MaxTableOps
    BY <1>1, <1>4
  <2> QED
    BY <1>4, <2>1, CloseKeeps, DieKeeps, ReadWriteKeeps, PollKeeps DEF InputOutput
<1> QED
  BY <1>2, <1>3, <1>4 DEF PipeNext

(* The invariant of pipes: types, counts and sleepers.                       *)
THEOREM PipeInvariant == PipeSpec => []PipeInv
<1> QED
  BY InitPipe, NextPipe, PTL DEF PipeSpec

(* PipeEnd::drop runs exactly once for every end, when the last descriptor   *)
(* or entered call that refers to it goes away, whatever dup, fork, exec,    *)
(* exit and signals do in between.                                           *)
THEOREM EndsAreCounted == PipeSpec => []EndsCounted
<1>1. PipeInv => EndsCounted
  BY DEF PipeInv
<1> QED
  BY <1>1, PipeInvariant, PTL

(* read, write, poll and select never sleep through their wake-up, as long   *)
(* as a wait queue has a slot for every process.                             *)
THEOREM PipeWakeupsAreNotLost ==
    ASSUME QueuesFit
    PROVE  PipeSpec => []SleepersHaveNothing
<1>1. PipeInv => SleepersHaveNothing
  BY Zenon DEF PipeInv, AllParked, Parked, SleepersHaveNothing
<1> QED
  BY <1>1, PipeInvariant, PTL
==============================================================================

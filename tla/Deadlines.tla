------------------------------ MODULE Deadlines ------------------------------
(***************************************************************************)
(* What the timer queue promises to the processes that wait: a wait that   *)
(* is armed is either cancelled or expired, once; never before its         *)
(* deadline; and earlier waits, or equal ones armed earlier, never after   *)
(* later ones.                                                             *)
(***************************************************************************)
EXTENDS Naturals, FiniteSets

CONSTANTS DlProcs

VARIABLES
    dwaits,     \* live waits
    dexpired,   \* the waits the last step expired
    dnow,       \* the latest time at which the queue was looked at
    dtoken      \* tokens handed out

dlVars == <<dwaits, dexpired, dnow, dtoken>>

Before(a, b) == \/ a.deadline < b.deadline
                \/ a.deadline = b.deadline /\ a.token < b.token

DlInit == dwaits = {} /\ dexpired = {} /\ dnow = 0 /\ dtoken = 0

\* A process waits for at most one deadline, later than the clock.
DlArm ==
    /\ dwaits \subseteq dwaits' /\ dwaits' \ dwaits # {}
    /\ \A w \in dwaits' \ dwaits :
         /\ w.pid \in DlProcs /\ w.deadline > dnow /\ w.token = dtoken + 1
         /\ \A v \in dwaits' \ {w} : v.pid # w.pid /\ v \in dwaits
    /\ dexpired' = {}
    /\ dtoken' = dtoken + 1 /\ UNCHANGED dnow

DlCancel == \E w \in dwaits :
    /\ dwaits' = dwaits \ {w} /\ dexpired' = {}
    /\ UNCHANGED <<dnow, dtoken>>

\* Some of the due waits expire, the earliest first.
DlExpire ==
    /\ dnow' \in Nat /\ dnow' >= dnow
    /\ dwaits' \subseteq dwaits
    /\ dexpired' = dwaits \ dwaits'
    /\ \A w \in dexpired' : w.deadline <= dnow'
    /\ \A w \in dexpired', v \in dwaits' : Before(w, v)
    /\ UNCHANGED dtoken

DlNext == DlArm \/ DlCancel \/ DlExpire

DlSpec == DlInit /\ [][DlNext]_dlVars
==============================================================================

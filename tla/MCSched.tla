------------------------------- MODULE MCSched -------------------------------
(***************************************************************************)
(* Instances of Sched for TLC.  Each set names the syscalls and interrupt  *)
(* sources one question is about; the .cfg files choose one and the bounds.*)
(* "tty" or "nic" is in nearly all of them, since a machine with no input  *)
(* at all may halt for ever, which is not a deadlock.                      *)
(***************************************************************************)
EXTENDS Sched

\* Timed and untimed polls and sleeps against input and the clock, with pollers
\* that the network service and other processes wake.
IoOps == {"poll", "sleep", "read", "write", "epipe", "tty", "nic"}

\* Caught signals against poll, nanosleep and rt_sigsuspend.
SignalOps == {"poll", "sleep", "tty", "kill", "sigprocmask", "sigsuspend"}

\* Process creation and the three ways to die, with SIGCHLD masked or not.
LifeOps == {"fork", "yield", "exit", "group", "fault", "wait4", "sigprocmask", "tty"}

\* Stop, continue and kill, of others and of oneself, with pollers, parents in
\* wait4 and zombies among the targets.
StopOps == {"poll", "exit", "wait4", "kill", "tty"}

\* Who gets the CPU.
LiveOps == {"poll", "sleep", "tty"}

\* A poller whose child exits.
ForcedWakeOps == {"poll", "sleep", "exit", "tty"}
==============================================================================

---------------------------- MODULE EvidenceCalls ----------------------------
(***************************************************************************)
(* The calls in progress of the Evidence services.  Each runs in a process *)
(* of its own that gives way to the others at every await, and that may    *)
(* die; what it holds in memory is its job, and everything else is in the  *)
(* database or in the artifact store.                                      *)
(***************************************************************************)
EXTENDS Integers, FiniteSetsExt, Functions

CONSTANTS
  Callers,
  MaxCalls     \* bound on the calls made

VARIABLES
  job,         \* what each caller's process holds, with its step in "at"
  calls

NoJob == [at |-> "none"]

InitCalls ==
  /\ job = [c \in Callers |-> NoJob]
  /\ calls = 0

Called(c) == job[c] = NoJob /\ calls < MaxCalls /\ calls' = calls + 1

At(c, step) == job[c].at = step
Goes(c, j) == job' = [job EXCEPT ![c] = j] /\ UNCHANGED calls

\* The process dies, wherever it is.
Crash(c) == job[c] # NoJob /\ Goes(c, NoJob)
==============================================================================

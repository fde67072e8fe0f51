------------------------------ MODULE JobTable ------------------------------
(***************************************************************************)
(* The job list of tsh (lab4/tsh.c): an array of MAXJOBS slots and the      *)
(* routines that read and update it.  A slot whose pid is 0 is free.  The   *)
(* routines are operators on the array, for the shell (module Tsh) to use.  *)
(***************************************************************************)
EXTENDS Integers, FiniteSets

CONSTANTS MAXJOBS,   \* number of slots
          Pids       \* process identifiers the kernel hands out

ASSUME MaxJobsAssumption == MAXJOBS \in Nat \ {0}
ASSUME PidsAssumption == 0 \notin Pids

NoPid == 0

Slots == 1 .. MAXJOBS
JobStates == {"UNDEF", "FG", "BG", "ST"}

Job == [pid : Pids \cup {NoPid}, jid : Nat, state : JobStates]

ClearedJob == [pid |-> NoPid, jid |-> 0, state |-> "UNDEF"]

\* The least slot of S, 0 for the empty set: what a scan of the array finds.
FirstSlot(S) ==
  IF S = {} THEN 0 ELSE CHOOSE i \in S : \A j \in S : i <= j

InitJobs == [i \in Slots |-> ClearedJob]

MaxJid(jobs) ==
  CHOOSE m \in {jobs[i].jid : i \in Slots} : \A i \in Slots : jobs[i].jid <= m

\* Faulty variants of a routine are named after it; nothing below uses them.
FreeSlot_MissesLast(jobs) == FirstSlot({i \in Slots \ {MAXJOBS} : jobs[i].pid = NoPid})

FreeSlot(jobs) == FirstSlot({i \in Slots : jobs[i].pid = NoPid})

JidAfter_WrapsToZero(n) == IF n + 1 > MAXJOBS THEN 0 ELSE n + 1

\* nextjid++ and its wrap at the end of addjob.
JidAfter(n) == IF n + 1 > MAXJOBS THEN 1 ELSE n + 1

SlotOfPid(jobs, p) ==
  IF p = NoPid THEN 0 ELSE FirstSlot({i \in Slots : jobs[i].pid = p})

SlotOfJid(jobs, j) ==
  IF j < 1 THEN 0 ELSE FirstSlot({i \in Slots : jobs[i].jid = j})

FgSlot_FirstOnly(jobs) == FirstSlot({i \in Slots : i = 1 /\ jobs[i].state = "FG"})
FgSlot_AnyRunning(jobs) == FirstSlot({i \in Slots : jobs[i].state \in {"FG", "BG"}})

FgSlot(jobs) == FirstSlot({i \in Slots : jobs[i].state = "FG"})

Fgpid(jobs) == IF FgSlot(jobs) = 0 THEN NoPid ELSE jobs[FgSlot(jobs)].pid

WithoutJob_MissesLast(jobs, p) ==
  IF SlotOfPid(jobs, p) \in {0, MAXJOBS}
  THEN jobs
  ELSE [jobs EXCEPT ![SlotOfPid(jobs, p)] = ClearedJob]

\* deletejob: the table and nextjid after the job of process p is removed.
WithoutJob(jobs, p) ==
  IF SlotOfPid(jobs, p) = 0
  THEN jobs
  ELSE [jobs EXCEPT ![SlotOfPid(jobs, p)] = ClearedJob]

JidWithoutJob(jobs, nextjid, p) ==
  IF SlotOfPid(jobs, p) = 0 THEN nextjid ELSE MaxJid(WithoutJob(jobs, p)) + 1

=============================================================================

----------------------------- MODULE TshProofs -----------------------------
(***************************************************************************)
(* Proofs about the shell (module Tsh) for every number of slots, every set *)
(* of process ids and every choice of keys.                                *)
(***************************************************************************)
EXTENDS Tsh, TLAPS, FiniteSetTheorems, WellFoundedInduction

\* Every nonempty set of natural numbers has a least element.
LEMMA NatLeast ==
  ASSUME NEW T, T \subseteq Nat, T # {}
  PROVE  \E x \in T : \A y \in T : x <= y
<1> DEFINE Below == {p \in Nat \X Nat : p[1] < p[2]}
<1>1. IsWellFoundedOn(Below, Nat)
  BY NatLessThanWellFounded DEF OpToRel
<1>2. PICK x \in T : \A y \in T : <<y, x>> \notin Below
  BY <1>1, WFMin
<1>3. ASSUME NEW y \in T
      PROVE  x <= y
  <2>1. x \in Nat /\ y \in Nat
    OBVIOUS
  <2>2. <<y, x>> \notin Below
    BY <1>2
  <2> QED BY <2>1, <2>2
<1> QED BY <1>3

-----------------------------------------------------------------------------
(* What the routines of the job list (module JobTable) return, for every    *)
(* number of slots.                                                         *)

\* A scan of the array finds the least slot of a nonempty set of slots.
LEMMA FirstSlotLeast ==
  ASSUME NEW S \in SUBSET Slots
  PROVE  /\ S = {} => FirstSlot(S) = 0
         /\ S # {} => FirstSlot(S) \in S /\ \A j \in S : FirstSlot(S) <= j
<1>1. CASE S = {}
  BY <1>1 DEF FirstSlot
<1>2. CASE S # {}
  <2>1. \E i \in S : \A j \in S : i <= j
    <3>1. S \subseteq Nat
      BY DEF Slots
    <3> QED BY <1>2, <3>1, NatLeast
  <2> QED BY <1>2, <2>1 DEF FirstSlot
<1> QED BY <1>1, <1>2

\* The job ids of a table have an upper bound.
LEMMA JidsBounded ==
  ASSUME NEW table \in [Slots -> Job]
  PROVE  \E b \in Nat : \A i \in Slots : table[i].jid <= b
<1> DEFINE Bounded(n) == \E b \in Nat : \A i \in 1 .. n : table[i].jid <= b
           Bad == {n \in 0 .. MAXJOBS : ~Bounded(n)}
<1>1. SUFFICES Bad = {}
  <2>1. MAXJOBS \in 0 .. MAXJOBS /\ MAXJOBS \notin Bad
    <3>1. MAXJOBS \in 0 .. MAXJOBS
      BY MaxJobsAssumption
    <3> HIDE DEF Bad
    <3> QED BY <1>1, <3>1
  <2>2. Bounded(MAXJOBS)
    <3> HIDE DEF Bounded
    <3> QED BY <2>1
  <2> QED BY <2>2 DEF Slots
<1> SUFFICES ASSUME Bad # {} PROVE FALSE
  OBVIOUS
<1>2. PICK n \in Bad : \A k \in Bad : n <= k
  <2>1. Bad \subseteq Nat
    BY MaxJobsAssumption
  <2> HIDE DEF Bad
  <2> QED BY <2>1, NatLeast
<1>3. n # 0
  <2>1. Bounded(0)
    <3>1. \A i \in 1 .. 0 : table[i].jid <= 0
      OBVIOUS
    <3> QED BY <3>1
  <2> QED BY <2>1
<1>4. n - 1 \in 0 .. MAXJOBS /\ n - 1 < n /\ n \in Slots
  BY <1>3, MaxJobsAssumption DEF Slots
<1>5. Bounded(n - 1)
  <2>1. n \in Nat /\ ~(n <= n - 1)
    BY <1>2, MaxJobsAssumption
  <2>2. n - 1 \notin Bad
    BY <2>1, <1>2
  <2> HIDE DEF Bounded
  <2> QED BY <2>2, <1>4
<1>6. PICK b \in Nat : \A i \in 1 .. (n - 1) : table[i].jid <= b
  BY <1>5
<1>7. table[n].jid \in Nat
  BY <1>4 DEF Job
<1>8. Bounded(n)
  <2> DEFINE c == IF table[n].jid <= b THEN b ELSE table[n].jid
  <2>1. c \in Nat /\ b <= c /\ table[n].jid <= c
    BY <1>7
  <2>2. ASSUME NEW i \in 1 .. n PROVE table[i].jid <= c
    <3>1. table[i].jid \in Nat
      BY <1>2, MaxJobsAssumption DEF Slots, Job
    <3>2. CASE i = n
      BY <3>2, <2>1
    <3>3. CASE i # n
      <4>1. i \in 1 .. (n - 1)
        BY <3>3, <1>2, MaxJobsAssumption
      <4>2. table[i].jid <= b
        BY <4>1, <1>6
      <4> HIDE DEF c
      <4> QED BY <4>2, <2>1, <3>1
    <3> QED BY <3>2, <3>3
  <2> QED BY <2>1, <2>2
<1> QED BY <1>8

\* maxjid returns the largest job id of the table.
LEMMA MaxJidIsMax ==
  ASSUME NEW table \in [Slots -> Job]
  PROVE  /\ MaxJid(table) \in Nat
         /\ \E i \in Slots : table[i].jid = MaxJid(table)
         /\ \A i \in Slots : table[i].jid <= MaxJid(table)
<1> DEFINE B == {b \in Nat : \A i \in Slots : table[i].jid <= b}
<1>0. \A i \in Slots : table[i].jid \in Nat
  BY DEF Job
<1>1. PICK m \in B : \A b \in B : m <= b
  <2>1. B # {}
    BY JidsBounded
  <2>2. B \subseteq Nat
    OBVIOUS
  <2> HIDE DEF B
  <2> QED BY <2>1, <2>2, NatLeast
<1>2. \E i \in Slots : table[i].jid = m
  <2> SUFFICES ASSUME \A i \in Slots : table[i].jid # m PROVE FALSE
    OBVIOUS
  <2>1. \A i \in Slots : table[i].jid <= m - 1
    BY <1>0, <1>1
  <2>2. 1 \in Slots
    BY MaxJobsAssumption DEF Slots
  <2>3. m - 1 \in Nat
    BY <2>1, <2>2, <1>0, <1>1
  <2>4. m - 1 \in B
    BY <2>1, <2>3
  <2>5. m <= m - 1 /\ m \in Nat
    BY <2>4, <1>1
  <2> QED BY <2>5
<1>3. \E k \in {table[i].jid : i \in Slots} : \A i \in Slots : table[i].jid <= k
  BY <1>1, <1>2
<1>4. /\ MaxJid(table) \in {table[i].jid : i \in Slots}
      /\ \A i \in Slots : table[i].jid <= MaxJid(table)
  BY <1>3 DEF MaxJid
<1> QED BY <1>4, <1>0

\* getjobpid returns a slot of the process, 0 only if it has none.
LEMMA SlotOfPidFound ==
  ASSUME NEW table \in [Slots -> Job], NEW p
  PROVE  /\ SlotOfPid(table, p) \in Slots \cup {0}
         /\ SlotOfPid(table, p) # 0 => table[SlotOfPid(table, p)].pid = p /\ p # NoPid
         /\ p # NoPid /\ SlotOfPid(table, p) = 0 => \A i \in Slots : table[i].pid # p
<1> DEFINE S == {i \in Slots : table[i].pid = p}
<1>1. 0 \notin Slots
  BY DEF Slots
<1>2. S \in SUBSET Slots
  OBVIOUS
<1>3. CASE p = NoPid
  BY <1>3 DEF SlotOfPid
<1>4. CASE p # NoPid
  <2>1. SlotOfPid(table, p) = FirstSlot(S)
    BY <1>4 DEF SlotOfPid
  <2> QED BY <2>1, <1>1, <1>2, <1>4, FirstSlotLeast
<1> QED BY <1>3, <1>4

\* The first free slot is free.
LEMMA FreeSlotFree ==
  ASSUME NEW table \in [Slots -> Job]
  PROVE  /\ FreeSlot(table) \in Slots \cup {0}
         /\ FreeSlot(table) # 0 => table[FreeSlot(table)].pid = NoPid
<1>1. {i \in Slots : table[i].pid = NoPid} \in SUBSET Slots
  OBVIOUS
<1> QED BY <1>1, FirstSlotLeast DEF FreeSlot

\* fgpid returns the pid of a slot in state FG, or 0.
LEMMA FgpidForeground ==
  ASSUME NEW table \in [Slots -> Job]
  PROVE  /\ Fgpid(table) \in Pids \cup {NoPid}
         /\ Fgpid(table) # NoPid =>
              \E i \in Slots : table[i].pid = Fgpid(table) /\ table[i].state = "FG"
<1>1. {i \in Slots : table[i].state = "FG"} \in SUBSET Slots
  OBVIOUS
<1>2. FgSlot(table) \in Slots \cup {0}
  BY <1>1, FirstSlotLeast DEF FgSlot
<1>3. FgSlot(table) # 0 => table[FgSlot(table)].state = "FG"
  BY <1>1, FirstSlotLeast DEF FgSlot
<1>4. CASE FgSlot(table) = 0
  BY <1>4 DEF Fgpid
<1>5. CASE FgSlot(table) # 0
  BY <1>2, <1>3, <1>5 DEF Fgpid, Job
<1> QED BY <1>4, <1>5

\* deletejob leaves a table and a next job id, and touches no other slot.
LEMMA WithoutJobType ==
  ASSUME NEW table \in [Slots -> Job], NEW p
  PROVE  /\ WithoutJob(table, p) \in [Slots -> Job]
         /\ \A i \in Slots : \/ WithoutJob(table, p)[i] = table[i]
                             \/ /\ WithoutJob(table, p)[i] = ClearedJob
                                /\ table[i].pid = p /\ p # NoPid
<1>1. ClearedJob \in Job
  BY DEF ClearedJob, Job, JobStates
<1>2. CASE SlotOfPid(table, p) = 0
  BY <1>2 DEF WithoutJob
<1>3. CASE SlotOfPid(table, p) # 0
  BY <1>1, <1>3, SlotOfPidFound DEF WithoutJob
<1> QED BY <1>2, <1>3

LEMMA JidWithoutJobType ==
  ASSUME NEW table \in [Slots -> Job], NEW n \in Nat \ {0}, NEW p
  PROVE  JidWithoutJob(table, n, p) \in Nat \ {0}
<1>1. MaxJid(WithoutJob(table, p)) \in Nat
  BY WithoutJobType, MaxJidIsMax
<1> QED BY <1>1 DEF JidWithoutJob

-----------------------------------------------------------------------------
(* The invariant of the shell.                                              *)

\* From its choice on, the command's slot is a slot.
SlotChosen ==
  pc \in {"addstate", "addjid", "setstate", "cont"} => cur.slot \in Slots

Active(s) == handler[s].at # "idle"

\* Each handler is at a label of its own code, and the handler in "delete"
\* has the pid of a process that waitpid reaped.
Frames ==
  /\ handler["CHLD"].at \in {"idle", "waitpid", "delete", "stop"}
  /\ \A s \in KeySignals : handler[s].at \in {"idle", "fgpid", "kill"}
  /\ handler["CHLD"].at = "delete" =>
       /\ handler["CHLD"].pid \in Pids
       /\ kstate[handler["CHLD"].pid] = "reaped"
  /\ handler["CHLD"].at = "stop" => handler["CHLD"].pid \in Pids

\* The active handlers form a chain from ctx down to main.
Nested ==
  /\ ctx \in Signals => Active(ctx)
  /\ ctx = "main" => \A s \in Signals : ~Active(s)
  /\ \A s \in Signals : Active(s) =>
       /\ handler[s].under # ctx
       /\ handler[s].under \in Signals => Active(handler[s].under)
       /\ \A t \in Signals : Active(t) =>
            /\ s # t => handler[s].under # handler[t].under
            /\ ~(handler[s].under = t /\ handler[t].under = s)

\* A listed process has been forked, and the one that eval is about to list
\* is not on the list yet.
Known ==
  /\ \A i \in Slots : jobs[i].pid # NoPid => kstate[jobs[i].pid] # "none"
  /\ pc \in Adding => /\ cur.pid \in Pids /\ kstate[cur.pid] # "none"
                      /\ \A i \in Slots : jobs[i].pid # cur.pid

\* The process a key handler is about to signal is not a background job.
Targets ==
  \A s \in KeySignals : handler[s].at = "kill" =>
    /\ handler[s].pid \in Pids
    /\ \A i \in Slots : jobs[i].pid = handler[s].pid => jobs[i].state # "BG"

IInv == /\ TypeOK /\ SlotChosen /\ Frames /\ Nested /\ Known /\ OneSlotPerProcess /\ Targets
        /\ NoLostChild

----------------------------------------------------------------------------
USE DEF NoPid

\* The updates of the job list and of the handlers keep the types.
LEMMA SetStateType ==
  ASSUME NEW jb \in [Slots -> Job], NEW i \in Slots \cup {0}, NEW st \in JobStates
  PROVE  /\ [jb EXCEPT ![i].state = st] \in [Slots -> Job]
         /\ \A k \in Slots :
              /\ [jb EXCEPT ![i].state = st][k].pid = jb[k].pid
              /\ k # i => [jb EXCEPT ![i].state = st][k] = jb[k]
              /\ k = i => [jb EXCEPT ![i].state = st][k].state = st
<1> DEFINE new == [jb[i] EXCEPT !.state = st]
<1>1. i \in Slots => new \in Job /\ new.pid = jb[i].pid /\ new.state = st
  BY DEF Job
<1>2. [jb EXCEPT ![i].state = st] = [jb EXCEPT ![i] = new]
  OBVIOUS
<1> HIDE DEF new
<1> QED BY <1>1, <1>2

LEMMA GotoType ==
  ASSUME handler \in [Signals -> Activation], NEW s \in Signals,
         NEW l \in HandlerLabels, NEW p \in Pids \cup {NoPid}, Goto(s, l, p)
  PROVE  /\ handler' \in [Signals -> Activation] /\ ctx' = ctx
         /\ \A t \in Signals : handler'[t].under = handler[t].under
         /\ \A t \in Signals : t # s => handler'[t] = handler[t]
         /\ handler'[s].at = l /\ handler'[s].pid = p
<1> DEFINE new == [at |-> l, pid |-> p, under |-> handler[s].under]
<1>1. new \in Activation
  BY DEF Activation
<1>2. handler' = [handler EXCEPT ![s] = new] /\ ctx' = ctx
  BY DEF Goto
<1> HIDE DEF new
<1>3. new.at = l /\ new.pid = p /\ new.under = handler[s].under
  BY DEF new
<1> QED BY <1>1, <1>2, <1>3 DEF Activation

LEMMA ReturnType ==
  ASSUME handler \in [Signals -> Activation], NEW s \in Signals, Return(s)
  PROVE  /\ handler' \in [Signals -> Activation]
         /\ ctx' = handler[s].under /\ ctx' \in Signals \cup {"main"}
         /\ \A t \in Signals : t # s => handler'[t] = handler[t]
         /\ handler'[s] = Idle
<1>1. Idle \in Activation
  BY DEF Idle, Activation, HandlerLabels
<1> QED BY <1>1 DEF Return, Activation

LEMMA InitIInv == Init => IInv
<1> SUFFICES ASSUME Init PROVE IInv
  OBVIOUS
<1>1. TypeOK
  <2>1. InitJobs \in [Slots -> Job]
    BY DEF InitJobs, ClearedJob, Job, JobStates
  <2>2. Idle \in Activation
    BY DEF Idle, Activation, HandlerLabels
  <2>3. NoCommand \in [pid : Pids \cup {NoPid}, slot : Slots \cup {0}, bg : BOOLEAN]
    BY DEF NoCommand
  <2>4. kstate \in [Pids -> KStates] /\ pc \in MainLabels
    BY DEF Init, KStates, MainLabels
  <2>5. handler \in [Signals -> Activation] /\ sigs \in [Pids -> SUBSET KeySignals]
    BY <2>2 DEF Init
  <2>6. jobs \in [Slots -> Job] /\ nextjid \in Nat \ {0}
    BY <2>1 DEF Init
  <2>7. masked \in BOOLEAN /\ ctx \in Signals \cup {"main"}
    BY DEF Init
  <2>8. pending \in SUBSET Signals /\ report \in SUBSET Pids
    BY DEF Init
  <2> QED BY <2>3, <2>4, <2>5, <2>6, <2>7, <2>8 DEF Init, TypeOK
<1>2. Frames /\ Nested
  BY DEF Init, Frames, Nested, Active, Idle, Signals, KeySignals
<1>3. SlotChosen /\ Known /\ OneSlotPerProcess
  BY DEF Init, SlotChosen, Known, OneSlotPerProcess, InitJobs, ClearedJob, Adding
<1>4. Targets /\ NoLostChild
  BY DEF Init, Targets, NoLostChild, Waitable, Zombie, Idle, Signals, KeySignals
<1> QED BY <1>1, <1>2, <1>3, <1>4 DEF IInv

\* Every step keeps the types.
LEMMA NextTypeOK == ASSUME TypeOK, SlotChosen, [Next]_vars PROVE TypeOK'
<1> USE DEF TypeOK
<1>0. "CHLD" \in Signals /\ KeySignals \subseteq Signals
  BY DEF Signals
<1>1. \A i \in Slots : jobs[i] \in Job
  OBVIOUS
<1>2. CASE Quit
  BY <1>2 DEF Quit, kernelVars, MainLabels
<1>3. ASSUME NEW bg \in BOOLEAN, EvalBlock(bg) PROVE TypeOK'
  BY <1>3 DEF EvalBlock, Step, kernelVars, MainLabels, NoCommand
<1>4. ASSUME NEW bg \in BOOLEAN, NEW i \in Slots, BgfgLookup(bg, i) PROVE TypeOK'
  BY <1>4 DEF BgfgLookup, Step, kernelVars, MainLabels
<1>5. ASSUME NEW s \in Keys, Keyboard(s) PROVE TypeOK'
  BY <1>5, KeysAssumption DEF Keyboard, shellVars, kernelVars, Signals
<1>6. ASSUME NEW p \in Pids, EvalFork(p) PROVE TypeOK'
  BY <1>6 DEF EvalFork, Step, MainLabels, KStates
<1>7. CASE EvalForkFails \/ EvalUnblock \/ AddFull \/ WaitfgDone
  BY <1>7 DEF EvalForkFails, EvalUnblock, AddFull, WaitfgDone, Step, kernelVars,
              MainLabels, AfterAdd
<1>8. CASE AddPid
  BY <1>8, FreeSlotFree DEF AddPid, Step, kernelVars, MainLabels, Job
<1>9. CASE AddState
  <2> DEFINE st == IF cur.bg THEN "BG" ELSE "FG"
  <2>2. st \in JobStates
    BY DEF JobStates
  <2>3. jobs' = [jobs EXCEPT ![cur.slot].state = st]
    BY <1>9 DEF AddState
  <2>4. cur.slot \in Slots \cup {0}
    OBVIOUS
  <2> HIDE DEF st
  <2>1. jobs' \in [Slots -> Job]
    BY <2>2, <2>3, <2>4, SetStateType
  <2> QED BY <1>9, <2>1 DEF AddState, Step, kernelVars, MainLabels
<1>10. CASE AddJid
  <2>1. JidAfter(nextjid) \in Nat \ {0}
    BY DEF JidAfter
  <2> QED BY <1>10, <2>1 DEF AddJid, Step, kernelVars, MainLabels, AfterAdd, Job
<1>11. CASE BgfgSetState
  <2> DEFINE st == IF cur.bg THEN "BG" ELSE "FG"
  <2>2. st \in JobStates
    BY DEF JobStates
  <2>3. jobs' = [jobs EXCEPT ![cur.slot].state = st]
    BY <1>11 DEF BgfgSetState
  <2>4. cur.slot \in Slots \cup {0}
    OBVIOUS
  <2> HIDE DEF st
  <2>1. jobs' \in [Slots -> Job]
    BY <2>2, <2>3, <2>4, SetStateType
  <2> QED BY <1>11, <2>1 DEF BgfgSetState, Step, kernelVars, MainLabels
<1>12. CASE BgfgCont
  <2> DEFINE p == jobs[cur.slot].pid
  <2>1. p \in Pids \cup {NoPid}
    BY <1>1, <1>12 DEF BgfgCont, Step, Main, SlotChosen, Job
  <2>2. cur' = [cur EXCEPT !.pid = p]
    BY <1>12 DEF BgfgCont
  <2>3. kstate' \in [Pids -> KStates] /\ sigs' \in [Pids -> SUBSET KeySignals]
        /\ report' \in SUBSET Pids /\ pending' \in SUBSET Signals
    BY <1>0, <1>12 DEF BgfgCont, Continue, InGroup, kernelVars, KStates
  <2> QED BY <1>12, <2>1, <2>2, <2>3 DEF BgfgCont, Step, MainLabels, AfterAdd
<1>13. ASSUME NEW p \in Pids, WaitpidReaped(p) PROVE TypeOK'
  BY <1>0, <1>13, GotoType DEF WaitpidReaped, shellVars, KStates, HandlerLabels
<1>14. ASSUME NEW p \in Pids, WaitpidStopped(p) PROVE TypeOK'
  BY <1>0, <1>14, GotoType DEF WaitpidStopped, shellVars, HandlerLabels
<1>15. CASE WaitpidNone
  BY <1>0, <1>15, ReturnType DEF WaitpidNone, shellVars, kernelVars
<1>16. CASE HandlerDeletejob
  BY <1>0, <1>16, GotoType, WithoutJobType, JidWithoutJobType
     DEF HandlerDeletejob, kernelVars, HandlerLabels
<1>17. CASE HandlerStop
  <2>1. handler' \in [Signals -> Activation] /\ ctx' = ctx
    BY <1>0, <1>17, GotoType DEF HandlerStop, HandlerLabels
  <2>2. jobs' \in [Slots -> Job] /\ pc' \in MainLabels
    <3> DEFINE i == SlotOfPid(jobs, handler["CHLD"].pid)
    <3>1. i \in Slots \cup {0}
      BY SlotOfPidFound
    <3>2. "ST" \in JobStates
      BY DEF JobStates
    <3>3. CASE i = 0
      BY <1>17, <3>3 DEF HandlerStop, MainLabels
    <3>4. CASE i # 0
      <4>1. jobs' = [jobs EXCEPT ![i].state = "ST"] /\ pc' = pc
        BY <1>17, <3>4 DEF HandlerStop
      <4> HIDE DEF i
      <4> QED BY <4>1, <3>1, <3>2, SetStateType
    <3> QED BY <3>3, <3>4
  <2> QED BY <1>17, <2>1, <2>2 DEF HandlerStop, kernelVars
<1>18. ASSUME NEW s \in KeySignals, HandlerFgpid(s) PROVE TypeOK'
  BY <1>0, <1>18, FgpidForeground, GotoType, ReturnType
     DEF HandlerFgpid, shellVars, kernelVars, HandlerLabels
<1>19. ASSUME NEW s \in KeySignals, HandlerKill(s) PROVE TypeOK'
  BY <1>0, <1>19, ReturnType DEF HandlerKill, kernelVars, MainLabels
<1>20. ASSUME NEW s \in Signals, Deliver(s) PROVE TypeOK'
  BY <1>20 DEF Deliver, Activation, shellVars, kernelVars, HandlerLabels
<1>21. ASSUME NEW p \in Pids, ChildStep(p) PROVE TypeOK'
  BY <1>21 DEF ChildStep, ChildSetpgid, ChildExec, ChildExit, ChildKilled,
               ChildStop, ChildSwallow, shellVars, KStates, Signals
<1>22. CASE UNCHANGED vars
  BY <1>22 DEF vars
<1> QED
  BY <1>2, <1>3, <1>4, <1>5, <1>6, <1>7, <1>8, <1>9, <1>10, <1>11, <1>12, <1>13,
     <1>14, <1>15, <1>16, <1>17, <1>18, <1>19, <1>20, <1>21, <1>22
  DEF Next, User, MainStep, ChldHandlerStep, KeyHandlerStep

----------------------------------------------------------------------------
\* Steps of the user, of main and of the children leave the handlers alone;
\* main runs, and so the job list changes, only when no handler is active.
LEMMA OtherSteps ==
  ASSUME User \/ MainStep \/ (\E p \in Pids : ChildStep(p))
  PROVE  /\ UNCHANGED <<ctx, handler>>
         /\ ctx = "main" \/ UNCHANGED <<jobs, cur>> 
         /\ ctx = "main" \/ pc' \in {pc, "exited"}
<1>1. CASE User
  BY <1>1 DEF User, Quit, EvalBlock, BgfgLookup, Keyboard, Step, Main, shellVars
<1>2. CASE MainStep
  BY <1>2 DEF MainStep, EvalFork, EvalForkFails, EvalUnblock, AddPid, AddFull,
     AddState, AddJid, BgfgSetState, BgfgCont, WaitfgDone, Step, Main
<1>3. ASSUME NEW p \in Pids, ChildStep(p)
      PROVE  UNCHANGED <<ctx, handler, jobs, cur, pc>>
  BY <1>3 DEF ChildStep, ChildSetpgid, ChildExec, ChildExit, ChildKilled,
     ChildStop, ChildSwallow, shellVars
<1> QED BY <1>1, <1>2, <1>3

LEMMA NextSlotChosen ==
  ASSUME TypeOK, SlotChosen, [Next]_vars PROVE SlotChosen'
<1> USE DEF SlotChosen
<1>1. CASE User
  BY <1>1 DEF User, Quit, EvalBlock, BgfgLookup, Keyboard, Step, Main, shellVars
<1>2. CASE MainStep
  <2>1. CASE AddPid
    BY <2>1, FreeSlotFree DEF AddPid, Step, TypeOK
  <2>2. CASE BgfgCont
    BY <2>2 DEF BgfgCont, Step, AfterAdd, TypeOK
  <2>3. CASE (\E p \in Pids : EvalFork(p)) \/ EvalForkFails \/ EvalUnblock
    BY <2>3 DEF EvalFork, EvalForkFails, EvalUnblock, Step
  <2>4. CASE AddFull \/ AddState \/ AddJid \/ BgfgSetState \/ WaitfgDone
    BY <2>4 DEF AddFull, AddState, AddJid, BgfgSetState, WaitfgDone, Step, Main,
                AfterAdd
  <2> QED BY <1>2, <2>1, <2>2, <2>3, <2>4 DEF MainStep
<1>3. ASSUME NEW p \in Pids, ChildStep(p) PROVE SlotChosen'
  BY <1>3 DEF ChildStep, ChildSetpgid, ChildExec, ChildExit, ChildKilled,
     ChildStop, ChildSwallow, shellVars
<1>4. CASE ChldHandlerStep
  BY <1>4 DEF ChldHandlerStep, WaitpidReaped, WaitpidStopped, WaitpidNone,
     HandlerDeletejob, HandlerStop, shellVars
<1>5. ASSUME NEW s \in KeySignals, KeyHandlerStep(s) PROVE SlotChosen'
  BY <1>5 DEF KeyHandlerStep, HandlerFgpid, HandlerKill, shellVars
<1>6. ASSUME NEW s \in Signals, Deliver(s) PROVE SlotChosen'
  BY <1>6 DEF Deliver, shellVars
<1>7. CASE UNCHANGED vars
  BY <1>7 DEF vars
<1> QED BY <1>1, <1>2, <1>3, <1>4, <1>5, <1>6, <1>7 DEF Next

\* A process that has been forked stays forked, one that is reaped stays so.
LEMMA KstateGrows ==
  ASSUME TypeOK, [Next]_vars, NEW p \in Pids
  PROVE  /\ kstate[p] # "none" => kstate'[p] # "none"
         /\ kstate[p] = "reaped" => kstate'[p] = "reaped"
<1> USE DEF TypeOK
<1>1. CASE User
  BY <1>1 DEF User, Quit, EvalBlock, BgfgLookup, Keyboard, kernelVars
<1>2. CASE MainStep
  <2>1. CASE BgfgCont
    BY <2>1 DEF BgfgCont, Continue, kernelVars
  <2>2. CASE \E q \in Pids : EvalFork(q)
    BY <2>2 DEF EvalFork
  <2>3. CASE \/ EvalForkFails \/ EvalUnblock \/ AddPid \/ AddFull \/ AddState
             \/ AddJid \/ BgfgSetState \/ WaitfgDone
    BY <2>3 DEF EvalForkFails, EvalUnblock, AddPid, AddFull, AddState, AddJid,
                BgfgSetState, WaitfgDone, kernelVars
  <2> QED BY <1>2, <2>1, <2>2, <2>3 DEF MainStep
<1>3. ASSUME NEW q \in Pids, ChildStep(q)
      PROVE  /\ kstate[p] # "none" => kstate'[p] # "none"
             /\ kstate[p] = "reaped" => kstate'[p] = "reaped"
  BY <1>3 DEF ChildStep, ChildSetpgid, ChildExec, ChildExit, ChildKilled,
     ChildStop, ChildSwallow
<1>4. CASE ChldHandlerStep
  BY <1>4 DEF ChldHandlerStep, WaitpidReaped, WaitpidStopped, WaitpidNone,
     HandlerDeletejob, HandlerStop, kernelVars
<1>5. CASE \E s \in KeySignals : KeyHandlerStep(s)
  BY <1>5 DEF KeyHandlerStep, HandlerFgpid, HandlerKill, kernelVars
<1>6. CASE \E s \in Signals : Deliver(s)
  BY <1>6 DEF Deliver, kernelVars
<1>7. CASE UNCHANGED vars
  BY <1>7 DEF vars
<1> QED BY <1>1, <1>2, <1>3, <1>4, <1>5, <1>6, <1>7 DEF Next

LEMMA NextFrames ==
  ASSUME TypeOK, Frames, [Next]_vars PROVE Frames'
<1>0. "CHLD" \in Signals /\ KeySignals \subseteq Signals /\ "CHLD" \notin KeySignals
  BY DEF Signals, KeySignals
<1>a. handler \in [Signals -> Activation]
  BY DEF TypeOK
<1>1. CASE User \/ MainStep \/ (\E p \in Pids : ChildStep(p))
  BY <1>1, OtherSteps, KstateGrows DEF Frames
<1>2. CASE ChldHandlerStep
  <2>1. ASSUME NEW p \in Pids, WaitpidReaped(p) PROVE Frames'
    BY <2>1, <1>0, <1>a, GotoType DEF WaitpidReaped, Frames, HandlerLabels, TypeOK
  <2>2. ASSUME NEW p \in Pids, WaitpidStopped(p) PROVE Frames'
    BY <2>2, <1>0, <1>a, GotoType DEF WaitpidStopped, Frames, HandlerLabels
  <2>3. CASE WaitpidNone
    BY <2>3, <1>0, <1>a, ReturnType DEF WaitpidNone, Frames, Idle
  <2>4. CASE HandlerDeletejob
    BY <2>4, <1>0, <1>a, GotoType DEF HandlerDeletejob, Frames, HandlerLabels
  <2>5. CASE HandlerStop
    BY <2>5, <1>0, <1>a, GotoType DEF HandlerStop, Frames, HandlerLabels
  <2> QED BY <1>2, <2>1, <2>2, <2>3, <2>4, <2>5 DEF ChldHandlerStep
<1>3. ASSUME NEW s \in KeySignals, KeyHandlerStep(s) PROVE Frames'
  <2>1. CASE HandlerFgpid(s)
    BY <2>1, <1>0, <1>a, GotoType, ReturnType, FgpidForeground
       DEF HandlerFgpid, Frames, Idle, HandlerLabels, TypeOK, kernelVars
  <2>2. CASE HandlerKill(s)
    BY <2>2, <1>0, <1>a, ReturnType DEF HandlerKill, Frames, Idle
  <2> QED BY <1>3, <2>1, <2>2 DEF KeyHandlerStep
<1>4. ASSUME NEW s \in Signals, Deliver(s) PROVE Frames'
  BY <1>4, <1>0, <1>a DEF Deliver, Frames, kernelVars, Signals
<1>5. CASE UNCHANGED vars
  BY <1>5 DEF vars, Frames
<1> QED BY <1>1, <1>2, <1>3, <1>4, <1>5 DEF Next

LEMMA NextNested ==
  ASSUME TypeOK, Frames, Nested, [Next]_vars PROVE Nested'
<1>0. "CHLD" \in Signals /\ KeySignals \subseteq Signals /\ "main" \notin Signals
  BY DEF Signals, KeySignals
<1>a. handler \in [Signals -> Activation] /\ ctx \in Signals \cup {"main"}
  BY DEF TypeOK
<1>b. \A s \in Signals : handler[s].under \in Signals \cup {"main"}
  BY <1>a DEF Activation
\* A handler that moves to another of its labels stays in the chain.
<1>1. ASSUME NEW s \in Signals, NEW l \in HandlerLabels, l # "idle",
             NEW p \in Pids \cup {NoPid}, ctx = s, Goto(s, l, p)
      PROVE  Nested'
  <2>1. /\ \A t \in Signals : handler'[t].under = handler[t].under
        /\ \A t \in Signals : Active(t)' <=> Active(t)
        /\ ctx' = ctx
    BY <1>1, <1>a, GotoType DEF Active, Nested
  <2> QED BY <2>1 DEF Nested
\* A handler that returns was the top of the chain.
<1>2. ASSUME NEW s \in Signals, ctx = s, Return(s) PROVE Nested'
  <2>1. /\ ~Active(s)' /\ ctx' = handler[s].under
        /\ \A t \in Signals : t # s => handler'[t] = handler[t]
    BY <1>2, <1>a, ReturnType DEF Active, Idle
  <2>2. Active(s) /\ handler[s].under # s
    BY <1>2 DEF Nested
  <2>3. \A t \in Signals : t # s => (Active(t)' <=> Active(t))
    BY <2>1 DEF Active
  <2>4. ASSUME ctx' = "main", NEW t \in Signals, Active(t)' PROVE FALSE
    <3>1. t # s /\ Active(t)
      BY <2>1, <2>3, <2>4
    <3> DEFINE u == handler[t].under
    <3>2. u # "main" /\ u # s
      BY <3>1, <2>1, <2>2, <2>4, <1>2 DEF Nested
    <3>3. u \in Signals /\ Active(u)
      BY <3>1, <3>2, <1>b DEF Nested
    <3>4. u # t
      BY <3>1, <3>3 DEF Nested
    <3>5. handler[u].under # "main" /\ handler[u].under # s
      <4>1. handler[s].under = "main" /\ s \in Signals /\ s = ctx
        BY <2>1, <2>4, <1>2
      <4> HIDE DEF u
      <4> QED BY <4>1, <3>3, <3>2, <2>2 DEF Nested
    <3>6. handler[u].under \in Signals \ {s, u}
      BY <3>3, <3>5, <1>b DEF Nested
    <3>7. handler[u].under = t
      BY <3>1, <3>2, <3>3, <3>4, <3>6 DEF Signals, KeySignals
    <3> QED BY <3>1, <3>3, <3>7 DEF Nested
  <2>5. ctx' \in Signals => Active(ctx)'
    BY <2>1, <2>2, <2>3 DEF Nested
  <2>6. \A t \in Signals : Active(t)' =>
          /\ handler'[t].under # ctx'
          /\ handler'[t].under \in Signals => Active(handler[t].under)'
          /\ \A u \in Signals : Active(u)' =>
               /\ t # u => handler'[t].under # handler'[u].under
               /\ ~(handler'[t].under = u /\ handler'[u].under = t)
    BY <1>2, <2>1, <2>2, <2>3 DEF Nested
  <2>7. \A t \in Signals : Active(t)' => handler'[t].under = handler[t].under
    BY <2>1
  <2> QED BY <2>4, <2>5, <2>6, <2>7 DEF Nested, Active
<1>3. CASE User \/ MainStep \/ (\E p \in Pids : ChildStep(p))
  BY <1>3, OtherSteps DEF Nested, Active
<1>4. CASE ChldHandlerStep
  <2>1. ASSUME NEW p \in Pids, WaitpidReaped(p) \/ WaitpidStopped(p) PROVE Nested'
    BY <2>1, <1>0, <1>1 DEF WaitpidReaped, WaitpidStopped, In, HandlerLabels
  <2>2. CASE WaitpidNone
    BY <2>2, <1>0, <1>2 DEF WaitpidNone, In
  <2>3. CASE HandlerDeletejob \/ HandlerStop
    BY <2>3, <1>0, <1>1 DEF HandlerDeletejob, HandlerStop, In, HandlerLabels
  <2> QED BY <1>4, <2>1, <2>2, <2>3 DEF ChldHandlerStep
<1>5. ASSUME NEW s \in KeySignals, KeyHandlerStep(s) PROVE Nested'
  <2>1. Fgpid(jobs) \in Pids \cup {NoPid}
    BY FgpidForeground DEF TypeOK
  <2>2. CASE HandlerFgpid(s)
    BY <2>1, <2>2, <1>0, <1>1, <1>2 DEF HandlerFgpid, In, HandlerLabels
  <2>3. CASE HandlerKill(s)
    BY <2>3, <1>0, <1>2 DEF HandlerKill, In
  <2> QED BY <1>5, <2>2, <2>3 DEF KeyHandlerStep
<1>6. ASSUME NEW s \in Signals, Deliver(s) PROVE Nested'
  <2>1. /\ ~Active(s) /\ Active(s)' /\ ctx' = s /\ handler'[s].under = ctx
        /\ \A t \in Signals : t # s => handler'[t] = handler[t]
    BY <1>6, <1>a DEF Deliver, Active
  <2>2. \A t \in Signals : Active(t) => handler[t].under # s
    BY <2>1 DEF Nested
  <2>3. \A t \in Signals : t # s => (Active(t)' <=> Active(t))
    BY <2>1 DEF Active
  <2>4. ctx # s
    BY <2>1 DEF Nested
  <2>5. \A t \in Signals : Active(t)' =>
          /\ handler'[t].under # ctx'
          /\ handler'[t].under \in Signals => Active(handler[t].under)'
          /\ \A u \in Signals : Active(u)' =>
               /\ t # u => handler'[t].under # handler'[u].under
               /\ ~(handler'[t].under = u /\ handler'[u].under = t)
    <3> SUFFICES ASSUME NEW t \in Signals, Active(t)'
        PROVE /\ handler'[t].under # ctx'
              /\ handler'[t].under \in Signals => Active(handler[t].under)'
              /\ \A u \in Signals : Active(u)' =>
                   /\ t # u => handler'[t].under # handler'[u].under
                   /\ ~(handler'[t].under = u /\ handler'[u].under = t)
      OBVIOUS
    <3>1. CASE t = s
      <4>1. ctx \in Signals => handler'[ctx].at # "idle"
        BY <2>1, <2>4 DEF Nested, Active
      <4>2. \A u \in Signals : Active(u)' /\ u # s =>
              handler'[u].under # ctx /\ handler'[u].under # s
        BY <2>1, <2>2, <2>3 DEF Nested
      <4>3. (Active(handler[t].under)') <=> handler'[ctx].at # "idle"
        BY <2>1, <3>1 DEF Active
      <4> QED BY <3>1, <4>1, <4>2, <4>3, <2>1, <2>4
    <3>2. CASE t # s
      <4>1. Active(t) /\ handler'[t] = handler[t]
        BY <3>2, <2>1, <2>3
      <4>2. handler[t].under # s /\ handler[t].under # ctx
        BY <4>1, <2>2 DEF Nested
      <4>3. handler[t].under \in Signals => Active(handler[t].under)'
        BY <4>1, <4>2, <2>1 DEF Nested, Active
      <4>4. \A u \in Signals : Active(u)' =>
                   /\ t # u => handler'[t].under # handler'[u].under
                   /\ ~(handler'[t].under = u /\ handler'[u].under = t)
        BY <4>1, <4>2, <2>1, <2>3 DEF Nested
      <4> QED BY <4>1, <4>2, <4>3, <4>4, <2>1
    <3> QED BY <3>1, <3>2
  <2> QED BY <1>0, <2>1, <2>5 DEF Nested, Active
<1>7. CASE UNCHANGED vars
  BY <1>7 DEF vars, Nested, Active
<1> QED BY <1>3, <1>4, <1>5, <1>6, <1>7 DEF Next

\* A stop changes the state of one job, to ST.
LEMMA StopStates ==
  ASSUME TypeOK, HandlerStop
  PROVE  \A k \in Slots :
           /\ jobs'[k].pid = jobs[k].pid
           /\ jobs'[k] = jobs[k] \/ jobs'[k].state = "ST"
<1> DEFINE i == SlotOfPid(jobs, handler["CHLD"].pid)
           st == "ST"
<1>1. jobs \in [Slots -> Job] /\ i \in Slots \cup {0} /\ st \in JobStates
  BY SlotOfPidFound DEF TypeOK, JobStates
<1>2. CASE jobs' = jobs
  BY <1>2
<1>3. CASE jobs' = [jobs EXCEPT ![i].state = st]
  <2> HIDE DEF i, st
  <2>1. \A k \in Slots :
          /\ jobs'[k].pid = jobs[k].pid
          /\ jobs'[k] = jobs[k] \/ jobs'[k].state = st
    BY <1>1, <1>3, SetStateType
  <2> QED BY <2>1 DEF st
<1> QED BY <1>2, <1>3 DEF HandlerStop

\* Which process a slot lists changes only when addjob fills a free slot with
\* eval's process, and when deletejob frees one.
LEMMA SlotPids ==
  ASSUME TypeOK, SlotChosen, [Next]_vars
  PROVE  \/ AddPid
         \/ HandlerDeletejob
         \/ \A i \in Slots : jobs'[i].pid = jobs[i].pid
<1> USE DEF TypeOK
<1>1. CASE User
  BY <1>1 DEF User, Quit, EvalBlock, BgfgLookup, Keyboard, shellVars
<1>2. CASE MainStep
  <2>1. CASE AddState \/ BgfgSetState
    <3> DEFINE st == IF cur.bg THEN "BG" ELSE "FG"
    <3>1. st \in JobStates /\ cur.slot \in Slots \cup {0}
      BY DEF JobStates
    <3>2. jobs' = [jobs EXCEPT ![cur.slot].state = st]
      BY <2>1 DEF AddState, BgfgSetState
    <3> HIDE DEF st
    <3> QED BY <3>1, <3>2, SetStateType
  <2>2. CASE AddJid
    BY <2>2 DEF AddJid, Step, Main, SlotChosen
  <2>3. CASE (\E p \in Pids : EvalFork(p)) \/ EvalForkFails \/ EvalUnblock
    BY <2>3 DEF EvalFork, EvalForkFails, EvalUnblock
  <2>4. CASE AddFull \/ BgfgCont \/ WaitfgDone
    BY <2>4 DEF AddFull, BgfgCont, WaitfgDone
  <2> QED BY <1>2, <2>1, <2>2, <2>3, <2>4 DEF MainStep
<1>3. CASE \E p \in Pids : ChildStep(p)
  BY <1>3 DEF ChildStep, ChildSetpgid, ChildExec, ChildExit, ChildKilled,
     ChildStop, ChildSwallow, shellVars
<1>4. CASE HandlerStop
  BY <1>4, StopStates
<1>5. CASE WaitpidNone \/ \E p \in Pids : WaitpidReaped(p) \/ WaitpidStopped(p)
  BY <1>5 DEF WaitpidReaped, WaitpidStopped, WaitpidNone, shellVars
<1>6. CASE \E s \in KeySignals : KeyHandlerStep(s)
  BY <1>6 DEF KeyHandlerStep, HandlerFgpid, HandlerKill, shellVars
<1>7. CASE \E s \in Signals : Deliver(s)
  BY <1>7 DEF Deliver, shellVars
<1>8. CASE UNCHANGED vars
  BY <1>8 DEF vars
<1> QED BY <1>1, <1>2, <1>3, <1>4, <1>5, <1>6, <1>7, <1>8
        DEF Next, ChldHandlerStep

\* addjob and deletejob change the pid of one slot each.
LEMMA SlotPidsAdded ==
  ASSUME TypeOK, AddPid
  PROVE  \E k \in Slots :
           /\ jobs[k].pid = NoPid
           /\ \A i \in Slots : jobs'[i].pid = IF i = k THEN cur.pid ELSE jobs[i].pid
<1> DEFINE k == FreeSlot(jobs)
<1>1. k \in Slots /\ jobs[k].pid = NoPid
  BY FreeSlotFree DEF AddPid, TypeOK
<1>2. jobs' = [jobs EXCEPT ![k].pid = cur.pid]
  BY DEF AddPid
<1>3. jobs[k] \in Job
  BY <1>1 DEF TypeOK
<1>4. jobs \in [Slots -> Job]
  BY DEF TypeOK
<1> HIDE DEF k
<1>5. \A i \in Slots : jobs'[i].pid = IF i = k THEN cur.pid ELSE jobs[i].pid
  BY <1>1, <1>2, <1>3, <1>4 DEF Job
<1> QED BY <1>1, <1>5

LEMMA SlotPidsDeleted ==
  ASSUME TypeOK, HandlerDeletejob
  PROVE  \A i \in Slots : \/ jobs'[i] = jobs[i]
                          \/ /\ jobs'[i] = ClearedJob
                             /\ jobs[i].pid = handler["CHLD"].pid
                             /\ jobs[i].pid # NoPid
BY WithoutJobType DEF HandlerDeletejob, TypeOK

\* The process that eval is about to list.
LEMMA NextAdding ==
  ASSUME TypeOK, Known, [Next]_vars, pc' \in Adding
  PROVE  \/ pc \in Adding /\ cur' = cur
         \/ \E p \in Pids : EvalFork(p)
<1> USE DEF Adding
<1>1. CASE User
  BY <1>1 DEF User, Quit, EvalBlock, BgfgLookup, Keyboard, Step, shellVars
<1>2. CASE MainStep
  <2>1. CASE BgfgCont
    BY <2>1 DEF BgfgCont, Step, AfterAdd
  <2>2. CASE EvalForkFails \/ EvalUnblock \/ AddPid \/ AddFull
    BY <2>2 DEF EvalForkFails, EvalUnblock, AddPid, AddFull, Step, Main, AfterAdd
  <2>3. CASE AddState \/ AddJid \/ BgfgSetState \/ WaitfgDone
    BY <2>3 DEF AddState, AddJid, BgfgSetState, WaitfgDone, Step, AfterAdd
  <2> QED BY <1>2, <2>1, <2>2, <2>3 DEF MainStep
<1>3. CASE \E p \in Pids : ChildStep(p)
  BY <1>3 DEF ChildStep, ChildSetpgid, ChildExec, ChildExit, ChildKilled,
     ChildStop, ChildSwallow, shellVars
<1>4. CASE ChldHandlerStep
  BY <1>4 DEF ChldHandlerStep, WaitpidReaped, WaitpidStopped, WaitpidNone,
     HandlerDeletejob, HandlerStop, shellVars
<1>5. CASE \E s \in KeySignals : KeyHandlerStep(s)
  BY <1>5 DEF KeyHandlerStep, HandlerFgpid, HandlerKill, shellVars
<1>6. CASE \E s \in Signals : Deliver(s)
  BY <1>6 DEF Deliver, shellVars
<1>7. CASE UNCHANGED vars
  BY <1>7 DEF vars
<1> QED BY <1>1, <1>2, <1>3, <1>4, <1>5, <1>6, <1>7 DEF Next

LEMMA NextKnown ==
  ASSUME TypeOK, SlotChosen, Known, OneSlotPerProcess, [Next]_vars
  PROVE  Known' /\ OneSlotPerProcess'
<1>1. \A i \in Slots : jobs[i].pid \in Pids \cup {NoPid}
  BY DEF TypeOK, Job
<1>2. (\A i \in Slots : jobs'[i].pid # NoPid => kstate'[jobs'[i].pid] # "none")
      /\ OneSlotPerProcess'
  <2>1. CASE AddPid
    <3>1. cur.pid \in Pids /\ kstate[cur.pid] # "none"
          /\ \A i \in Slots : jobs[i].pid # cur.pid
      BY <2>1 DEF AddPid, Step, Main, Known, Adding
    <3>2. kstate' = kstate
      BY <2>1 DEF AddPid, kernelVars
    <3> QED BY <2>1, <3>1, <3>2, SlotPidsAdded DEF Known, OneSlotPerProcess
  <2>2. CASE HandlerDeletejob
    <3>1. \A i \in Slots : jobs'[i].pid \in {jobs[i].pid, NoPid}
      BY <2>2, SlotPidsDeleted DEF ClearedJob
    <3> QED BY <1>1, <3>1, KstateGrows DEF Known, OneSlotPerProcess
  <2>3. CASE \A i \in Slots : jobs'[i].pid = jobs[i].pid
    BY <1>1, <2>3, KstateGrows DEF Known, OneSlotPerProcess
  <2> QED BY <2>1, <2>2, <2>3, SlotPids
<1>3. ASSUME pc' \in Adding
      PROVE  /\ cur'.pid \in Pids /\ kstate'[cur'.pid] # "none"
             /\ \A i \in Slots : jobs'[i].pid # cur'.pid
  <2>1. CASE pc \in Adding /\ cur' = cur
    <3>1. cur.pid \in Pids /\ kstate[cur.pid] # "none"
          /\ \A i \in Slots : jobs[i].pid # cur.pid
      BY <2>1 DEF Known
    <3>2. ~AddPid
      BY <1>3 DEF AddPid, Step, Adding
    <3>3. \A i \in Slots : jobs'[i].pid \in {jobs[i].pid, NoPid}
      BY <3>2, SlotPids, SlotPidsDeleted DEF ClearedJob
    <3>4. cur.pid # NoPid
      BY <3>1, PidsAssumption
    <3> QED BY <2>1, <3>1, <3>3, <3>4, KstateGrows
  <2>2. ASSUME NEW p \in Pids, EvalFork(p)
        PROVE  /\ cur'.pid \in Pids /\ kstate'[cur'.pid] # "none"
               /\ \A i \in Slots : jobs'[i].pid # cur'.pid
    <3>1. cur' = [cur EXCEPT !.pid = p] /\ jobs' = jobs /\ kstate[p] = "none"
          /\ kstate' = [kstate EXCEPT ![p] = "forked"]
      BY <2>2 DEF EvalFork
    <3>2. cur'.pid = p /\ kstate'[p] = "forked"
      BY <3>1 DEF TypeOK
    <3>3. \A i \in Slots : jobs[i].pid # p
      BY <3>1, PidsAssumption DEF Known
    <3> QED BY <3>1, <3>2, <3>3
  <2> QED BY <1>3, <2>1, <2>2, NextAdding
<1> QED BY <1>2, <1>3 DEF Known

\* When a key handler is active, main does not run.
LEMMA KeyHandlerSuspendsMain ==
  ASSUME TypeOK, Nested, NEW s \in KeySignals, handler[s].at = "kill"
  PROVE  ctx # "main"
BY DEF Nested, Active, Signals

\* No step of another part than main takes a job to the background.
LEMMA HandlersSpareState ==
  ASSUME TypeOK, [Next]_vars, ctx # "main"
  PROVE  \A i \in Slots : \/ jobs'[i] = jobs[i] \/ jobs'[i] = ClearedJob
                          \/ /\ jobs'[i].pid = jobs[i].pid
                             /\ jobs'[i].state = "ST"
<1>1. CASE User \/ MainStep \/ (\E p \in Pids : ChildStep(p))
  BY <1>1, OtherSteps
<1>2. CASE HandlerDeletejob
  BY <1>2, SlotPidsDeleted
<1>3. CASE HandlerStop
  BY <1>3, StopStates
<1>4. CASE WaitpidNone \/ \E p \in Pids : WaitpidReaped(p) \/ WaitpidStopped(p)
  BY <1>4 DEF WaitpidReaped, WaitpidStopped, WaitpidNone, shellVars
<1>5. CASE \E s \in KeySignals : KeyHandlerStep(s)
  BY <1>5 DEF KeyHandlerStep, HandlerFgpid, HandlerKill, shellVars
<1>6. CASE \E s \in Signals : Deliver(s)
  BY <1>6 DEF Deliver, shellVars
<1>7. CASE UNCHANGED vars
  BY <1>7 DEF vars
<1> QED BY <1>1, <1>2, <1>3, <1>4, <1>5, <1>6, <1>7 DEF Next, ChldHandlerStep

\* A key handler comes to its kill from its fgpid only.
LEMMA NewTarget ==
  ASSUME TypeOK, Frames, [Next]_vars, NEW s \in KeySignals,
         handler'[s].at = "kill"
  PROVE  \/ handler[s].at = "kill" /\ handler'[s].pid = handler[s].pid
         \/ /\ jobs' = jobs /\ Fgpid(jobs) # NoPid
            /\ handler'[s].pid = Fgpid(jobs)
<1>0. "CHLD" \in Signals /\ s \in Signals /\ s # "CHLD"
  BY DEF Signals, KeySignals
<1>a. handler \in [Signals -> Activation]
  BY DEF TypeOK
<1>1. CASE User \/ MainStep \/ (\E p \in Pids : ChildStep(p))
  BY <1>1, OtherSteps
<1>2. CASE ChldHandlerStep
  <2>1. ASSUME NEW p \in Pids, WaitpidReaped(p) \/ WaitpidStopped(p)
        PROVE  handler'[s] = handler[s]
    BY <2>1, <1>0, <1>a, GotoType DEF WaitpidReaped, WaitpidStopped, HandlerLabels
  <2>2. CASE WaitpidNone
    BY <2>2, <1>0, <1>a, ReturnType DEF WaitpidNone
  <2>3. CASE HandlerDeletejob \/ HandlerStop
    BY <2>3, <1>0, <1>a, GotoType DEF HandlerDeletejob, HandlerStop, HandlerLabels
  <2> QED BY <1>2, <2>1, <2>2, <2>3 DEF ChldHandlerStep
<1>3. ASSUME NEW t \in KeySignals, HandlerFgpid(t)
      PROVE  \/ handler'[s] = handler[s]
             \/ handler'[s] = Idle
             \/ /\ jobs' = jobs /\ Fgpid(jobs) # NoPid
                /\ handler'[s].pid = Fgpid(jobs)
  <2>1. t \in Signals /\ "kill" \in HandlerLabels
        /\ Fgpid(jobs) \in Pids \cup {NoPid}
    BY FgpidForeground DEF Signals, HandlerLabels, TypeOK
  <2>2. CASE Fgpid(jobs) = NoPid
    BY <2>1, <2>2, <1>3, <1>0, <1>a, ReturnType DEF HandlerFgpid
  <2>3. CASE Fgpid(jobs) # NoPid
    <3>1. Goto(t, "kill", Fgpid(jobs)) /\ jobs' = jobs
      BY <2>3, <1>3 DEF HandlerFgpid, shellVars
    <3> QED BY <2>1, <2>3, <3>1, <1>0, <1>a, GotoType
  <2> QED BY <2>2, <2>3
<1>4. ASSUME NEW t \in KeySignals, HandlerKill(t)
      PROVE  handler'[s] = handler[s] \/ handler'[s] = Idle
  BY <1>4, <1>0, <1>a, ReturnType DEF HandlerKill, Signals
<1>5. ASSUME NEW t \in Signals, Deliver(t)
      PROVE  handler'[s] = handler[s] \/ handler'[s].at = "fgpid"
  BY <1>5, <1>0, <1>a DEF Deliver
<1>6. CASE UNCHANGED vars
  BY <1>6 DEF vars
<1> QED BY <1>1, <1>2, <1>3, <1>4, <1>5, <1>6 DEF Next, KeyHandlerStep, Idle

LEMMA NextTargets ==
  ASSUME TypeOK, Frames, Nested, OneSlotPerProcess, Targets, [Next]_vars
  PROVE  Targets'
<1> SUFFICES ASSUME NEW s \in KeySignals, handler'[s].at = "kill"
             PROVE  /\ handler'[s].pid \in Pids
                    /\ \A i \in Slots : jobs'[i].pid = handler'[s].pid
                                          => jobs'[i].state # "BG"
  BY DEF Targets
<1>1. CASE handler[s].at = "kill" /\ handler'[s].pid = handler[s].pid
  <2>1. ctx # "main"
    BY <1>1, KeyHandlerSuspendsMain
  <2>2. handler[s].pid \in Pids /\ handler[s].pid # NoPid
    BY <1>1, PidsAssumption DEF Targets
  <2> QED BY <1>1, <2>1, <2>2, HandlersSpareState DEF Targets, ClearedJob
<1>2. CASE /\ jobs' = jobs /\ Fgpid(jobs) # NoPid
           /\ handler'[s].pid = Fgpid(jobs)
  <2>1. Fgpid(jobs) \in Pids /\ \E i \in Slots : /\ jobs[i].pid = Fgpid(jobs)
                                                /\ jobs[i].state = "FG"
    BY <1>2, FgpidForeground DEF TypeOK
  <2> QED BY <1>2, <2>1 DEF OneSlotPerProcess
<1> QED BY <1>1, <1>2, NewTarget

\* Children raise SIGCHLD with every change that waitpid can report.
LEMMA NextNoLostChild ==
  ASSUME TypeOK, Frames, NoLostChild, [Next]_vars PROVE NoLostChild'
<1>0. "CHLD" \in Signals /\ "CHLD" \notin KeySignals /\ KeySignals \subseteq Signals
  BY DEF Signals, KeySignals
<1>a. handler \in [Signals -> Activation]
  BY DEF TypeOK
<1> USE DEF NoLostChild, Waitable, Zombie
<1>1. CASE User
  BY <1>1 DEF User, Quit, EvalBlock, BgfgLookup, Keyboard, Step, kernelVars
<1>2. CASE MainStep
  <2>1. CASE BgfgCont
    BY <2>1 DEF BgfgCont, Step, Continue, kernelVars, TypeOK
  <2>2. CASE \E p \in Pids : EvalFork(p)
    BY <2>2 DEF EvalFork, Step, TypeOK
  <2>3. CASE \/ EvalForkFails \/ EvalUnblock \/ AddPid \/ AddFull \/ AddState
             \/ AddJid \/ BgfgSetState \/ WaitfgDone
    BY <2>3 DEF EvalForkFails, EvalUnblock, AddPid, AddFull, AddState, AddJid,
                BgfgSetState, WaitfgDone, Step, kernelVars
  <2> QED BY <1>2, <2>1, <2>2, <2>3 DEF MainStep
<1>3. ASSUME NEW p \in Pids, ChildStep(p) PROVE NoLostChild'
  BY <1>3 DEF ChildStep, ChildSetpgid, ChildExec, ChildExit, ChildKilled,
     ChildStop, ChildSwallow, TypeOK
<1>4. CASE ChldHandlerStep
  <2>1. ASSUME NEW p \in Pids, WaitpidReaped(p) \/ WaitpidStopped(p)
        PROVE  handler'["CHLD"].at # "idle"
    BY <2>1, <1>0, <1>a, GotoType DEF WaitpidReaped, WaitpidStopped, HandlerLabels
  <2>2. CASE WaitpidNone
    BY <2>2 DEF WaitpidNone, kernelVars
  <2>3. CASE HandlerDeletejob \/ HandlerStop
    BY <2>3, <1>0, <1>a, GotoType DEF HandlerDeletejob, HandlerStop, HandlerLabels
  <2> QED BY <1>4, <2>1, <2>2, <2>3 DEF ChldHandlerStep
<1>5. ASSUME NEW s \in KeySignals, KeyHandlerStep(s) PROVE NoLostChild'
  <2>1. CASE HandlerFgpid(s)
    <3>1. Fgpid(jobs) \in Pids \cup {NoPid} /\ "kill" \in HandlerLabels
      BY FgpidForeground DEF TypeOK, HandlerLabels
    <3>2. handler'["CHLD"] = handler["CHLD"]
      BY <2>1, <3>1, <1>0, <1>a, GotoType, ReturnType DEF HandlerFgpid
    <3> QED BY <2>1, <3>2 DEF HandlerFgpid, kernelVars
  <2>2. CASE HandlerKill(s)
    BY <2>2, <1>0, <1>a, ReturnType DEF HandlerKill
  <2> QED BY <1>5, <2>1, <2>2 DEF KeyHandlerStep
<1>6. ASSUME NEW s \in Signals, Deliver(s) PROVE NoLostChild'
  BY <1>6, <1>0, <1>a DEF Deliver, kernelVars
<1>7. CASE UNCHANGED vars
  BY <1>7 DEF vars
<1> QED BY <1>1, <1>2, <1>3, <1>4, <1>5, <1>6, <1>7 DEF Next

----------------------------------------------------------------------------
LEMMA NextIInv == IInv /\ [Next]_vars => IInv'
BY NextTypeOK, NextSlotChosen, NextFrames, NextNested, NextKnown, NextTargets,
   NextNoLostChild DEF IInv

\* The inductive invariant holds in every reachable state.
THEOREM Invariance == Spec => []IInv
<1>1. Init => IInv
  BY InitIInv
<1>2. IInv /\ [Next]_vars => IInv'
  BY NextIInv
<1> QED BY <1>1, <1>2, PTL DEF Spec

\* Type correctness of the shell's and the kernel's variables.
THEOREM TypeCorrect == Spec => []TypeOK
<1>1. IInv => TypeOK
  BY DEF IInv
<1> QED BY <1>1, Invariance, PTL

\* sigchld_handler misses no child, however SIGCHLDs coalesce and handlers
\* nest (tsh.c:402-436).
THEOREM NoChildIsLost == Spec => []NoLostChild
<1>1. IInv => NoLostChild
  BY DEF IInv
<1> QED BY <1>1, Invariance, PTL

\* The first match of getjobpid and deletejob is the only one.
THEOREM ProcessHasOneSlot == Spec => []OneSlotPerProcess
<1>1. IInv => OneSlotPerProcess
  BY DEF IInv
<1> QED BY <1>1, Invariance, PTL

\* A job leaves the list only after its process was reaped.
THEOREM OnlyReapedLeave == Spec => OnlyReapedJobsLeave
<1> DEFINE A == \A i \in Slots : jobs[i].pid # NoPid /\ jobs'[i].pid # jobs[i].pid
                                   => kstate[jobs[i].pid] = "reaped"
<1>1. IInv /\ [Next]_vars => [A]_vars
  <2> SUFFICES ASSUME IInv, [Next]_vars PROVE A
    OBVIOUS
  <2>1. CASE AddPid
    BY <2>1, SlotPidsAdded DEF IInv
  <2>2. CASE HandlerDeletejob
    <3>1. kstate[handler["CHLD"].pid] = "reaped"
      BY <2>2 DEF IInv, Frames, HandlerDeletejob, In
    <3> QED BY <2>2, <3>1, SlotPidsDeleted DEF IInv
  <2> QED BY <2>1, <2>2, SlotPids DEF IInv
<1> QED BY <1>1, Invariance, PTL DEF Spec, OnlyReapedJobsLeave

\* Only the kill of a key handler sends a process a key's signal.
LEMMA SigsGrow ==
  ASSUME TypeOK, [Next]_vars, NEW p \in Pids, ~(sigs'[p] \subseteq sigs[p])
  PROVE  \E s \in KeySignals : HandlerKill(s) /\ handler[s].pid = p
<1> USE DEF TypeOK
<1>1. CASE User
  BY <1>1 DEF User, Quit, EvalBlock, BgfgLookup, Keyboard, kernelVars
<1>2. CASE MainStep
  <2>1. CASE BgfgCont
    BY <2>1 DEF BgfgCont, Continue, kernelVars
  <2>2. CASE \E q \in Pids : EvalFork(q)
    BY <2>2 DEF EvalFork
  <2>3. CASE \/ EvalForkFails \/ EvalUnblock \/ AddPid \/ AddFull \/ AddState
             \/ AddJid \/ BgfgSetState \/ WaitfgDone
    BY <2>3 DEF EvalForkFails, EvalUnblock, AddPid, AddFull, AddState, AddJid,
                BgfgSetState, WaitfgDone, kernelVars
  <2> QED BY <1>2, <2>1, <2>2, <2>3 DEF MainStep
<1>3. CASE \E q \in Pids : ChildStep(q)
  BY <1>3 DEF ChildStep, ChildSetpgid, ChildExec, ChildExit, ChildKilled,
     ChildStop, ChildSwallow
<1>4. CASE ChldHandlerStep
  BY <1>4 DEF ChldHandlerStep, WaitpidReaped, WaitpidStopped, WaitpidNone,
     HandlerDeletejob, HandlerStop, kernelVars
<1>5. ASSUME NEW s \in KeySignals, KeyHandlerStep(s)
      PROVE  HandlerKill(s) /\ handler[s].pid = p
  BY <1>5 DEF KeyHandlerStep, HandlerFgpid, HandlerKill, kernelVars
<1>6. CASE \E s \in Signals : Deliver(s)
  BY <1>6 DEF Deliver, kernelVars
<1>7. CASE UNCHANGED vars
  BY <1>7 DEF vars
<1> QED BY <1>1, <1>2, <1>3, <1>4, <1>5, <1>6, <1>7 DEF Next

\* ctrl-c and ctrl-z are never sent to a background job (tsh.c:443-481).
THEOREM BackgroundIsSpared == Spec => BackgroundSpared
<1> DEFINE A == \A p \in Pids : sigs'[p] \subseteq sigs[p]
                  \/ \A i \in Slots : jobs[i].pid = p => jobs[i].state # "BG"
<1>1. IInv /\ [Next]_vars => [A]_vars
  <2> SUFFICES ASSUME IInv, [Next]_vars, NEW p \in Pids, ~(sigs'[p] \subseteq sigs[p])
               PROVE  \A i \in Slots : jobs[i].pid = p => jobs[i].state # "BG"
    OBVIOUS
  <2>1. PICK s \in KeySignals : HandlerKill(s) /\ handler[s].pid = p
    BY SigsGrow DEF IInv
  <2> QED BY <2>1 DEF HandlerKill, In, IInv, Targets
<1> QED BY <1>1, Invariance, PTL DEF Spec, BackgroundSpared

-----------------------------------------------------------------------------
(* The job list when no SIGCHLD is delivered between a lookup or a fork and  *)
(* the update of the list that belongs to it (TimelySpec in module Tsh): it  *)
(* has no ghosts, one foreground job, and the states of its jobs are those   *)
(* of their processes.                                                       *)

\* The SIGCHLD handler holds the pid p that waitpid gave it.
HandlerHas(label, p) == handler["CHLD"].at = label /\ handler["CHLD"].pid = p

\* No SIGCHLD handler runs on top of an update of the list.
Undisturbed ==
  /\ Unprotected \/ pc = "fork" => ~Active("CHLD")
  /\ pc = "fork" => masked

FreeIsClear ==
  \A i \in Slots : jobs[i].pid = NoPid => jobs[i].state = "UNDEF" /\ jobs[i].jid = 0

\* The slot that main is about to write lists a process; its state is not set
\* before addjob sets it, and it is not ST when the process is continued.
Updating ==
  /\ pc \in {"addstate", "addjid", "setstate", "cont"} => jobs[cur.slot].pid # NoPid
  /\ pc = "addstate" => jobs[cur.slot].state = "UNDEF"
  /\ pc = "cont" => jobs[cur.slot].state # "ST"

\* A job is in the foreground only from its command until waitfg's end.
ForegroundIsCurrent ==
  \A i \in Slots : jobs[i].state = "FG" =>
    /\ i = cur.slot
    /\ Alive => pc \in {"addjid", "cont", "waitfg"} /\ ~cur.bg

\* A process that was reaped is neither listed nor about to be, once the
\* handler is through with it.
ReapedIsGone ==
  \A p \in Pids : kstate[p] = "reaped" /\ ~HandlerHas("delete", p) =>
    /\ \A i \in Slots : jobs[i].pid # p
    /\ ~(pc \in Adding /\ cur.pid = p)

\* What the kernel, the handler or the list takes for stopped is stopped.
StopsAreReal ==
  /\ \A p \in Pids : p \in report \/ HandlerHas("stop", p) => kstate[p] = "stopped"
  /\ \A i \in Slots : jobs[i].state = "ST" => kstate[jobs[i].pid] = "stopped"

\* A stop is on its way to the list until it is listed or bg or fg undoes it.
StopsAreKnown ==
  /\ \A i \in Slots : Alive /\ jobs[i].pid # NoPid /\ kstate[jobs[i].pid] = "stopped" =>
       \/ jobs[i].state = "ST"
       \/ jobs[i].pid \in report
       \/ HandlerHas("stop", jobs[i].pid)
       \/ pc = "cont" /\ cur.slot = i
  /\ pc \in Adding /\ kstate[cur.pid] = "stopped" => cur.pid \in report

Timely == /\ Undisturbed /\ FreeIsClear /\ Updating /\ ForegroundIsCurrent
          /\ ReapedIsGone /\ StopsAreReal /\ StopsAreKnown

----------------------------------------------------------------------------

\* An empty list agrees with no processes.
LEMMA InitTimely == Init => Timely
<1> SUFFICES ASSUME Init PROVE Timely
  OBVIOUS
<1>1. \A i \in Slots : jobs[i] = ClearedJob
  BY DEF Init, InitJobs
<1> QED BY <1>1 DEF Init, ClearedJob, Idle, Signals, HandlerHas, Active, Unprotected, Adding,
     Timely, Undisturbed, FreeIsClear, Updating, ForegroundIsCurrent, ReapedIsGone,
     StopsAreReal, StopsAreKnown

\* While main runs the SIGCHLD handler does not, and holds no process.
LEMMA MainAlone ==
  ASSUME IInv, ctx = "main"
  PROVE  /\ ~Active("CHLD")
         /\ \A p : ~HandlerHas("delete", p) /\ ~HandlerHas("stop", p)
BY DEF IInv, Nested, Active, HandlerHas, Signals

\* Steps that change neither the list nor what it depends on.
LEMMA Spared ==
  ASSUME IInv, \/ Quit \/ EvalForkFails \/ WaitpidNone
               \/ \E s \in Keys : Keyboard(s)
               \/ \E s \in KeySignals : KeyHandlerStep(s)
               \/ \E s \in Signals : Deliver(s)
  PROVE  /\ UNCHANGED <<jobs, cur, kstate, report, masked>>
         /\ pc' = pc \/ pc' \in {"exited", "failed"}
         /\ \A p : /\ HandlerHas("delete", p)' <=> HandlerHas("delete", p)
                   /\ HandlerHas("stop", p)' <=> HandlerHas("stop", p)
         /\ Active("CHLD")' => Active("CHLD") \/ Deliver("CHLD")
<1>0. /\ "CHLD" \in Signals /\ "CHLD" \notin KeySignals /\ KeySignals \subseteq Signals
      /\ handler \in [Signals -> Activation] /\ TypeOK
  BY DEF Signals, KeySignals, IInv, TypeOK
<1> USE DEF HandlerHas, Active, kernelVars, shellVars
<1>1. CASE Quit \/ EvalForkFails \/ \E s \in Keys : Keyboard(s)
  BY <1>1 DEF Quit, EvalForkFails, Keyboard, Step
<1>2. CASE WaitpidNone
  BY <1>0, <1>2, ReturnType DEF WaitpidNone, In, Idle
<1>3. ASSUME NEW s \in KeySignals, KeyHandlerStep(s)
      PROVE  /\ UNCHANGED <<jobs, cur, kstate, report, masked>>
             /\ pc' = pc \/ pc' \in {"exited", "failed"}
             /\ handler'["CHLD"] = handler["CHLD"]
  <2>1. Fgpid(jobs) \in Pids \cup {NoPid} /\ "kill" \in HandlerLabels
    BY <1>0, FgpidForeground DEF TypeOK, HandlerLabels
  <2>2. CASE HandlerFgpid(s)
    BY <1>0, <2>1, <2>2, GotoType, ReturnType DEF HandlerFgpid
  <2>3. CASE HandlerKill(s)
    BY <1>0, <2>3, ReturnType DEF HandlerKill
  <2> QED BY <1>3, <2>2, <2>3 DEF KeyHandlerStep
<1>4. ASSUME NEW s \in Signals, Deliver(s)
      PROVE  /\ UNCHANGED <<jobs, cur, kstate, report, masked, pc>>
             /\ s = "CHLD" => handler["CHLD"].at = "idle" /\ handler'["CHLD"].at = "waitpid"
             /\ s # "CHLD" => handler'["CHLD"] = handler["CHLD"]
  BY <1>0, <1>4 DEF Deliver
<1> QED BY <1>1, <1>2, <1>3, <1>4

\* They preserve the agreement.
LEMMA SparedTimely ==
  ASSUME IInv, Timely, TimelyNext,
         \/ Quit \/ EvalForkFails \/ WaitpidNone
         \/ \E s \in Keys : Keyboard(s)
         \/ \E s \in KeySignals : KeyHandlerStep(s)
         \/ \E s \in Signals : Deliver(s)
  PROVE  Timely'
<1>1. /\ UNCHANGED <<jobs, cur, kstate, report, masked>>
      /\ pc' = pc \/ pc' \in {"exited", "failed"}
      /\ \A p : /\ HandlerHas("delete", p)' <=> HandlerHas("delete", p)
                /\ HandlerHas("stop", p)' <=> HandlerHas("stop", p)
      /\ Active("CHLD")' => Active("CHLD") \/ Deliver("CHLD")
  BY Spared
<1>2. Undisturbed'
  <2>1. ASSUME Deliver("CHLD") PROVE ~Unprotected /\ pc # "fork"
    <3>1. ctx' = "CHLD" /\ ~masked /\ ~Active("CHLD")
      BY <2>1 DEF Deliver, Active
    <3>2. ctx # "CHLD"
      BY <3>1 DEF IInv, Nested, Signals
    <3> QED BY <3>1, <3>2 DEF TimelyNext, Timely, Undisturbed
  <2>2. Unprotected' \/ pc' = "fork" => pc' = pc /\ (Unprotected \/ pc = "fork")
    BY <1>1 DEF Unprotected
  <2> QED BY <1>1, <2>1, <2>2 DEF Timely, Undisturbed
<1>3. FreeIsClear' /\ Updating' /\ ForegroundIsCurrent'
  BY <1>1 DEF Timely, FreeIsClear, Updating, ForegroundIsCurrent, Alive
<1>4. ReapedIsGone' /\ StopsAreReal' /\ StopsAreKnown'
  BY <1>1 DEF Timely, ReapedIsGone, StopsAreReal, StopsAreKnown, Adding, Alive
<1> QED BY <1>2, <1>3, <1>4 DEF Timely

\* The slots hold processes or nothing.
LEMMA PidTypes ==
  ASSUME IInv
  PROVE  /\ kstate \in [Pids -> KStates] /\ TypeOK
         /\ \A i \in Slots : jobs[i].pid \in Pids \cup {NoPid}
         /\ NoPid \notin Pids
BY PidsAssumption DEF IInv, TypeOK, Job

\* Before addjob, eval leaves the list alone and forks with SIGCHLD blocked.
LEMMA EvalTimely ==
  ASSUME IInv, Timely,
         \/ (\E bg \in BOOLEAN : EvalBlock(bg)) \/ (\E p \in Pids : EvalFork(p))
         \/ EvalUnblock \/ AddFull
  PROVE  Timely'
<1>0. /\ kstate \in [Pids -> KStates] /\ TypeOK
      /\ \A i \in Slots : jobs[i].pid \in Pids \cup {NoPid}
      /\ NoPid \notin Pids
  BY PidTypes
<1>1. ctx = "main" /\ UNCHANGED <<jobs, handler, report>> /\ pc' # "cont"
  BY DEF EvalBlock, EvalFork, EvalUnblock, AddFull, Step, Main, AfterAdd, kernelVars
<1>2. \A p : ~HandlerHas("delete", p) /\ ~HandlerHas("stop", p)
             /\ ~HandlerHas("delete", p)' /\ ~HandlerHas("stop", p)'
  BY <1>1, MainAlone DEF HandlerHas
<1>3. ~Active("CHLD")'
  BY <1>1, MainAlone DEF Active
<1>4. \A i \in Slots : jobs[i].state # "FG"
  BY DEF EvalBlock, EvalFork, EvalUnblock, AddFull, Step, Main, Timely, ForegroundIsCurrent,
         Alive
<1>5. ASSUME NEW p \in Pids, kstate'[p] # kstate[p]
      PROVE  kstate[p] = "none" /\ kstate'[p] = "forked" /\ EvalFork(p)
  BY <1>0, <1>5 DEF EvalBlock, EvalFork, EvalUnblock, AddFull, kernelVars
<1>6. Undisturbed'
  BY <1>3 DEF EvalBlock, EvalFork, EvalUnblock, AddFull, Step, AfterAdd, Undisturbed
<1>7. FreeIsClear' /\ Updating' /\ ForegroundIsCurrent'
  <2>1. pc' \notin {"addstate", "addjid", "setstate", "cont"}
    BY DEF EvalBlock, EvalFork, EvalUnblock, AddFull, Step, AfterAdd
  <2> QED BY <1>1, <1>4, <2>1 DEF Timely, FreeIsClear, Updating, ForegroundIsCurrent
<1>8. \A i \in Slots : jobs[i].pid # NoPid => kstate'[jobs[i].pid] = kstate[jobs[i].pid]
  BY <1>0, <1>5 DEF IInv, Known
<1>9. ASSUME pc' \in Adding
      PROVE  /\ cur'.pid \in Pids
             /\ \/ kstate'[cur'.pid] = kstate[cur.pid] /\ cur' = cur /\ pc \in Adding
                \/ kstate'[cur'.pid] = "forked"
  <2>1. CASE EvalUnblock
    BY <2>1 DEF EvalUnblock, kernelVars, Step, Main, Adding, IInv, Known
  <2>2. ASSUME NEW p \in Pids, EvalFork(p) PROVE cur'.pid = p /\ kstate'[p] = "forked"
    BY <1>0, <2>2 DEF EvalFork, TypeOK
  <2> QED BY <1>9, <2>1, <2>2 DEF EvalBlock, AddFull, Step, AfterAdd, Adding
<1>10. ReapedIsGone'
  BY <1>1, <1>2, <1>5, <1>9 DEF Timely, ReapedIsGone
<1>11. StopsAreReal'
  BY <1>0, <1>1, <1>2, <1>5, <1>8 DEF Timely, StopsAreReal, FreeIsClear
<1>12. StopsAreKnown'
  <2>1. Alive
    BY DEF EvalBlock, EvalFork, EvalUnblock, AddFull, Step, Main, Alive
  <2>2. pc # "cont"
    BY DEF EvalBlock, EvalFork, EvalUnblock, AddFull, Step, Main
  <2> QED BY <1>0, <1>1, <1>2, <1>8, <1>9, <2>1, <2>2 DEF Timely, StopsAreKnown
<1> QED BY <1>6, <1>7, <1>10, <1>11, <1>12 DEF Timely

\* A child's own steps.
LEMMA ChildTimely ==
  ASSUME IInv, Timely, NEW p \in Pids, ChildStep(p)
  PROVE  Timely'
<1>0. /\ kstate \in [Pids -> KStates] /\ TypeOK
      /\ \A i \in Slots : jobs[i].pid \in Pids \cup {NoPid}
      /\ NoPid \notin Pids
  BY PidTypes
<1> USE DEF ChildStep, ChildSetpgid, ChildExec, ChildExit, ChildKilled, ChildStop,
            ChildSwallow, shellVars
<1>1. UNCHANGED <<jobs, handler, pc, cur, masked>>
  OBVIOUS
<1>2. \A q \in Pids : \/ kstate'[q] = kstate[q]
                      \/ /\ kstate[q] \notin {"stopped", "reaped"}
                         /\ kstate'[q] # "reaped"
                         /\ kstate'[q] = "stopped" => q \in report'
  BY <1>0
<1>3. report \subseteq report' /\ \A q \in report' : q \in report \/ kstate'[q] = "stopped"
  BY <1>0
<1> USE <1>0, <1>1, <1>2, <1>3
<1> HIDE DEF ChildStep
<1>4. Undisturbed'
  BY DEF Timely, Undisturbed, Unprotected, Active
<1>5. FreeIsClear' /\ Updating' /\ ForegroundIsCurrent'
  BY DEF Timely, FreeIsClear, Updating, ForegroundIsCurrent, Alive
<1>6. ReapedIsGone'
  BY DEF Timely, ReapedIsGone, HandlerHas
<1>7. StopsAreReal'
  BY DEF Timely, StopsAreReal, HandlerHas, FreeIsClear, IInv, TypeOK
<1>8. StopsAreKnown'
  BY DEF Timely, StopsAreKnown, HandlerHas, Alive, Adding, IInv, Known
<1> QED BY <1>4, <1>5, <1>6, <1>7, <1>8 DEF Timely

\* Steps of main leave the handlers and the kernel as they are, unless it
\* forks or continues a process.
LEMMA MainSpares ==
  ASSUME IInv, \/ AddPid \/ AddState \/ AddJid \/ BgfgSetState \/ WaitfgDone
               \/ \E bg \in BOOLEAN, i \in Slots : BgfgLookup(bg, i)
  PROVE  /\ UNCHANGED <<handler, kstate, report, masked>>
         /\ \A p : /\ ~HandlerHas("delete", p) /\ ~HandlerHas("stop", p)
                   /\ ~HandlerHas("delete", p)' /\ ~HandlerHas("stop", p)'
         /\ ~Active("CHLD") /\ Undisturbed' /\ Alive /\ pc' # "unblock"
<1>1. /\ UNCHANGED <<handler, kstate, report, masked>> /\ ctx = "main"
      /\ Alive /\ pc' \notin {"fork", "unblock"}
  BY DEF AddPid, AddState, AddJid, BgfgSetState, WaitfgDone, BgfgLookup, Step, Main, kernelVars,
         Alive, AfterAdd
<1>2. ~Active("CHLD") /\ \A p : ~HandlerHas("delete", p) /\ ~HandlerHas("stop", p)
  BY <1>1, MainAlone
<1> QED BY <1>1, <1>2 DEF Active, HandlerHas, Undisturbed

\* addjob writes the pid of a process that was just forked and not reaped since.
LEMMA AddPidTimely ==
  ASSUME IInv, Timely, AddPid
  PROVE  Timely'
<1> DEFINE k == FreeSlot(jobs)
<1>1. k \in Slots /\ jobs[k].pid = NoPid
  BY PidTypes, FreeSlotFree DEF AddPid, TypeOK
<1>2. /\ pc = "addpid" /\ pc' = "addstate" /\ cur'.slot = k
      /\ cur.pid \in Pids /\ \A i \in Slots : jobs[i].pid # cur.pid
  BY PidTypes DEF AddPid, Step, Main, TypeOK, IInv, Known, Adding
<1>3. \A i \in Slots : /\ jobs'[i].pid = IF i = k THEN cur.pid ELSE jobs[i].pid
                       /\ jobs'[i].state = jobs[i].state /\ jobs'[i].jid = jobs[i].jid
  <2>1. jobs' = [jobs EXCEPT ![k].pid = cur.pid] /\ \A i \in Slots : jobs[i] \in Job
    BY PidTypes DEF AddPid, TypeOK
  <2>2. jobs \in [Slots -> Job]
    BY PidTypes DEF TypeOK
  <2> HIDE DEF k
  <2> QED BY <1>1, <2>1, <2>2 DEF Job
<1>4. jobs[k].state = "UNDEF"
  BY <1>1 DEF Timely, FreeIsClear
<1> HIDE DEF k
<1>5. /\ UNCHANGED <<handler, kstate, report>> /\ Undisturbed'
      /\ \A p : /\ ~HandlerHas("delete", p) /\ ~HandlerHas("stop", p)
                /\ ~HandlerHas("delete", p)' /\ ~HandlerHas("stop", p)'
  BY MainSpares
<1>6. FreeIsClear' /\ Updating' /\ ForegroundIsCurrent'
  BY <1>1, <1>2, <1>3, <1>4, PidTypes
  DEF Timely, FreeIsClear, Updating, ForegroundIsCurrent, Alive
<1>7. ReapedIsGone'
  BY <1>2, <1>3, <1>5 DEF Timely, ReapedIsGone, Adding
<1>8. StopsAreReal'
  BY <1>1, <1>2, <1>3, <1>4, <1>5 DEF Timely, StopsAreReal
<1>9. StopsAreKnown'
  <2>1. Alive /\ pc \in Adding /\ pc # "cont" /\ pc' \notin Adding
    BY <1>2 DEF Alive, Adding
  <2> QED BY <1>2, <1>3, <1>5, <2>1 DEF Timely, StopsAreKnown
<1> QED BY <1>5, <1>6, <1>7, <1>8, <1>9 DEF Timely

\* addjob and bg and fg set the state of the slot they hold.
LEMMA StateSet ==
  ASSUME IInv, Timely, AddState \/ BgfgSetState
  PROVE  /\ cur.slot \in Slots
         /\ \A i \in Slots :
              /\ jobs'[i].pid = jobs[i].pid
              /\ i # cur.slot => jobs'[i] = jobs[i]
              /\ i = cur.slot => jobs'[i].state = IF cur.bg THEN "BG" ELSE "FG"
<1> DEFINE st == IF cur.bg THEN "BG" ELSE "FG"
<1>1. cur.slot \in Slots
  BY DEF AddState, BgfgSetState, Step, Main, IInv, SlotChosen
<1>2. st \in JobStates /\ jobs' = [jobs EXCEPT ![cur.slot].state = st]
  BY DEF AddState, BgfgSetState, JobStates
<1>3. jobs \in [Slots -> Job]
  BY PidTypes DEF TypeOK
<1> HIDE DEF st
<1>4. \A i \in Slots : /\ jobs'[i].pid = jobs[i].pid
                       /\ i # cur.slot => jobs'[i] = jobs[i]
                       /\ i = cur.slot => jobs'[i].state = st
  BY <1>1, <1>2, <1>3, SetStateType
<1> QED BY <1>1, <1>4 DEF st

\* Setting FG is sound because main ran waitfg to its end before.
LEMMA SetStateTimely ==
  ASSUME IInv, Timely, AddState \/ BgfgSetState
  PROVE  Timely'
<1>1. /\ cur' = cur /\ Alive /\ Alive' /\ pc' \notin Adding /\ pc' \in {"addjid", "cont"}
      /\ pc \in {"addstate", "setstate"} /\ (pc' = "addjid" => pc = "addstate")
  BY DEF AddState, BgfgSetState, Step, Main, Alive, Adding
<1>2. /\ UNCHANGED <<handler, kstate, report>> /\ Undisturbed'
      /\ \A p : /\ ~HandlerHas("delete", p) /\ ~HandlerHas("stop", p)
                /\ ~HandlerHas("delete", p)' /\ ~HandlerHas("stop", p)'
  BY MainSpares
<1>3. jobs[cur.slot].pid # NoPid
  BY <1>1 DEF Timely, Updating
<1>4. \A i \in Slots : jobs[i].state # "FG"
  BY <1>1 DEF Timely, ForegroundIsCurrent
<1>5. FreeIsClear' /\ Updating' /\ ForegroundIsCurrent'
  BY <1>1, <1>3, <1>4, StateSet DEF Timely, FreeIsClear, Updating, ForegroundIsCurrent
<1>6. ReapedIsGone' /\ StopsAreReal'
  BY <1>1, <1>2, StateSet DEF Timely, ReapedIsGone, StopsAreReal
<1>7. StopsAreKnown'
  BY <1>1, <1>2, StateSet DEF Timely, StopsAreKnown, Updating
<1> QED BY <1>2, <1>5, <1>6, <1>7 DEF Timely

\* addjob gives the slot its job id and is done.
LEMMA AddJidTimely ==
  ASSUME IInv, Timely, AddJid
  PROVE  Timely'
<1>1. /\ cur' = cur /\ pc = "addjid" /\ pc' = (IF cur.bg THEN "read" ELSE "waitfg")
      /\ cur.slot \in Slots
  BY DEF AddJid, Step, Main, AfterAdd, IInv, SlotChosen
<1>2. /\ UNCHANGED <<handler, kstate, report>> /\ Undisturbed'
      /\ \A p : /\ ~HandlerHas("delete", p) /\ ~HandlerHas("stop", p)
                /\ ~HandlerHas("delete", p)' /\ ~HandlerHas("stop", p)'
  BY MainSpares
<1>3. \A i \in Slots : /\ jobs'[i].pid = jobs[i].pid /\ jobs'[i].state = jobs[i].state
                       /\ jobs'[i].jid = jobs[i].jid \/ i = cur.slot
  BY <1>1, PidTypes DEF AddJid, TypeOK
<1>4. jobs[cur.slot].pid # NoPid
  BY <1>1 DEF Timely, Updating
<1>5. FreeIsClear' /\ Updating' /\ ForegroundIsCurrent'
  BY <1>1, <1>3, <1>4 DEF Timely, FreeIsClear, Updating, ForegroundIsCurrent, Alive
<1>6. ReapedIsGone' /\ StopsAreReal' /\ StopsAreKnown'
  BY <1>1, <1>2, <1>3 DEF Timely, ReapedIsGone, StopsAreReal, StopsAreKnown, Adding, Alive
<1> QED BY <1>2, <1>5, <1>6 DEF Timely

\* A slot that bg or fg finds lists a process.
LEMMA LookupTimely ==
  ASSUME IInv, Timely, NEW bg \in BOOLEAN, NEW i \in Slots, BgfgLookup(bg, i)
  PROVE  Timely'
<1>1. /\ cur'.slot = i /\ pc = "read" /\ pc' = "setstate" /\ jobs' = jobs
  BY DEF BgfgLookup, Step, Main
<1>2. /\ UNCHANGED <<handler, kstate, report>> /\ Undisturbed'
      /\ \A p : /\ ~HandlerHas("delete", p) /\ ~HandlerHas("stop", p)
                /\ ~HandlerHas("delete", p)' /\ ~HandlerHas("stop", p)'
  BY MainSpares
<1>3. jobs[i].pid # NoPid
  <2>1. 0 \notin Slots
    BY DEF Slots
  <2>2. CASE SlotOfPid(jobs, jobs[i].pid) = i
    BY <2>1, <2>2 DEF SlotOfPid
  <2>3. CASE SlotOfJid(jobs, jobs[i].jid) = i
    BY <2>1, <2>3 DEF SlotOfJid, Timely, FreeIsClear
  <2> QED BY <2>2, <2>3 DEF BgfgLookup
<1>4. FreeIsClear' /\ Updating' /\ ForegroundIsCurrent'
  BY <1>1, <1>3 DEF Timely, FreeIsClear, Updating, ForegroundIsCurrent, Alive
<1>5. ReapedIsGone' /\ StopsAreReal' /\ StopsAreKnown'
  BY <1>1, <1>2 DEF Timely, ReapedIsGone, StopsAreReal, StopsAreKnown, Adding, Alive
<1> QED BY <1>2, <1>4, <1>5 DEF Timely

\* When waitfg ends no job is in the foreground.
LEMMA WaitfgTimely ==
  ASSUME IInv, Timely, WaitfgDone
  PROVE  Timely'
<1>1. /\ UNCHANGED <<cur, jobs>> /\ pc = "waitfg" /\ pc' = "read" /\ Fgpid(jobs) = NoPid
  BY DEF WaitfgDone, Step, Main
<1>2. /\ UNCHANGED <<handler, kstate, report>> /\ Undisturbed'
      /\ \A p : /\ ~HandlerHas("delete", p) /\ ~HandlerHas("stop", p)
                /\ ~HandlerHas("delete", p)' /\ ~HandlerHas("stop", p)'
  BY MainSpares
<1>3. \A i \in Slots : jobs[i].state # "FG"
  <2> DEFINE S == {i \in Slots : jobs[i].state = "FG"}
  <2>1. 0 \notin Slots /\ S \in SUBSET Slots
    BY DEF Slots
  <2>2. S # {} => FgSlot(jobs) \in S
    BY <2>1, FirstSlotLeast DEF FgSlot
  <2>3. \A i \in S : jobs[i].pid # NoPid
    BY DEF Timely, FreeIsClear
  <2>4. S = {}
    BY <1>1, <2>1, <2>2, <2>3 DEF Fgpid
  <2> QED BY <2>4
<1>4. FreeIsClear' /\ Updating' /\ ForegroundIsCurrent'
  BY <1>1, <1>3 DEF Timely, FreeIsClear, Updating, ForegroundIsCurrent, Alive
<1>5. ReapedIsGone' /\ StopsAreReal' /\ StopsAreKnown'
  BY <1>1, <1>2 DEF Timely, ReapedIsGone, StopsAreReal, StopsAreKnown, Adding, Alive
<1> QED BY <1>2, <1>4, <1>5 DEF Timely

\* kill(SIGCONT) finds its job in a state that is not ST.
LEMMA ContTimely ==
  ASSUME IInv, Timely, BgfgCont
  PROVE  Timely'
<1> DEFINE p == jobs[cur.slot].pid
<1>0. /\ kstate \in [Pids -> KStates] /\ report \in SUBSET Pids
      /\ \A i \in Slots : jobs[i].pid \in Pids \cup {NoPid}
      /\ NoPid \notin Pids
  BY PidTypes DEF TypeOK
<1>1. /\ ctx = "main" /\ pc = "cont" /\ UNCHANGED <<jobs, handler, masked>>
      /\ cur'.slot = cur.slot /\ cur'.bg = cur.bg /\ cur.slot \in Slots
      /\ p \in Pids
      /\ pc' = IF ~InGroup(p) THEN "failed" ELSE IF cur.bg THEN "read" ELSE "waitfg"
  <2>1. /\ ctx = "main" /\ pc = "cont" /\ UNCHANGED <<jobs, handler, masked>>
        /\ cur' = [cur EXCEPT !.pid = p]
        /\ pc' = IF p # NoPid /\ ~InGroup(p) THEN "failed" ELSE AfterAdd
    BY DEF BgfgCont, Step, Main
  <2>2. cur.slot \in Slots /\ p # NoPid
    BY <2>1 DEF IInv, SlotChosen, Timely, Updating
  <2>3. cur'.slot = cur.slot /\ cur'.bg = cur.bg
    BY <2>1, PidTypes DEF TypeOK
  <2> QED BY <1>0, <2>1, <2>2, <2>3 DEF AfterAdd
<1>2. ~Active("CHLD") /\ \A q : /\ ~HandlerHas("delete", q) /\ ~HandlerHas("stop", q)
                               /\ ~HandlerHas("delete", q)' /\ ~HandlerHas("stop", q)'
  BY <1>1, MainAlone DEF HandlerHas
<1>3. \A i \in Slots : jobs[i].pid = p => i = cur.slot
  BY <1>0, <1>1 DEF IInv, OneSlotPerProcess
<1>4. jobs[cur.slot].state # "ST"
  BY <1>1 DEF Timely, Updating
<1>5. /\ \A q \in Pids \ {p} : kstate'[q] = kstate[q]
      /\ report' \subseteq report
      /\ \A q \in Pids \ {p} : q \in report => q \in report'
      /\ kstate'[p] = kstate[p] \/ (kstate[p] = "stopped" /\ kstate'[p] = "running")
      /\ InGroup(p) => p \notin report' /\ kstate'[p] # "stopped"
      /\ ~InGroup(p) => kstate[p] # "stopped"
  <2>1. CASE InGroup(p)
    <3>1. Continue(p)
      BY <2>1 DEF BgfgCont
    <3> HIDE DEF p
    <3> QED BY <1>0, <1>1, <2>1, <3>1 DEF Continue
  <2>2. CASE ~InGroup(p)
    <3>1. UNCHANGED <<kstate, report>>
      BY <2>2 DEF BgfgCont, kernelVars
    <3>2. kstate[p] # "stopped"
      BY <1>1, <2>2 DEF InGroup
    <3> QED BY <2>2, <3>1, <3>2
  <2> QED BY <2>1, <2>2
<1> HIDE DEF p
<1>6. Undisturbed' /\ FreeIsClear' /\ Updating'
  BY <1>1, <1>2 DEF Timely, Undisturbed, FreeIsClear, Updating, Unprotected, Active
<1>7. ForegroundIsCurrent'
  BY <1>1 DEF Timely, ForegroundIsCurrent, Alive
<1>8. ReapedIsGone'
  <2>1. pc' \notin Adding
    BY <1>1 DEF Adding
  <2> QED BY <1>1, <1>2, <1>5, <2>1 DEF Timely, ReapedIsGone
<1>9. StopsAreReal'
  <2>1. \A i \in Slots : jobs[i].state = "ST" => jobs[i].pid \in Pids \ {p}
    BY <1>0, <1>3, <1>4 DEF Timely, FreeIsClear
  <2>2. \A q \in report' : kstate[q] = "stopped" /\ q \in Pids
    BY <1>0, <1>5 DEF Timely, StopsAreReal
  <2>3. ~InGroup(p) => p \notin report'
    BY <1>5, <2>2
  <2> QED BY <1>1, <1>2, <1>5, <2>1, <2>2, <2>3 DEF Timely, StopsAreReal
<1>10. StopsAreKnown'
  <2>1. pc' \notin Adding /\ Alive
    BY <1>1 DEF Adding, Alive
  <2>2. kstate'[p] # "stopped"
    BY <1>5
  <2>3. \A i \in Slots : jobs[i].pid # NoPid /\ kstate'[jobs[i].pid] = "stopped" =>
                            jobs[i].pid \in Pids \ {p} /\ i # cur.slot
    BY <1>0, <1>1, <2>2 DEF p
  <2> QED BY <1>1, <1>2, <1>5, <2>1, <2>3 DEF Timely, StopsAreKnown
<1> QED BY <1>6, <1>7, <1>8, <1>9, <1>10 DEF Timely

\* While the handler runs, main is at no place where it updates the list.
LEMMA HandlerRuns ==
  ASSUME IInv, Timely, Active("CHLD")
  PROVE  pc \notin {"fork", "unblock", "addpid", "addstate", "addjid", "setstate", "cont"}
BY DEF Timely, Undisturbed, Unprotected

\* waitpid takes a child from the kernel into the handler's hands.
LEMMA WaitpidTimely ==
  ASSUME IInv, Timely, NEW p \in Pids, WaitpidReaped(p) \/ WaitpidStopped(p)
  PROVE  Timely'
<1>0. /\ kstate \in [Pids -> KStates] /\ handler \in [Signals -> Activation]
      /\ \A i \in Slots : jobs[i].pid \in Pids \cup {NoPid}
      /\ NoPid \notin Pids /\ "CHLD" \in Signals /\ report \in SUBSET Pids
  BY PidTypes DEF TypeOK, Signals
<1>1. /\ UNCHANGED <<jobs, cur, pc, masked>> /\ handler["CHLD"].at = "waitpid" /\ Alive
  BY DEF WaitpidReaped, WaitpidStopped, In, shellVars
<1>2. \A q : ~HandlerHas("delete", q) /\ ~HandlerHas("stop", q)
  BY <1>1 DEF HandlerHas
<1>3. pc \notin {"fork", "unblock", "addpid", "addstate", "addjid", "setstate", "cont"}
  BY <1>1, HandlerRuns DEF Active
<1>4. \/ /\ WaitpidReaped(p) /\ handler'["CHLD"].at = "delete" /\ handler'["CHLD"].pid = p
         /\ kstate[p] \in {"exited", "killed"} /\ report' = report
         /\ kstate' = [kstate EXCEPT ![p] = "reaped"]
      \/ /\ WaitpidStopped(p) /\ handler'["CHLD"].at = "stop" /\ handler'["CHLD"].pid = p
         /\ p \in report /\ report' = report \ {p} /\ kstate' = kstate
  <2>1. CASE WaitpidReaped(p)
    BY <1>0, <2>1, GotoType DEF WaitpidReaped, HandlerLabels, Zombie
  <2>2. CASE WaitpidStopped(p)
    BY <1>0, <2>2, GotoType DEF WaitpidStopped, HandlerLabels
  <2> QED BY <2>1, <2>2
<1>5. Undisturbed' /\ FreeIsClear' /\ Updating' /\ ForegroundIsCurrent'
  BY <1>1, <1>3
  DEF Timely, Undisturbed, Unprotected, FreeIsClear, Updating, ForegroundIsCurrent, Alive
<1>6. ReapedIsGone'
  BY <1>0, <1>1, <1>2, <1>4 DEF Timely, ReapedIsGone, HandlerHas
<1>7. StopsAreReal'
  <2>1. \A i \in Slots : jobs[i].state = "ST" => jobs[i].pid \in Pids
    BY <1>0 DEF Timely, FreeIsClear
  <2> QED BY <1>0, <1>1, <1>2, <1>4, <2>1 DEF Timely, StopsAreReal, HandlerHas
<1>8. StopsAreKnown'
  <2>1. pc' \notin Adding
    BY <1>1, <1>3 DEF Adding
  <2> QED BY <1>0, <1>1, <1>2, <1>3, <1>4, <2>1 DEF Timely, StopsAreKnown, HandlerHas
<1> QED BY <1>5, <1>6, <1>7, <1>8 DEF Timely

\* deletejob clears every slot of the process, as it has one only.
LEMMA Deleted ==
  ASSUME IInv, HandlerDeletejob
  PROVE  \A i \in Slots : IF jobs[i].pid = handler["CHLD"].pid /\ jobs[i].pid # NoPid
                          THEN jobs'[i] = ClearedJob ELSE jobs'[i] = jobs[i]
<1> DEFINE p == handler["CHLD"].pid
<1> SUFFICES ASSUME NEW i \in Slots, jobs[i].pid = p, p # NoPid
             PROVE  jobs'[i] = ClearedJob
  BY PidTypes, SlotPidsDeleted
<1>1. jobs \in [Slots -> Job]
  BY PidTypes DEF TypeOK
<1>2. SlotOfPid(jobs, p) \in Slots \cup {0} /\ SlotOfPid(jobs, p) # 0
  BY <1>1, SlotOfPidFound
<1>3. SlotOfPid(jobs, p) = i
  BY <1>1, <1>2, SlotOfPidFound DEF IInv, OneSlotPerProcess
<1> QED BY <1>1, <1>2, <1>3 DEF HandlerDeletejob, WithoutJob

\* The handler's deletejob makes the reaped process leave the list.
LEMMA DeleteTimely ==
  ASSUME IInv, Timely, HandlerDeletejob
  PROVE  Timely'
<1> DEFINE p == handler["CHLD"].pid
<1>0. /\ kstate \in [Pids -> KStates] /\ handler \in [Signals -> Activation]
      /\ \A i \in Slots : jobs[i].pid \in Pids \cup {NoPid}
      /\ NoPid \notin Pids /\ "CHLD" \in Signals /\ report \in SUBSET Pids
  BY PidTypes DEF TypeOK, Signals
<1>1. /\ UNCHANGED <<cur, pc, masked, kstate, report>> /\ handler["CHLD"].at = "delete" /\ Alive
      /\ handler'["CHLD"].at = "waitpid" /\ p \in Pids
  BY <1>0, GotoType DEF HandlerDeletejob, In, kernelVars, HandlerLabels, IInv, Frames
<1>2. \A q : /\ ~HandlerHas("stop", q) /\ (HandlerHas("delete", q) <=> q = p)
            /\ ~HandlerHas("stop", q)' /\ ~HandlerHas("delete", q)'
  BY <1>1 DEF HandlerHas
<1>3. pc \notin {"fork", "unblock", "addpid", "addstate", "addjid", "setstate", "cont"}
  BY <1>1, HandlerRuns DEF Active
<1>4. \A i \in Slots : IF jobs[i].pid = p THEN jobs'[i] = ClearedJob ELSE jobs'[i] = jobs[i]
  BY <1>0, <1>1, Deleted
<1> HIDE DEF p
<1>5. Undisturbed' /\ FreeIsClear' /\ Updating' /\ ForegroundIsCurrent'
  BY <1>1, <1>3, <1>4
  DEF Timely, Undisturbed, Unprotected, FreeIsClear, Updating, ForegroundIsCurrent, Alive,
      ClearedJob
<1>6. ReapedIsGone'
  <2>1. pc \notin Adding
    BY <1>3 DEF Adding
  <2> QED BY <1>0, <1>1, <1>2, <1>4, <2>1 DEF Timely, ReapedIsGone, ClearedJob
<1>7. StopsAreReal'
  BY <1>1, <1>2, <1>4 DEF Timely, StopsAreReal, ClearedJob
<1>8. StopsAreKnown'
  <2>1. pc' \notin Adding
    BY <1>1, <1>3 DEF Adding
  <2> QED BY <1>1, <1>2, <1>3, <1>4, <2>1 DEF Timely, StopsAreKnown, ClearedJob, Alive
<1> QED BY <1>5, <1>6, <1>7, <1>8 DEF Timely

\* The handler lists a stopped process as ST.
LEMMA StopTimely ==
  ASSUME IInv, Timely, HandlerStop
  PROVE  Timely'
<1> DEFINE p == handler["CHLD"].pid
           k == SlotOfPid(jobs, p)
<1>0. /\ kstate \in [Pids -> KStates] /\ handler \in [Signals -> Activation]
      /\ \A i \in Slots : jobs[i].pid \in Pids \cup {NoPid}
      /\ NoPid \notin Pids /\ "CHLD" \in Signals /\ jobs \in [Slots -> Job]
  BY PidTypes DEF TypeOK, Signals
<1>1. /\ UNCHANGED <<cur, masked, kstate, report>> /\ handler["CHLD"].at = "stop" /\ Alive
      /\ handler'["CHLD"].at = "waitpid" /\ p \in Pids
  BY <1>0, GotoType DEF HandlerStop, In, kernelVars, HandlerLabels, IInv, Frames
<1>2. \A q : /\ ~HandlerHas("delete", q) /\ (HandlerHas("stop", q) <=> q = p)
            /\ ~HandlerHas("stop", q)' /\ ~HandlerHas("delete", q)'
  BY <1>1 DEF HandlerHas
<1>3. pc \notin {"fork", "unblock", "addpid", "addstate", "addjid", "setstate", "cont"}
  BY <1>1, HandlerRuns DEF Active
<1>4. kstate[p] = "stopped"
  BY <1>1, <1>2 DEF Timely, StopsAreReal
<1>5. CASE k = 0
  <2>1. jobs' = jobs /\ pc' = "crashed"
    BY <1>5 DEF HandlerStop
  <2>2. ~Alive' /\ pc' \notin Adding
    BY <2>1 DEF Alive, Adding
  <2>3. Undisturbed' /\ FreeIsClear' /\ Updating' /\ ForegroundIsCurrent'
    BY <1>1, <2>1, <2>2
    DEF Timely, Undisturbed, Unprotected, FreeIsClear, Updating, ForegroundIsCurrent
  <2>4. ReapedIsGone' /\ StopsAreReal' /\ StopsAreKnown'
    BY <1>1, <1>2, <2>1, <2>2, <1>4 DEF Timely, ReapedIsGone, StopsAreReal, StopsAreKnown
  <2> QED BY <2>3, <2>4 DEF Timely
<1>6. CASE k # 0
  <2>1. k \in Slots /\ jobs[k].pid = p /\ pc' = pc
    BY <1>0, <1>6, SlotOfPidFound DEF HandlerStop
  <2>2. \A i \in Slots : /\ jobs'[i].pid = jobs[i].pid
                         /\ i # k => jobs'[i] = jobs[i]
                         /\ i = k => jobs'[i].state = "ST"
    <3> DEFINE st == "ST"
    <3>1. jobs' = [jobs EXCEPT ![k].state = st] /\ st \in JobStates
      BY <1>6 DEF HandlerStop, JobStates
    <3> HIDE DEF st, k
    <3>2. \A i \in Slots : /\ jobs'[i].pid = jobs[i].pid
                           /\ i # k => jobs'[i] = jobs[i]
                           /\ i = k => jobs'[i].state = st
      BY <1>0, <2>1, <3>1, SetStateType
    <3> QED BY <3>2 DEF st
  <2> HIDE DEF p, k
  <2>3. \A i \in Slots : jobs[i].pid = p => i = k
    BY <1>0, <1>1, <2>1 DEF IInv, OneSlotPerProcess
  <2>4. Undisturbed' /\ FreeIsClear' /\ Updating' /\ ForegroundIsCurrent'
    BY <1>0, <1>1, <1>3, <2>1, <2>2
    DEF Timely, Undisturbed, Unprotected, FreeIsClear, Updating, ForegroundIsCurrent, Alive
  <2>5. ReapedIsGone' /\ StopsAreReal'
    BY <1>1, <1>2, <1>4, <2>1, <2>2 DEF Timely, ReapedIsGone, StopsAreReal
  <2>6. StopsAreKnown'
    <3>1. pc' \notin Adding
      BY <1>3, <2>1 DEF Adding
    <3> QED BY <1>1, <1>2, <1>3, <2>1, <2>2, <2>3, <3>1 DEF Timely, StopsAreKnown, Alive
  <2> QED BY <2>4, <2>5, <2>6 DEF Timely
<1> QED BY <1>5, <1>6

\* Every step with timely signals preserves the agreement.
LEMMA NextTimely ==
  ASSUME IInv, Timely, [TimelyNext]_vars
  PROVE  Timely'
<1>1. CASE UNCHANGED vars
  BY <1>1 DEF vars, Timely, Undisturbed, Unprotected, Active, FreeIsClear, Updating,
     ForegroundIsCurrent, Alive, ReapedIsGone, StopsAreReal, StopsAreKnown, HandlerHas, Adding
<1>2. CASE TimelyNext
  <2>1. CASE User
    BY <1>2, <2>1, SparedTimely, EvalTimely, LookupTimely DEF User
  <2>2. CASE MainStep
    BY <1>2, <2>2, SparedTimely, EvalTimely, AddPidTimely, SetStateTimely, AddJidTimely,
       ContTimely, WaitfgTimely DEF MainStep
  <2>3. CASE ChldHandlerStep
    BY <1>2, <2>3, SparedTimely, WaitpidTimely, DeleteTimely, StopTimely DEF ChldHandlerStep
  <2>4. CASE (\E s \in KeySignals : KeyHandlerStep(s)) \/ (\E s \in Signals : Deliver(s))
    BY <1>2, <2>4, SparedTimely
  <2>5. CASE \E p \in Pids : ChildStep(p)
    BY <2>5, ChildTimely
  <2> QED BY <1>2, <2>1, <2>2, <2>3, <2>4, <2>5 DEF TimelyNext, Next
<1> QED BY <1>1, <1>2

\* When SIGCHLD comes at no time between a lookup or a fork and the update that
\* belongs to it, the job list, the handlers and the kernel agree.
THEOREM TimelyInvariance == TimelySpec => [](IInv /\ Timely)
<1>1. Init => IInv /\ Timely
  BY InitIInv, InitTimely
<1>2. IInv /\ Timely /\ [TimelyNext]_vars => (IInv /\ Timely)'
  BY NextIInv, NextTimely DEF TimelyNext
<1> QED BY <1>1, <1>2, PTL DEF TimelySpec

\* Then the list holds no job of a process that has been reaped.
THEOREM NoGhosts == TimelySpec => []NoGhostJob
<1>1. IInv /\ Timely => NoGhostJob
  BY PidTypes DEF Timely, ReapedIsGone, NoGhostJob, Ghost, HandlerHas
<1> QED BY <1>1, TimelyInvariance, PTL

\* Then there is one job in the foreground at most (tsh.c:37).
THEOREM ForegroundIsOne == TimelySpec => []OneForeground
<1>1. Timely => OneForeground
  <2> SUFFICES ASSUME Timely PROVE Cardinality(Foreground) <= 1
    BY DEF OneForeground
  <2>1. Foreground \subseteq {cur.slot}
    BY DEF Timely, ForegroundIsCurrent, Foreground
  <2>2. IsFiniteSet({cur.slot}) /\ Cardinality({cur.slot}) = 1
    BY FS_Singleton
  <2>3. Cardinality(Foreground) <= Cardinality({cur.slot})
    BY <2>1, <2>2, FS_Subset
  <2> QED BY <2>2, <2>3
<1> QED BY <1>1, TimelyInvariance, PTL

\* Then, at rest, a job listed as stopped is stopped (tsh.c:35).
THEOREM ListedStopsAreReal == TimelySpec => []StoppedJobsAreStopped
<1>1. Timely => StoppedJobsAreStopped
  BY DEF Timely, StopsAreReal, StoppedJobsAreStopped
<1> QED BY <1>1, TimelyInvariance, PTL

\* Then, at rest, a stopped process is listed as stopped.
THEOREM StopsGetListed == TimelySpec => []StopsAreListed
<1>1. IInv /\ Timely => StopsAreListed
  BY MainAlone DEF Timely, StopsAreKnown, StopsAreListed, Quiet, Main, Alive
<1> QED BY <1>1, TimelyInvariance, PTL

----------------------------------------------------------------------------
\* A process is live from its fork on, until it terminates for good.
LEMMA LiveBefore ==
  ASSUME TypeOK, [Next]_vars, NEW p \in Pids, Live(p)'
  PROVE  Live(p) \/ EvalFork(p)
<1> USE DEF TypeOK, Live
<1>1. CASE User
  BY <1>1 DEF User, Quit, EvalBlock, BgfgLookup, Keyboard, kernelVars
<1>2. CASE MainStep
  <2>1. CASE BgfgCont
    BY <2>1 DEF BgfgCont, Continue, kernelVars
  <2>2. CASE \E q \in Pids : EvalFork(q)
    BY <2>2 DEF EvalFork
  <2>3. CASE \/ EvalForkFails \/ EvalUnblock \/ AddPid \/ AddFull \/ AddState
             \/ AddJid \/ BgfgSetState \/ WaitfgDone
    BY <2>3 DEF EvalForkFails, EvalUnblock, AddPid, AddFull, AddState, AddJid,
                BgfgSetState, WaitfgDone, kernelVars
  <2> QED BY <1>2, <2>1, <2>2, <2>3 DEF MainStep
<1>3. CASE \E q \in Pids : ChildStep(q)
  BY <1>3 DEF ChildStep, ChildSetpgid, ChildExec, ChildExit, ChildKilled,
     ChildStop, ChildSwallow
<1>4. CASE ChldHandlerStep
  BY <1>4 DEF ChldHandlerStep, WaitpidReaped, WaitpidStopped, WaitpidNone,
     HandlerDeletejob, HandlerStop, kernelVars
<1>5. CASE \E s \in KeySignals : KeyHandlerStep(s)
  BY <1>5 DEF KeyHandlerStep, HandlerFgpid, HandlerKill, kernelVars
<1>6. CASE \E s \in Signals : Deliver(s)
  BY <1>6 DEF Deliver, kernelVars
<1>7. CASE UNCHANGED vars
  BY <1>7 DEF vars
<1> QED BY <1>1, <1>2, <1>3, <1>4, <1>5, <1>6, <1>7 DEF Next

\* From its fork on, main goes to addjob unless the shell dies.
LEMMA AddingKept ==
  ASSUME [Next]_vars, pc \in Adding
  PROVE  \/ pc' \in Adding /\ cur' = cur
         \/ AddPid \/ AddFull \/ ~Alive'
<1> USE DEF Adding, Alive
<1>1. CASE User
  BY <1>1 DEF User, Quit, EvalBlock, BgfgLookup, Keyboard, Step, Main, shellVars
<1>2. CASE MainStep
  BY <1>2 DEF MainStep, EvalFork, EvalForkFails, EvalUnblock, AddState, AddJid, BgfgSetState,
              BgfgCont, WaitfgDone, Step, Main
<1>3. CASE \E p \in Pids : ChildStep(p)
  BY <1>3 DEF ChildStep, ChildSetpgid, ChildExec, ChildExit, ChildKilled,
     ChildStop, ChildSwallow, shellVars
<1>4. CASE ChldHandlerStep
  BY <1>4 DEF ChldHandlerStep, WaitpidReaped, WaitpidStopped, WaitpidNone,
     HandlerDeletejob, HandlerStop, shellVars
<1>5. CASE \E s \in KeySignals : KeyHandlerStep(s)
  BY <1>5 DEF KeyHandlerStep, HandlerFgpid, HandlerKill, shellVars
<1>6. CASE \E s \in Signals : Deliver(s)
  BY <1>6 DEF Deliver, shellVars
<1>7. CASE UNCHANGED vars
  BY <1>7 DEF vars
<1> QED BY <1>1, <1>2, <1>3, <1>4, <1>5, <1>6, <1>7 DEF Next

\* addjob gives up only if every slot is taken.
LEMMA FullTable ==
  ASSUME TypeOK, AddFull
  PROVE  pc = "addpid" /\ \A i \in Slots : jobs[i].pid # NoPid
<1> DEFINE S == {i \in Slots : jobs[i].pid = NoPid}
<1>1. 0 \notin Slots /\ S \in SUBSET Slots
  BY DEF Slots
<1>2. FirstSlot(S) = 0
  BY DEF AddFull, FreeSlot
<1>3. S = {}
  BY <1>1, <1>2, FirstSlotLeast
<1> QED BY <1>3 DEF AddFull, Step, Main

\* A new child is on its way to addjob, a listed one stays on the list until it
\* has been reaped, and addjob lists its child unless the table is full.
LEMMA HiddenByFullTable ==
  ASSUME IInv, [Next]_vars, NEW p \in Pids, Alive', Live(p)', ~Listed(p)'
  PROVE  \/ Live(p) /\ ~Listed(p)
         \/ pc = "addpid" /\ p = cur.pid /\ \A i \in Slots : jobs[i].pid # NoPid
<1>0. p # NoPid /\ jobs' \in [Slots -> Job] /\ jobs \in [Slots -> Job]
  BY PidTypes, NextIInv DEF IInv, TypeOK
<1>1. \A i \in Slots : jobs'[i].pid # p
  BY <1>0, SlotOfPidFound DEF Listed
<1>2. CASE EvalFork(p)
  BY <1>2, PidTypes DEF EvalFork, Step, Adding, TypeOK, IInv, Listed
<1>3. CASE Live(p) /\ \E i \in Slots : jobs[i].pid = p
  <2>1. PICK i \in Slots : jobs[i].pid = p
    BY <1>3
  <2>2. jobs'[i].pid # jobs[i].pid /\ jobs[i].pid # NoPid
    BY <1>0, <1>1, <2>1
  <2>3. HandlerDeletejob
    BY <2>2, SlotPids, SlotPidsAdded DEF IInv
  <2>4. handler["CHLD"].pid = p
    BY <1>0, <2>1, <2>2, <2>3, SlotPidsDeleted DEF IInv
  <2>5. kstate[p] = "reaped"
    BY <2>3, <2>4 DEF HandlerDeletejob, In, IInv, Frames
  <2> QED BY <1>3, <2>5 DEF Live
<1>4. CASE pc \in Adding /\ p = cur.pid /\ \A i \in Slots : jobs[i].pid # p
  <2>1. ~(pc' \in Adding /\ cur' = cur)
    BY <1>4 DEF Listed
  <2>2. ~AddPid
    BY <1>1, <1>4, SlotPidsAdded DEF IInv
  <2>3. AddFull
    BY <1>4, <2>1, <2>2, AddingKept
  <2> QED BY <1>4, <2>3, FullTable DEF IInv
<1>5. SlotOfPid(jobs, p) # 0 => \E i \in Slots : jobs[i].pid = p
  BY <1>0, SlotOfPidFound
<1>6. CASE Live(p)
  BY <1>3, <1>4, <1>5, <1>6 DEF Listed
<1>7. Live(p) \/ EvalFork(p)
  BY LiveBefore DEF IInv
<1> QED BY <1>2, <1>6, <1>7

\* However the handlers interleave with addjob and deletejob, for every size of
\* the table and any number of processes: a live child is hidden from the shell
\* by a full table only.
THEOREM LiveChildrenListed == Spec => LiveChildListed
<1> DEFINE A == \A p \in Pids : Alive' /\ Live(p)' /\ ~Listed(p)'
                  => \/ Live(p) /\ ~Listed(p)
                     \/ pc = "addpid" /\ p = cur.pid /\ \A i \in Slots : jobs[i].pid # NoPid
<1>1. IInv /\ [Next]_vars => [A]_vars
  BY HiddenByFullTable
<1> QED BY <1>1, Invariance, PTL DEF Spec, LiveChildListed

=============================================================================

-------------------------------- MODULE Tsh --------------------------------
(***************************************************************************)
(* The tiny shell lab4/tsh.c: its read/eval loop, the built-in commands bg  *)
(* and fg, its three signal handlers, and the children and signals of the   *)
(* kernel around it.                                                       *)
(*                                                                         *)
(* The shell is one process.  ctx names the code that runs now: "main" or   *)
(* the signal whose handler runs; a handler runs on top of what it          *)
(* interrupted (handler[s].under) until it returns.  A step is at most one  *)
(* access to the job list or to the kernel, so that a handler can start     *)
(* between any two of them unless the code masks its signal.                *)
(***************************************************************************)
EXTENDS JobTable

CONSTANT Keys  \* what the user types: "INT" for ctrl-c, "TSTP" for ctrl-z

KeySignals == {"INT", "TSTP"}
Signals == KeySignals \cup {"CHLD"}

ASSUME KeysAssumption == Keys \subseteq KeySignals

VARIABLES
  jobs, nextjid,  \* the job list and the next job id
  pc,             \* where main is in its read/eval loop
  cur,            \* main's locals: the command's pid, slot and kind
  masked,         \* eval has blocked SIGCHLD
  ctx, handler,   \* the code that runs now; the activations of the handlers
  pending,        \* signals sent to the shell and not delivered yet
  kstate,         \* the kernel's view of each process
  sigs,           \* signals sent to a process that it has not acted on yet
  report          \* stopped children whose stop waitpid has not reported

vars == <<jobs, nextjid, pc, cur, masked, ctx, handler, pending, kstate, sigs,
          report>>
shellVars == <<jobs, nextjid, pc, cur, masked>>
kernelVars == <<kstate, sigs, report>>

Idle == [at |-> "idle", pid |-> NoPid, under |-> "main"]
NoCommand == [pid |-> NoPid, slot |-> 0, bg |-> FALSE]

Alive == pc \notin {"exited", "failed", "crashed"}
Main(label) == ctx = "main" /\ pc = label
In(s, label) == ctx = s /\ handler[s].at = label /\ Alive

----------------------------------------------------------------------------
(* The kernel's processes.                                                 *)

Zombie == {p \in Pids : kstate[p] \in {"exited", "killed"}}

\* What waitpid(-1, WNOHANG | WUNTRACED) can return.
Waitable == Zombie \cup report

\* The processes a signal to the group -p reaches: p, once its setpgid is
\* done and until it is reaped.
InGroup(p) == p \in Pids /\ kstate[p] \notin {"none", "forked", "reaped"}

Init ==
  /\ jobs = InitJobs /\ nextjid = 1
  /\ pc = "read" /\ cur = NoCommand /\ masked = FALSE
  /\ ctx = "main" /\ handler = [s \in Signals |-> Idle] /\ pending = {}
  /\ kstate = [p \in Pids |-> "none"]
  /\ sigs = [p \in Pids |-> {}] /\ report = {}

\* The child's setpgid(0, 0), after which it leads its own process group.
ChildSetpgid(p) ==
  /\ Alive /\ kstate[p] = "forked"
  /\ kstate' = [kstate EXCEPT ![p] = "grouped"]
  /\ UNCHANGED <<shellVars, ctx, handler, pending, sigs, report>>

\* execve loads the program and resets the handlers.
ChildExec(p) ==
  /\ Alive /\ kstate[p] = "grouped"
  /\ kstate' = [kstate EXCEPT ![p] = "running"]
  /\ UNCHANGED <<shellVars, ctx, handler, pending, sigs, report>>

\* The program exits; before execve, "Command not found" and exit(0).
ChildExit(p) ==
  /\ Alive /\ kstate[p] \in {"grouped", "running"}
  /\ kstate' = [kstate EXCEPT ![p] = "exited"]
  /\ sigs' = [sigs EXCEPT ![p] = {}]
  /\ pending' = pending \cup {"CHLD"}
  /\ UNCHANGED <<shellVars, ctx, handler, report>>

\* Until execve the child still has the shell's handlers, and its copy of the
\* job list has no foreground job: the handler returns and the signal is lost.
ChildSwallow(p, s) ==
  /\ Alive /\ kstate[p] = "grouped" /\ s \in sigs[p]
  /\ sigs' = [sigs EXCEPT ![p] = @ \ {s}]
  /\ UNCHANGED <<shellVars, ctx, handler, pending, kstate, report>>

\* A SIGINT, sent by the shell or by the program itself (myint.c), kills.
ChildKilled(p) ==
  /\ Alive /\ kstate[p] = "running"
  /\ kstate' = [kstate EXCEPT ![p] = "killed"]
  /\ sigs' = [sigs EXCEPT ![p] = {}]
  /\ pending' = pending \cup {"CHLD"}
  /\ UNCHANGED <<shellVars, ctx, handler, report>>

\* A SIGTSTP, sent by the shell or by the program itself (mystop.c), stops.
ChildStop(p) ==
  /\ Alive /\ kstate[p] = "running"
  /\ kstate' = [kstate EXCEPT ![p] = "stopped"]
  /\ sigs' = [sigs EXCEPT ![p] = @ \ {"TSTP"}]
  /\ report' = report \cup {p}
  /\ pending' = pending \cup {"CHLD"}
  /\ UNCHANGED <<shellVars, ctx, handler>>

\* ctrl-c or ctrl-z reaches the shell (sdriver.pl's INT and TSTP).
Keyboard(s) ==
  /\ Alive
  /\ pending' = pending \cup {s}
  /\ UNCHANGED <<shellVars, ctx, handler, kernelVars>>

----------------------------------------------------------------------------
(* Signal handlers.                                                        *)

\* The kernel interrupts whatever runs to start the handler of a pending
\* signal.  A handler blocks its own signal only (Signal: empty sa_mask), and
\* eval's mask stays in force while a handler runs on top of it.
Deliver(s) ==
  /\ Alive /\ s \in pending
  /\ handler[s].at = "idle"
  /\ s = "CHLD" => ~masked
  /\ pending' = pending \ {s}
  /\ handler' = [handler EXCEPT ![s] =
                   [at |-> IF s = "CHLD" THEN "waitpid" ELSE "fgpid",
                    pid |-> NoPid, under |-> ctx]]
  /\ ctx' = s
  /\ UNCHANGED <<shellVars, kernelVars>>

\* Handler s returns to what it interrupted.
Return(s) ==
  /\ ctx' = handler[s].under
  /\ handler' = [handler EXCEPT ![s] = Idle]

Goto(s, label, p) ==
  /\ handler' = [handler EXCEPT ![s] =
                   [at |-> label, pid |-> p, under |-> @.under]]
  /\ UNCHANGED ctx

\* waitpid returns a child that terminated: it is gone from the kernel now.
WaitpidReaped(p) ==
  /\ In("CHLD", "waitpid") /\ p \in Zombie
  /\ kstate' = [kstate EXCEPT ![p] = "reaped"]
  /\ Goto("CHLD", "delete", p)
  /\ UNCHANGED <<shellVars, pending, sigs, report>>

\* waitpid returns a child that stopped.
WaitpidStopped(p) ==
  /\ In("CHLD", "waitpid") /\ p \in report
  /\ report' = report \ {p}
  /\ Goto("CHLD", "stop", p)
  /\ UNCHANGED <<shellVars, pending, kstate, sigs>>

\* waitpid returns 0 or -1: the handler's loop ends.
WaitpidNone ==
  /\ In("CHLD", "waitpid") /\ Waitable = {}
  /\ Return("CHLD")
  /\ UNCHANGED <<shellVars, pending, kernelVars>>

\* Faulty variant: one child per SIGCHLD.
HandlerDeletejob_ReapsOne ==
  /\ In("CHLD", "delete")
  /\ jobs' = WithoutJob(jobs, handler["CHLD"].pid)
  /\ nextjid' = JidWithoutJob(jobs, nextjid, handler["CHLD"].pid)
  /\ Return("CHLD")
  /\ UNCHANGED <<pc, cur, masked, pending, kernelVars>>

\* deletejob with every signal blocked.
HandlerDeletejob ==
  /\ In("CHLD", "delete")
  /\ jobs' = WithoutJob(jobs, handler["CHLD"].pid)
  /\ nextjid' = JidWithoutJob(jobs, nextjid, handler["CHLD"].pid)
  /\ Goto("CHLD", "waitpid", NoPid)
  /\ UNCHANGED <<pc, cur, masked, pending, kernelVars>>

\* Faulty variants: a stopped job is deleted; only a foreground job stops.
HandlerStop_Deletes ==
  /\ In("CHLD", "stop")
  /\ jobs' = WithoutJob(jobs, handler["CHLD"].pid)
  /\ Goto("CHLD", "waitpid", NoPid)
  /\ UNCHANGED <<pc, nextjid, cur, masked, pending, kernelVars>>

HandlerStop_ForegroundOnly ==
  /\ In("CHLD", "stop")
  /\ jobs' = [i \in Slots |->
       IF jobs[i].pid = handler["CHLD"].pid /\ jobs[i].state = "FG"
       THEN [jobs[i] EXCEPT !.state = "ST"] ELSE jobs[i]]
  /\ Goto("CHLD", "waitpid", NoPid)
  /\ UNCHANGED <<pc, nextjid, cur, masked, pending, kernelVars>>

\* getjobpid(jobs, pid)->state = ST; the pointer is NULL for an unlisted job.
HandlerStop ==
  /\ In("CHLD", "stop")
  /\ LET i == SlotOfPid(jobs, handler["CHLD"].pid)
     IN  IF i = 0
         THEN pc' = "crashed" /\ UNCHANGED jobs
         ELSE jobs' = [jobs EXCEPT ![i].state = "ST"] /\ UNCHANGED pc
  /\ Goto("CHLD", "waitpid", NoPid)
  /\ UNCHANGED <<nextjid, cur, masked, pending, kernelVars>>

\* sigint_handler and sigtstp_handler find the foreground process ...
HandlerFgpid(s) ==
  /\ In(s, "fgpid")
  /\ IF Fgpid(jobs) = NoPid THEN Return(s) ELSE Goto(s, "kill", Fgpid(jobs))
  /\ UNCHANGED <<shellVars, pending, kernelVars>>

\* ... and send its group the signal; kill fails (ESRCH) without a group.
HandlerKill(s) ==
  /\ In(s, "kill")
  /\ LET p == handler[s].pid
     IN  IF InGroup(p)
         THEN /\ sigs' = [sigs EXCEPT ![p] =
                            IF p \in Zombie THEN {} ELSE @ \cup {s}]
              /\ UNCHANGED pc
         ELSE pc' = "failed" /\ UNCHANGED sigs
  /\ Return(s)
  /\ UNCHANGED <<jobs, nextjid, cur, masked, pending, kstate, report>>

----------------------------------------------------------------------------
(* main, eval, do_bgfg and waitfg.                                         *)

\* Main's step from one label to the next, which leaves the handlers alone.
Step(from, to) ==
  /\ Main(from) /\ pc' = to
  /\ UNCHANGED <<ctx, handler>>

\* quit, end of file, or SIGQUIT from the driver at any time.
Quit ==
  /\ Alive /\ pc' = "exited"
  /\ UNCHANGED <<jobs, nextjid, cur, masked, ctx, handler, pending, kernelVars>>

\* eval of a program: block SIGCHLD around fork.
EvalBlock(bg) ==
  /\ Step("read", "fork")
  /\ masked' = TRUE
  /\ cur' = [NoCommand EXCEPT !.bg = bg]
  /\ UNCHANGED <<jobs, nextjid, pending, kernelVars>>

EvalFork(p) ==
  /\ Step("fork", "unblock")
  /\ kstate[p] = "none"
  /\ kstate' = [kstate EXCEPT ![p] = "forked"]
  /\ cur' = [cur EXCEPT !.pid = p]
  /\ UNCHANGED <<jobs, nextjid, masked, pending, sigs, report>>

\* fork fails: unix_error.
EvalForkFails ==
  /\ Step("fork", "failed")
  /\ UNCHANGED <<jobs, nextjid, cur, masked, pending, kernelVars>>

\* The mask is restored before addjob.
EvalUnblock ==
  /\ Step("unblock", "addpid")
  /\ masked' = FALSE
  /\ UNCHANGED <<jobs, nextjid, cur, pending, kernelVars>>

AfterAdd == IF cur.bg THEN "read" ELSE "waitfg"

\* Faulty variants: addjob goes on after the first free slot; it leaves the
\* state of the slot as it was.
AddPid_EveryFreeSlot ==
  /\ FreeSlot(jobs) # 0
  /\ Step("addpid", "addstate")
  /\ jobs' = [i \in Slots |-> IF jobs[i].pid = NoPid
                              THEN [jobs[i] EXCEPT !.pid = cur.pid] ELSE jobs[i]]
  /\ cur' = [cur EXCEPT !.slot = FreeSlot(jobs)]
  /\ UNCHANGED <<nextjid, masked, pending, kernelVars>>

\* addjob takes the first free slot and writes its fields one by one.
AddPid ==
  /\ FreeSlot(jobs) # 0
  /\ Step("addpid", "addstate")
  /\ jobs' = [jobs EXCEPT ![FreeSlot(jobs)].pid = cur.pid]
  /\ cur' = [cur EXCEPT !.slot = FreeSlot(jobs)]
  /\ UNCHANGED <<nextjid, masked, pending, kernelVars>>

\* "Tried to create too many jobs": the result of addjob is not looked at.
AddFull ==
  /\ FreeSlot(jobs) = 0
  /\ Step("addpid", AfterAdd)
  /\ UNCHANGED <<jobs, nextjid, cur, masked, pending, kernelVars>>

AddState ==
  /\ Step("addstate", "addjid")
  /\ jobs' = [jobs EXCEPT ![cur.slot].state = IF cur.bg THEN "BG" ELSE "FG"]
  /\ UNCHANGED <<nextjid, cur, masked, pending, kernelVars>>

AddJid ==
  /\ Step("addjid", AfterAdd)
  /\ jobs' = [jobs EXCEPT ![cur.slot].jid = nextjid]
  /\ nextjid' = JidAfter(nextjid)
  /\ UNCHANGED <<cur, masked, pending, kernelVars>>

\* bg and fg with the job id or the pid of slot i: getjobjid or getjobpid.
BgfgLookup(bg, i) ==
  /\ \/ SlotOfJid(jobs, jobs[i].jid) = i
     \/ SlotOfPid(jobs, jobs[i].pid) = i
  /\ Step("read", "setstate")
  /\ cur' = [pid |-> NoPid, slot |-> i, bg |-> bg]
  /\ UNCHANGED <<jobs, nextjid, masked, pending, kernelVars>>

\* Faulty variant: bg leaves the state of the job alone.
BgfgSetState_FgOnly ==
  /\ Step("setstate", "cont")
  /\ jobs' = IF cur.bg THEN jobs ELSE [jobs EXCEPT ![cur.slot].state = "FG"]
  /\ UNCHANGED <<nextjid, cur, masked, pending, kernelVars>>

BgfgSetState ==
  /\ Step("setstate", "cont")
  /\ jobs' = [jobs EXCEPT ![cur.slot].state = IF cur.bg THEN "BG" ELSE "FG"]
  /\ UNCHANGED <<nextjid, cur, masked, pending, kernelVars>>

\* The kernel's SIGCONT: a stopped process runs again, a stop that is pending
\* or not reported yet is dropped, and the parent is sent SIGCHLD.
Continue(p) ==
  /\ sigs' = [sigs EXCEPT ![p] = @ \ {"TSTP"}]
  /\ report' = report \ {p}
  /\ IF kstate[p] = "stopped"
     THEN /\ kstate' = [kstate EXCEPT ![p] = "running"]
          /\ pending' = pending \cup {"CHLD"}
     ELSE UNCHANGED <<kstate, pending>>

\* kill(-job->pid, SIGCONT).  With pid 0 it goes to the shell's own group and
\* changes nothing; without a group it fails.
BgfgCont ==
  LET p == jobs[cur.slot].pid
  IN  /\ Step("cont", IF p # NoPid /\ ~InGroup(p) THEN "failed" ELSE AfterAdd)
      /\ IF InGroup(p) THEN Continue(p) ELSE UNCHANGED <<kernelVars, pending>>
      /\ cur' = [cur EXCEPT !.pid = p]
      /\ UNCHANGED <<jobs, nextjid, masked>>

\* The test of waitfg's loop that ends it; otherwise it sleeps and retries.
WaitfgDone ==
  /\ Fgpid(jobs) = NoPid
  /\ Step("waitfg", "read")
  /\ UNCHANGED <<jobs, nextjid, cur, masked, pending, kernelVars>>

----------------------------------------------------------------------------
User ==
  \/ Quit
  \/ \E bg \in BOOLEAN : EvalBlock(bg)
  \/ \E bg \in BOOLEAN, i \in Slots : BgfgLookup(bg, i)
  \/ \E s \in Keys : Keyboard(s)

\* The shell's own steps, once the user has entered a command.
MainStep ==
  \/ (\E p \in Pids : EvalFork(p)) \/ EvalForkFails \/ EvalUnblock
  \/ AddPid \/ AddFull \/ AddState \/ AddJid
  \/ BgfgSetState \/ BgfgCont \/ WaitfgDone

ChldHandlerStep ==
  \/ (\E p \in Pids : WaitpidReaped(p) \/ WaitpidStopped(p))
  \/ WaitpidNone \/ HandlerDeletejob \/ HandlerStop

KeyHandlerStep(s) == HandlerFgpid(s) \/ HandlerKill(s)

ChildStep(p) ==
  \/ ChildSetpgid(p) \/ ChildExec(p) \/ ChildExit(p) \/ ChildKilled(p)
  \/ ChildStop(p) \/ \E s \in KeySignals : ChildSwallow(p, s)

Next ==
  \/ User \/ MainStep \/ ChldHandlerStep
  \/ \E s \in KeySignals : KeyHandlerStep(s)
  \/ \E s \in Signals : Deliver(s)
  \/ \E p \in Pids : ChildStep(p)

Spec == Init /\ [][Next]_vars

\* The processor runs the shell, pending signals are delivered, and a child
\* gets through its start; the user and the programs owe nothing.  Fairness is
\* strong where a handler can interrupt the step: nobody types ctrl-c faster
\* than the shell executes instructions.
Fairness ==
  /\ SF_vars(MainStep)
  /\ SF_vars(ChldHandlerStep)
  /\ \A s \in KeySignals : SF_vars(KeyHandlerStep(s))
  /\ \A s \in Signals : WF_vars(Deliver(s))
  /\ \A p \in Pids : WF_vars(ChildSetpgid(p)) /\ WF_vars(ChildExec(p))
  /\ \A p \in Pids : WF_vars(ChildKilled(p) /\ "INT" \in sigs[p])
  /\ \A p \in Pids : WF_vars(ChildStop(p) /\ "TSTP" \in sigs[p])

FairSpec == Spec /\ Fairness

\* The stretches of eval and do_bgfg between a lookup or a fork and the
\* update of the job list that belongs to it.
Unprotected ==
  pc \in {"unblock", "addpid", "addstate", "addjid", "setstate", "cont"}

\* The behaviours in which the kernel never happens to deliver SIGCHLD there.
TimelyNext == Next /\ ~(Unprotected /\ ctx' = "CHLD" /\ ctx # "CHLD")

TimelySpec == Init /\ [][TimelyNext]_vars
FairTimelySpec == TimelySpec /\ Fairness

----------------------------------------------------------------------------
(* Properties.                                                             *)

MainLabels == {"read", "fork", "unblock", "addpid", "addstate", "addjid",
               "setstate", "cont", "waitfg", "exited", "failed", "crashed"}
HandlerLabels == {"idle", "waitpid", "delete", "stop", "fgpid", "kill"}
KStates == {"none", "forked", "grouped", "running", "stopped", "exited",
            "killed", "reaped"}

Activation == [at : HandlerLabels, pid : Pids \cup {NoPid},
               under : Signals \cup {"main"}]

\* Every variable has its type.
TypeOK ==
  /\ jobs \in [Slots -> Job] /\ nextjid \in Nat \ {0}
  /\ pc \in MainLabels
  /\ cur \in [pid : Pids \cup {NoPid}, slot : Slots \cup {0}, bg : BOOLEAN]
  /\ masked \in BOOLEAN
  /\ ctx \in Signals \cup {"main"}
  /\ handler \in [Signals -> Activation]
  /\ pending \in SUBSET Signals
  /\ kstate \in [Pids -> KStates]
  /\ sigs \in [Pids -> SUBSET KeySignals]
  /\ report \in SUBSET Pids

\* SIGCHLDs coalesce, so one handler run may have to serve several children:
\* a child that waits to be reaped or reported always has a SIGCHLD pending
\* or a handler in its loop (sigchld_handler's while, tsh.c:408).
NoLostChild ==
  Waitable # {} => "CHLD" \in pending \/ handler["CHLD"].at # "idle"

\* A job leaves the list only when its process has been reaped: a stopped or
\* running child is never dropped, whatever interrupts addjob and do_bgfg.
OnlyReapedJobsLeave ==
  [][\A i \in Slots : jobs[i].pid # NoPid /\ jobs'[i].pid # jobs[i].pid
                        => kstate[jobs[i].pid] = "reaped"]_vars

\* ctrl-c and ctrl-z never reach a background job, also when handlers nest
\* between the handler's fgpid and its kill (tsh.c:443-481).
BackgroundSpared ==
  [][\A p \in Pids : sigs'[p] \subseteq sigs[p]
       \/ \A i \in Slots : jobs[i].pid = p => jobs[i].state # "BG"]_vars

\* A process has one slot of the list at most, so that deletejob and
\* getjobpid, which take the first match, find the only one.
OneSlotPerProcess ==
  \A i, j \in Slots : jobs[i].pid = jobs[j].pid /\ i # j => jobs[i].pid = NoPid

Live(p) == kstate[p] \notin {"none", "exited", "killed", "reaped"}
Adding == {"unblock", "addpid"}

Listed(p) == SlotOfPid(jobs, p) # 0 \/ (pc \in Adding /\ p = cur.pid)

\* A live child drops out of the shell's sight only when addjob finds all
\* MAXJOBS slots taken (tsh.c:541-543): any other is listed, or about to be,
\* until it is gone, whatever the handlers do meanwhile.
LiveChildListed ==
  [][\A p \in Pids : Alive' /\ Live(p)' /\ ~Listed(p)'
       => \/ Live(p) /\ ~Listed(p)
          \/ pc = "addpid" /\ p = cur.pid /\ \A i \in Slots : jobs[i].pid # NoPid]_vars

\* Every zombie is reaped in the end, and every stop is noticed: the handler
\* leaves no child behind and SIGCHLD never stays blocked (tsh.c:394-401).
EveryZombieReaped ==
  \A p \in Pids : p \in Zombie ~> (kstate[p] = "reaped" \/ ~Alive)

\* A job whose process is gone, other than the one the handler is deleting.
Ghost(i) ==
  /\ jobs[i].pid # NoPid /\ kstate[jobs[i].pid] = "reaped"
  /\ ~(handler["CHLD"].at = "delete" /\ handler["CHLD"].pid = jobs[i].pid)

\* The job list holds no job of a process that has been reaped.
NoGhostJob == Alive => \A i \in Slots : ~Ghost(i)

Foreground == {i \in Slots : jobs[i].pid # NoPid /\ jobs[i].state = "FG"}

\* "At most 1 job can be in the FG state." (tsh.c:37)
OneForeground == Cardinality(Foreground) <= 1

\* "waitfg - Block until process pid is no longer the foreground process"
\* (tsh.c:373): when that process has been reaped, the shell goes on.
WaitfgReturns ==
  \A p \in Pids : (pc = "waitfg" /\ cur.pid = p /\ kstate[p] = "reaped")
                     ~> pc # "waitfg"

\* Nothing is left to do until the user, or a program, acts.
Quiet == Main("read") /\ pending = {} /\ report = {}

\* "ST -> BG : bg command" (tsh.c:35): at rest a job is listed as stopped only
\* if its process is stopped.
StoppedJobsAreStopped ==
  Quiet => \A i \in Slots : jobs[i].state = "ST" /\ jobs[i].pid # NoPid
                               => kstate[jobs[i].pid] = "stopped"

\* At rest a stopped process is listed as stopped.
StopsAreListed ==
  Quiet => \A i \in Slots : jobs[i].pid # NoPid /\ kstate[jobs[i].pid] = "stopped"
                               => jobs[i].state = "ST"

=============================================================================

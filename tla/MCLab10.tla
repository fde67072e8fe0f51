------------------------------- MODULE MCLab10 -------------------------------
(***************************************************************************)
(* Instances of Proxy and of Grader for TLC, one after the other in one     *)
(* run: in one initial state proxy.c runs and no test does, and in each of  *)
(* the others a test of grade.py runs, with a proxy of the kinds that       *)
(* Grader describes, and proxy.c has not been started.  No step of one part *)
(* touches the variables of the other, so that the states of the run are    *)
(* those of the two parts, added up.                                        *)
(***************************************************************************)
EXTENDS Proxy

CONSTANTS Gradings, ROUNDS, LAGS, PART2_1_CUT, CONCURRENCY

VARIABLES test, kind, script, payload, verdict, alive, conns, client, server, accepting, told

Grade == INSTANCE Grader

grading ==
  <<test, kind, script, payload, verdict, alive, conns, client, server, accepting, told>>

ASSUME GraderAssumption ==
  /\ \A g \in Gradings : g[2] \in {"concurrent", "sequential", "silent", "exits", "crashes"}
  /\ {ROUNDS, LAGS, PART2_1_CUT, CONCURRENCY} \subseteq Nat \ {0}

Tests == {"part1_1", "part1_2", "part1_3", "part1_4", "part1_5", "part1_6", "part1_7",
          "part2_1", "part2_2"}

\* Every test with every proxy, but for the longest with one that may exit at
\* any time: its parts are there.
AllGradings ==
  Tests \X {"concurrent", "sequential", "silent", "exits", "crashes"} \ {<<"part1_7", "crashes">>}

NoTest ==
  /\ test = "none" /\ kind = "concurrent" /\ script = <<>> /\ payload = <<>>
  /\ verdict = "Pass" /\ alive = TRUE /\ conns = <<>>
  /\ client = <<>> /\ server = [k \in Grade!Pairs |-> 0] /\ accepting = {} /\ told = <<>>

LabInit ==
  \/ up = TRUE /\ Fresh /\ NoTest
  \/ up = FALSE /\ Fresh /\ Grade!Init

ProxyRuns == Next /\ UNCHANGED grading
TestRuns == Grade!Next /\ UNCHANGED vars

LabSpec ==
  /\ LabInit
  /\ [][ProxyRuns \/ TestRuns]_<<vars, grading>>
  /\ Fairness /\ WF_grading(Grade!Next)

FaultlessPasses == Grade!FaultlessPasses
FaultsFound == Grade!FaultsFound
TestEnds == Grade!TestEnds

\* A connection of a test that is over, and that no client or server, nor the
\* backlog of one, refers to any more, counts only when the log is collected.
Over(c) ==
  /\ conns[c].done /\ (conns[c].linked => conns[c].accepted)
  /\ \A k \in DOMAIN client : c \notin {client[k], server[k]}

\* What the rest of a run and the properties depend on: a thread of the proxy has
\* no more use for the request once it is sent, nor for a descriptor once it is
\* closed.
View ==
  <<up, accepted, file, pc, log_mutex, logged, resp,
    [c \in Conns |-> IF UsesClient(c) THEN connfd[c] ELSE NoFd],
    [c \in Conns |-> IF UsesServer(c) THEN serverfd[c] ELSE NoFd],
    [c \in Conns |-> IF pc[c] \in {"header", "resolve", "socket", "connect", "send", "body"}
                     THEN req[c] ELSE NoRequest],
    test, kind, script, payload, verdict, alive, client, server, accepting, told,
    [c \in DOMAIN conns |-> IF Over(c) THEN <<conns[c].req > 0, conns[c].logged>>
                            ELSE <<conns[c]>>]>>
=============================================================================

------------------------------- MODULE Grader -------------------------------
(***************************************************************************)
(* The grading script lab10/grade.py: general_test() runs one test, a       *)
(* script that tells client and server programs what to send and waits for  *)
(* what comes out of the proxy between them.                                *)
(*                                                                          *)
(* Pair k is a client and a server.  The programs take commands from a      *)
(* terminal, so the script runs ahead of them and of the proxy unless it    *)
(* waits for an answer; it times out only when nothing else is going to     *)
(* happen.  A request or response is a number of units, and a position in   *)
(* it is the number of units before it.                                     *)
(*                                                                          *)
(* The proxy is any of five: one that serves connections concurrently, as   *)
(* proxy.c does, one that serves them one after the other, one that writes  *)
(* no log, one that exits when a peer breaks off, as the wrappers of        *)
(* csapp.c do, and one that may exit at any time.                           *)
(***************************************************************************)
EXTENDS Integers, Sequences, SequencesExt

CONSTANTS Gradings,      \* pairs of a test and a kind of proxy
          ROUNDS,        \* of part 1.7
          LAGS,          \* pauses in a message of part 1.5
          PART2_1_CUT,   \* small requests during the download
          CONCURRENCY    \* payloads of part 2.2

VARIABLES test,       \* the test, named as in candidate_tests
          kind,       \* what sort of proxy is graded
          script,     \* the steps of the test still to do
          payload,    \* part 2.2: how far each payload is
          verdict,    \* what general_test() prints
          alive,      \* the proxy has not exited
          conns,      \* the connections clients have made, in their order
          client,     \* the connection of each client
          server,     \* the connection each server has accepted, or 0
          accepting,  \* the servers that wait in accept
          told        \* how much of a response each server was told to send

peers == <<client, server, accepting, told>>

vars == <<test, kind, script, payload, verdict, alive, conns, peers>>

\* Positions in HttpContent.raw.
head_line_end == 2
header_end == 3
header_end_end == 4
body_end == 5

big_end == header_end_end + 2 * PART2_1_CUT

Pairs == 1 .. IF CONCURRENCY > 2 THEN CONCURRENCY ELSE 2

\* The response of pair k, of which part 2.2 has short ones and long ones.
RespEnd(k) == CASE test = "part2_2" -> payload[k].resp_end
                [] test = "part2_1" /\ k = 1 -> big_end
                [] OTHER -> body_end

\* req, fwd: what the client has sent of its request and the proxy passed on;
\* resp, rel: what the server has sent of its response and the proxy passed on.
NewConnection(k) ==
  [pair |-> k, req |-> 0, req_end |-> 0, linked |-> FALSE, fwd |-> 0, resp |-> 0, rel |-> 0,
   clientClosed |-> FALSE, serverClosed |-> FALSE, accepted |-> FALSE, done |-> FALSE,
   logged |-> FALSE]

-----------------------------------------------------------------------------
(* The tests, each a sequence of steps.                                     *)

Step(do, k, upto, end) == <<[do |-> do, pair |-> k, upto |-> upto, end |-> end]>>

send_req(k, end) == Step("send_req", k, {end}, end)
send_req_crash(k, points) == Step("send_req", k, points, body_end)
expect_req(k) == Step("expect_req", k, {}, 0)
send_resp(k, end) == Step("send_resp", k, {end}, 0)
send_resp_crash(k, points) == Step("send_resp", k, points, 0)
expect_resp(k, end) == Step("expect_resp", k, {end}, 0)
expect_data(k) == Step("expect_data", k, {}, 0)
expect_log(k) == Step("expect_log", k, {}, 0)
collect_logs == Step("collect_logs", 1, {}, 0)
check_proxy_alive == Step("check_proxy_alive", 1, {}, 0)
sleep == Step("sleep", 1, {}, 0)

helper_close_server(k) == Step("close_server", k, {}, 0)
helper_accept(k) == Step("accept", k, {}, 0)
helper_close_client(k) == Step("close_client", k, {}, 0)
helper_reconnect(k) == Step("reconnect", k, {}, 0)
restart_proxy == Step("restart_proxy", 1, {}, 0)

\* Faulty variant: the server is not told to accept again.
restart_sc_Deaf(k) == helper_close_server(k) \o helper_close_client(k) \o helper_reconnect(k)

restart_sc(k) ==
  helper_close_server(k) \o helper_accept(k) \o helper_close_client(k) \o helper_reconnect(k)

restart_env ==
  restart_proxy \o helper_close_server(1) \o helper_close_client(1)
    \o helper_accept(1) \o helper_reconnect(1)

Restart(in_part1_7) == IF in_part1_7 THEN restart_sc(1) ELSE restart_env

\* One request and its response.
Exchange(end) ==
  send_req(1, end) \o expect_req(1) \o send_resp(1, body_end)
    \o expect_resp(1, body_end) \o expect_log(1)

do_part1_1 == Exchange(header_end_end)
do_part1_2 == Exchange(header_end_end)
do_part1_3 == Exchange(body_end)

do_part1_4(in_part1_7) ==
  LET InRequest(points) ==
        send_req_crash(1, points) \o check_proxy_alive \o Restart(in_part1_7)
      InResponse(points) ==
        send_req(1, body_end) \o expect_req(1) \o send_resp_crash(1, points)
          \o check_proxy_alive
  IN InRequest(1 .. head_line_end - 1) \o InRequest(head_line_end .. header_end - 1)
       \o InRequest(header_end .. body_end - 1)
       \o InResponse(1 .. head_line_end - 1) \o Restart(in_part1_7)
       \o InResponse(head_line_end .. header_end - 1) \o Restart(in_part1_7)
       \o InResponse(header_end .. body_end - 1)

\* Steps s, n times over.
Repeat(s, n) == FlattenSeq([i \in 1 .. n |-> s])

do_part1_5 ==
  Repeat(send_req_crash(1, 1 .. body_end - 1) \o sleep, LAGS)
    \o send_req(1, body_end) \o expect_req(1)
    \o Repeat(send_resp_crash(1, 1 .. body_end - 1) \o sleep, LAGS)
    \o send_resp(1, body_end) \o expect_resp(1, body_end) \o expect_log(1)

do_part1_6(in_part1_7) == Exchange(body_end) \o Restart(in_part1_7) \o Exchange(body_end)

do_part1_7 ==
  LET Round == do_part1_1 \o restart_sc(1) \o do_part1_2 \o restart_sc(1) \o do_part1_3
                 \o restart_sc(1) \o do_part1_4(TRUE) \o restart_sc(1) \o do_part1_5
                 \o restart_sc(1) \o do_part1_6(TRUE)
  IN Round \o Repeat(restart_sc(1) \o Round, ROUNDS - 1)

\* Faulty variant: the small requests wait for the download.
do_part2_1_InTurn ==
  send_req(1, header_end_end) \o expect_req(1) \o send_resp(1, big_end) \o expect_resp(1, big_end)
    \o Repeat(send_req(2, body_end) \o expect_req(2) \o send_resp(2, body_end)
                \o expect_resp(2, body_end) \o restart_sc(2), PART2_1_CUT)
    \o restart_sc(1) \o collect_logs

do_part2_1 ==
  LET Download(points) == Step("send_resp", 1, points, 0) \o expect_data(1)
      Small(points) ==
        send_req(2, body_end) \o expect_req(2) \o Download(points)
          \o send_resp(2, body_end) \o expect_resp(2, body_end) \o restart_sc(2)
      Cut == header_end_end + 1 .. big_end - 1
  IN send_req(1, header_end_end) \o expect_req(1)
       \o send_resp(1, header_end_end) \o expect_resp(1, header_end_end)
       \o Repeat(Download(Cut) \o Small(Cut), PART2_1_CUT - 1)
       \o Download(Cut) \o Small({big_end})
       \o restart_sc(1) \o collect_logs

Script == CASE test = "part1_1" -> do_part1_1
            [] test = "part1_2" -> do_part1_2
            [] test = "part1_3" -> do_part1_3
            [] test = "part1_4" -> do_part1_4(FALSE)
            [] test = "part1_5" -> do_part1_5
            [] test = "part1_6" -> do_part1_6(FALSE)
            [] test = "part1_7" -> do_part1_7
            [] test = "part2_1" -> do_part2_1
            [] test = "part2_2" -> <<>>

-----------------------------------------------------------------------------
(* build_env() and, for part 2, build_sc() and the clients of the payloads. *)

Connected == CASE test = "part2_1" -> <<NewConnection(1), NewConnection(2)>>
               [] test = "part2_2" -> [i \in 1 .. CONCURRENCY + 1 |-> NewConnection(i - 1)]
               [] OTHER -> <<NewConnection(1)>>

Payloads == [req : {0}, req_done : {FALSE}, resp : {0}, resp_done : {FALSE},
             resp_end : {header_end, body_end}]

Init ==
  /\ \E g \in Gradings : test = g[1] /\ kind = g[2]
  /\ payload \in IF test = "part2_2" THEN [1 .. CONCURRENCY -> Payloads] ELSE {<<>>}
  /\ script = Script
  /\ verdict = "none"
  /\ alive = TRUE
  /\ conns = Connected
  /\ client = [k \in Pairs |-> IF test = "part2_2" THEN k + 1 ELSE k]
  /\ server = [k \in Pairs |-> 0]
  /\ accepting = Pairs
  /\ told = [k \in Pairs |-> 0]

-----------------------------------------------------------------------------
(* The proxy and the servers.                                               *)

Ids == 1 .. Len(conns)

\* One that is not concurrent serves the oldest connection that is not done.
Serves(c) ==
  /\ alive /\ ~conns[c].done
  /\ kind = "sequential" => \A older \in 1 .. c - 1 : conns[older].done

CanConnect(c) == Serves(c) /\ ~conns[c].linked /\ conns[c].req >= header_end_end

CanForward(c) ==
  Serves(c) /\ conns[c].linked /\ ~conns[c].serverClosed /\ conns[c].fwd < conns[c].req

WholeRequest(c) == conns[c].req_end > 0 /\ conns[c].fwd = conns[c].req_end

CanRelay(c) ==
  Serves(c) /\ WholeRequest(c) /\ ~conns[c].clientClosed /\ conns[c].rel < conns[c].resp

CanFinish(c) ==
  Serves(c) /\ WholeRequest(c) /\ conns[c].rel = RespEnd(conns[c].pair)

\* The thread of c comes to the end of what its client has sent, or cannot
\* write to it.
ClientGone(c) ==
  /\ Serves(c) /\ conns[c].clientClosed
  /\ ~CanConnect(c) /\ ~CanForward(c)
  /\ ~WholeRequest(c) \/ conns[c].rel < conns[c].resp

\* And the same of its server.
ServerGone(c) ==
  /\ Serves(c) /\ conns[c].serverClosed
  /\ \/ conns[c].fwd < conns[c].req
     \/ WholeRequest(c) /\ conns[c].rel = conns[c].resp /\ conns[c].resp < RespEnd(conns[c].pair)

\* The backlog of server k.
Pending(k) == {c \in Ids : conns[c].pair = k /\ conns[c].linked /\ ~conns[c].accepted}

CanAccept(k) == k \in accepting /\ Pending(k) # {}

CanAnswer(k) == server[k] # 0 /\ conns[server[k]].resp < told[k]

\* Nothing is going to happen unless the script does something.
Quiet ==
  /\ \A c \in Ids : ~(CanConnect(c) \/ CanForward(c) \/ CanRelay(c) \/ CanFinish(c)
                        \/ ClientGone(c) \/ ServerGone(c))
  /\ \A k \in Pairs : ~(CanAccept(k) \/ CanAnswer(k))

UnchangedScript == UNCHANGED <<test, kind, script, payload, verdict>>

Connect(c) ==
  /\ CanConnect(c)
  /\ conns' = [conns EXCEPT ![c].linked = TRUE]
  /\ UnchangedScript /\ UNCHANGED <<alive, peers>>

Forward(c) ==
  /\ CanForward(c)
  /\ conns' = [conns EXCEPT ![c].fwd = conns[c].req]
  /\ UnchangedScript /\ UNCHANGED <<alive, peers>>

Relay(c) ==
  /\ CanRelay(c)
  /\ conns' = [conns EXCEPT ![c].rel = conns[c].resp]
  /\ UnchangedScript /\ UNCHANGED <<alive, peers>>

Finish(c) ==
  /\ CanFinish(c)
  /\ conns' = [conns EXCEPT ![c].done = TRUE, ![c].logged = kind # "silent"]
  /\ UnchangedScript /\ UNCHANGED <<alive, peers>>

\* When the process exits all its connections are closed.
AllClosed == [c \in Ids |-> [conns[c] EXCEPT !.done = TRUE]]

\* A client that closes without a request has not broken off anything.
BreakOff(c) ==
  /\ ClientGone(c) \/ ServerGone(c)
  /\ IF kind = "exits" /\ conns[c].req > 0
     THEN alive' = FALSE /\ conns' = AllClosed
     ELSE conns' = [conns EXCEPT ![c].done = TRUE] /\ UNCHANGED alive
  /\ UnchangedScript /\ UNCHANGED peers

Crash ==
  /\ alive /\ kind = "crashes" /\ verdict = "none"
  /\ alive' = FALSE /\ conns' = AllClosed
  /\ UnchangedScript /\ UNCHANGED peers

ServerAccepts(k) ==
  /\ CanAccept(k)
  /\ LET c == CHOOSE c \in Pending(k) : \A other \in Pending(k) : c <= other
     IN /\ server' = [server EXCEPT ![k] = c]
        /\ conns' = [conns EXCEPT ![c].accepted = TRUE]
  /\ accepting' = accepting \ {k}
  /\ UnchangedScript /\ UNCHANGED <<alive, client, told>>

ServerAnswers(k) ==
  /\ CanAnswer(k)
  /\ conns' = [conns EXCEPT ![server[k]].resp = told[k]]
  /\ UnchangedScript /\ UNCHANGED <<alive, peers>>

-----------------------------------------------------------------------------
(* The script.                                                              *)

Doing(do) == script # <<>> /\ Head(script).do = do

At(do) == verdict = "none" /\ Doing(do)

pair == Head(script).pair

\* The connections at the two ends of the pair.
ofClient == client[pair]
ofServer == server[pair]

Proceed == script' = Tail(script) /\ UNCHANGED <<test, kind, payload, verdict>>

End(v) == verdict' = v /\ UNCHANGED <<test, kind, script, payload>>

\* helper_send(); the data go on from where the last ones ended.
SendRequest ==
  /\ At("send_req")
  /\ \E p \in Head(script).upto :
       /\ p >= conns[ofClient].req
       /\ conns' = [conns EXCEPT ![ofClient].req = p, ![ofClient].req_end = Head(script).end]
  /\ Proceed /\ UNCHANGED <<alive, peers>>

SendResponse ==
  /\ At("send_resp")
  /\ \E p \in Head(script).upto :
       p >= told[pair] /\ told' = [told EXCEPT ![pair] = p]
  /\ Proceed /\ UNCHANGED <<alive, conns, client, server, accepting>>

\* What step of the script reads: did it come, or did the stream end?
Awaited == CASE Head(script).do = "expect_req" ->
                  ofServer # 0 /\ WholeRequest(ofServer)
             [] Head(script).do = "expect_resp" ->
                  \A end \in Head(script).upto : conns[ofClient].rel >= end
             [] Head(script).do = "expect_data" ->
                  conns[ofClient].rel >= told[pair]

StreamEnded == IF Head(script).do = "expect_req"
               THEN ofServer # 0 /\ conns[ofServer].done
               ELSE conns[ofClient].done

\* Faulty variant: waits for ever.
Expect_Patient ==
  /\ At("expect_req") \/ At("expect_resp") \/ At("expect_data")
  /\ \/ Awaited /\ Proceed
     \/ ~Awaited /\ StreamEnded /\ End("Fail")
  /\ UNCHANGED <<alive, conns, peers>>

\* A short read is a MismatchException, no answer at all a TIMEOUT.
Expect ==
  /\ At("expect_req") \/ At("expect_resp") \/ At("expect_data")
  /\ \/ Awaited /\ Proceed
     \/ ~Awaited /\ StreamEnded /\ End("Fail")
     \/ ~Awaited /\ ~StreamEnded /\ Quiet /\ End("Timeout")
  /\ UNCHANGED <<alive, conns, peers>>

\* MissingLogException if proxy.expect() times out.  At the end of the output
\* of a proxy that has exited it raises EOF, which nobody catches.
ExpectLog ==
  /\ At("expect_log")
  /\ \/ conns[ofClient].logged /\ Proceed
     \/ ~conns[ofClient].logged /\ ~alive /\ End("Abort")
     \/ ~conns[ofClient].logged /\ alive /\ Quiet /\ End("Fail")
  /\ UNCHANGED <<alive, conns, peers>>

\* proxy.readline() until it times out, and never if the proxy has exited: then
\* it returns an empty line at once, again and again.
CollectLogs ==
  /\ At("collect_logs") /\ alive /\ Quiet
  /\ \/ (\A c \in Ids : conns[c].req > 0 => conns[c].logged) /\ Proceed
     \/ (\E c \in Ids : conns[c].req > 0 /\ ~conns[c].logged) /\ End("Fail")
  /\ UNCHANGED <<alive, conns, peers>>

CheckProxyAlive ==
  /\ At("check_proxy_alive")
  /\ (alive /\ Proceed) \/ (~alive /\ End("Fail"))
  /\ UNCHANGED <<alive, conns, peers>>

Sleep ==
  /\ At("sleep") /\ Quiet
  /\ Proceed /\ UNCHANGED <<alive, conns, peers>>

\* The signal ends what the server waits for, and what it was told is forgotten.
CloseServer ==
  /\ At("close_server")
  /\ conns' = IF ofServer = 0 THEN conns ELSE [conns EXCEPT ![ofServer].serverClosed = TRUE]
  /\ server' = [server EXCEPT ![pair] = 0]
  /\ told' = [told EXCEPT ![pair] = 0]
  /\ accepting' = accepting \ {pair}
  /\ Proceed /\ UNCHANGED <<alive, client>>

AcceptAgain ==
  /\ At("accept")
  /\ accepting' = accepting \union {pair}
  /\ Proceed /\ UNCHANGED <<alive, conns, client, server, told>>

CloseClient ==
  /\ At("close_client")
  /\ conns' = [conns EXCEPT ![ofClient].clientClosed = TRUE]
  /\ Proceed /\ UNCHANGED <<alive, peers>>

Reconnect ==
  /\ At("reconnect")
  /\ \/ /\ alive
        /\ conns' = Append(conns, NewConnection(pair))
        /\ client' = [client EXCEPT ![pair] = Len(conns) + 1]
        /\ Proceed
     \/ ~alive /\ End("Fail") /\ UNCHANGED <<conns, client>>
  /\ UNCHANGED <<alive, server, accepting, told>>

RestartProxy ==
  /\ At("restart_proxy")
  /\ alive' = TRUE /\ conns' = AllClosed
  /\ Proceed /\ UNCHANGED peers

Passed ==
  /\ verdict = "none" /\ script = <<>> /\ test # "part2_2"
  /\ End("Pass") /\ UNCHANGED <<alive, conns, peers>>

\* Requests of part 2.2 have 4 units, responses 3 or 5.
STEP == 2 .. 4

\* ConcurrentPayload.do() for payload i and work_bytes: more of the request,
\* then more of the response, and each is awaited once it is all sent.
Do(i, work_bytes) ==
  LET p == payload[i]
      n == IF p.req_done \/ work_bytes <= header_end_end - p.req
           THEN work_bytes ELSE header_end_end - p.req
      req == IF p.req_done THEN p.req ELSE p.req + n
      m == IF p.resp_done \/ n <= p.resp_end - p.resp THEN n ELSE p.resp_end - p.resp
      resp == IF p.resp_done THEN p.resp ELSE p.resp + m
  IN /\ payload' = [payload EXCEPT ![i] = [p EXCEPT !.req = req, !.req_done = req = header_end_end,
                                                    !.resp = resp, !.resp_done = resp = p.resp_end]]
     /\ script' = (IF p.req_done THEN <<>> ELSE Step("send_req", i, {req}, header_end_end))
                    \o (IF ~p.req_done /\ req = header_end_end THEN expect_req(i) ELSE <<>>)
                    \o (IF p.resp_done THEN <<>> ELSE send_resp(i, resp))
                    \o (IF ~p.resp_done /\ resp = p.resp_end THEN expect_resp(i, resp) ELSE <<>>)
                    \o (IF \A j \in DOMAIN payload' : payload'[j].req_done /\ payload'[j].resp_done
                        THEN collect_logs ELSE <<>>)

Done(i) == payload[i].req_done /\ payload[i].resp_done

do_part2_2 ==
  /\ verdict = "none" /\ script = <<>> /\ test = "part2_2"
  /\ \/ \E i \in DOMAIN payload, work_bytes \in STEP : ~Done(i) /\ Do(i, work_bytes)
     \/ (\A i \in DOMAIN payload : Done(i)) /\ UNCHANGED <<script, payload>>
  /\ verdict' = IF \A i \in DOMAIN payload : Done(i) THEN "Pass" ELSE "none"
  /\ UNCHANGED <<test, kind, alive, conns, peers>>

Next ==
  \/ \E c \in Ids : Connect(c) \/ Forward(c) \/ Relay(c) \/ Finish(c) \/ BreakOff(c)
  \/ Crash
  \/ \E k \in Pairs : ServerAccepts(k) \/ ServerAnswers(k)
  \/ SendRequest \/ SendResponse \/ Expect \/ ExpectLog \/ CollectLogs \/ CheckProxyAlive \/ Sleep
  \/ CloseServer \/ AcceptAgain \/ CloseClient \/ Reconnect \/ RestartProxy
  \/ Passed \/ do_part2_2

Spec == Init /\ [][Next]_vars /\ WF_vars(Next)

-----------------------------------------------------------------------------

\* The server reads from the connection of an earlier client, which the proxy
\* made late.
Stale == Doing("expect_req") /\ ofServer \notin {0, ofClient}

\* A payload awaits its response before it has sent all of its request.
Overtaken ==
  Doing("expect_resp") /\ test = "part2_2" /\ conns[ofClient].req < header_end_end

\* A test fails only for a fault of the proxy that it is there to find, with two
\* exceptions: where a server is closed before it has accepted the connection of
\* a slow proxy, and where ConcurrentPayload.do() sends a short response faster
\* than its request.
FaultlessPasses ==
  verdict \in {"Fail", "Timeout", "Abort"} =>
    \/ kind = "crashes"
    \/ kind = "silent" /\ test # "part1_4"
    \/ kind = "exits" /\ test = "part1_7"
    \/ kind = "sequential" /\ test \in {"part2_1", "part2_2"}
    \/ Stale \/ Overtaken

\* No fault goes unnoticed by the tests that are there to find it: serving one
\* connection after the other by part 2, whatever the cut points and the order of
\* the payloads, exiting when a peer breaks off by part 1.7, however late the
\* proxy notices, and writing no log by all tests that look for it.  Part 1.4,
\* "server/client crash" (grade.py:914), does not find the second: it replaces the
\* proxy before it closes the peers.
FaultsFound ==
  verdict = "Pass" =>
    /\ kind = "sequential" => test \notin {"part2_1", "part2_2"}
    /\ kind = "exits" => test # "part1_7"
    /\ kind = "silent" => test = "part1_4"

\* Every test comes to a verdict, whatever the proxy does, unless the proxy has
\* exited when its log is collected.
TestEnds == <>(verdict # "none" \/ (At("collect_logs") /\ ~alive))
=============================================================================

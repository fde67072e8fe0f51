-------------------------------- MODULE Proxy --------------------------------
(***************************************************************************)
(* The concurrent web proxy lab10/proxy.c: main() accepts connections and   *)
(* starts a thread for each, which reads a request, connects to the server, *)
(* relays the request and the response, closes both descriptors and prints  *)
(* a log entry under log_mutex.  Descriptors are handed out by the kernel,  *)
(* the lowest free one first, and shared by all the threads.                *)
(*                                                                          *)
(* The peers are not trusted to keep to the protocol: every read may end    *)
(* early, inside a line or between lines, and every write may fail.  Data   *)
(* are counted, not kept: a line is LINE_BYTES long, the empty line that    *)
(* ends a header is 2, and bodies are counted byte by byte.                 *)
(***************************************************************************)
EXTENDS Integers, FiniteSets

CONSTANTS
  Conns,        \* the connections that clients make, each with its thread
  Fds,          \* the descriptors left to the process
  NoFd,         \* a descriptor variable that is not set yet
  MAX_BODY,     \* bound on Content-Length
  MAX_LINES,    \* bound on the lines of a header
  MAX_ADDRS,    \* bound on the addresses getaddrinfo() returns
  LINE_BYTES    \* the length of a line

ASSUME ProxyAssumption ==
  /\ Fds \subseteq Nat /\ NoFd \notin Fds
  /\ MAX_BODY \in Nat /\ MAX_LINES \in Nat
  /\ MAX_ADDRS \in Nat \ {0} /\ LINE_BYTES \in Nat \ {0}

VARIABLES
  up,           \* the process has not called exit()
  accepted,     \* main(): the connection without a thread yet, or the empty set
  file,         \* the kernel: file[fd] is what an open descriptor stands for
  pc,           \* where the thread of each connection is
  connfd,       \* thread_arg->connfd
  serverfd,
  req,          \* the request as far as it was read
  resp,         \* the response as far as it was read
  log_mutex,
  logged        \* the sizes printed to the log for each connection

vars == <<up, accepted, file, pc, connfd, serverfd, req, resp, log_mutex, logged>>

\* What a thread knows of a request: its method is GET, Content-Length, lines
\* of the header read, what request_line ends in, body bytes relayed, whether
\* the client will send no more, and the addresses of the server left to try.
NoRequest ==
  [get |-> TRUE, length |-> 0, lines |-> 0, ends |-> "line", n |-> 0, eof |-> FALSE,
   addresses |-> 0]

\* And of a response: Content-Length, lines and body bytes read, TotalByteReceived,
\* whether it was relayed without error, whether the server will send no more;
\* and for the properties, all the bytes that the server has sent, and whether
\* it has sent all that it announced.
NoResponse ==
  [length |-> 0, lines |-> 0, n |-> 0, total |-> 0, relayed |-> FALSE,
   eof |-> FALSE, received |-> 0, whole |-> FALSE]

Closed == <<>>
Free == {fd \in Fds : file[fd] = Closed}
Lowest == CHOOSE fd \in Free : \A other \in Free : fd <= other

\* No connection is made yet.
Fresh ==
  /\ accepted = {}
  /\ file = [fd \in Fds |-> Closed]
  /\ pc = [c \in Conns |-> "new"]
  /\ connfd = [c \in Conns |-> NoFd]
  /\ serverfd = [c \in Conns |-> NoFd]
  /\ req = [c \in Conns |-> NoRequest]
  /\ resp = [c \in Conns |-> NoResponse]
  /\ log_mutex = 1
  /\ logged = [c \in Conns |-> {}]

Init == up = TRUE /\ Fresh

Goto(c, label) == pc' = [pc EXCEPT ![c] = label]
UnchangedMain == UNCHANGED <<up, accepted>>
UnchangedLog == UNCHANGED <<log_mutex, logged>>
UnchangedFds == UNCHANGED <<file, connfd, serverfd>>

-----------------------------------------------------------------------------
(* main()                                                                   *)

\* Without a free descriptor Accept() calls exit().
Accept(c) ==
  /\ up
  /\ accepted = {}
  /\ pc[c] = "new"
  /\ IF Free = {}
     THEN up' = FALSE /\ UNCHANGED <<accepted, file, connfd, pc>>
     ELSE /\ accepted' = {c}
          /\ file' = [file EXCEPT ![Lowest] = <<"client", c>>]
          /\ connfd' = [connfd EXCEPT ![c] = Lowest]
          /\ Goto(c, "accepted")
          /\ UNCHANGED up
  /\ UNCHANGED <<serverfd, req, resp>>
  /\ UnchangedLog

\* pthread_create(), which may fail; then main() calls exit().
CreateThread(c) ==
  /\ up
  /\ c \in accepted
  /\ \/ accepted' = {} /\ Goto(c, "request") /\ UNCHANGED up
     \/ up' = FALSE /\ UNCHANGED <<accepted, pc>>
  /\ UNCHANGED <<req, resp>>
  /\ UnchangedFds
  /\ UnchangedLog

-----------------------------------------------------------------------------
(* thread_routine(): the request.                                           *)

\* A thread runs only while the process does.
At(c, label) == up /\ pc[c] = label

\* The first line; without three words the connection is closed.
ReadRequestLine(c) ==
  /\ At(c, "request")
  /\ \/ Goto(c, "closeClient") /\ UNCHANGED req
     \/ /\ \E get, eof \in BOOLEAN :
             req' = [req EXCEPT ![c] = [req[c] EXCEPT !.get = get, !.eof = eof]]
        /\ Goto(c, "header")
  /\ UNCHANGED resp
  /\ UnchangedMain /\ UnchangedFds /\ UnchangedLog

\* One round of the loop over the header lines.  A line that is cut off, by the
\* end of the data or because it is longer than MAXLINE, has no newline.
ReadHeader(c) ==
  /\ At(c, "header")
  /\ \/ /\ ~req[c].eof /\ req[c].lines < MAX_LINES
        /\ \E length \in {req[c].length} \cup 0 .. MAX_BODY, ends \in {"line", "cut"} :
             \E eof \in IF ends = "cut" THEN BOOLEAN ELSE {FALSE} :
               req' = [req EXCEPT ![c] = [req[c] EXCEPT !.length = length, !.lines = @ + 1,
                                                        !.ends = ends, !.eof = eof]]
        /\ UNCHANGED pc
     \/ /\ ~req[c].eof
        /\ req' = [req EXCEPT ![c].ends = "blank"]
        /\ Goto(c, "resolve")
     \/ /\ req' = [req EXCEPT ![c].eof = TRUE]
        /\ Goto(c, IF req[c].ends = "cut" THEN "closeClient" ELSE "resolve")
  /\ UNCHANGED resp
  /\ UnchangedMain /\ UnchangedFds /\ UnchangedLog

-----------------------------------------------------------------------------
(* open_clientfd()                                                          *)

\* getaddrinfo() fails, or returns a list of addresses.
Resolve(c) ==
  /\ At(c, "resolve")
  /\ \/ Goto(c, "closeClient") /\ UNCHANGED req
     \/ /\ \E k \in 1 .. MAX_ADDRS : req' = [req EXCEPT ![c].addresses = k]
        /\ Goto(c, "socket")
  /\ UNCHANGED resp
  /\ UnchangedMain /\ UnchangedFds /\ UnchangedLog

\* This address will not do: on to the next, or -1 is returned.
NextAddress(c) ==
  /\ req' = [req EXCEPT ![c].addresses = @ - 1]
  /\ Goto(c, IF req[c].addresses = 1 THEN "closeClient" ELSE "socket")

OpenSocket(c) ==
  /\ At(c, "socket")
  /\ IF Free = {} THEN NextAddress(c) /\ UNCHANGED <<file, serverfd>>
     ELSE /\ file' = [file EXCEPT ![Lowest] = <<"server", c>>]
          /\ serverfd' = [serverfd EXCEPT ![c] = Lowest]
          /\ Goto(c, "connect")
          /\ UNCHANGED req
  /\ UNCHANGED <<connfd, resp>>
  /\ UnchangedMain /\ UnchangedLog

\* Faulty variant: the socket of a failed connect() is not closed.
Connect_KeepsSocket(c) ==
  /\ At(c, "connect")
  /\ \/ Goto(c, "send") /\ UNCHANGED req
     \/ NextAddress(c)
  /\ UNCHANGED resp
  /\ UnchangedMain /\ UnchangedFds /\ UnchangedLog

Connect(c) ==
  /\ At(c, "connect")
  /\ \/ Goto(c, "send") /\ UNCHANGED <<file, req>>
     \/ NextAddress(c) /\ file' = [file EXCEPT ![serverfd[c]] = Closed]
  /\ UNCHANGED <<connfd, serverfd, resp>>
  /\ UnchangedMain /\ UnchangedLog

-----------------------------------------------------------------------------
(* sendRequest()                                                            *)

\* Faulty variant: sendRequest() closes the descriptor that its caller closes.
SendRequest_ClosesToo(c) ==
  /\ At(c, "send")
  /\ \/ Goto(c, "closeServer") /\ file' = [file EXCEPT ![serverfd[c]] = Closed]
     \/ /\ Goto(c, IF req[c].get \/ req[c].length = 0 THEN "response" ELSE "body")
        /\ UNCHANGED file
  /\ UNCHANGED <<connfd, serverfd, req, resp>>
  /\ UnchangedMain /\ UnchangedLog

SendRequest(c) ==
  /\ At(c, "send")
  /\ \/ Goto(c, "closeServer")
     \/ Goto(c, IF req[c].get \/ req[c].length = 0 THEN "response" ELSE "body")
  /\ UNCHANGED <<req, resp>>
  /\ UnchangedMain /\ UnchangedFds /\ UnchangedLog

\* One byte of the body; the read or the write may fail.
SendRequestBody(c) ==
  /\ At(c, "body")
  /\ \/ Goto(c, "closeServer") /\ UNCHANGED req
     \/ /\ ~req[c].eof
        /\ req' = [req EXCEPT ![c].n = @ + 1]
        /\ Goto(c, IF req[c].n + 1 = req[c].length THEN "response" ELSE "body")
  /\ UNCHANGED resp
  /\ UnchangedMain /\ UnchangedFds /\ UnchangedLog

-----------------------------------------------------------------------------
(* The response and sendResponse().                                         *)

\* One round of the loop over the header of the response.
ReadResponse(c) ==
  /\ At(c, "response")
  /\ \/ /\ ~resp[c].eof /\ resp[c].lines < MAX_LINES
        /\ \E length \in {resp[c].length} \cup 0 .. MAX_BODY, cut \in BOOLEAN :
             LET bytes == IF cut THEN 1 ELSE LINE_BYTES
             IN  resp' = [resp EXCEPT ![c] =
                        [resp[c] EXCEPT !.length = length, !.lines = @ + 1, !.total = @ + bytes,
                                       !.received = @ + bytes, !.eof = cut]]
        /\ UNCHANGED pc
     \/ /\ ~resp[c].eof
        /\ resp' = [resp EXCEPT ![c] = [resp[c] EXCEPT !.received = @ + 2,
                                                      !.whole = resp[c].length = 0]]
        /\ Goto(c, "reply")
     \/ /\ resp' = [resp EXCEPT ![c].eof = TRUE]
        /\ Goto(c, "reply")
  /\ UNCHANGED req
  /\ UnchangedMain /\ UnchangedFds /\ UnchangedLog

\* Faulty variant: the empty line is not counted.
Returned_NoBlankLine(c, r, bytes) ==
  /\ resp' = [resp EXCEPT ![c] = [r EXCEPT !.total = @ + bytes, !.relayed = TRUE]]
  /\ Goto(c, "closeServer")

\* sendResponse() has returned the number of body bytes it says it has sent.
Returned(c, r, bytes) ==
  /\ resp' = [resp EXCEPT ![c] = [r EXCEPT !.total = @ + bytes + 2, !.relayed = TRUE]]
  /\ Goto(c, "closeServer")

SendResponse(c) ==
  /\ At(c, "reply")
  /\ \/ Goto(c, "closeServer") /\ UNCHANGED resp
     \/ IF resp[c].length = 0 THEN Returned(c, resp[c], 0)
        ELSE Goto(c, "relay") /\ UNCHANGED resp
  /\ UNCHANGED req
  /\ UnchangedMain /\ UnchangedFds /\ UnchangedLog

\* One byte of the body, written to the client, which may fail unnoticed; or
\* the server sends no more, and 0 is returned.
SendResponseBody(c) ==
  LET r == [resp[c] EXCEPT !.n = @ + 1, !.received = @ + 1]
  IN  /\ At(c, "relay")
      /\ \/ Returned(c, [resp[c] EXCEPT !.eof = TRUE], 0)
         \/ /\ ~resp[c].eof
            /\ IF r.n = r.length THEN Returned(c, [r EXCEPT !.whole = TRUE], r.length)
               ELSE resp' = [resp EXCEPT ![c] = r] /\ UNCHANGED pc
      /\ UNCHANGED req
      /\ UnchangedMain /\ UnchangedFds /\ UnchangedLog

-----------------------------------------------------------------------------
(* The end of a thread.                                                     *)

\* Close(), which calls exit() if the descriptor is not open.
Close(fd) ==
  /\ up' = (file[fd] # Closed)
  /\ file' = [file EXCEPT ![fd] = Closed]
  /\ UNCHANGED <<accepted, connfd, serverfd>>

CloseServer(c) ==
  /\ At(c, "closeServer")
  /\ Close(serverfd[c])
  /\ Goto(c, "closeClient")
  /\ UNCHANGED <<req, resp>>
  /\ UnchangedLog

CloseClient(c) ==
  /\ At(c, "closeClient")
  /\ Close(connfd[c])
  /\ Goto(c, IF resp[c].relayed THEN "log" ELSE "done")
  /\ UNCHANGED <<req, resp>>
  /\ UnchangedLog

\* Faulty variant: the thread does not wait.
LockLog_NeverWaits(c) ==
  /\ At(c, "log")
  /\ log_mutex' = log_mutex - 1
  /\ Goto(c, "print")
  /\ UNCHANGED <<req, resp, logged>>
  /\ UnchangedMain /\ UnchangedFds

\* P(&log_mutex)
LockLog(c) ==
  /\ At(c, "log")
  /\ log_mutex > 0
  /\ log_mutex' = log_mutex - 1
  /\ Goto(c, "print")
  /\ UNCHANGED <<req, resp, logged>>
  /\ UnchangedMain /\ UnchangedFds

PrintEntry(c) ==
  /\ At(c, "print")
  /\ logged' = [logged EXCEPT ![c] = @ \cup {resp[c].total}]
  /\ Goto(c, "unlock")
  /\ UNCHANGED <<req, resp, log_mutex>>
  /\ UnchangedMain /\ UnchangedFds

\* Faulty variant: the thread ends without V(&log_mutex).
UnlockLog_Forgotten(c) ==
  /\ At(c, "unlock")
  /\ Goto(c, "done")
  /\ UNCHANGED <<req, resp>>
  /\ UnchangedMain /\ UnchangedFds /\ UnchangedLog

\* V(&log_mutex)
UnlockLog(c) ==
  /\ At(c, "unlock")
  /\ log_mutex' = log_mutex + 1
  /\ Goto(c, "done")
  /\ UNCHANGED <<req, resp, logged>>
  /\ UnchangedMain /\ UnchangedFds

-----------------------------------------------------------------------------

Thread(c) ==
  \/ ReadRequestLine(c) \/ ReadHeader(c)
  \/ Resolve(c) \/ OpenSocket(c) \/ Connect(c)
  \/ SendRequest(c) \/ SendRequestBody(c)
  \/ ReadResponse(c) \/ SendResponse(c) \/ SendResponseBody(c)
  \/ CloseServer(c) \/ CloseClient(c)
  \/ LockLog(c) \/ PrintEntry(c) \/ UnlockLog(c)

Next == \E c \in Conns : Accept(c) \/ CreateThread(c) \/ Thread(c)

Spec == Init /\ [][Next]_vars

\* main() and every thread that can run does run; in particular a peer that a
\* thread waits for sends something or goes away in the end.
Fairness == \A c \in Conns : WF_vars(CreateThread(c)) /\ WF_vars(Thread(c))

FairSpec == Spec /\ Fairness

-----------------------------------------------------------------------------
(* Properties                                                               *)

Labels ==
  {"new", "accepted", "request", "header", "resolve", "socket", "connect", "send",
   "body", "response", "reply", "relay", "closeServer", "closeClient",
   "log", "print", "unlock", "done"}

Files == {Closed} \cup ({"client", "server"} \X Conns)

\* No more of a body is read than was announced.
Request ==
  {r \in [get : BOOLEAN, length : Nat, lines : Nat, ends : {"line", "cut", "blank"},
          n : Nat, eof : BOOLEAN, addresses : Nat] : r.n <= r.length}

Response ==
  {r \in [length : Nat, lines : Nat, n : Nat, total : Nat, relayed : BOOLEAN,
          eof : BOOLEAN, received : Nat, whole : BOOLEAN] : r.n <= r.length}

\* Every variable has its type.
TypeOK ==
  /\ up \in BOOLEAN
  /\ accepted \subseteq Conns /\ Cardinality(accepted) <= 1
  /\ file \in [Fds -> Files]
  /\ pc \in [Conns -> Labels]
  /\ connfd \in [Conns -> Fds \cup {NoFd}]
  /\ serverfd \in [Conns -> Fds \cup {NoFd}]
  /\ req \in [Conns -> Request]
  /\ resp \in [Conns -> Response]
  /\ log_mutex \in {0, 1}

\* A thread is still going to use its client's descriptor, or its server's.
UsesClient(c) == pc[c] \notin {"new", "log", "print", "unlock", "done"}
UsesServer(c) ==
  pc[c] \in {"connect", "send", "body", "response", "reply", "relay", "closeServer"}

\* The open descriptors are exactly those that threads are going to use, each
\* for the connection of its thread: none leaks on any of the paths that end a
\* thread, and none that was closed and handed out again is read, written or
\* closed by the thread that had it before.
DescriptorsAreHeld ==
  up => {<<fd, file[fd]>> : fd \in Fds \ Free}
          = {<<connfd[c], <<"client", c>>>> : c \in {k \in Conns : UsesClient(k)}}
            \cup {<<serverfd[c], <<"server", c>>>> : c \in {k \in Conns : UsesServer(k)}}

\* grade3.py, check_proxy_alive(): no request, however it ends, takes the whole
\* proxy down.  Only main() does, for want of a descriptor or of a thread.
OnlyMainExits ==
  [][up /\ ~up' => pc' = pc /\ (accepted # {} \/ Free = {})]_vars

\* The size in the log is the number of bytes that the server has sent, for a
\* response that came in full.
LoggedSizeOfWhole ==
  \A c \in Conns : resp[c].whole => logged[c] \subseteq {resp[c].received}

\* Every connection comes to its end while the proxy is up, and no thread is
\* left waiting for log_mutex.
ConnectionsEnd ==
  \A c \in Conns : pc[c] = "accepted" ~> pc[c] = "done" \/ ~up
=============================================================================

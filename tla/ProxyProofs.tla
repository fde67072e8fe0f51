---------------------------- MODULE ProxyProofs ----------------------------
(***************************************************************************)
(* No descriptor of the proxy leaks or is used by a thread that does not    *)
(* hold it, for any number of connections and descriptors, whatever peers   *)
(* and threads do.                                                          *)
(***************************************************************************)
EXTENDS Proxy, TLAPS, FiniteSetTheorems, WellFoundedInduction

\* Every nonempty set of natural numbers has a least element.
LEMMA NatLeast ==
  ASSUME NEW T, T \subseteq Nat, T # {}
  PROVE  \E x \in T : \A y \in T : x <= y
<1> DEFINE Below == {p \in Nat \X Nat : p[1] < p[2]}
<1>1. IsWellFoundedOn(Below, Nat)
  BY NatLessThanWellFounded DEF OpToRel
<1>2. PICK x \in T : \A y \in T : <<y, x>> \notin Below
  BY <1>1, WFMin
<1>3. ASSUME NEW y \in T
      PROVE  x <= y
  <2>1. x \in Nat /\ y \in Nat
    OBVIOUS
  <2>2. <<y, x>> \notin Below
    BY <1>2
  <2> QED BY <2>1, <2>2
<1> QED BY <1>3

\* The connection without a thread is the one main() has just accepted.
AcceptedWaits == \A c \in accepted : pc[c] = "accepted" /\ accepted = {c}

\* How much of a body, and how many addresses, a thread has at each label.
BeforeSocket == {"new", "accepted", "request", "header", "resolve"}
BeforeBody == BeforeSocket \cup {"socket", "connect", "send"}
BeforeReply == BeforeBody \cup {"body", "response", "reply"}

Counted(c) ==
  /\ pc[c] \in BeforeBody => req[c].n = 0
  /\ pc[c] \in {"socket", "connect"} => req[c].addresses > 0
  /\ pc[c] = "body" => req[c].n < req[c].length
  /\ pc[c] \in BeforeReply => resp[c].n = 0
  /\ pc[c] = "relay" => resp[c].n < resp[c].length

Counting == \A c \in Conns : Counted(c)

\* How the bytes of the response that the thread has counted (total) compare
\* with those that the server has sent (received), at each label.
Sized(c) ==
  /\ pc[c] \in BeforeReply \cup {"relay"} => ~resp[c].relayed
  /\ pc[c] \in BeforeReply \ {"reply"} => resp[c].received = resp[c].total /\ ~resp[c].whole
  /\ pc[c] = "reply" =>
       IF resp[c].eof THEN ~resp[c].whole
       ELSE resp[c].received = resp[c].total + 2 /\ (resp[c].whole <=> resp[c].length = 0)
  /\ pc[c] = "relay" =>
       /\ ~resp[c].whole
       /\ ~resp[c].eof => resp[c].received = resp[c].total + resp[c].n + 2
  /\ pc[c] \notin BeforeReply \cup {"relay"} /\ resp[c].whole /\ resp[c].relayed =>
       resp[c].received = resp[c].total
  /\ pc[c] \in {"log", "print", "unlock"} => resp[c].relayed
  /\ logged[c] # {} => resp[c].relayed /\ pc[c] \in {"unlock", "done"}
  /\ logged[c] \subseteq {resp[c].total}

Sizes == DOMAIN logged = Conns /\ \A c \in Conns : Sized(c)

\* At most one thread is between P(&log_mutex) and V(&log_mutex).
InLog(c) == pc[c] \in {"print", "unlock"}

OneInLog ==
  \A c \in Conns : InLog(c) => log_mutex = 0 /\ \A d \in Conns : InLog(d) => c = d

\* What a thread is going to use is open and stands for its own connection.
ClientHeld ==
  \A c \in Conns : UsesClient(c) => connfd[c] \in Fds /\ file[connfd[c]] = <<"client", c>>

ServerHeld ==
  \A c \in Conns : UsesServer(c) => serverfd[c] \in Fds /\ file[serverfd[c]] = <<"server", c>>

\* An open descriptor is going to be used by the thread it was opened for.
NothingLeaks ==
  \A fd \in Fds : file[fd] = Closed \/ \E c \in Conns :
    \/ UsesClient(c) /\ connfd[c] = fd /\ file[fd] = <<"client", c>>
    \/ UsesServer(c) /\ serverfd[c] = fd /\ file[fd] = <<"server", c>>

Held == ClientHeld /\ ServerHeld /\ NothingLeaks

IInv == TypeOK /\ Counting /\ OneInLog /\ (up => AcceptedWaits /\ Held)

-----------------------------------------------------------------------------
LEMMA ClientFile == \A kind \in {"client", "server"}, c \in Conns : <<kind, c>> \in Files
BY DEF Files

LEMMA ClosedIsNoFile == \A c : \A kind \in {"client", "server"} : <<kind, c>> # Closed
BY DEF Closed

\* The kernel hands out a descriptor that is free.
LEMMA LowestIsFree == ASSUME Free # {} PROVE Lowest \in Free
<1>1. Free \subseteq Nat
  BY ProxyAssumption DEF Free
<1>2. \E fd \in Free : \A other \in Free : fd <= other
  BY <1>1, NatLeast
<1> QED BY <1>2 DEF Lowest

\* What DescriptorsAreHeld says, from the three parts of Held.
LEMMA HeldIsEnough == ASSUME Held PROVE DescriptorsAreHeld
<1> DEFINE open == {<<fd, file[fd]>> : fd \in Fds \ Free}
           clients == {<<connfd[c], <<"client", c>>>> : c \in {k \in Conns : UsesClient(k)}}
           servers == {<<serverfd[c], <<"server", c>>>> : c \in {k \in Conns : UsesServer(k)}}
<1>1. ASSUME NEW fd \in Fds \ Free PROVE <<fd, file[fd]>> \in clients \cup servers
  BY <1>1 DEF Held, NothingLeaks, Free
<1>2. ASSUME NEW c \in Conns, UsesClient(c) PROVE <<connfd[c], <<"client", c>>>> \in open
  BY <1>2, ClosedIsNoFile DEF Held, ClientHeld, Free
<1>3. ASSUME NEW c \in Conns, UsesServer(c) PROVE <<serverfd[c], <<"server", c>>>> \in open
  BY <1>3, ClosedIsNoFile DEF Held, ServerHeld, Free
<1>4. open = clients \cup servers
  BY <1>1, <1>2, <1>3
<1> QED BY <1>4 DEF DescriptorsAreHeld

-----------------------------------------------------------------------------
(* Types.                                                                   *)

USE DEF UnchangedMain, UnchangedFds, UnchangedLog, Goto, At

LEMMA InitIInv == Init => IInv
<1> SUFFICES ASSUME Init PROVE IInv
  OBVIOUS
<1>1. TypeOK
  BY FS_EmptySet DEF Init, Fresh, TypeOK, Labels, NoRequest, NoResponse, Request, Response, Files
<1>2. Counting /\ OneInLog /\ AcceptedWaits /\ Held
  BY DEF Init, Fresh, Counting, Counted, BeforeBody, BeforeReply, BeforeSocket, OneInLog, InLog,
         AcceptedWaits, Held, ClientHeld, ServerHeld,
         NothingLeaks, UsesClient, UsesServer, NoRequest, NoResponse
<1> QED BY <1>1, <1>2 DEF IInv

\* Updates of a request and of a response that keep its type.
LEMMA RequestBodyType ==
  ASSUME NEW r \in Request, r.n < r.length PROVE [r EXCEPT !.n = @ + 1] \in Request
<1>1. r.n + 1 \in Nat /\ r.n + 1 <= r.length
  BY DEF Request
<1> QED BY <1>1 DEF Request

LEMMA RequestHeaderType ==
  ASSUME NEW r \in Request, r.n = 0, NEW length \in Nat, NEW ends \in {"line", "cut"},
         NEW eof \in BOOLEAN
  PROVE  [r EXCEPT !.length = length, !.lines = @ + 1, !.ends = ends, !.eof = eof] \in Request
<1>1. r.lines + 1 \in Nat /\ 0 <= length
  BY DEF Request
<1> QED BY <1>1 DEF Request

LEMMA ResponseHeaderType ==
  ASSUME NEW r \in Response, r.n = 0, NEW length \in Nat, NEW bytes \in Nat,
         NEW cut \in BOOLEAN
  PROVE  [r EXCEPT !.length = length, !.lines = @ + 1, !.total = @ + bytes,
                   !.received = @ + bytes, !.eof = cut] \in Response
<1>1. /\ r.lines + 1 \in Nat /\ 0 <= length
      /\ r.total + bytes \in Nat /\ r.received + bytes \in Nat
  BY DEF Response
<1> QED BY <1>1 DEF Response

LEMMA ResponseBlankType ==
  ASSUME NEW r \in Response
  PROVE  [r EXCEPT !.received = @ + 2, !.whole = r.length = 0] \in Response
<1>1. r.received + 2 \in Nat /\ (r.length = 0) \in BOOLEAN
  BY DEF Response
<1> QED BY <1>1 DEF Response

LEMMA ResponseBodyType ==
  ASSUME NEW r \in Response, r.n < r.length
  PROVE  [r EXCEPT !.n = @ + 1, !.received = @ + 1] \in Response
<1>1. r.n + 1 \in Nat /\ r.n + 1 <= r.length /\ r.received + 1 \in Nat
  BY DEF Response
<1> QED BY <1>1 DEF Response

LEMMA ReturnedType ==
  ASSUME NEW c \in Conns, TypeOK, NEW r \in Response, NEW bytes \in Nat, Returned(c, r, bytes)
  PROVE  resp' \in [Conns -> Response] /\ pc' \in [Conns -> Labels]
<1>1. r.total + bytes + 2 \in Nat
  BY DEF Response
<1>2. [r EXCEPT !.total = @ + bytes + 2, !.relayed = TRUE] \in Response
  BY <1>1 DEF Response
<1> QED BY <1>2 DEF Returned, TypeOK, Labels

LEMMA MainTypeOK ==
  ASSUME TypeOK, NEW c \in Conns, Accept(c) \/ CreateThread(c)
  PROVE  TypeOK'
<1>1. CASE Accept(c) /\ Free = {}
  BY <1>1 DEF Accept, TypeOK
<1>2. CASE Accept(c) /\ Free # {}
  <2>0. accepted' = {c} /\ Cardinality({c}) = 1
    BY <1>2, FS_Singleton DEF Accept
  <2>1. accepted' \subseteq Conns /\ Cardinality(accepted') <= 1
    BY <2>0
  <2>2. Lowest \in Fds
    BY <1>2, LowestIsFree DEF Free
  <2>3. file' \in [Fds -> Files]
    BY <1>2, <2>2, ClientFile DEF Accept, TypeOK
  <2>4. pc' \in [Conns -> Labels] /\ connfd' \in [Conns -> Fds \cup {NoFd}]
    BY <1>2, <2>2 DEF Accept, TypeOK, Labels
  <2> QED BY <1>2, <2>1, <2>3, <2>4 DEF Accept, TypeOK
<1>3. CASE CreateThread(c)
  <2>0. accepted' = {} \/ accepted' = accepted
    BY <1>3 DEF CreateThread
  <2>1. accepted' \subseteq Conns /\ Cardinality(accepted') <= 1
    <3>1. {} \subseteq Conns /\ Cardinality({}) <= 1
      BY FS_EmptySet
    <3>2. accepted \subseteq Conns /\ Cardinality(accepted) <= 1
      BY DEF TypeOK
    <3> QED BY <2>0, <3>1, <3>2
  <2>2. pc' \in [Conns -> Labels] /\ up' \in BOOLEAN
    BY <1>3 DEF CreateThread, TypeOK, Labels
  <2> QED BY <1>3, <2>1, <2>2 DEF CreateThread, TypeOK
<1> QED BY <1>1, <1>2, <1>3

LEMMA ThreadTypeOK ==
  ASSUME TypeOK, Counting, OneInLog, NEW c \in Conns, Thread(c)
  PROVE  TypeOK'
<1>a. req[c] \in Request /\ resp[c] \in Response
  BY DEF TypeOK
<1>b. 0 .. MAX_BODY \subseteq Nat /\ LINE_BYTES \in Nat
  BY ProxyAssumption
<1>1. CASE ReadRequestLine(c)
  <2>1. \A get, eof \in BOOLEAN : [req[c] EXCEPT !.get = get, !.eof = eof] \in Request
    BY <1>a DEF Request
  <2>2. req' = req \/ \E get, eof \in BOOLEAN :
          req' = [req EXCEPT ![c] = [req[c] EXCEPT !.get = get, !.eof = eof]]
    BY <1>1 DEF ReadRequestLine, TypeOK
  <2>3. req' \in [Conns -> Request]
    BY <2>1, <2>2 DEF TypeOK
  <2> QED BY <1>1, <2>3 DEF ReadRequestLine, TypeOK, Labels
<1>2. CASE ReadHeader(c)
  <2>1. req[c].n = 0 /\ req[c].length \in Nat
    BY <1>2, <1>a DEF ReadHeader, Counting, Counted, BeforeBody, BeforeSocket, Request
  <2>2. \A length \in {req[c].length} \cup 0 .. MAX_BODY, ends \in {"line", "cut"}, eof \in BOOLEAN :
          [req[c] EXCEPT !.length = length, !.lines = @ + 1, !.ends = ends, !.eof = eof] \in Request
    BY <1>a, <1>b, <2>1, RequestHeaderType
  <2>3. [req[c] EXCEPT !.ends = "blank"] \in Request /\ [req[c] EXCEPT !.eof = TRUE] \in Request
    BY <1>a DEF Request
  <2>4. ASSUME NEW length \in {req[c].length} \cup 0 .. MAX_BODY, NEW ends \in {"line", "cut"},
               NEW eof \in BOOLEAN,
               req' = [req EXCEPT ![c] = [req[c] EXCEPT !.length = length, !.lines = @ + 1,
                                                   !.ends = ends, !.eof = eof]]
        PROVE  req' \in [Conns -> Request]
    BY <2>2, <2>4 DEF TypeOK
  <2>5. ASSUME \/ req' = [req EXCEPT ![c].ends = "blank"]
               \/ req' = [req EXCEPT ![c].eof = TRUE]
        PROVE  req' \in [Conns -> Request]
    BY <2>3, <2>5 DEF TypeOK
  <2>6. req' \in [Conns -> Request]
    BY <1>2, <2>4, <2>5 DEF ReadHeader
  <2> QED BY <1>2, <2>6 DEF ReadHeader, TypeOK, Labels
<1>3. CASE Resolve(c)
  <2>1. \A k \in 1 .. MAX_ADDRS : [req[c] EXCEPT !.addresses = k] \in Request
    BY <1>a DEF Request
  <2> QED BY <1>3, <2>1 DEF Resolve, TypeOK, Labels
<1>4. CASE OpenSocket(c) \/ Connect(c)
  <2>1. [req[c] EXCEPT !.addresses = @ - 1] \in Request
    <3>1. req[c].addresses - 1 \in Nat
      BY <1>a, <1>4 DEF Request, OpenSocket, Connect, Counting, Counted
    <3> QED BY <1>a, <3>1 DEF Request
  <2>2. req' \in [Conns -> Request]
    BY <1>4, <2>1 DEF OpenSocket, Connect, NextAddress, TypeOK
  <2>3. pc' \in [Conns -> Labels]
    BY <1>4 DEF OpenSocket, Connect, NextAddress, TypeOK, Labels
  <2>4. Closed \in Files /\ <<"server", c>> \in Files
    BY DEF Files
  <2>5. Free # {} => Lowest \in Fds
    BY LowestIsFree DEF Free
  <2>6. file' \in [Fds -> Files] /\ serverfd' \in [Conns -> Fds \cup {NoFd}]
    <3>1. CASE OpenSocket(c)
      BY <3>1, <2>4, <2>5 DEF OpenSocket, NextAddress, TypeOK
    <3>2. CASE Connect(c)
      BY <3>2, <2>4 DEF Connect, TypeOK
    <3> QED BY <1>4, <3>1, <3>2
  <2> QED BY <1>4, <2>2, <2>3, <2>6 DEF OpenSocket, Connect, TypeOK
<1>6. CASE SendRequest(c)
  BY <1>6 DEF SendRequest, TypeOK, Labels
<1>7. CASE SendRequestBody(c)
  <2>1. [req[c] EXCEPT !.n = @ + 1] \in Request
    BY <1>a, <1>7, RequestBodyType DEF SendRequestBody, Counting, Counted
  <2> QED BY <1>7, <2>1 DEF SendRequestBody, TypeOK, Labels
<1>8. CASE ReadResponse(c)
  <2>1. resp[c].n = 0 /\ resp[c].length \in Nat
    BY <1>8, <1>a DEF ReadResponse, Counting, Counted, BeforeReply, Response
  <2>2. \A length \in {resp[c].length} \cup 0 .. MAX_BODY, cut \in BOOLEAN, bytes \in {1, LINE_BYTES} :
          [resp[c] EXCEPT !.length = length, !.lines = @ + 1, !.total = @ + bytes,
                          !.received = @ + bytes, !.eof = cut] \in Response
    <3> SUFFICES ASSUME NEW length \in {resp[c].length} \cup 0 .. MAX_BODY, NEW cut \in BOOLEAN,
                        NEW bytes \in {1, LINE_BYTES}
                 PROVE  [resp[c] EXCEPT !.length = length, !.lines = @ + 1, !.total = @ + bytes,
                          !.received = @ + bytes, !.eof = cut] \in Response
      OBVIOUS
    <3>1. length \in Nat /\ bytes \in Nat
      BY <1>b, <2>1
    <3> QED BY <1>a, <2>1, <3>1, ResponseHeaderType
  <2>3. [resp[c] EXCEPT !.received = @ + 2, !.whole = resp[c].length = 0] \in Response
    BY <1>a, ResponseBlankType
  <2>4. [resp[c] EXCEPT !.eof = TRUE] \in Response
    BY <1>a DEF Response
  <2>5. ASSUME NEW length \in {resp[c].length} \cup 0 .. MAX_BODY, NEW cut \in BOOLEAN,
               NEW bytes \in {1, LINE_BYTES},
               resp' = [resp EXCEPT ![c] =
                          [resp[c] EXCEPT !.length = length, !.lines = @ + 1, !.total = @ + bytes,
                                    !.received = @ + bytes, !.eof = cut]]
        PROVE  resp' \in [Conns -> Response]
    BY <2>2, <2>5 DEF TypeOK
  <2>6. ASSUME \/ resp' = [resp EXCEPT ![c] = [resp[c] EXCEPT !.received = @ + 2,
                                                        !.whole = resp[c].length = 0]]
               \/ resp' = [resp EXCEPT ![c].eof = TRUE]
        PROVE  resp' \in [Conns -> Response]
    BY <2>3, <2>4, <2>6 DEF TypeOK
  <2>7. resp' \in [Conns -> Response]
    BY <1>8, <2>5, <2>6 DEF ReadResponse
  <2> QED BY <1>8, <2>7 DEF ReadResponse, TypeOK, Labels
<1>9. CASE SendResponse(c)
  <2>1. resp' \in [Conns -> Response] /\ pc' \in [Conns -> Labels]
    BY <1>9, <1>a, ReturnedType DEF SendResponse, TypeOK, Labels
  <2> QED BY <1>9, <2>1 DEF SendResponse, TypeOK
<1>10. CASE SendResponseBody(c)
  <2> DEFINE r == [resp[c] EXCEPT !.n = @ + 1, !.received = @ + 1]
  <2>1. r \in Response
    BY <1>a, <1>10, ResponseBodyType DEF SendResponseBody, Counting, Counted
  <2>2. [resp[c] EXCEPT !.eof = TRUE] \in Response
    BY <1>a DEF Response
  <2> HIDE DEF r
  <2>3. r.length \in Nat /\ [r EXCEPT !.whole = TRUE] \in Response
    BY <2>1 DEF Response
  <2>4. \/ Returned(c, [resp[c] EXCEPT !.eof = TRUE], 0)
        \/ Returned(c, [r EXCEPT !.whole = TRUE], r.length)
        \/ resp' = [resp EXCEPT ![c] = r] /\ UNCHANGED pc
    BY <1>10 DEF SendResponseBody, r
  <2>5. resp' \in [Conns -> Response] /\ pc' \in [Conns -> Labels]
    BY <2>1, <2>2, <2>3, <2>4, ReturnedType DEF TypeOK
  <2> QED BY <1>10, <2>5 DEF SendResponseBody, TypeOK
<1>11. CASE CloseServer(c) \/ CloseClient(c)
  <2>1. up' \in BOOLEAN /\ pc' \in [Conns -> Labels]
    BY <1>11 DEF CloseServer, CloseClient, Close, TypeOK, Labels
  <2>2. Closed \in Files
    BY DEF Files
  <2>3. file' \in [Fds -> Files]
    BY <1>11, <2>2 DEF CloseServer, CloseClient, Close, TypeOK
  <2> QED BY <1>11, <2>1, <2>3 DEF CloseServer, CloseClient, Close, TypeOK
<1>12. CASE LockLog(c) \/ PrintEntry(c) \/ UnlockLog(c)
  BY <1>12 DEF LockLog, PrintEntry, UnlockLog, TypeOK, Labels, OneInLog, InLog
<1> QED
  BY <1>1, <1>2, <1>3, <1>4, <1>6, <1>7, <1>8, <1>9, <1>10, <1>11, <1>12 DEF Thread

-----------------------------------------------------------------------------
(* Counting and log_mutex.                                                  *)

\* A step of one connection's thread, or for it, leaves the others alone.
LEMMA OthersUntouched ==
  ASSUME TypeOK, NEW c \in Conns, Accept(c) \/ CreateThread(c) \/ Thread(c), NEW d \in Conns, d # c
  PROVE  /\ pc'[d] = pc[d] /\ req'[d] = req[d] /\ resp'[d] = resp[d]
         /\ connfd'[d] = connfd[d] /\ serverfd'[d] = serverfd[d]
<1>1. CASE Accept(c) \/ CreateThread(c)
  BY <1>1 DEF Accept, CreateThread, TypeOK
<1>2. CASE ReadRequestLine(c) \/ ReadHeader(c) \/ Resolve(c)
  BY <1>2 DEF ReadRequestLine, ReadHeader, Resolve, TypeOK
<1>3. CASE OpenSocket(c) \/ Connect(c)
  BY <1>3 DEF OpenSocket, Connect, NextAddress, TypeOK
<1>4. CASE SendRequest(c) \/ SendRequestBody(c)
  BY <1>4 DEF SendRequest, SendRequestBody, TypeOK
<1>5. CASE ReadResponse(c) \/ SendResponse(c) \/ SendResponseBody(c)
  BY <1>5 DEF ReadResponse, SendResponse, SendResponseBody, Returned, TypeOK
<1>6. CASE CloseServer(c) \/ CloseClient(c) \/ LockLog(c) \/ PrintEntry(c) \/ UnlockLog(c)
  BY <1>6 DEF CloseServer, CloseClient, Close, LockLog, PrintEntry, UnlockLog, TypeOK
<1> QED BY <1>1, <1>2, <1>3, <1>4, <1>5, <1>6 DEF Thread

LEMMA StepCounting ==
  ASSUME TypeOK, Counting, up => AcceptedWaits, NEW c \in Conns,
         Accept(c) \/ CreateThread(c) \/ Thread(c)
  PROVE  Counting'
<1> USE DEF Counted, BeforeReply, BeforeBody, BeforeSocket
<1>a. Counted(c) /\ req[c] \in Request /\ resp[c] \in Response
  BY DEF Counting, TypeOK
<1>b. pc \in [Conns -> Labels] /\ req \in [Conns -> Request] /\ resp \in [Conns -> Response]
  BY DEF TypeOK
<1>1. CASE Accept(c) \/ CreateThread(c)
  <2>1. Counted(c)'
    BY <1>1, <1>a, <1>b DEF Accept, CreateThread, AcceptedWaits
  <2> QED BY <2>1, <1>1, OthersUntouched DEF Counting
<1>2. CASE ReadRequestLine(c)
  <2>1. Counted(c)'
    <3>1. pc[c] = "request" /\ pc'[c] \in {"header", "closeClient"} /\ resp' = resp
      BY <1>2, <1>b DEF ReadRequestLine
    <3>2. ASSUME NEW get \in BOOLEAN, NEW eof \in BOOLEAN,
                 req' = [req EXCEPT ![c] = [req[c] EXCEPT !.get = get, !.eof = eof]]
          PROVE  req'[c].n = req[c].n
      BY <1>a, <1>b, <3>2 DEF Request
    <3>3. req'[c].n = req[c].n
      BY <1>2, <3>2 DEF ReadRequestLine
    <3> QED BY <1>a, <3>1, <3>3
  <2> QED BY <2>1, <1>2, OthersUntouched DEF Counting, Thread
<1>3. CASE ReadHeader(c)
  <2>1. Counted(c)'
    <3>1. pc[c] = "header" /\ pc'[c] \in {"header", "resolve", "closeClient"} /\ resp' = resp
      BY <1>3, <1>b DEF ReadHeader
    <3>2. ASSUME NEW length \in {req[c].length} \cup 0 .. MAX_BODY, NEW ends \in {"line", "cut"},
                 NEW eof \in BOOLEAN,
                 req' = [req EXCEPT ![c] = [req[c] EXCEPT !.length = length, !.lines = @ + 1,
                                                          !.ends = ends, !.eof = eof]]
          PROVE  req'[c].n = req[c].n
      BY <1>a, <1>b, <3>2 DEF Request
    <3>3. ASSUME \/ req' = [req EXCEPT ![c].ends = "blank"]
                 \/ req' = [req EXCEPT ![c].eof = TRUE]
          PROVE  req'[c].n = req[c].n
      BY <1>a, <1>b, <3>3 DEF Request
    <3>4. req'[c].n = req[c].n
      BY <1>3, <3>2, <3>3 DEF ReadHeader
    <3> QED BY <1>a, <3>1, <3>4
  <2> QED BY <2>1, <1>3, OthersUntouched DEF Counting, Thread
<1>4. CASE Resolve(c)
  <2>1. Counted(c)'
    <3>1. pc[c] = "resolve" /\ pc'[c] \in {"socket", "closeClient"} /\ resp' = resp
      BY <1>4, <1>b DEF Resolve
    <3>2. req'[c].n = req[c].n /\ (pc'[c] = "socket" => req'[c].addresses > 0)
      BY <1>4, <1>a, <1>b, ProxyAssumption DEF Resolve, Request
    <3> QED BY <1>a, <3>1, <3>2
  <2> QED BY <2>1, <1>4, OthersUntouched DEF Counting, Thread
<1>5. CASE OpenSocket(c) \/ Connect(c)
  <2>1. Counted(c)'
    BY <1>5, <1>a, <1>b DEF OpenSocket, Connect, NextAddress, Request
  <2> QED BY <2>1, <1>5, OthersUntouched DEF Counting, Thread
<1>6. CASE SendRequest(c)
  <2>1. Counted(c)'
    BY <1>6, <1>a, <1>b DEF SendRequest, Request
  <2> QED BY <2>1, <1>6, OthersUntouched DEF Counting, Thread
<1>7. CASE SendRequestBody(c)
  <2>1. Counted(c)'
    <3>1. pc[c] = "body" /\ pc'[c] \in {"body", "response", "closeServer"} /\ resp' = resp
      BY <1>7, <1>b DEF SendRequestBody
    <3>2. ASSUME pc'[c] = "body" PROVE req'[c].n < req'[c].length
      <4>1. req[c].n + 1 # req[c].length /\ req' = [req EXCEPT ![c].n = @ + 1]
        BY <1>7, <1>b, <3>2 DEF SendRequestBody
      <4>2. req'[c].n = req[c].n + 1 /\ req'[c].length = req[c].length
        BY <4>1, <1>a, <1>b DEF Request
      <4>3. req[c].n \in Nat /\ req[c].length \in Nat /\ req[c].n < req[c].length
        BY <1>a, <3>1 DEF Request
      <4> QED BY <4>1, <4>2, <4>3
    <3> QED BY <1>a, <3>1, <3>2
  <2> QED BY <2>1, <1>7, OthersUntouched DEF Counting, Thread
<1>8. CASE ReadResponse(c)
  <2>1. Counted(c)'
    <3>1. pc[c] = "response" /\ pc'[c] \in {"response", "reply"} /\ req' = req
      BY <1>8, <1>b DEF ReadResponse
    <3>2. ASSUME NEW length \in {resp[c].length} \cup 0 .. MAX_BODY, NEW cut \in BOOLEAN,
                 NEW bytes \in {1, LINE_BYTES},
                 resp' = [resp EXCEPT ![c] =
                            [resp[c] EXCEPT !.length = length, !.lines = @ + 1, !.total = @ + bytes,
                                            !.received = @ + bytes, !.eof = cut]]
          PROVE  resp'[c].n = resp[c].n
      BY <1>a, <1>b, <3>2 DEF Response
    <3>3. ASSUME \/ resp' = [resp EXCEPT ![c] = [resp[c] EXCEPT !.received = @ + 2,
                                                               !.whole = resp[c].length = 0]]
                 \/ resp' = [resp EXCEPT ![c].eof = TRUE]
          PROVE  resp'[c].n = resp[c].n
      BY <1>a, <1>b, <3>3 DEF Response
    <3>4. resp'[c].n = resp[c].n
      BY <1>8, <3>2, <3>3 DEF ReadResponse
    <3> QED BY <1>a, <3>1, <3>4
  <2> QED BY <2>1, <1>8, OthersUntouched DEF Counting, Thread
<1>9. CASE SendResponse(c)
  <2>1. Counted(c)'
    BY <1>9, <1>a, <1>b DEF SendResponse, Returned, Response
  <2> QED BY <2>1, <1>9, OthersUntouched DEF Counting, Thread
<1>10. CASE SendResponseBody(c)
  <2>1. Counted(c)'
    <3>1. pc[c] = "relay" /\ pc'[c] \in {"relay", "closeServer"} /\ req' = req
      BY <1>10, <1>b DEF SendResponseBody, Returned
    <3>2. ASSUME pc'[c] = "relay" PROVE resp'[c].n < resp'[c].length
      <4> DEFINE r == [resp[c] EXCEPT !.n = @ + 1, !.received = @ + 1]
      <4>1. r.n # r.length /\ resp' = [resp EXCEPT ![c] = r]
        BY <1>10, <1>b, <3>2 DEF SendResponseBody, Returned
      <4>2. r.n = resp[c].n + 1 /\ r.length = resp[c].length
        BY <1>a DEF Response
      <4>3. resp'[c] = r
        BY <4>1, <1>b
      <4>4. resp[c].n \in Nat /\ resp[c].length \in Nat /\ resp[c].n < resp[c].length
        BY <1>a, <3>1 DEF Response
      <4> HIDE DEF r
      <4> QED BY <4>1, <4>2, <4>3, <4>4
    <3> QED BY <1>a, <3>1, <3>2
  <2> QED BY <2>1, <1>10, OthersUntouched DEF Counting, Thread
<1>11. CASE CloseServer(c) \/ CloseClient(c) \/ LockLog(c) \/ PrintEntry(c) \/ UnlockLog(c)
  <2>1. Counted(c)'
    BY <1>11, <1>a, <1>b DEF CloseServer, CloseClient, LockLog, PrintEntry, UnlockLog
  <2> QED BY <2>1, <1>11, OthersUntouched DEF Counting, Thread
<1> QED
  BY <1>1, <1>2, <1>3, <1>4, <1>5, <1>6, <1>7, <1>8, <1>9, <1>10, <1>11 DEF Thread

\* P() admits a thread only when no other one is inside, and V() comes from
\* the thread that is.
LEMMA StepOneInLog ==
  ASSUME TypeOK, OneInLog, up => AcceptedWaits, NEW c \in Conns,
         Accept(c) \/ CreateThread(c) \/ Thread(c)
  PROVE  OneInLog'
<1>1. CASE LockLog(c) \/ PrintEntry(c) \/ UnlockLog(c)
  BY <1>1 DEF LockLog, PrintEntry, UnlockLog, OneInLog, InLog, TypeOK
<1>2. CASE ~(LockLog(c) \/ PrintEntry(c) \/ UnlockLog(c))
  <2>1. log_mutex' = log_mutex /\ ~InLog(c)'
    BY <1>2 DEF Accept, CreateThread, Thread, ReadRequestLine, ReadHeader, Resolve, OpenSocket,
      Connect, NextAddress, SendRequest, SendRequestBody, ReadResponse, SendResponse,
      SendResponseBody, Returned, CloseServer, CloseClient, Close, InLog, TypeOK, AcceptedWaits
  <2> QED BY <2>1, OthersUntouched DEF OneInLog, InLog
<1> QED BY <1>1, <1>2

-----------------------------------------------------------------------------
(* The log.                                                                 *)

\* Nothing has been read or logged yet.
LEMMA InitSizes == Init => Sizes
BY DEF Init, Fresh, Sizes, Sized, NoResponse, BeforeReply

\* What sendResponse() returns makes up for what the header had not counted.
LEMMA ReturnedSized ==
  ASSUME TypeOK, NEW c \in Conns, NEW r \in Response, NEW bytes \in Nat, Returned(c, r, bytes),
         r.whole => r.received = r.total + bytes + 2, logged[c] = {}, logged' = logged
  PROVE  Sized(c)'
<1> DEFINE new == [r EXCEPT !.total = @ + bytes + 2, !.relayed = TRUE]
<1>1. new.whole = r.whole /\ new.received = r.received /\ new.total = r.total + bytes + 2
  BY DEF Response
<1>2. resp'[c] = new /\ pc'[c] = "closeServer"
  BY DEF Returned, TypeOK
<1> HIDE DEF new
<1> QED BY <1>1, <1>2 DEF Sized, BeforeReply, BeforeBody, BeforeSocket

\* A step of thread c keeps the sizes of its own connection right.
LEMMA StepSized ==
  ASSUME TypeOK, Counting, Sizes, up => AcceptedWaits, NEW c \in Conns,
         Accept(c) \/ CreateThread(c) \/ Thread(c)
  PROVE  Sized(c)'
<1>a. /\ resp[c] \in Response /\ resp \in [Conns -> Response] /\ pc \in [Conns -> Labels]
      /\ Sized(c) /\ DOMAIN logged = Conns
  BY DEF TypeOK, Sizes
<1>b. 0 .. MAX_BODY \subseteq Nat /\ LINE_BYTES \in Nat
  BY ProxyAssumption
<1> USE DEF BeforeReply, BeforeBody, BeforeSocket
<1>1. CASE \/ Accept(c) \/ CreateThread(c) \/ ReadRequestLine(c) \/ ReadHeader(c) \/ Resolve(c)
           \/ OpenSocket(c) \/ Connect(c) \/ SendRequest(c) \/ SendRequestBody(c)
  <2>1. /\ pc[c] \in BeforeReply \ {"reply"} /\ UNCHANGED <<resp, logged>>
        /\ pc'[c] \in (BeforeReply \ {"reply"}) \cup {"closeClient", "closeServer"}
    <3>1. CASE Accept(c) \/ CreateThread(c)
      BY <3>1, <1>a DEF Accept, CreateThread, AcceptedWaits
    <3>2. CASE ReadRequestLine(c) \/ ReadHeader(c) \/ Resolve(c)
      BY <3>2, <1>a DEF ReadRequestLine, ReadHeader, Resolve
    <3>3. CASE OpenSocket(c) \/ Connect(c) \/ SendRequest(c) \/ SendRequestBody(c)
      BY <3>3, <1>a DEF OpenSocket, Connect, NextAddress, SendRequest, SendRequestBody
    <3> QED BY <1>1, <3>1, <3>2, <3>3
  <2> QED BY <2>1, <1>a DEF Sized
<1>2. CASE ReadResponse(c)
  <2>1. /\ pc[c] = "response" /\ logged' = logged /\ resp[c].received = resp[c].total
        /\ ~resp[c].whole /\ ~resp[c].relayed /\ logged[c] = {}
    BY <1>2, <1>a DEF ReadResponse, Sized
  <2>2. ASSUME NEW length \in {resp[c].length} \cup 0 .. MAX_BODY, NEW cut \in BOOLEAN,
               NEW bytes \in {1, LINE_BYTES}, UNCHANGED pc,
               resp' = [resp EXCEPT ![c] =
                          [resp[c] EXCEPT !.length = length, !.lines = @ + 1, !.total = @ + bytes,
                                          !.received = @ + bytes, !.eof = cut]]
        PROVE  Sized(c)'
    <3>1. /\ resp'[c].received = resp[c].received + bytes /\ resp'[c].whole = resp[c].whole
          /\ resp'[c].total = resp[c].total + bytes /\ resp'[c].relayed = resp[c].relayed
      BY <1>a, <2>2 DEF Response
    <3> QED BY <2>1, <2>2, <3>1 DEF Sized
  <2>3. ASSUME resp' = [resp EXCEPT ![c] = [resp[c] EXCEPT !.received = @ + 2,
                                                          !.whole = resp[c].length = 0]],
               ~resp[c].eof, pc' = [pc EXCEPT ![c] = "reply"]
        PROVE  Sized(c)'
    <3>1. /\ resp'[c].received = resp[c].received + 2 /\ resp'[c].total = resp[c].total
          /\ resp'[c].eof = resp[c].eof /\ resp'[c].length = resp[c].length
          /\ resp'[c].whole = (resp[c].length = 0) /\ resp'[c].relayed = resp[c].relayed
      BY <1>a, <2>3 DEF Response
    <3> QED BY <1>a, <2>1, <2>3, <3>1 DEF Sized
  <2>4. ASSUME resp' = [resp EXCEPT ![c].eof = TRUE], pc' = [pc EXCEPT ![c] = "reply"]
        PROVE  Sized(c)'
    <3>1. /\ resp'[c].eof = TRUE /\ resp'[c].whole = resp[c].whole
          /\ resp'[c].relayed = resp[c].relayed
      BY <1>a, <2>4 DEF Response
    <3> QED BY <1>a, <2>1, <2>4, <3>1 DEF Sized
  <2> QED BY <1>2, <2>2, <2>3, <2>4 DEF ReadResponse
<1>3. CASE SendResponse(c)
  <2>1. pc[c] = "reply" /\ logged' = logged /\ logged[c] = {}
    BY <1>3, <1>a DEF SendResponse, Sized
  <2>2. CASE Returned(c, resp[c], 0) /\ resp[c].length = 0
    <3>1. resp[c].whole => resp[c].received = resp[c].total + 0 + 2
      BY <1>a, <2>1, <2>2 DEF Sized, Response
    <3> QED BY <1>a, <2>1, <2>2, <3>1, ReturnedSized
  <2>3. CASE pc' = [pc EXCEPT ![c] = "closeServer"] /\ resp' = resp
    BY <1>a, <2>1, <2>3 DEF Sized
  <2>4. CASE resp[c].length # 0 /\ pc' = [pc EXCEPT ![c] = "relay"] /\ resp' = resp
    <3>1. resp[c].n = 0
      BY <2>1 DEF Counting, Counted
    <3> QED BY <1>a, <2>1, <2>4, <3>1 DEF Sized, Response
  <2> QED BY <1>3, <2>2, <2>3, <2>4 DEF SendResponse
<1>4. CASE SendResponseBody(c)
  <2> DEFINE r == [resp[c] EXCEPT !.n = @ + 1, !.received = @ + 1]
  <2>1. /\ pc[c] = "relay" /\ logged' = logged /\ logged[c] = {} /\ ~resp[c].whole
        /\ ~resp[c].relayed /\ resp[c].n < resp[c].length
    BY <1>4, <1>a DEF SendResponseBody, Sized, Counting, Counted
  <2>2. /\ r \in Response /\ r.n = resp[c].n + 1 /\ r.received = resp[c].received + 1
        /\ r.length = resp[c].length /\ r.total = resp[c].total /\ r.whole = resp[c].whole
        /\ r.eof = resp[c].eof /\ r.relayed = resp[c].relayed
    BY <1>a, <2>1, ResponseBodyType DEF Response
  <2>3. CASE Returned(c, [resp[c] EXCEPT !.eof = TRUE], 0)
    <3> DEFINE e == [resp[c] EXCEPT !.eof = TRUE]
    <3>1. e \in Response /\ e.whole = resp[c].whole
      BY <1>a DEF Response
    <3> HIDE DEF e
    <3>2. Returned(c, e, 0)
      BY <2>3 DEF e
    <3> QED BY <2>1, <3>1, <3>2, ReturnedSized
  <2>4. CASE ~resp[c].eof /\ r.n = r.length /\ Returned(c, [r EXCEPT !.whole = TRUE], r.length)
    <3> DEFINE w == [r EXCEPT !.whole = TRUE]
    <3>1. Returned(c, w, r.length) /\ r.n = r.length
      BY <2>4
    <3> HIDE DEF r
    <3>2. w \in Response /\ w.received = r.received /\ w.total = r.total /\ r.length \in Nat
      BY <2>2 DEF Response
    <3> HIDE DEF w
    <3>3. resp[c].received = resp[c].total + resp[c].n + 2
      BY <1>a, <2>1, <2>4 DEF Sized
    <3>4. w.received = w.total + r.length + 2
      BY <1>a, <2>2, <3>1, <3>2, <3>3 DEF Response
    <3> QED BY <2>1, <3>1, <3>2, <3>4, ReturnedSized
  <2>5. CASE ~resp[c].eof /\ resp' = [resp EXCEPT ![c] = r] /\ UNCHANGED pc
    <3> HIDE DEF r
    <3>1. resp'[c] = r /\ pc'[c] = "relay" /\ logged'[c] = {}
      BY <1>a, <2>1, <2>5
    <3>2. resp[c].received = resp[c].total + resp[c].n + 2
      BY <1>a, <2>1, <2>5 DEF Sized
    <3>3. r.received = r.total + r.n + 2
      BY <1>a, <2>2, <3>2 DEF Response
    <3> QED BY <2>1, <2>2, <3>1, <3>3 DEF Sized
  <2> QED BY <1>4, <2>3, <2>4, <2>5 DEF SendResponseBody
<1>5. CASE CloseServer(c) \/ CloseClient(c) \/ LockLog(c)
  <2>1. /\ UNCHANGED <<resp, logged>>
        /\ \/ pc[c] = "closeServer" /\ pc'[c] = "closeClient"
           \/ pc[c] = "closeClient" /\ pc'[c] = IF resp[c].relayed THEN "log" ELSE "done"
           \/ pc[c] = "log" /\ pc'[c] = "print"
    BY <1>5, <1>a DEF CloseServer, CloseClient, LockLog
  <2> QED BY <1>a, <2>1 DEF Sized
<1>6. CASE PrintEntry(c)
  <2>1. /\ pc[c] = "print" /\ pc'[c] = "unlock" /\ resp' = resp
        /\ logged'[c] = logged[c] \cup {resp[c].total}
    BY <1>6, <1>a DEF PrintEntry
  <2> QED BY <1>a, <2>1 DEF Sized
<1>7. CASE UnlockLog(c)
  <2>1. pc[c] = "unlock" /\ pc'[c] = "done" /\ UNCHANGED <<resp, logged>>
    BY <1>7, <1>a DEF UnlockLog
  <2> QED BY <1>a, <2>1 DEF Sized
<1> QED BY <1>1, <1>2, <1>3, <1>4, <1>5, <1>6, <1>7 DEF Thread

\* Steps of one connection leave the sizes of the others alone.
LEMMA StepSizes ==
  ASSUME TypeOK, Counting, Sizes, up => AcceptedWaits, NEW c \in Conns,
         Accept(c) \/ CreateThread(c) \/ Thread(c)
  PROVE  Sizes'
<1>1. DOMAIN logged' = Conns /\ \A d \in Conns \ {c} : logged'[d] = logged[d]
  BY DEF Sizes, Accept, CreateThread, Thread, ReadRequestLine, ReadHeader, Resolve, OpenSocket,
    Connect, SendRequest, SendRequestBody, ReadResponse, SendResponse, SendResponseBody,
    CloseServer, CloseClient, LockLog, PrintEntry, UnlockLog
<1>2. \A d \in Conns \ {c} : Sized(d)'
  BY <1>1, OthersUntouched DEF Sizes, Sized
<1> QED BY <1>1, <1>2, StepSized DEF Sizes

-----------------------------------------------------------------------------
(* Descriptors.                                                             *)

\* A step of c changes what is held only through c itself; here one that
\* leaves the descriptors alone.
LEMMA SameDescriptors ==
  ASSUME TypeOK, Held, NEW c \in Conns, UNCHANGED <<file, connfd, serverfd>>,
         \A d \in Conns \ {c} : pc'[d] = pc[d],
         UsesClient(c)' = UsesClient(c), UsesServer(c)' = UsesServer(c)
  PROVE  Held'
<1>1. \A d \in Conns : UsesClient(d)' = UsesClient(d) /\ UsesServer(d)' = UsesServer(d)
  BY DEF UsesClient, UsesServer
<1> QED BY <1>1 DEF Held, ClientHeld, ServerHeld, NothingLeaks

\* The client's descriptor of a connection is the one accept() returned.
LEMMA AcceptHeld ==
  ASSUME TypeOK, Held, AcceptedWaits, NEW c \in Conns, Accept(c)
  PROVE  up' => AcceptedWaits' /\ Held'
<1>1. CASE Free = {}
  BY <1>1 DEF Accept
<1>2. CASE Free # {}
  <2> DEFINE fd == Lowest
  <2>1. fd \in Fds /\ file[fd] = Closed
    BY <1>2, LowestIsFree DEF Free
  <2>2. /\ accepted' = {c} /\ file' = [file EXCEPT ![fd] = <<"client", c>>]
        /\ connfd' = [connfd EXCEPT ![c] = fd] /\ pc' = [pc EXCEPT ![c] = "accepted"]
        /\ serverfd' = serverfd /\ pc[c] = "new"
    BY <1>2 DEF Accept
  <2> HIDE DEF fd
  <2>3. AcceptedWaits'
    BY <2>2 DEF AcceptedWaits, TypeOK
  <2>4. /\ UsesClient(c)' /\ ~UsesServer(c)' /\ ~UsesClient(c) /\ ~UsesServer(c)
        /\ \A d \in Conns \ {c} : UsesClient(d)' = UsesClient(d) /\ UsesServer(d)' = UsesServer(d)
    BY <2>2 DEF UsesClient, UsesServer, TypeOK
  <2>5. \A d \in Conns : <<"client", d>> # Closed /\ <<"server", d>> # Closed
    BY ClosedIsNoFile
  <2>6. ClientHeld'
    BY <2>1, <2>2, <2>4, <2>5 DEF Held, ClientHeld, TypeOK
  <2>7. ServerHeld'
    BY <2>1, <2>2, <2>4, <2>5 DEF Held, ServerHeld, TypeOK
  <2>8. NothingLeaks'
    BY <2>1, <2>2, <2>4, <2>5 DEF Held, NothingLeaks, TypeOK
  <2> QED BY <2>3, <2>6, <2>7, <2>8 DEF Held
<1> QED BY <1>1, <1>2

LEMMA CreateThreadHeld ==
  ASSUME TypeOK, Held, AcceptedWaits, NEW c \in Conns, CreateThread(c)
  PROVE  up' => AcceptedWaits' /\ Held'
<1> SUFFICES ASSUME up' PROVE AcceptedWaits' /\ Held'
  OBVIOUS
<1>1. accepted' = {} /\ pc[c] = "accepted" /\ pc' = [pc EXCEPT ![c] = "request"]
  BY DEF CreateThread, AcceptedWaits
<1>2. Held'
  BY <1>1, SameDescriptors DEF CreateThread, UsesClient, UsesServer, TypeOK
<1> QED BY <1>1, <1>2 DEF AcceptedWaits

\* socket() hands out a descriptor that no thread uses.
LEMMA OpenSocketHeld ==
  ASSUME TypeOK, Held, NEW c \in Conns, OpenSocket(c)
  PROVE  Held'
<1>1. CASE Free = {}
  BY <1>1, SameDescriptors DEF OpenSocket, NextAddress, UsesClient, UsesServer, TypeOK
<1>2. CASE Free # {}
  <2> DEFINE fd == Lowest
  <2>1. fd \in Fds /\ file[fd] = Closed
    BY <1>2, LowestIsFree DEF Free
  <2>2. /\ file' = [file EXCEPT ![fd] = <<"server", c>>] /\ connfd' = connfd
        /\ serverfd' = [serverfd EXCEPT ![c] = fd] /\ pc' = [pc EXCEPT ![c] = "connect"]
        /\ pc[c] = "socket"
    BY <1>2 DEF OpenSocket
  <2> HIDE DEF fd
  <2>4. /\ UsesServer(c)' /\ ~UsesServer(c)
        /\ \A d \in Conns : UsesClient(d)' = UsesClient(d)
        /\ \A d \in Conns \ {c} : UsesServer(d)' = UsesServer(d)
    BY <2>2 DEF UsesClient, UsesServer, TypeOK
  <2>5. \A d \in Conns : <<"client", d>> # Closed /\ <<"server", d>> # Closed
    BY ClosedIsNoFile
  <2>6. ClientHeld'
    BY <2>1, <2>2, <2>4, <2>5 DEF Held, ClientHeld, TypeOK
  <2>7. ServerHeld'
    BY <2>1, <2>2, <2>4, <2>5 DEF Held, ServerHeld, TypeOK
  <2>8. NothingLeaks'
    BY <2>1, <2>2, <2>4, <2>5 DEF Held, NothingLeaks, TypeOK
  <2> QED BY <2>6, <2>7, <2>8 DEF Held
<1> QED BY <1>1, <1>2

\* close() of the server's descriptor, after which c does not use it.
LEMMA ServerClosed ==
  ASSUME TypeOK, Held, NEW c \in Conns, UsesServer(c), ~UsesServer(c)',
         file' = [file EXCEPT ![serverfd[c]] = Closed], UNCHANGED <<connfd, serverfd>>,
         \A d \in Conns \ {c} : pc'[d] = pc[d],
         UsesClient(c)' = UsesClient(c)
  PROVE  Held'
<1>1. /\ \A d \in Conns : UsesClient(d)' = UsesClient(d)
      /\ \A d \in Conns \ {c} : UsesServer(d)' = UsesServer(d)
  BY DEF UsesClient, UsesServer
<1>2. serverfd[c] \in Fds /\ file[serverfd[c]] = <<"server", c>>
  BY DEF Held, ServerHeld
<1>3. ClientHeld'
  BY <1>1, <1>2 DEF Held, ClientHeld, TypeOK
<1>4. ServerHeld'
  BY <1>1, <1>2 DEF Held, ServerHeld, TypeOK
<1>5. NothingLeaks'
  BY <1>1, <1>2 DEF Held, NothingLeaks, TypeOK
<1> QED BY <1>3, <1>4, <1>5 DEF Held

LEMMA ClientClosed ==
  ASSUME TypeOK, Held, NEW c \in Conns, UsesClient(c), ~UsesClient(c)',
         file' = [file EXCEPT ![connfd[c]] = Closed], UNCHANGED <<connfd, serverfd>>,
         \A d \in Conns \ {c} : pc'[d] = pc[d],
         UsesServer(c)' = UsesServer(c)
  PROVE  Held'
<1>1. /\ \A d \in Conns : UsesServer(d)' = UsesServer(d)
      /\ \A d \in Conns \ {c} : UsesClient(d)' = UsesClient(d)
  BY DEF UsesClient, UsesServer
<1>2. connfd[c] \in Fds /\ file[connfd[c]] = <<"client", c>>
  BY DEF Held, ClientHeld
<1>3. ClientHeld'
  BY <1>1, <1>2 DEF Held, ClientHeld, TypeOK
<1>4. ServerHeld'
  BY <1>1, <1>2 DEF Held, ServerHeld, TypeOK
<1>5. NothingLeaks'
  BY <1>1, <1>2 DEF Held, NothingLeaks, TypeOK
<1> QED BY <1>3, <1>4, <1>5 DEF Held

\* A thread keeps the process up: what it closes is open.
LEMMA ThreadHeld ==
  ASSUME TypeOK, Held, AcceptedWaits, NEW c \in Conns, Thread(c)
  PROVE  up' /\ AcceptedWaits' /\ Held'
<1>a. \A d \in Conns \ {c} : pc'[d] = pc[d]
  BY OthersUntouched
<1>b. pc \in [Conns -> Labels]
  BY DEF TypeOK
<1>1. accepted' = accepted /\ pc[c] # "accepted"
  BY DEF Thread, ReadRequestLine, ReadHeader, Resolve, OpenSocket, Connect, NextAddress,
    SendRequest, SendRequestBody, ReadResponse, SendResponse, SendResponseBody, Returned,
    CloseServer, CloseClient, Close, LockLog, PrintEntry, UnlockLog
<1>2. AcceptedWaits'
  BY <1>a, <1>1 DEF AcceptedWaits, TypeOK
<1>3. CASE ReadRequestLine(c) \/ ReadHeader(c) \/ Resolve(c) \/ SendRequest(c)
           \/ SendRequestBody(c)
  <2>0. up /\ up' = up
    BY <1>3 DEF ReadRequestLine, ReadHeader, Resolve, SendRequest, SendRequestBody
  <2>1. up' /\ UNCHANGED <<file, connfd, serverfd>>
    BY <1>3, <2>0 DEF ReadRequestLine, ReadHeader, Resolve, SendRequest, SendRequestBody
  <2>2. \/ /\ pc[c] \in {"request", "header", "resolve"}
           /\ pc'[c] \in {"header", "resolve", "socket", "closeClient"}
        \/ /\ pc[c] \in {"send", "body"}
           /\ pc'[c] \in {"body", "response", "closeServer"}
    BY <1>3, <1>b DEF ReadRequestLine, ReadHeader, Resolve, SendRequest, SendRequestBody
  <2>3. UsesClient(c)' = UsesClient(c) /\ UsesServer(c)' = UsesServer(c)
    BY <2>2 DEF UsesClient, UsesServer
  <2> QED BY <1>a, <1>2, <2>1, <2>3, SameDescriptors
<1>4. CASE ReadResponse(c) \/ SendResponse(c) \/ SendResponseBody(c)
           \/ LockLog(c) \/ PrintEntry(c) \/ UnlockLog(c)
  <2>0. up /\ up' = up
    BY <1>4 DEF ReadResponse, SendResponse, SendResponseBody, LockLog, PrintEntry, UnlockLog
  <2>1. up' /\ UNCHANGED <<file, connfd, serverfd>>
    BY <1>4, <2>0 DEF ReadResponse, SendResponse, SendResponseBody, LockLog, PrintEntry, UnlockLog
  <2>2. \/ /\ pc[c] \in {"response", "reply", "relay"}
           /\ pc'[c] \in {"response", "reply", "relay", "closeServer"}
        \/ /\ pc[c] \in {"log", "print", "unlock"}
           /\ pc'[c] \in {"print", "unlock", "done"}
    BY <1>4, <1>b DEF ReadResponse, SendResponse, SendResponseBody, Returned, LockLog,
                      PrintEntry, UnlockLog
  <2>3. UsesClient(c)' = UsesClient(c) /\ UsesServer(c)' = UsesServer(c)
    BY <2>2 DEF UsesClient, UsesServer
  <2> QED BY <1>a, <1>2, <2>1, <2>3, SameDescriptors
<1>5. CASE OpenSocket(c)
  BY <1>2, <1>5, OpenSocketHeld DEF OpenSocket
<1>6. CASE Connect(c)
  <2>1. CASE file' = file
    <3>1. up' /\ UNCHANGED <<file, connfd, serverfd>>
          /\ UsesClient(c)' = UsesClient(c) /\ UsesServer(c)' = UsesServer(c)
      <4>1. serverfd[c] \in Fds /\ file[serverfd[c]] # Closed
        BY <1>6, ClosedIsNoFile DEF Connect, Held, ServerHeld, UsesServer
      <4>2. pc' = [pc EXCEPT ![c] = "send"]
        BY <1>6, <2>1, <4>1 DEF Connect, TypeOK
      <4> QED BY <1>6, <2>1, <4>2 DEF Connect, UsesClient, UsesServer, TypeOK
    <3> QED BY <1>a, <1>2, <3>1, SameDescriptors
  <2>2. CASE file' # file
    <3>1. up' /\ file' = [file EXCEPT ![serverfd[c]] = Closed] /\ UNCHANGED <<connfd, serverfd>>
          /\ UsesServer(c) /\ ~UsesServer(c)' /\ UsesClient(c)' = UsesClient(c)
      BY <1>6, <2>2 DEF Connect, NextAddress, UsesClient, UsesServer, TypeOK
    <3> QED BY <1>a, <1>2, <3>1, ServerClosed
  <2> QED BY <2>1, <2>2
<1>7. CASE CloseServer(c)
  <2>1. /\ file' = [file EXCEPT ![serverfd[c]] = Closed] /\ UNCHANGED <<connfd, serverfd>>
        /\ UsesServer(c) /\ ~UsesServer(c)' /\ UsesClient(c)' = UsesClient(c)
    BY <1>7 DEF CloseServer, Close, UsesClient, UsesServer, TypeOK
  <2>2. up'
    BY <1>7, <2>1, ClosedIsNoFile DEF CloseServer, Close, Held, ServerHeld
  <2> QED BY <1>a, <1>2, <2>1, <2>2, ServerClosed
<1>8. CASE CloseClient(c)
  <2>1. /\ file' = [file EXCEPT ![connfd[c]] = Closed] /\ UNCHANGED <<connfd, serverfd>>
        /\ UsesClient(c) /\ ~UsesClient(c)' /\ UsesServer(c)' = UsesServer(c)
    BY <1>8 DEF CloseClient, Close, UsesClient, UsesServer, TypeOK
  <2>2. up'
    BY <1>8, <2>1, ClosedIsNoFile DEF CloseClient, Close, Held, ClientHeld
  <2> QED BY <1>a, <1>2, <2>1, <2>2, ClientClosed
<1> QED BY <1>3, <1>4, <1>5, <1>6, <1>7, <1>8 DEF Thread

-----------------------------------------------------------------------------
(* The theorems.                                                            *)

LEMMA NextIInv == IInv /\ [Next]_vars => IInv'
<1> SUFFICES ASSUME IInv, [Next]_vars PROVE IInv'
  OBVIOUS
<1> USE DEF IInv
<1>1. ASSUME NEW c \in Conns, Accept(c) \/ CreateThread(c) PROVE IInv'
  <2>1. TypeOK' /\ Counting' /\ OneInLog'
    BY <1>1, MainTypeOK, StepCounting, StepOneInLog
  <2>2. up
    BY <1>1 DEF Accept, CreateThread
  <2> QED BY <1>1, <2>1, <2>2, AcceptHeld, CreateThreadHeld
<1>2. ASSUME NEW c \in Conns, Thread(c) PROVE IInv'
  <2>1. TypeOK' /\ Counting' /\ OneInLog'
    BY <1>2, ThreadTypeOK, StepCounting, StepOneInLog
  <2>2. up
    BY <1>2 DEF Thread, ReadRequestLine, ReadHeader, Resolve, OpenSocket, Connect, SendRequest,
      SendRequestBody, ReadResponse, SendResponse, SendResponseBody, CloseServer, CloseClient,
      LockLog, PrintEntry, UnlockLog
  <2> QED BY <1>2, <2>1, <2>2, ThreadHeld
<1>3. CASE UNCHANGED vars
  BY <1>3 DEF vars, TypeOK, Counting, Counted, OneInLog, InLog, AcceptedWaits, Held, ClientHeld,
    ServerHeld, NothingLeaks, UsesClient, UsesServer
<1> QED BY <1>1, <1>2, <1>3 DEF Next

THEOREM Invariance == Spec => []IInv
BY InitIInv, NextIInv, PTL DEF Spec

\* Every variable keeps its type; in particular log_mutex stays 0 or 1.
THEOREM TypeCorrect == Spec => []TypeOK
<1>1. IInv => TypeOK
  BY DEF IInv
<1> QED BY <1>1, Invariance, PTL

\* No path of a thread leaks a descriptor, and no thread reads, writes or
\* closes one that has been handed out to another.
THEOREM DescriptorsAreSafe == Spec => []DescriptorsAreHeld
<1>1. IInv => DescriptorsAreHeld
  BY HeldIsEnough DEF IInv, DescriptorsAreHeld
<1> QED BY <1>1, Invariance, PTL

\* No thread ends the process: whatever a request does, what its thread closes
\* is open.
THEOREM ThreadsSpareTheProcess == Spec => OnlyMainExits
<1>1. ASSUME IInv, [Next]_vars PROVE up /\ ~up' => pc' = pc /\ (accepted # {} \/ Free = {})
  <2> SUFFICES ASSUME up, ~up' PROVE pc' = pc /\ (accepted # {} \/ Free = {})
    OBVIOUS
  <2>1. ASSUME NEW c \in Conns, Accept(c) \/ CreateThread(c)
        PROVE  pc' = pc /\ (accepted # {} \/ Free = {})
    BY <2>1 DEF Accept, CreateThread
  <2>2. ASSUME NEW c \in Conns, Thread(c) PROVE FALSE
    BY <1>1, <2>2, ThreadHeld DEF IInv
  <2> QED BY <1>1, <2>1, <2>2 DEF Next, vars
<1> QED BY <1>1, Invariance, PTL DEF Spec, OnlyMainExits

\* What the log says of a response that came in full is its size, whichever of
\* sendResponse()'s returns the thread comes from and however threads interleave.
THEOREM LogIsRight == Spec => []LoggedSizeOfWhole
<1>1. Init => Sizes
  BY InitSizes
<1>2. IInv /\ Sizes /\ [Next]_vars => Sizes'
  <2> SUFFICES ASSUME IInv, Sizes, [Next]_vars PROVE Sizes'
    OBVIOUS
  <2>1. CASE UNCHANGED vars
    BY <2>1 DEF vars, Sizes, Sized
  <2> QED BY <2>1, StepSizes DEF IInv, Next
<1>3. IInv /\ Sizes => LoggedSizeOfWhole
  BY DEF Sizes, Sized, LoggedSizeOfWhole, BeforeReply, BeforeBody, BeforeSocket
<1> QED BY <1>1, <1>2, <1>3, Invariance, PTL DEF Spec
=============================================================================

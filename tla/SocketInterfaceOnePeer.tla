----------------------- MODULE SocketInterfaceOnePeer -----------------------
(***************************************************************************)
(* Proofs about the event loop with a single peer that asks for nothing by *)
(* POST, for every number of ports, scripts and descriptors: its scripts   *)
(* are kept in view, waited for, and read for it.                          *)
(***************************************************************************)
EXTENDS SocketInterfaceWorkloads, FiniteSetTheorems

-----------------------------------------------------------------------------
(* The peer, while its script has a pipe *)

LEMMA PipedFacts ==
  ASSUME SocketInv, NEW F \in Fds, NEW s \in Fds, NEW j \in Job, Piped(F, s, j)
  PROVE  /\ F # s /\ F # 0 /\ s # 0 /\ F # -1 /\ s # -1
         /\ files[F].kind = "conn" /\ files[s] = Obj("out", j) /\ files[0].kind = "std"
         /\ F \in DOMAIN clients /\ s \in DOMAIN clients
         /\ Buffer(clients, F) = clients[F] /\ Buffer(clients, s) = clients[s]
         /\ clients[F] \in BufferType /\ clients[s] \in BufferType
         /\ First \in 1..Len(pollFds) /\ pollFds[First].fd = F
         /\ Len(pollFds) \in {First, Second} /\ Len(pollFds) \in Nat
         /\ DOMAIN pollFds = 1..Len(pollFds)
<1>1. Accepted(F) /\ files[s] = Obj("out", j) /\ Only({F, s}) /\ pollFds[First].fd = F
  BY DEF Piped
<1>2. F # s /\ F # 0 /\ s # 0 /\ F # -1 /\ s # -1
  BY <1>1, PortsFacts DEF Accepted, Obj
<1>3. F \in DOMAIN clients /\ s \in DOMAIN clients
  BY <1>1 DEF Only, Known
<1>4. clients[F] \in BufferType /\ clients[s] \in BufferType
  BY <1>3, TypesOfState DEF GoodClients
<1>5. Len(pollFds) \in {First, Second}
  BY DEF Piped, Awaited, BeingRead, Finished
<1>6. pollFds \in Seq(EntryType) /\ Len(pollFds) \in Nat /\ DOMAIN pollFds = 1..Len(pollFds)
  BY TypesOfState, LenProperties
<1>7. First \in 1..Len(pollFds)
  <2>1. Len(pollFds) = First \/ Len(pollFds) = Second
    BY <1>5
  <2> QED
    BY <2>1, Slots12
<1> QED
  BY <1>1, <1>2, <1>3, <1>4, <1>5, <1>6, <1>7 DEF Accepted, Buffer

(* A turn in which no handler runs. *)
LEMMA PipedIdle ==
  ASSUME SocketInv, Reported, NEW F \in Fds, NEW s \in Fds, NEW j \in Job, Piped(F, s, j),
         (cur = First /\ Here = F) \/ (cur = Second /\ Here = s),
         HandlerTurn, UNCHANGED <<files, conns, jobs, pollFds, addPollFds, delIndex>>,
         clients' = clients \/ clients' = Touch(clients, Here)
  PROVE  Reported' /\ Piped(F, s, j)'
<1>1. PlainTurn
  BY SameItAll DEF PlainTurn
<1>2. PICK b, p : b = Buffer(clients, F) /\ p = Buffer(clients, s)
  OBVIOUS
<1>3. /\ DOMAIN clients' = DOMAIN clients \cup {F, s}
      /\ \A x : Buffer(clients', x) = Buffer(clients, x)
  <2>1. F \in DOMAIN clients /\ s \in DOMAIN clients
    BY PipedFacts
  <2>2. CASE clients' = clients
    BY <2>1, <2>2
  <2>3. CASE clients' = Touch(clients, Here)
    <3>1. \A cl, fd, x : Buffer(Touch(cl, fd), x) = Buffer(cl, x)
      BY BufferOf
    <3>2. \A cl, fd : DOMAIN Touch(cl, fd) = DOMAIN cl \cup {fd}
      BY DomainOf
    <3> QED
      BY <2>1, <2>3, <3>1, <3>2
  <2> QED
    BY <2>2, <2>3
<1>4. \A x : Buffer(clients', x) = IF x = F THEN b ELSE IF x = s THEN p ELSE Buffer(clients, x)
  BY <1>2, <1>3
<1>5. /\ p.cgiFd = -1 /\ ~p.isClosed /\ p.clientFd = F /\ b.clientFd = F /\ ~b.isClosed
  BY <1>2 DEF Piped
<1>6. /\ pc = "handle" /\ pc' = "handle" /\ now' = now /\ cur' > cur /\ cur \in Nat /\ cur' \in Nat
      /\ First' = First /\ Second' = Second
  BY <1>1, PlainFrame DEF Piped
<1>7. \A i \in Job : Live(i)' = Live(i)
  BY DEF Live
<1>13. OthersStay(j)
  BY <1>7 DEF OthersStay
<1>15. TwoBuffers(F, s, b, p)
  BY <1>3, <1>4, <1>5 DEF TwoBuffers
<1>8. ASSUME Awaited(s, j, b, p) PROVE Piped(F, s, j)'
  <2>1. Awaited(s, j, b, p)'
    <3>1. cur > First => cur' > First
      BY <1>6, Slots12
    <3> QED
      BY <1>6, <1>7, <1>8, <3>1 DEF Awaited
  <2> QED
    BY <1>1, <1>13, <1>15, <2>1, PipedTurn
<1>9. ASSUME BeingRead(s, j, b, p) PROVE Piped(F, s, j)'
  <2>1. BeingRead(s, j, b, p)'
    <3>1. cur <= Second
      BY <1>6, Slots12
    <3> QED
      BY <1>6, <1>7, <1>9, <3>1 DEF BeingRead
  <2> QED
    BY <1>1, <1>13, <1>15, <2>1, PipedTurn
<1>10. ASSUME Finished(F, s, j, b, p) PROVE Piped(F, s, j)'
  <2>1. b.state = "WRITE_REQUEST_ERROR"
    BY <1>6, <1>10, Slots12 DEF Finished
  <2>2. Finished(F, s, j, b, p)'
    BY <1>6, <1>7, <1>10, <2>1 DEF Finished, IsClient
  <2> QED
    BY <1>1, <1>13, <1>15, <2>2, PipedTurn
<1>11. Reported'
  <2>1. \A i \in DOMAIN addPollFds' : addPollFds'[i].revents = {}
    BY DEF Reported
  <2> QED
    BY <2>1, ReportedTurn
<1>12. \/ Awaited(s, j, b, p) \/ BeingRead(s, j, b, p) \/ Finished(F, s, j, b, p)
  BY <1>2 DEF Piped
<1>14. Piped(F, s, j)'
  BY <1>8, <1>9, <1>10, <1>12
<1> QED
  BY <1>11, <1>14

(* The peer's turn while its script has a pipe. *)
LEMMA PipedFirst ==
  ASSUME OnePeer, SocketInv, Reported, NEW F \in Fds, NEW s \in Fds, NEW j \in Job, Piped(F, s, j),
         cur = First, Here = F, HandlerTurn, Handle, ~ServerDies
  PROVE  Reported' /\ Stage'
<1>1. /\ Turn /\ pc = "handle" /\ cur > NumPorts /\ Client = clients[F] /\ Client = Buffer(clients, F)
      /\ Client \in BufferType
  BY PipedFacts, Slots12 DEF HandlerTurn, Turn, Client
<1>2. Client.state \in {"WAIT_CGI", "WRITE_REQUEST_ERROR"}
  BY <1>1, Slots12 DEF Piped, Awaited, BeingRead, Finished
<1>3. CASE NoHandler
  <2>1. UNCHANGED <<files, conns, jobs, pollFds, addPollFds, delIndex>> /\ clients' = Touch(clients, Here)
    BY <1>3 DEF NoHandler
  <2> QED
    BY <2>1, PipedIdle DEF Stage
<1>4. CASE ExecWriteError
  <2>1. /\ Client.state = "WRITE_REQUEST_ERROR" /\ UNCHANGED <<jobs, addPollFds>> /\ SameOpen
        /\ \/ /\ UNCHANGED files
              /\ \E c : Goes(c) /\ c.state = "WRITE_REQUEST_ERROR" /\ c.isClosed = Client.isClosed
           \/ PushDelPollFd(cur, clients)
    BY <1>4, WriteErrorGoes
  <2>2. Reported'
    <3>1. \A i \in DOMAIN addPollFds' : addPollFds'[i].revents = {}
      BY <2>1 DEF Reported
    <3> QED
      BY <3>1, ReportedTurn
  <2>3. PICK b, p : b = Buffer(clients, F) /\ p = Buffer(clients, s)
    OBVIOUS
  <2>4. Finished(F, s, j, b, p) /\ ~b.isClosed /\ b.state = "WRITE_REQUEST_ERROR" /\ b.clientFd = F
        /\ p.cgiFd = -1 /\ ~p.isClosed /\ p.clientFd = F
    BY <1>1, <2>1, <2>3 DEF Piped, Awaited, BeingRead
  <2>5. CASE UNCHANGED files /\ \E c : Goes(c) /\ c.state = "WRITE_REQUEST_ERROR" /\ c.isClosed = Client.isClosed
    <3>1. PICK c : Goes(c) /\ c.state = "WRITE_REQUEST_ERROR" /\ c.isClosed = Client.isClosed
      BY <2>5
    <3>2. /\ Rewrites(clients, F, c) /\ Proceeds(b, c) /\ UNCHANGED <<addPollFds, delIndex>> /\ SameLives
      BY <1>1, <2>3, <3>1 DEF Goes
    <3>3. PlainTurn
      BY <2>1, <2>5, <3>2, SameItAll DEF PlainTurn
    <3>4. c.clientFd = F /\ c.cgiFd \in {b.cgiFd, -1} /\ ~c.isClosed /\ IsClient(F, c)'
      <4>1. c.clientFd = F /\ c.cgiFd \in {b.cgiFd, -1} /\ ~c.isClosed
        BY <1>1, <2>3, <2>4, <3>1, <3>2 DEF Proceeds
      <4>2. b.cgiFd \notin {0, F} /\ Killable(b)
        BY <2>4 DEF Finished, IsClient
      <4>3. F # -1 /\ Killable(c)
        BY <3>2, <4>2, PipedFacts DEF Proceeds
      <4>4. c.cgiFd \notin {0, F}
        BY <4>1, <4>2, <4>3
      <4> QED
        BY <3>1, <4>1, <4>3, <4>4 DEF IsClient, ClientState
    <3>5. TwoBuffers(F, s, c, p)
      <4>1. DOMAIN clients' = DOMAIN clients \cup {F, s}
        BY <3>2, PipedFacts DEF Rewrites
      <4>2. \A x : Buffer(clients', x) = IF x = F THEN c ELSE IF x = s THEN p ELSE Buffer(clients, x)
        BY <2>3, <3>2 DEF Rewrites
      <4> QED
        BY <2>4, <3>4, <4>1, <4>2 DEF TwoBuffers
    <3>6. OthersStay(j) /\ Live(j)' = Live(j)
      BY <2>1 DEF OthersStay, Live
    <3>7. Finished(F, s, j, c, p)'
      <4>1. /\ Len(pollFds') = Len(pollFds) /\ Second' = Second
            /\ \A i \in 1..Len(pollFds) : pollFds'[i].fd = pollFds[i].fd
        BY <3>3, PlainFrame DEF Piped
      <4>2. Len(pollFds) = Second /\ Second \in 1..Len(pollFds)
        BY <2>4, Slots12 DEF Finished
      <4> QED
        BY <2>4, <3>1, <3>2, <3>4, <3>6, <4>1, <4>2 DEF Finished
    <3>8. Piped(F, s, j)'
      BY <3>3, <3>5, <3>6, <3>7, PipedTurn
    <3> QED
      BY <2>2, <3>8 DEF Stage
  <2>6. CASE PushDelPollFd(cur, clients)
    <3>1. files' = Close(files, F) /\ clients' = Forget(clients, F)
      BY <2>6 DEF PushDelPollFd, Here
    <3>2. AllOpen /\ NoneLive
      BY <2>4 DEF Piped, Accepted, Finished, NoneLive
    <3>3. \A x \in Fds : files[x].kind = "conn" => x = F
      BY DEF Piped, Only, Watchable, Obj
    <3>4. \A x : x # F => Buffer(clients, x).state \notin GoneState
      <4>1. \A x : x \notin {F, s} => Buffer(clients, x) = Zeroed
        BY BlankOf DEF Piped, Only, Blank
      <4>2. Zeroed.state \notin GoneState /\ p.state \notin GoneState
        BY <2>4 DEF Zeroed, GoneState, Finished
      <4> QED
        BY <2>3, <4>1, <4>2
    <3>5. Over'
      BY <2>1, <3>1, <3>2, <3>3, <3>4, DropOver
    <3> QED
      BY <2>2, <3>5 DEF Stage
  <2> QED
    BY <2>1, <2>5, <2>6
<1>5. ~AcceptConnection
  BY <1>1, Slots12 DEF AcceptConnection
<1>6. /\ ~ExecReadRequest /\ ~ExecCoreHandler /\ ~ExecWriteResponse /\ ~ExecCgiRefused /\ ~ExecCgi
      /\ ~ExecWriteCGIBody /\ ~ExecWaitCgiChild /\ ~ExecReadCgi /\ ~ExecWriteCgi
  BY <1>2 DEF ExecReadRequest, ExecCoreHandler, ExecWriteResponse, ExecCgiRefused, ExecCgi,
       ExecWriteCGIBody, ExecWaitCgiChild, ExecReadCgi, ExecWriteCgi, OutTurn, InTurn
<1> QED
  BY <1>3, <1>4, <1>5, <1>6 DEF Handle

(* What the turn of the pipe's entry leaves of it. *)
LEMMA SecondEntry ==
  ASSUME SocketInv, NEW F \in Fds, NEW s \in Fds, NEW j \in Job, Piped(F, s, j),
         cur = Second, Here = s, Turn
  PROVE  /\ Len(pollFds) = Second /\ pollFds[Second].fd = s /\ addPollFds = <<>> /\ delIndex = <<>>
         /\ Second \in 1..Len(pollFds) /\ Second \in DOMAIN pollFds /\ cur > NumPorts /\ pc = "handle"
         /\ \A ev : SetEvents(pollFds, cur, ev)[Second].events = ev
<1>1. cur \in 1..Len(pollFds) /\ pc = "handle"
  BY AtHand DEF Turn
<1>2. /\ DOMAIN pollFds = 1..Len(pollFds) /\ Len(pollFds) \in {First, Second} /\ Len(pollFds) \in Nat
  BY PipedFacts
<1>3. Len(pollFds) = Second
  <2>1. Len(pollFds) = First \/ Len(pollFds) = Second
    BY <1>2
  <2> QED
    BY <1>1, <2>1, Slots12
<1>4. pollFds[cur] \in EntryType
  BY AtHand
<1>5. \A ev : SetEvents(pollFds, cur, ev)[Second].events = ev
  BY <1>1, <1>2, <1>4 DEF SetEvents, EntryType
<1>6. pollFds[Second].fd = s /\ addPollFds = <<>>
  BY <1>3, Slots12 DEF Piped, Awaited, BeingRead, Finished
<1> QED
  BY <1>1, <1>2, <1>3, <1>5, <1>6, Slots12 DEF Piped

(* The pipe's turn while the script's end is waited for. *)
LEMMA ScriptAwaited ==
  ASSUME SocketInv, Reported, NEW F \in Fds, NEW s \in Fds, NEW j \in Job, Piped(F, s, j),
         cur = Second, Here = s, HandlerTurn, ExecWaitCgiChild
  PROVE  Reported' /\ Stage'
<1>1. /\ Turn /\ Len(pollFds) = Second /\ Second \in 1..Len(pollFds) /\ pollFds[Second].fd = s
      /\ addPollFds = <<>> /\ delIndex = <<>> /\ \A ev : SetEvents(pollFds, cur, ev)[Second].events = ev
  BY SecondEntry DEF HandlerTurn
<1>2. /\ F # s /\ F \in DOMAIN clients /\ s \in DOMAIN clients /\ Client = clients[s]
      /\ clients[F] = Buffer(clients, F) /\ clients[s] = Buffer(clients, s)
      /\ clients[F] \in BufferType /\ clients[s] \in BufferType /\ s # 0 /\ s # -1
  BY PipedFacts DEF Client, Buffer
<1>3. PICK b, p : b = clients[F] /\ p = clients[s]
  OBVIOUS
<1>4. Client.state = "WAIT_CGI_CHILD"
  BY DEF ExecWaitCgiChild, InTurn
<1>5. /\ Awaited(s, j, b, p) /\ p.cgiFd = -1 /\ ~p.isClosed /\ p.clientFd = F
      /\ b.clientFd = F /\ ~b.isClosed
  BY <1>2, <1>3, <1>4 DEF Piped, BeingRead, Finished
<1>6. /\ p.cgiPid = j /\ b.state = "WAIT_CGI" /\ b.cgiPid = j /\ b.cgiFd = s /\ p.out = 0
      /\ AsksScript(b) /\ Named(Client.cgiPid) = {j}
  BY <1>2, <1>3, <1>5 DEF Awaited, Named
<1>7. UNCHANGED <<files, conns, addPollFds, delIndex>>
  BY DEF ExecWaitCgiChild
<1>8. PlainTurn
  BY <1>7, SameItAll DEF PlainTurn
<1>9. Reported'
  <2>1. \A i \in DOMAIN addPollFds' : addPollFds'[i].revents = {}
    BY <1>7 DEF Reported
  <2> QED
    BY <2>1, ReportedTurn
<1>10. /\ Len(pollFds') = Len(pollFds) /\ Second' = Second /\ pollFds'[Second].fd = s
       /\ cur' > Second /\ pc' = "handle" /\ cur' \in Nat /\ Second \in Nat
  BY <1>1, <1>8, PlainFrame, Slots12 DEF Piped
<1>13. \/ /\ jobs[j].st = "done" /\ jobs' = [jobs EXCEPT ![j].st = "reaped"]
          /\ \/ Becomes([Client EXCEPT !.state = "READ_CGI"], "IN")
             \/ /\ LET told == [clients EXCEPT ![F].state = "WRITE_REQUEST_ERROR",
                                               ![F].response = Answer(jobs[j].http, "error")]
                   IN clients' = [told EXCEPT ![s].state = "WAIT_CGI"]
                /\ UNCHANGED pollFds
       \/ UNCHANGED <<clients, pollFds, jobs>>
  <2>1. Client.clientFd = F /\ F \in DOMAIN clients /\ Here = s
    BY <1>2, <1>3, <1>5
  <2>2. \A i \in Ended(Client.cgiPid) : i = j /\ jobs[i].st = "done"
    BY <1>6 DEF Ended
  <2> QED
    BY <2>1, <2>2 DEF ExecWaitCgiChild
<1>11. CASE /\ jobs[j].st = "done" /\ jobs' = [jobs EXCEPT ![j].st = "reaped"]
            /\ \/ Becomes([Client EXCEPT !.state = "READ_CGI"], "IN")
               \/ /\ LET told == [clients EXCEPT ![F].state = "WRITE_REQUEST_ERROR",
                                                 ![F].response = Answer(jobs[j].http, "error")]
                     IN clients' = [told EXCEPT ![s].state = "WAIT_CGI"]
                  /\ UNCHANGED pollFds
  <2>1. /\ jobs'[j].st = "reaped" /\ jobs'[j].http = jobs[j].http
        /\ \A i \in Job \ {j} : jobs'[i] = jobs[i]
    <3>1. jobs \in [Job -> JobType] /\ jobs[j] \in JobType
      BY TypesOfState
    <3> QED
      BY <1>11, <3>1 DEF JobType
  <2>2. OthersStay(j) /\ ~Live(j)'
    BY <2>1 DEF OthersStay, Live
  <2>3. CASE Becomes([Client EXCEPT !.state = "READ_CGI"], "IN")
    <3>1. PICK q : q = [p EXCEPT !.state = "READ_CGI"]
      OBVIOUS
    <3>2. /\ q.state = "READ_CGI" /\ q.out = 0 /\ q.cgiFd = -1 /\ ~q.isClosed /\ q.clientFd = F
      BY <1>2, <1>3, <1>5, <1>6, <3>1 DEF BufferType
    <3>3. clients' = Put(clients, s, q) /\ pollFds'[Second].events = "IN"
      BY <1>1, <1>2, <1>3, <2>3, <3>1 DEF Becomes
    <3>4. Rewrites(clients, s, q)
      BY <3>3, PutRewrites
    <3>5. TwoBuffers(F, s, b, q)
      BY <1>2, <1>3, <1>5, <3>2, <3>4 DEF TwoBuffers, Rewrites
    <3>6. BeingRead(s, j, b, q)'
      BY <1>1, <1>6, <1>7, <1>10, <2>1, <3>2, <3>3 DEF BeingRead
    <3>7. Piped(F, s, j)'
      BY <1>8, <2>2, <3>5, <3>6, PipedTurn
    <3> QED
      BY <1>9, <3>7 DEF Stage
  <2>4. CASE /\ UNCHANGED pollFds
             /\ LET told == [clients EXCEPT ![F].state = "WRITE_REQUEST_ERROR",
                                            ![F].response = Answer(jobs[j].http, "error")]
                IN clients' = [told EXCEPT ![s].state = "WAIT_CGI"]
    <3>1. PICK c, q : /\ c = [b EXCEPT !.state = "WRITE_REQUEST_ERROR", !.response = Answer(jobs[j].http, "error")]
                      /\ q = [p EXCEPT !.state = "WAIT_CGI"]
      OBVIOUS
    <3>2. /\ c.state = "WRITE_REQUEST_ERROR" /\ c.clientFd = F /\ ~c.isClosed /\ c.cgiFd = s /\ c.cgiPid = j
          /\ q.state = "WAIT_CGI" /\ q.cgiFd = -1 /\ ~q.isClosed /\ q.clientFd = F
      BY <1>2, <1>3, <1>5, <1>6, <3>1 DEF BufferType
    <3>3. /\ DOMAIN clients' = DOMAIN clients /\ clients'[F] = c /\ clients'[s] = q
          /\ \A x \in DOMAIN clients : x # F /\ x # s => clients'[x] = clients[x]
      <4> DEFINE told == [clients EXCEPT ![F].state = "WRITE_REQUEST_ERROR",
                                         ![F].response = Answer(jobs[j].http, "error")]
      <4>1. told = [clients EXCEPT ![F] = c]
        BY <1>2, <1>3, <3>1
      <4>2. DOMAIN told = DOMAIN clients /\ told[F] = c /\ \A x \in DOMAIN clients : x # F => told[x] = clients[x]
        BY <1>2, <4>1
      <4>3. clients' = [told EXCEPT ![s].state = "WAIT_CGI"]
        BY <2>4
      <4> HIDE DEF told
      <4>4. clients' = [told EXCEPT ![s] = q]
        BY <1>2, <1>3, <3>1, <4>2, <4>3
      <4> QED
        BY <1>2, <4>2, <4>4
    <3>4. TwoBuffers(F, s, c, q)
      BY <1>2, <1>5, <3>2, <3>3 DEF TwoBuffers, Buffer
    <3>5. IsClient(F, c)'
      BY <1>2, <3>2 DEF IsClient, Killable, ClientState
    <3>6. Finished(F, s, j, c, q)'
      BY <1>1, <1>7, <1>10, <2>2, <3>2, <3>5 DEF Finished
    <3>7. Piped(F, s, j)'
      BY <1>8, <2>2, <3>4, <3>6, PipedTurn
    <3> QED
      BY <1>9, <3>7 DEF Stage
  <2> QED
    BY <1>11, <2>3, <2>4
<1>12. CASE UNCHANGED <<clients, pollFds, jobs>>
  BY <1>7, <1>12, PipedIdle DEF Stage
<1> QED
  BY <1>11, <1>12, <1>13

(* The pipe's turn when the script's output ends: the answer is made, or its
   redirect is parsed as the peer's next request. *)
LEMMA OutputEnds ==
  ASSUME OnePeer, SocketInv, Reported, NEW F \in Fds, NEW s \in Fds, NEW j \in Job, Piped(F, s, j),
         cur = Second, Here = s, HandlerTurn, NEW b, NEW p, b = clients[F], p = clients[s],
         BeingRead(s, j, b, p), p.out # 0, UNCHANGED <<conns, delIndex>>,
         NEW cl, NEW q, NEW c, NEW pf,
         q = [p EXCEPT !.state = "WAIT_CGI"], c = [b EXCEPT !.last = now],
         cl = [Put(clients, s, q) EXCEPT ![F] = c], pf = SetEvents(pollFds, cur, "none"),
         ParseCgiResponse(cl, pf, F)
  PROVE  Reported' /\ Stage'
<1>1. /\ Turn /\ Len(pollFds) = Second /\ Second \in 1..Len(pollFds) /\ pollFds[Second].fd = s
      /\ addPollFds = <<>> /\ delIndex = <<>>
  BY SecondEntry DEF HandlerTurn
<1>2. /\ F # s /\ F \in DOMAIN clients /\ s \in DOMAIN clients /\ Client = p
      /\ b \in BufferType /\ p \in BufferType /\ s # 0 /\ s # -1 /\ F # -1
      /\ files[0].kind = "std" /\ pollFds[First].fd = F /\ First \in 1..Len(pollFds)
      /\ DOMAIN pollFds = 1..Len(pollFds) /\ Len(pollFds) \in Nat
  BY PipedFacts DEF Client, Buffer
<1>3. /\ p.cgiFd = -1 /\ ~p.isClosed /\ p.clientFd = F /\ b.clientFd = F /\ ~b.isClosed
      /\ jobs[j].http.conn \in Conn
  BY <1>2 DEF Piped, Buffer
<1>4. /\ jobs[j].st = "reaped" /\ p.out = j /\ b.cgiPid = j /\ b.cgiFd = s
      /\ "HUP" \in pollFds[Second].revents /\ b.http.kind \in {"get", "nocgi"}
  BY <1>1 DEF BeingRead, AsksScript, Turn
<1>5. /\ q.state = "WAIT_CGI" /\ q.cgiFd = -1 /\ ~q.isClosed /\ q.clientFd = F
      /\ c.clientFd = F /\ ~c.isClosed /\ c.cgiPid = j /\ c.cgiFd = s /\ c.redirects = b.redirects
      /\ c.http = b.http /\ c \in BufferType
  BY <1>2, <1>3, <1>4, TypesOfState DEF BufferType
<1>6. /\ DOMAIN cl = DOMAIN clients /\ cl[F] = c
      /\ \A x : Buffer(cl, x) = IF x = F THEN c ELSE IF x = s THEN q ELSE Buffer(clients, x)
  <2> DEFINE put == Put(clients, s, q)
  <2>1. DOMAIN put = DOMAIN clients /\ \A x \in DOMAIN clients : put[x] = IF x = s THEN q ELSE clients[x]
    BY <1>2 DEF Put
  <2> HIDE DEF put
  <2>2. DOMAIN cl = DOMAIN clients /\ \A x \in DOMAIN clients : cl[x] = IF x = F THEN c ELSE put[x]
    BY <2>1 DEF put
  <2> QED
    BY <1>2, <2>1, <2>2 DEF Buffer
(* Whatever the answer is, it is the peer's. *)
<1>7. ASSUME UNCHANGED addPollFds, SameWatched, SameLives, NEW d, Rewrites(cl, F, d),
             d.clientFd = F, ~d.isClosed, IsClient(F, d)'
      PROVE  Reported' /\ Stage'
  <2>1. PlainTurn
    BY <1>7, SameItAll DEF PlainTurn
  <2>2. Reported'
    <3>1. \A i \in DOMAIN addPollFds' : addPollFds'[i].revents = {}
      BY <1>7 DEF Reported
    <3> QED
      BY <3>1, ReportedTurn
  <2>3. OthersStay(j) /\ ~Live(j)'
    BY <1>4, <1>7 DEF OthersStay, SameLives, Live
  <2>4. TwoBuffers(F, s, d, q)
    <3>1. DOMAIN clients' = DOMAIN clients \cup {F, s}
      BY <1>2, <1>6, <1>7 DEF Rewrites
    <3>2. \A x : Buffer(clients', x) = IF x = F THEN d ELSE Buffer(cl, x)
      BY <1>7 DEF Rewrites
    <3>3. \A x : Buffer(clients', x) = IF x = F THEN d ELSE IF x = s THEN q ELSE Buffer(clients, x)
      BY <1>6, <3>2
    <3> QED
      BY <1>5, <1>7, <3>1, <3>3 DEF TwoBuffers
  <2>5. /\ Len(pollFds') = Len(pollFds) /\ Second' = Second /\ pollFds'[Second].fd = s
        /\ pollFds'[Second].revents = pollFds[Second].revents
        /\ cur' > Second /\ pc' = "handle"
    BY <1>1, <2>1, PlainFrame DEF Piped
  <2>6. Finished(F, s, j, d, q)'
    BY <1>1, <1>4, <1>5, <1>7, <2>3, <2>5 DEF Finished
  <2>7. Piped(F, s, j)'
    BY <2>1, <2>3, <2>4, <2>6, PipedTurn
  <2> QED
    BY <2>2, <2>7 DEF Stage
<1>8. CASE /\ UNCHANGED <<files, jobs, addPollFds>>
           /\ \E d : /\ clients' = Put(cl, F, d) /\ d.clientFd = F /\ ~d.isClosed
                     /\ d.cgiFd = s /\ d.cgiPid = j /\ d.state \in {"WRITE_CGI", "WRITE_REQUEST_ERROR"}
  <2>1. PICK d : /\ clients' = Put(cl, F, d) /\ d.clientFd = F /\ ~d.isClosed
                 /\ d.cgiFd = s /\ d.cgiPid = j /\ d.state \in {"WRITE_CGI", "WRITE_REQUEST_ERROR"}
    BY <1>8
  <2>2. Rewrites(cl, F, d)
    BY <2>1, PutRewrites
  <2>3. IsClient(F, d)'
    BY <1>2, <2>1 DEF IsClient, Killable, ClientState
  <2> QED
    BY <1>7, <1>8, <2>1, <2>2, <2>3, SameItAll
<1>9. CASE jobs[j].out = "doc"
  <2>1. UNCHANGED <<files, jobs, addPollFds>>
        /\ clients' = Put(cl, F, [c EXCEPT !.state = "WRITE_CGI", !.response = Answer(jobs[j].http, "doc")])
    BY <1>2, <1>4, <1>6, <1>9 DEF ParseCgiResponse
  <2>2. PICK d : d = [c EXCEPT !.state = "WRITE_CGI", !.response = Answer(jobs[j].http, "doc")]
    OBVIOUS
  <2>3. d.clientFd = F /\ ~d.isClosed /\ d.cgiFd = s /\ d.cgiPid = j /\ d.state = "WRITE_CGI"
    BY <1>5, <2>2 DEF BufferType
  <2> QED
    BY <1>8, <2>1, <2>2, <2>3
<1>10. CASE jobs[j].out \in {"local", "loop"} /\ b.redirects >= MAX_LOCAL_REDIRECT_COUNT
  <2>1. UNCHANGED <<files, jobs, addPollFds>>
        /\ clients' = Put(cl, F, [c EXCEPT !.redirects = @ + 1, !.state = "WRITE_REQUEST_ERROR",
                                           !.response = Answer(jobs[j].http, "error")])
    <3>1. /\ ~(c.redirects < MAX_LOCAL_REDIRECT_COUNT) /\ jobs[j].out # "doc"
          /\ jobs[Client.out] = jobs[j] /\ cl[F] = c
      BY <1>2, <1>4, <1>5, <1>6, <1>10, BoundsAssumption DEF BufferType
    <3> QED
      BY ZenonT(60), <3>1 DEF ParseCgiResponse
  <2>2. PICK d : d = [c EXCEPT !.redirects = @ + 1, !.state = "WRITE_REQUEST_ERROR",
                               !.response = Answer(jobs[j].http, "error")]
    OBVIOUS
  <2>3. d.clientFd = F /\ ~d.isClosed /\ d.cgiFd = s /\ d.cgiPid = j /\ d.state = "WRITE_REQUEST_ERROR"
    BY <1>5, <2>2 DEF BufferType
  <2> QED
    BY <1>8, <2>1, <2>2, <2>3
<1>11. CASE jobs[j].out \in {"local", "loop"} /\ b.redirects < MAX_LOCAL_REDIRECT_COUNT
  <2> DEFINE slot == { i \in 1..NumPorts + numClients : pf[i].fd = F }
             reset == Put(cl, F, Redirected(c))
             k == Min(slot)
  <2>15. ~(c.redirects >= MAX_LOCAL_REDIRECT_COUNT) /\ c.redirects + 1 \in Nat
    <3>1. c.redirects \in Nat /\ c.redirects < MAX_LOCAL_REDIRECT_COUNT
      BY <1>5, <1>11 DEF BufferType
    <3> QED
      BY <3>1, BoundsAssumption
  <2>1. First \in slot /\ slot \in SUBSET Nat
    <3>1. Len(pollFds) = NumPorts + numClients
      BY DEF SocketInv, VectorsOK
    <3>2. pf[First].fd = F
      <4>1. pf[First] = pollFds[First]
        BY <1>2, Slots12 DEF SetEvents
      <4> QED
        BY <1>2, <4>1
    <3> QED
      BY <1>2, <3>1, <3>2
  <2>2. k \in slot
    BY <2>1, MinIsMember
  <2>3. pf[k].fd = F
    BY <2>2
  <2>4. \E kind \in RedirectKinds(b.http.kind, jobs[j].out) :
          ExecParseRequest(Touch(reset, F), SetEvents(pf, k, "OUT"), jobs, k,
                           [jobs[j].http EXCEPT !.kind = kind, !.close = FALSE])
    <3>1. /\ slot # {} /\ jobs[Client.out] = jobs[j] /\ c.clientFd = F /\ jobs[j].out # "doc"
          /\ ~(c.redirects >= MAX_LOCAL_REDIRECT_COUNT) /\ c.http = b.http
      BY <1>2, <1>4, <1>5, <1>11, <2>1, <2>15
    <3>2. cl[F] = c
      BY <1>6
    <3> QED
      BY ZenonT(60), <3>1, <3>2 DEF ParseCgiResponse
  <2>16. PICK kind \in {"static", "get"} :
           ExecParseRequest(Touch(reset, F), SetEvents(pf, k, "OUT"), jobs, k,
                            [jobs[j].http EXCEPT !.kind = kind, !.close = FALSE])
    <3>1. RedirectKinds(b.http.kind, jobs[j].out) \subseteq {"static", "get"}
      BY <1>4 DEF RedirectKinds
    <3> QED
      BY <2>4, <3>1
  <2> DEFINE next == [jobs[j].http EXCEPT !.kind = kind, !.close = FALSE]
  <2>5. PICK r : r = Redirected(c)
    OBVIOUS
  <2>6. /\ r.clientFd = F /\ ~r.isClosed /\ r.cgiFd = -1 /\ r.cgiPid = -1 /\ r \in BufferType
    <3>1. c.redirects + 1 \in Nat
      BY <2>15
    <3>2. [c.http EXCEPT !.close = FALSE] \in HttpType
      BY <1>5 DEF BufferType, HttpType
    <3>3. Nothing \in ResponseType
      BY BaseTypes
    <3> QED
      BY ZenonT(60), <1>5, <2>5, <3>1, <3>2, <3>3 DEF Redirected, BufferType
  <2>7. /\ next \in HttpType /\ next.kind \in {"static", "get"} /\ next.conn \in Conn
    <3>1. jobs[j].http \in HttpType
      BY TypesOfState DEF JobType
    <3> QED
      BY <1>3, <3>1 DEF HttpType
  <2> DEFINE tl == Touch(reset, F)
  <2>8. /\ tl[F] = r /\ DOMAIN tl = DOMAIN clients
        /\ \A x : Buffer(tl, x) = IF x = F THEN r ELSE Buffer(cl, x)
    <3>1. DOMAIN tl = DOMAIN clients
      <4>2. DOMAIN Put(cl, F, Redirected(c)) = DOMAIN cl \cup {F}
        BY DEF Put
      <4>3. DOMAIN Touch(reset, F) = DOMAIN reset \cup {F}
        BY DEF Touch, Put
      <4>4. F \in DOMAIN clients /\ DOMAIN cl = DOMAIN clients
        BY <1>2, <1>6
      <4>5. DOMAIN reset = DOMAIN clients
        BY <4>2, <4>4
      <4> HIDE DEF reset
      <4> QED
        BY <4>3, <4>4, <4>5
    <3>2. \A x : Buffer(tl, x) = IF x = F THEN r ELSE Buffer(cl, x)
      <4>1. /\ \A cm, fd, d, x : Buffer(Put(cm, fd, d), x) = IF x = fd THEN d ELSE Buffer(cm, x)
            /\ \A cm, fd, x : Buffer(Touch(cm, fd), x) = Buffer(cm, x)
        BY BufferOf
      <4> QED
        BY <2>5, <4>1
    <3>3. tl[F] = Buffer(tl, F)
      BY <1>2, <3>1 DEF Buffer
    <3> QED
      BY <3>1, <3>2, <3>3
  <2>9. SameProcesses(jobs) /\ jobs \in [Job -> JobType]
    BY TypesOfState DEF SameProcesses
  <2>10. SetEvents(pf, k, "OUT")[k].fd = F
    <3>1. pf[k] = [fd |-> pf[k].fd, events |-> pf[k].events, revents |-> pf[k].revents] /\ k \in DOMAIN pf
      <4>1. SameEntries(pollFds, pf)
        BY <1>1, SecondEntry, EventsAtHand
      <4>2. pf \in Seq(EntryType) /\ Len(pf) = Len(pollFds) /\ DOMAIN pf = 1..Len(pf)
        BY <4>1, LenProperties DEF SameEntries
      <4>3. k \in 1..Len(pollFds)
        BY <2>2 DEF SocketInv, VectorsOK
      <4>4. k \in DOMAIN pf /\ pf[k] \in EntryType
        BY <4>2, <4>3
      <4> QED
        BY <4>4 DEF EntryType
    <3> QED
      BY <2>3, <3>1 DEF SetEvents
  <2> HIDE DEF next, slot, reset, k, tl
  <2>11. /\ UNCHANGED addPollFds /\ SameWatched /\ SameLives
         /\ \E d : /\ Rewrites(tl, F, d) /\ Parsed(tl[F], d)
                   /\ d.state = "READ_REQUEST" => next.kind = "unfinished"
    <3>1. ExecParseRequest(tl, SetEvents(pf, k, "OUT"), jobs, k, next)
      BY <2>16 DEF tl, next
    <3> QED
      BY <1>2, <2>6, <2>7, <2>8, <2>9, <2>10, <3>1, ParseOne
  <2>12. PICK d : /\ Rewrites(tl, F, d) /\ Parsed(r, d)
                  /\ d.state = "READ_REQUEST" => next.kind = "unfinished"
    BY <2>8, <2>11
  <2>13. Rewrites(cl, F, d)
    BY ZenonT(60), <1>2, <1>6, <2>8, <2>12 DEF Rewrites
  <2>14. d.clientFd = F /\ ~d.isClosed /\ IsClient(F, d)'
    <3>1. d.clientFd = F /\ ~d.isClosed /\ d.cgiFd = -1 /\ ~(-1 > 0) /\ -1 # 0
      BY <2>6, <2>12 DEF Parsed
    <3> QED
      BY <1>2, <2>12, <3>1 DEF Parsed, IsClient, Killable, ClientState
  <2> QED
    BY <1>7, <2>11, <2>13, <2>14
<1> QED
  BY <1>2, <1>4, <1>5, <1>6, <1>9, <1>10, <1>11 DEF ParseCgiResponse

(* The pipe's turn while the script's output is read. *)
LEMMA ScriptRead ==
  ASSUME OnePeer, SocketInv, Reported, NEW F \in Fds, NEW s \in Fds, NEW j \in Job, Piped(F, s, j),
         cur = Second, Here = s, HandlerTurn, ExecReadCgi
  PROVE  Reported' /\ Stage'
<1>1. /\ Turn /\ Len(pollFds) = Second /\ Second \in 1..Len(pollFds) /\ pollFds[Second].fd = s
      /\ addPollFds = <<>> /\ delIndex = <<>> /\ \A ev : SetEvents(pollFds, cur, ev)[Second].events = ev
  BY SecondEntry DEF HandlerTurn
<1>2. /\ F # s /\ F \in DOMAIN clients /\ s \in DOMAIN clients /\ Client = clients[s]
      /\ clients[F] = Buffer(clients, F) /\ clients[s] = Buffer(clients, s)
      /\ clients[F] \in BufferType /\ clients[s] \in BufferType
      /\ files[s] = Obj("out", j)
  BY PipedFacts DEF Client, Buffer
<1>3. PICK b, p : b = clients[F] /\ p = clients[s]
  OBVIOUS
<1>4. Client.state = "READ_CGI"
  BY DEF ExecReadCgi, InTurn
<1>5. /\ BeingRead(s, j, b, p) /\ p.cgiFd = -1 /\ ~p.isClosed /\ p.clientFd = F
      /\ b.clientFd = F /\ ~b.isClosed
  BY <1>2, <1>3, <1>4 DEF Piped, Awaited, Finished
<1>6. UNCHANGED <<conns, delIndex>>
  BY DEF ExecReadCgi
<1>7. /\ jobs[j].st = "reaped" /\ files[s].kind = "out" /\ files[s].id = j
      /\ HasOutput(files[s]) \/ AtEndOfOutput(files[s])
  BY <1>2, <1>5 DEF BeingRead, Obj, HasOutput, AtEndOfOutput
<1>8. Client.clientFd = F /\ Client = p
  BY <1>2, <1>3, <1>5
<1>9. CASE /\ jobs' = [jobs EXCEPT ![j].read = TRUE]
           /\ LET cl == Put(clients, s, [p EXCEPT !.out = j])
              IN clients' = [cl EXCEPT ![F].last = now]
           /\ pollFds' = SetEvents(pollFds, cur, "IN")
           /\ UNCHANGED <<files, addPollFds>>
  <2>1. PICK q, c : q = [p EXCEPT !.out = j] /\ c = [b EXCEPT !.last = now]
    OBVIOUS
  <2>2. /\ q.state = p.state /\ q.out = j /\ q.cgiFd = -1 /\ ~q.isClosed /\ q.clientFd = F
        /\ c.state = b.state /\ c.clientFd = F /\ ~c.isClosed /\ c.cgiPid = b.cgiPid /\ c.cgiFd = b.cgiFd
        /\ c.http = b.http
    BY <1>2, <1>3, <1>5, <2>1 DEF BufferType
  <2>3. /\ DOMAIN clients' = DOMAIN clients /\ clients'[F] = c /\ clients'[s] = q
        /\ \A x \in DOMAIN clients : x # F /\ x # s => clients'[x] = clients[x]
    <3> DEFINE cl == Put(clients, s, q)
    <3>1. DOMAIN cl = DOMAIN clients /\ \A x \in DOMAIN clients : cl[x] = IF x = s THEN q ELSE clients[x]
      BY <1>2 DEF Put
    <3>2. clients' = [cl EXCEPT ![F].last = now]
      BY <1>9, <2>1
    <3> HIDE DEF cl
    <3>3. clients' = [cl EXCEPT ![F] = c]
      BY <1>2, <1>3, <2>1, <3>1, <3>2
    <3> QED
      BY <1>2, <3>1, <3>3
  <2>4. TwoBuffers(F, s, c, q)
    BY <1>2, <2>2, <2>3 DEF TwoBuffers, Buffer
  <2>5. /\ jobs'[j].st = "reaped" /\ jobs'[j].http = jobs[j].http
        /\ \A i \in Job \ {j} : jobs'[i] = jobs[i]
    <3>1. jobs \in [Job -> JobType] /\ jobs[j] \in JobType
      BY TypesOfState
    <3> QED
      BY <1>7, <1>9, <3>1 DEF JobType
  <2>6. OthersStay(j)
    BY <2>5 DEF OthersStay, Live
  <2>7. PlainTurn
    BY <1>6, <1>9, SameItAll DEF PlainTurn
  <2>8. Reported'
    <3>1. \A i \in DOMAIN addPollFds' : addPollFds'[i].revents = {}
      BY <1>9 DEF Reported
    <3> QED
      BY <3>1, ReportedTurn
  <2>9. /\ Len(pollFds') = Len(pollFds) /\ Second' = Second /\ pollFds'[Second].fd = s
        /\ cur' > Second /\ ~(cur' <= Second) /\ pc' = "handle"
    <3>1. /\ Len(pollFds') = Len(pollFds) /\ Second' = Second /\ pollFds'[Second].fd = s
          /\ cur' > Second /\ pc' = "handle" /\ cur' \in Nat
      BY <1>1, <2>7, PlainFrame DEF Piped
    <3> QED
      BY <3>1, Slots12
  <2>10. BeingRead(s, j, c, q)'
    BY <1>1, <1>5, <1>9, <2>2, <2>5, <2>9 DEF BeingRead, AsksScript
  <2>11. Piped(F, s, j)'
    BY <2>4, <2>6, <2>7, <2>10, PipedTurn
  <2> QED
    BY <2>8, <2>11 DEF Stage
<1>10. CASE /\ p.out # 0
            /\ LET cl == Put(clients, s, [p EXCEPT !.state = "WAIT_CGI"])
               IN ParseCgiResponse([cl EXCEPT ![F].last = now], SetEvents(pollFds, cur, "none"), F)
  <2>1. PICK q, c : q = [p EXCEPT !.state = "WAIT_CGI"] /\ c = [b EXCEPT !.last = now]
    OBVIOUS
  <2>2. [Put(clients, s, q) EXCEPT ![F].last = now] = [Put(clients, s, q) EXCEPT ![F] = c]
    <3> DEFINE cl == Put(clients, s, q)
    <3>1. cl[F] = b
      BY <1>2, <1>3 DEF Put
    <3> HIDE DEF cl
    <3> QED
      BY <2>1, <3>1 DEF cl
  <2>3. ParseCgiResponse([Put(clients, s, q) EXCEPT ![F] = c], SetEvents(pollFds, cur, "none"), F)
    BY <1>10, <2>1, <2>2
  <2> QED
    BY <1>3, <1>5, <1>6, <1>10, <2>1, <2>3, OutputEnds
<1> QED
  BY <1>2, <1>3, <1>7, <1>8, <1>9, <1>10 DEF ExecReadCgi

(* The turn of the pipe's entry. *)
LEMMA PipedSecond ==
  ASSUME OnePeer, SocketInv, Reported, NEW F \in Fds, NEW s \in Fds, NEW j \in Job, Piped(F, s, j),
         cur = Second, Here = s, HandlerTurn, Handle, ~ServerDies
  PROVE  Reported' /\ Stage'
<1>1. /\ Turn /\ cur > NumPorts /\ Client = Buffer(clients, s)
  BY SecondEntry DEF HandlerTurn, Client
<1>2. Client.state \in {"WAIT_CGI_CHILD", "READ_CGI", "WAIT_CGI"}
  BY <1>1 DEF Piped, Awaited, BeingRead, Finished
<1>3. CASE NoHandler
  <2>1. UNCHANGED <<files, conns, jobs, pollFds, addPollFds, delIndex>> /\ clients' = Touch(clients, Here)
    BY <1>3 DEF NoHandler
  <2> QED
    BY <2>1, PipedIdle DEF Stage
<1>4. ~AcceptConnection
  BY <1>1, Slots12 DEF AcceptConnection
<1>5. /\ ~ExecReadRequest /\ ~ExecCoreHandler /\ ~ExecWriteResponse /\ ~ExecCgiRefused /\ ~ExecCgi
      /\ ~ExecWriteCGIBody /\ ~ExecWriteError /\ ~ExecWriteCgi
  BY <1>2 DEF ExecReadRequest, ExecCoreHandler, ExecWriteResponse, ExecCgiRefused, ExecCgi,
       ExecWriteCGIBody, ExecWriteError, ExecWriteCgi, OutTurn, InTurn
<1> QED
  BY <1>3, <1>4, <1>5, ScriptAwaited, ScriptRead DEF Handle

(* Every handler keeps the stage. *)
LEMMA HandleStage ==
  ASSUME OnePeer, SocketInv, Reported, Stage, Handle, ~ServerDies
  PROVE  Reported' /\ Stage'
<1>1. HandlerTurn
  BY HandleTurn
<1>2. CASE AcceptConnection
  BY <1>1, <1>2, AcceptOne
<1>3. CASE ~AcceptConnection
  <2>1. Turn /\ cur > NumPorts
    <3>1. Turn
      BY <1>1 DEF HandlerTurn
    <3>2. cur > NumPorts \/ "OUT" \in pollFds[cur].revents
      BY <1>3 DEF Handle, ExecReadRequest, ExecCoreHandler, ExecWriteResponse, ExecCgiRefused,
           ExecCgi, ExecWriteCGIBody, ExecWriteError, ExecWaitCgiChild, ExecReadCgi, ExecWriteCgi,
           NoHandler, OutTurn, InTurn
    <3> QED
      BY <3>1, <3>2, AtHand
  <2>2. CASE Over
    BY <1>1, <2>1, <2>2, OverHandled
  <2>3. ASSUME NEW F \in Fds, Alone(F), cur = First, Here = F, Len(pollFds) = First
        PROVE  Reported' /\ Stage'
    BY <1>1, <2>3, AloneHandled
  <2>4. ASSUME NEW F \in Fds, NEW s \in Fds, NEW j \in Job, Piped(F, s, j),
               (cur = First /\ Here = F) \/ (cur = Second /\ Here = s)
        PROVE  Reported' /\ Stage'
    BY <1>1, <2>4, PipedFirst, PipedSecond
  <2> QED
    BY <2>1, <2>2, <2>3, <2>4, WhoseTurn
<1> QED
  BY <1>2, <1>3

-----------------------------------------------------------------------------
(* The rest of a pass *)

LEMMA NeverBoth ==
  ASSUME NEW e
  PROVE  ~("OUT" \in Reports(e) /\ "HUP" \in Reports(e))
BY DEF Reports

(* A script that has ended is reported as such. *)
LEMMA EndIsReported ==
  ASSUME NEW e, e.fd \in Fds, NEW j, files[e.fd] = Obj("out", j), e.events = "IN",
         jobs[j].st = "reaped"
  PROVE  "HUP" \in Reports(e)
BY DEF Reports, Obj

LEMMA PollStage ==
  ASSUME SocketInv, Reported, Stage, Poll
  PROVE  Reported' /\ Stage'
<1>1. /\ pc = "poll" /\ pc' = "handle" /\ UNCHANGED <<kernel, up, vectors, clients>>
  BY DEF Poll
<1> USE DEF kernel, vectors
<1>2. /\ Len(pollFds') = Len(pollFds) /\ DOMAIN pollFds' = DOMAIN pollFds /\ Len(pollFds) \in Nat
      /\ DOMAIN pollFds = 1..Len(pollFds)
      /\ \A i \in 1..Len(pollFds) : /\ pollFds'[i].fd = pollFds[i].fd
                                    /\ pollFds'[i].events = pollFds[i].events
                                    /\ pollFds'[i].revents = Reports(pollFds[i])
  <2>1. /\ DOMAIN pollFds = 1..Len(pollFds) /\ Len(pollFds) \in Nat /\ Len(pollFds) = NumPorts + numClients
        /\ \A i \in 1..Len(pollFds) : pollFds[i] \in EntryType
    <3>1. pollFds \in Seq(EntryType) /\ Len(pollFds) = NumPorts + numClients
      BY TypesOfState DEF SocketInv, VectorsOK
    <3> QED
      BY <3>1, LenProperties
  <2>2. pollFds' = [i \in 1..Len(pollFds) |-> [pollFds[i] EXCEPT !.revents = Reports(pollFds[i])]]
    BY <2>1 DEF Poll
  <2>3. DOMAIN pollFds' = 1..Len(pollFds)
    BY <2>2
  <2>4. pollFds' \in Seq(EntryType)
    <3>1. TypeOK'
      BY NextKeeps DEF Next, Server, SocketInv
    <3> QED
      BY <3>1 DEF TypeOK
  <2>5. Len(pollFds') = Len(pollFds)
    BY <2>1, <2>3, <2>4, LenProperties
  <2> QED
    BY <2>1, <2>2, <2>3, <2>5 DEF EntryType
<1>3. Reported'
  BY <1>1, <1>2, NeverBoth DEF Reported
<1>4. First' = First /\ Second' = Second
  BY DEF First, Second, NumPorts
<1>5. \A S : Only(S) => Only(S)'
  BY <1>1 DEF Only, Watchable, Blank, Known
<1>6. NoneLive => NoneLive'
  BY <1>1 DEF NoneLive, Live
<1>7. ASSUME Nobody PROVE Stage'
  BY <1>1, <1>2, <1>5, <1>6, <1>7 DEF Nobody, NoneOpen, Stage, NumPorts
<1>8. ASSUME Over PROVE Stage'
  BY <1>1, <1>6, <1>8 DEF Over, AllOpen, Stage
<1>9. ASSUME NEW F \in Fds, Alone(F)
      PROVE  Stage'
  <2>1. Len(pollFds) = First /\ pollFds[First].fd = F /\ addPollFds = <<>> /\ delIndex = <<>>
    BY <1>1, <1>9 DEF Alone, Listed
  <2>2. First \in 1..Len(pollFds)
    BY <2>1, Slots12
  <2>3. Listed(F)'
    BY <1>1, <1>2, <1>4, <2>1, <2>2 DEF Listed
  <2>4. ~Buffer(clients, F).isClosed
    BY <1>1, <1>9 DEF Alone, Closing
  <2>5. IsClient(F, Buffer(clients, F))'
    BY <1>1, <1>9 DEF Alone, IsClient, HasCgi, Buffer
  <2>6. Alone(F)'
    BY <1>1, <1>5, <1>6, <1>9, <2>3, <2>4, <2>5 DEF Alone, Accepted, AllOpen, Buffer
  <2> QED
    BY <2>6 DEF Stage
<1>10. ASSUME NEW F \in Fds, NEW s \in Fds, NEW j \in Job, Piped(F, s, j)
       PROVE  Stage'
  <2>1. PICK b, p : b = Buffer(clients, F) /\ p = Buffer(clients, s)
    OBVIOUS
  <2>2. Buffer(clients', F) = b /\ Buffer(clients', s) = p
    BY <1>1, <2>1
  <2>3. Len(pollFds) = Second /\ pollFds[Second].fd = s /\ addPollFds = <<>>
    BY <1>1, <1>10 DEF Piped, Awaited, BeingRead, Finished
  <2>4. Second \in 1..Len(pollFds) /\ First \in 1..Len(pollFds)
    BY <2>3, Slots12
  <2>5. /\ Len(pollFds') = Second' /\ pollFds'[Second'].fd = s /\ addPollFds' = <<>>
        /\ pollFds'[First'].fd = F
    BY <1>1, <1>2, <1>4, <1>10, <2>3, <2>4 DEF Piped
  <2>6. Awaited(s, j, b, p) => Awaited(s, j, b, p)'
    BY <1>1, <2>5 DEF Awaited, Live
  <2>7. BeingRead(s, j, b, p) => BeingRead(s, j, b, p)'
    <3>1. ASSUME BeingRead(s, j, b, p)
          PROVE  "HUP" \in pollFds'[Second].revents
      <4>1. /\ pollFds[Second].events = "IN" /\ jobs[j].st = "reaped"
        BY <3>1 DEF BeingRead
      <4> QED
        BY <1>2, <1>10, <2>3, <2>4, <4>1, EndIsReported DEF Piped
    <3> QED
      BY <1>1, <1>2, <1>4, <2>4, <2>5, <3>1 DEF BeingRead
  <2>8. Finished(F, s, j, b, p) => Finished(F, s, j, b, p)'
    BY <1>1, <2>5 DEF Finished, IsClient, Live
  <2>9. Awaited(s, j, b, p) \/ BeingRead(s, j, b, p) \/ Finished(F, s, j, b, p)
    BY <1>10, <2>1 DEF Piped
  <2>10. Accepted(F)' /\ Only({F, s})' /\ \A i \in Job \ {j} : ~Live(i)'
    BY <1>1, <1>5, <1>10 DEF Piped, Accepted, AllOpen, Live
  <2>11. Piped(F, s, j)'
    BY <1>1, <1>10, <2>1, <2>2, <2>5, <2>6, <2>7, <2>8, <2>9, <2>10 DEF Piped, Only
  <2> QED
    BY <2>11 DEF Stage
<1>11. \A F \in Fds : ~Dropping(F)
  BY <1>1 DEF Dropping
<1> QED
  BY <1>3, <1>7, <1>8, <1>9, <1>10, <1>11 DEF Stage

(* A step of the scan that marks nothing. *)
LEMMA ScanMoves ==
  ASSUME SocketInv, Stage, UNCHANGED <<kernel, up, pollFds, vectors>>,
         pc = "handle" \/ (pc = "scan" /\ cur <= Len(pollFds)), pc' = "scan", cur' \in Nat,
         clients' = clients \/ \E i \in 1..Len(pollFds) : clients' = Touch(clients, pollFds[i].fd),
         \A F \in Fds : Alone(F) /\ Buffer(clients, F).isClosed => cur' <= First,
         \A F, s \in Fds : \A j \in Job : \A b, p :
           Piped(F, s, j) /\ b = Buffer(clients, F) /\ p = Buffer(clients, s) =>
             /\ Awaited(s, j, b, p) /\ cur' > First => ~isTimeout(b.last)
             /\ Finished(F, s, j, b, p) /\ b.state # "WRITE_REQUEST_ERROR" => cur' <= Second
  PROVE  Stage'
<1> USE DEF kernel, vectors
<1>1. \A x : Buffer(clients', x) = Buffer(clients, x)
  BY BufferOf
<1>2. First' = First /\ Second' = Second /\ First \in Nat /\ Second \in Nat /\ Second = First + 1
  BY Slots12 DEF First, Second, NumPorts
<1>3. ASSUME NEW S, Only(S), \A i \in 1..Len(pollFds) : pollFds[i].fd \in Range(Ports) \cup S
      PROVE  Only(S)'
  <2>1. \A x : x \notin S => Buffer(clients, x) = Zeroed
    BY <1>3, BlankOf DEF Only, Blank
  <2>2. \A x : x \notin S => Buffer(clients', x) = Zeroed
    BY <1>1, <2>1
  <2>3. Blank(S)'
    <3>1. \A x \in DOMAIN clients' \ S : clients'[x] = Zeroed
      BY <2>2, BlankOf
    <3> QED
      BY <3>1 DEF Blank
  <2>4. Known(S)'
    <3>1. \A cl, fd : DOMAIN Touch(cl, fd) = DOMAIN cl \cup {fd}
      BY DomainOf
    <3>2. DOMAIN clients' = DOMAIN clients \/ \E i \in 1..Len(pollFds) : DOMAIN clients' = DOMAIN clients \cup {pollFds[i].fd}
      BY <3>1
    <3> QED
      BY <1>3, <3>2 DEF Only, Known
  <2> QED
    BY <1>3, <2>3, <2>4 DEF Only, Watchable
<1>4. \A i \in 1..NumPorts : pollFds[i].fd \in Range(Ports)
  BY PortsFacts DEF SocketInv, VectorsOK
<1>5. NoneLive => NoneLive'
  BY DEF NoneLive, Live
<1>6. Len(pollFds) \in Nat /\ NumPorts \in Nat
  BY TypesOfState, LenProperties, PortsFacts
<1>12. cur \in Nat
  BY <1>6 DEF SocketInv, TypeOK
<1>7. CASE Nobody
  <2>1. \A i \in 1..Len(pollFds) : pollFds[i].fd \in Range(Ports) \cup {}
    BY <1>4, <1>7 DEF Nobody
  <2>2. Only({})'
    BY <1>3, <1>7, <2>1 DEF Nobody
  <2>3. Nobody'
    BY <1>5, <1>7, <2>2 DEF Nobody, NoneOpen, NumPorts
  <2> QED
    BY <2>3 DEF Stage
<1>8. CASE Over
  <2>1. \A fd \in DOMAIN clients' : clients'[fd].state \notin GoneState
    <3>1. \A x : Buffer(clients, x).state \notin GoneState
      BY <1>8 DEF Over, Buffer, Zeroed, GoneState
    <3>2. \A x : Buffer(clients', x).state \notin GoneState
      BY <1>1, <3>1
    <3> QED
      BY <3>2 DEF Buffer
  <2> QED
    BY <1>5, <1>8, <2>1 DEF Over, AllOpen, GoneState, Stage
<1>9. ASSUME NEW F \in Fds, Alone(F)
      PROVE  Stage'
  <2>1. \/ Len(pollFds) = First /\ pollFds[First].fd = F /\ addPollFds = <<>> /\ delIndex = <<>>
        \/ /\ Len(pollFds) = NumPorts /\ Len(addPollFds) = 1 /\ addPollFds[1].fd = F
           /\ delIndex = <<>> /\ ~Buffer(clients, F).isClosed
    BY <1>2, <1>6, <1>9, <1>12 DEF Alone, Listed
  <2>2. Listed(F)'
    BY <1>1, <1>2, <2>1 DEF Listed, NumPorts
  <2>3. \A i \in 1..Len(pollFds) : pollFds[i].fd \in Range(Ports) \cup {F}
    <3>1. \A i \in 1..Len(pollFds) : i \in 1..NumPorts \/ (i = First /\ pollFds[First].fd = F)
      BY <2>1, Slots12
    <3> QED
      BY <1>4, <3>1
  <2>4. Only({F})'
    BY <1>3, <1>9, <2>3 DEF Alone
  <2>5. Buffer(clients', F).isClosed => Closing'
    BY <1>1, <1>2, <1>9 DEF Closing
  <2>6. PICK b : b = Buffer(clients, F)
    OBVIOUS
  <2>8. Buffer(clients', F) = b /\ IsClient(F, b)'
    BY <1>1, <1>9, <2>6 DEF Alone, IsClient, HasCgi
  <2>7. Alone(F)'
    BY <1>5, <1>9, <2>2, <2>4, <2>5, <2>8 DEF Alone, Accepted, AllOpen
  <2> QED
    BY <2>7 DEF Stage
<1>10. ASSUME NEW F \in Fds, NEW s \in Fds, NEW j \in Job, Piped(F, s, j)
       PROVE  Stage'
  <2>1. PICK b, p : b = Buffer(clients, F) /\ p = Buffer(clients, s)
    OBVIOUS
  <2>2. Buffer(clients', F) = b /\ Buffer(clients', s) = p
    BY <1>1, <2>1
  <2>3. \A i \in 1..Len(pollFds) : pollFds[i].fd \in Range(Ports) \cup {F, s}
    <3>1. Len(pollFds) = First \/ (Len(pollFds) = Second /\ pollFds[Second].fd = s)
      BY <1>2, <1>10 DEF Piped, Awaited, BeingRead, Finished
    <3>2. \A i \in 1..Len(pollFds) : i \in 1..NumPorts \/ i = First \/ (i = Second /\ pollFds[Second].fd = s)
      BY <3>1, Slots12
    <3> QED
      BY <1>4, <1>10, <3>2 DEF Piped
  <2>4. Accepted(F)' /\ Only({F, s})' /\ \A i \in Job \ {j} : ~Live(i)'
    BY <1>3, <1>10, <2>3 DEF Piped, Accepted, AllOpen, Live
  <2>5. /\ Awaited(s, j, b, p) /\ cur' > First => ~isTimeout(b.last)
        /\ Finished(F, s, j, b, p) /\ b.state # "WRITE_REQUEST_ERROR" => cur' <= Second
    BY ZenonT(60), <1>10, <2>1
  <2>6. Awaited(s, j, b, p) => Awaited(s, j, b, p)'
    BY <1>2, <2>5 DEF Awaited, Live, isTimeout
  <2>7. BeingRead(s, j, b, p) => BeingRead(s, j, b, p)'
    BY <1>2 DEF BeingRead
  <2>8. Finished(F, s, j, b, p) => Finished(F, s, j, b, p)'
    <3>1. IsClient(F, b) => IsClient(F, b)'
      BY DEF IsClient, HasCgi
    <3> QED
      BY <1>2, <2>5, <3>1 DEF Finished, Live
  <2>9. Awaited(s, j, b, p) \/ BeingRead(s, j, b, p) \/ Finished(F, s, j, b, p)
    BY <1>10, <2>1 DEF Piped
  <2>10. Piped(F, s, j)'
    BY <1>2, <1>10, <2>1, <2>2, <2>4, <2>6, <2>7, <2>8, <2>9 DEF Piped, Only
  <2> QED
    BY <2>10 DEF Stage
<1>11. \A F \in Fds : ~Dropping(F)
  BY DEF Dropping
<1> QED
  BY <1>7, <1>8, <1>9, <1>10, <1>11 DEF Stage

LEMMA ReportedStays ==
  ASSUME Reported, UNCHANGED <<pollFds, addPollFds>>
  PROVE  Reported'
BY DEF Reported

LEMMA EndHandleStage ==
  ASSUME SocketInv, Reported, Stage, EndHandle
  PROVE  Reported' /\ Stage'
<1>1. /\ pc = "handle" /\ pc' = "scan" /\ cur' = 1 /\ UNCHANGED <<kernel, up, pollFds, vectors>>
      /\ clients' = clients
  BY DEF EndHandle
<1>2. cur' \in Nat /\ cur' <= First /\ ~(cur' > First) /\ cur' <= Second
  BY <1>1, Slots12
<1>3. Stage'
  BY <1>1, <1>2, ScanMoves
<1> QED
  BY <1>1, <1>3, ReportedStays DEF vectors

LEMMA ScanKeepStage ==
  ASSUME SocketInv, Reported, Stage, ScanKeep
  PROVE  Reported' /\ Stage'
<1>1. /\ pc = "scan" /\ pc' = "scan" /\ cur' = cur + 1 /\ UNCHANGED <<kernel, up, pollFds, vectors>>
      /\ clients' = Touch(clients, pollFds[cur].fd) /\ cur \in 1..Len(pollFds) /\ Len(pollFds) \in Nat
      /\ cur <= Len(pollFds) /\ cur' \in Nat /\ cur \in Nat
  BY AtScan DEF ScanKeep, InScan, Here
<1>2. ~MustGo(pollFds[cur], Client) /\ Client = Buffer(clients, pollFds[cur].fd)
  BY DEF ScanKeep, Client, Here
<1>3. ASSUME NEW F \in Fds, Alone(F), Buffer(clients, F).isClosed
      PROVE  cur' <= First
  <2>1. cur <= First
    BY <1>1, <1>3 DEF Alone, Closing
  <2>2. cur # First
    <3>1. Len(pollFds) = NumPorts \/ pollFds[First].fd = F
      BY <1>3 DEF Alone, Listed
    <3> QED
      BY <1>1, <1>2, <1>3, <3>1, Slots12 DEF MustGo
  <2> QED
    BY <1>1, <2>1, <2>2, Slots12
<1>4. ASSUME NEW F \in Fds, NEW s \in Fds, NEW j \in Job, NEW b, NEW p,
             Piped(F, s, j), b = Buffer(clients, F), p = Buffer(clients, s)
      PROVE  /\ Awaited(s, j, b, p) /\ cur' > First => ~isTimeout(b.last)
             /\ Finished(F, s, j, b, p) /\ b.state # "WRITE_REQUEST_ERROR" => cur' <= Second
  <2>1. ASSUME Awaited(s, j, b, p), cur' > First
        PROVE  ~isTimeout(b.last)
    <3>1. CASE cur > First
      BY <1>1, <2>1, <3>1 DEF Awaited
    <3>2. CASE cur = First
      <4>1. Client = b
        BY <1>2, <1>4, <3>2 DEF Piped
      <4> QED
        BY <1>2, <4>1 DEF MustGo
    <3> QED
      BY <1>1, <2>1, <3>1, <3>2, Slots12
  <2>2. ASSUME Finished(F, s, j, b, p), b.state # "WRITE_REQUEST_ERROR"
        PROVE  cur' <= Second
    <3>1. cur <= Second /\ "HUP" \in pollFds[Second].revents /\ pollFds[Second].fd = s /\ p.state = "WAIT_CGI"
      BY <1>1, <2>2 DEF Finished
    <3>2. cur # Second
      <4>1. cur = Second => Client = p
        BY <1>2, <1>4, <3>1
      <4> QED
        BY <1>2, <3>1, <4>1 DEF MustGo
    <3> QED
      BY <1>1, <3>1, <3>2, Slots12
  <2> QED
    BY <2>1, <2>2
<1>5. Stage'
  BY <1>1, <1>3, <1>4, ScanMoves
<1> QED
  BY <1>1, <1>5, ReportedStays DEF vectors

(* The peer's entry, when the scan finds its script's: it is the next one. *)
LEMMA PipeSlot ==
  ASSUME SocketInv, NEW F \in Fds, NEW s \in Fds, NEW j \in Job, Piped(F, s, j),
         cur = First, CgiSlots(cur, Client) # {}
  PROVE  /\ CgiSlots(cur, Client) = {Second} /\ Len(pollFds) = Second /\ pollFds[Second].fd = s
         /\ addPollFds = <<>> /\ Client = Buffer(clients, F) /\ Client.cgiFd = s
<1>1. Client = Buffer(clients, F) /\ pollFds[First].fd = F
  BY DEF Piped, Client, Here
<1>2. /\ Len(pollFds) = First \/ (Len(pollFds) = Second /\ pollFds[Second].fd = s /\ addPollFds = <<>>)
      /\ Client.cgiFd # F
  BY <1>1, PipedFacts DEF Piped, Awaited, BeingRead, Finished, IsClient
<1>3. PICK i \in cur..Len(pollFds) : Client.cgiFd > 0 /\ pollFds[i].fd = Client.cgiFd
  BY DEF CgiSlots
<1>4. i = Second /\ Len(pollFds) = Second /\ pollFds[Second].fd = s
  BY <1>1, <1>2, <1>3, Slots12
<1>5. \A k \in CgiSlots(cur, Client) : k = Second
  BY <1>1, <1>2, <1>4, Slots12 DEF CgiSlots
<1> QED
  BY <1>1, <1>2, <1>3, <1>4, <1>5

(* Neither peers nor the scan have anything to do with a peer that left. *)
LEMMA OverStays ==
  ASSUME SocketInv, Over, UNCHANGED conns, \A j \in Job : Live(j)' = Live(j),
         \A x \in Fds : files'[x].kind = "conn" => files[x].kind = "conn",
         \A x : Buffer(clients', x) \in {Buffer(clients, x), Zeroed}
  PROVE  Over'
<1>1. \A x : Buffer(clients, x).state \notin GoneState
  BY DEF Over, Buffer, Zeroed, GoneState
<1>2. \A x : Buffer(clients', x).state \notin GoneState
  BY <1>1 DEF Zeroed, GoneState
<1>3. \A x \in DOMAIN clients' : clients'[x].state \notin GoneState
  BY <1>2 DEF Buffer
<1> QED
  BY <1>3 DEF Over, AllOpen, NoneLive, GoneState

LEMMA ScanKillStage ==
  ASSUME SocketInv, Reported, Stage, ScanKill
  PROVE  Reported' /\ Stage'
<1>1. /\ InScan("scan") /\ pc = "scan" /\ cur <= Len(pollFds) /\ pc' = "reap" /\ UNCHANGED <<files, conns, now, up, cur, pollFds, vectors>>
      /\ clients' = Touch(clients, Here) /\ MustGo(pollFds[cur], Client) /\ CgiSlots(cur, Client) # {}
      /\ jobs' = [i \in Job |-> IF i = Client.cgiPid /\ jobs[i].st = "run"
                                THEN [jobs[i] EXCEPT !.st = "done", !.ok = FALSE]
                                ELSE jobs[i]]
  BY DEF ScanKill, InScan
<1>2. /\ cur \in 1..Len(pollFds) /\ Len(pollFds) \in Nat /\ cur > NumPorts /\ cur \in Nat
  <2>1. InScan("scan") /\ MustGo(pollFds[cur], Client)
    BY <1>1
  <2> QED
    BY <2>1, AtScan
<1>3. \A x : Buffer(clients', x) = Buffer(clients, x)
  <2>1. \A cl, fd, x : Buffer(Touch(cl, fd), x) = Buffer(cl, x)
    BY BufferOf
  <2> QED
    BY <1>1, <2>1
<1>10. /\ pc = "scan" /\ pc' = "reap" /\ cur <= Len(pollFds) /\ cur > NumPorts /\ cur \in Nat /\ Len(pollFds) \in Nat
       /\ cur' = cur /\ pollFds' = pollFds /\ addPollFds' = addPollFds /\ now' = now /\ files' = files
  BY <1>1, <1>2 DEF vectors
<1>4. \A i \in Job : /\ ~Live(i) => jobs'[i] = jobs[i]
                     /\ jobs'[i].http = jobs[i].http /\ Live(i)' = Live(i)
                     /\ jobs[i].st = "reaped" => jobs'[i] = jobs[i]
                     /\ Live(i) /\ i = Client.cgiPid => jobs'[i].st = "done"
  <2>1. \A i \in Job : jobs[i] \in JobType
    BY TypesOfState
  <2>2. \A i \in Job : jobs'[i] = IF i = Client.cgiPid /\ jobs[i].st = "run"
                                  THEN [jobs[i] EXCEPT !.st = "done", !.ok = FALSE]
                                  ELSE jobs[i]
    BY <1>1
  <2>3. \A i \in Job : /\ [jobs[i] EXCEPT !.st = "done", !.ok = FALSE].st = "done"
                       /\ [jobs[i] EXCEPT !.st = "done", !.ok = FALSE].http = jobs[i].http
    BY <2>1 DEF JobType
  <2>4. ASSUME NEW i \in Job
        PROVE  /\ ~Live(i) => jobs'[i] = jobs[i]
               /\ jobs'[i].http = jobs[i].http /\ Live(i)' = Live(i)
               /\ jobs[i].st = "reaped" => jobs'[i] = jobs[i]
               /\ Live(i) /\ i = Client.cgiPid => jobs'[i].st = "done"
    <3>1. CASE i = Client.cgiPid /\ jobs[i].st = "run"
      <4>1. jobs'[i].st = "done" /\ jobs'[i].http = jobs[i].http
        BY <2>2, <2>3, <3>1
      <4> QED
        BY <3>1, <4>1 DEF Live
    <3>2. CASE ~(i = Client.cgiPid /\ jobs[i].st = "run")
      <4>1. jobs'[i] = jobs[i]
        BY <2>2, <3>2
      <4> QED
        BY <3>2, <4>1 DEF Live
    <3> QED
      BY <3>1, <3>2
  <2> QED
    BY <2>4
<1>5. Reported'
  BY <1>1, ReportedStays DEF vectors
<1>6. ASSUME Over PROVE Stage'
  BY <1>1, <1>3, <1>4, <1>6, OverStays DEF Stage
<1>7. ~Nobody /\ \A F \in Fds : ~Dropping(F)
  <2>1. ~Nobody
    BY <1>10, Slots12 DEF Nobody
  <2>2. \A F \in Fds : ~Dropping(F)
    BY <1>10 DEF Dropping
  <2> QED
    BY <2>1, <2>2
<1>8. ASSUME NEW F \in Fds PROVE ~Alone(F)
  <2>1. ASSUME Alone(F) PROVE FALSE
    <3>1. Len(pollFds) = First /\ pollFds[First].fd = F /\ cur = First
      BY <1>10, <2>1, Slots12 DEF Alone, Listed
    <3>2. Client = Buffer(clients, F) /\ Client.cgiFd # F
      BY <2>1, <3>1 DEF Client, Here, Alone, IsClient
    <3>3. \A i \in cur..Len(pollFds) : i = First
      BY <3>1, Slots12
    <3>4. CgiSlots(cur, Client) = {}
      BY <3>1, <3>2, <3>3 DEF CgiSlots
    <3> QED
      BY <1>1, <3>4
  <2> QED
    BY <2>1
<1>9. ASSUME NEW F \in Fds, NEW s \in Fds, NEW j \in Job, Piped(F, s, j)
      PROVE  Stage'
  <2>1. cur = First
    <3>1. cur = First \/ (cur = Second /\ pollFds[Second].fd = s)
      <4>1. Len(pollFds) = First \/ (Len(pollFds) = Second /\ pollFds[Second].fd = s)
        BY <1>9 DEF Piped, Awaited, BeingRead, Finished
      <4> QED
        BY <1>2, <4>1, Slots12
    <3>2. pollFds[cur].fd = s => ~(Client.cgiFd > 0)
      BY <1>9 DEF Piped, Client, Here
    <3> QED
      BY <1>1, <3>1, <3>2 DEF CgiSlots
  <2>2. PICK b, p : b = Buffer(clients, F) /\ p = Buffer(clients, s)
    OBVIOUS
  <2>3. /\ Len(pollFds) = Second /\ pollFds[Second].fd = s /\ addPollFds = <<>>
        /\ Client = b /\ b.cgiFd = s
    BY <1>1, <1>9, <2>1, <2>2, PipeSlot
  <2>4. Buffer(clients', F) = b /\ Buffer(clients', s) = p
    BY <1>3, <2>2
  <2>5. First' = First /\ Second' = Second /\ First # Second
    BY Slots12 DEF First, Second, NumPorts
  <2>6. Awaited(s, j, b, p) => Awaited(s, j, b, p)'
    BY <1>4, <1>10, <2>3, <2>5 DEF Awaited
  <2>7. BeingRead(s, j, b, p) => BeingRead(s, j, b, p)'
    BY <1>4, <1>10, <2>3, <2>5 DEF BeingRead
  <2>8. Finished(F, s, j, b, p) => Finished(F, s, j, b, p)'
    <3>1. IsClient(F, b) => IsClient(F, b)'
      <4>1. b \in BufferType
        BY <2>2, BufferGood, TypesOfState
      <4>2. ASSUME b.state = "EXEC_CGI", HasCgi(files, jobs, b) PROVE HasCgi(files', jobs', b)
        <5>1. b.cgi.job \in Job /\ jobs[b.cgi.job].st = "made"
          BY <4>1, <4>2 DEF HasCgi, BufferType, CgiType
        <5>2. jobs'[b.cgi.job] = jobs[b.cgi.job]
          BY <1>4, <5>1 DEF Live
        <5> QED
          BY <1>1, <4>2, <5>2 DEF HasCgi
      <4> QED
        BY <4>2 DEF IsClient
    <3> QED
      BY <1>4, <1>10, <2>3, <2>5, <3>1 DEF Finished
  <2>9. Awaited(s, j, b, p) \/ BeingRead(s, j, b, p) \/ Finished(F, s, j, b, p)
    BY <1>9, <2>2 DEF Piped
  <2>10. Only({F, s})'
    <3>1. Blank({F, s})'
      <4>1. \A x : x \notin {F, s} => Buffer(clients, x) = Zeroed
        BY <1>9, BlankOf DEF Piped, Only, Blank
      <4>2. \A x : x \notin {F, s} => Buffer(clients', x) = Zeroed
        BY <1>3, <4>1
      <4>3. \A x \in DOMAIN clients' \ {F, s} : clients'[x] = Zeroed
        BY <4>2, BlankOf
      <4> QED
        BY <4>3 DEF Blank
    <3>2. DOMAIN clients' = DOMAIN clients \cup {F}
      <4>1. \A cl, fd : DOMAIN Touch(cl, fd) = DOMAIN cl \cup {fd}
        BY DomainOf
      <4>2. Here = F
        BY <1>9, <2>1 DEF Piped, Here
      <4> QED
        BY <1>1, <4>1, <4>2
    <3> QED
      BY <1>1, <1>9, <3>1, <3>2 DEF Piped, Only, Known, Watchable
  <2>11. Accepted(F)' /\ \A i \in Job \ {j} : ~Live(i)'
    BY <1>1, <1>4, <1>9 DEF Piped, Accepted, AllOpen
  <2>12. Piped(F, s, j)'
    BY <1>1, <1>4, <1>9, <2>1, <2>2, <2>4, <2>5, <2>6, <2>7, <2>8, <2>9, <2>10, <2>11 DEF Piped, Only, vectors
  <2> QED
    BY <2>12 DEF Stage
<1> QED
  BY <1>5, <1>6, <1>7, <1>8, <1>9 DEF Stage

LEMMA ScanReapStage ==
  ASSUME SocketInv, Reported, Stage, ScanReap
  PROVE  Reported' /\ Stage'
<1> DEFINE cl == Touch(clients, cur - 1)
           pid == cl[cur - 1].cgiPid
           slot == Min(CgiSlots(cur, Client))
<1>1. /\ InScan("reap") /\ pc = "reap" /\ pc' = "drop" /\ UNCHANGED <<conns, now, up, cur, pollFds, addPollFds, numClients>>
      /\ PushDelPollFd(slot, cl)
      /\ CgiSlots(cur, Client) # {}
  BY DEF ScanReap, InScan, SocketInv, CursorOK
<1>2. \/ \E i \in Ended(pid) : jobs' = [jobs EXCEPT ![i].st = "reaped"]
      \/ (\A i \in Named(pid) : ~Live(i)) /\ UNCHANGED jobs
  BY DEF ScanReap, Live
<1>3. /\ \A x : Buffer(cl, x) = Buffer(clients, x)
      /\ \A x : Buffer(clients', x) = IF x = pollFds[slot].fd THEN Zeroed ELSE Buffer(clients, x)
      /\ pid = Buffer(clients, cur - 1).cgiPid
  <2>1. \A cm, fd, x : Buffer(Touch(cm, fd), x) = Buffer(cm, x)
    BY BufferOf
  <2>2. \A cm, fd, x : Buffer(Forget(cm, fd), x) = IF x = fd THEN Zeroed ELSE Buffer(cm, x)
    BY BufferOf
  <2>3. clients' = Forget(cl, pollFds[slot].fd)
    BY <1>1 DEF PushDelPollFd
  <2>4. cl[cur - 1] = Buffer(clients, cur - 1)
    BY DEF Touch, Put
  <2> QED
    BY <2>1, <2>2, <2>3, <2>4
<1>4. files' = Close(files, pollFds[slot].fd)
  BY <1>1 DEF PushDelPollFd
<1>5. Reported'
  BY <1>1, ReportedStays
<1>6. \A x \in Fds : files'[x] = IF x = pollFds[slot].fd THEN Free ELSE files[x]
  BY <1>4, TypesOfState DEF Close
<1> HIDE DEF cl, pid, slot
<1>7. \A i \in Named(pid) : i \in Job
  BY DEF Named
<1>8. ASSUME Over PROVE Stage'
  <2>1. UNCHANGED jobs
    BY <1>2, <1>7, <1>8 DEF Ended, Over, NoneLive, Live
  <2>2. \A j \in Job : Live(j)' = Live(j)
    BY <2>1 DEF Live
  <2>3. \A x \in Fds : files'[x].kind = "conn" => files[x].kind = "conn"
    BY <1>6 DEF Free, Obj
  <2>4. \A x : Buffer(clients', x) \in {Buffer(clients, x), Zeroed}
    BY <1>3
  <2>5. Over'
    BY <1>1, <1>8, <2>2, <2>3, <2>4, OverStays
  <2> QED
    BY <2>5 DEF Stage
<1>9. ~Nobody /\ \A F \in Fds : ~Dropping(F) /\ ~Alone(F)
  BY <1>1 DEF Nobody, Dropping, Alone
<1>10. ASSUME NEW F \in Fds, NEW s \in Fds, NEW j \in Job, Piped(F, s, j)
       PROVE  Stage'
  <2>1. cur = First /\ First' = First
    BY <1>1, <1>10 DEF Piped, First, NumPorts
  <2>2. PICK b, p : b = Buffer(clients, F) /\ p = Buffer(clients, s)
    OBVIOUS
  <2>3. CgiSlots(cur, Client) = {Second} /\ pollFds[Second].fd = s
    BY <1>1, <1>10, <2>1, PipeSlot
  <2>4. slot = Second
    <3>1. Min({Second}) = Second
      BY MinIsMember, Slots12
    <3> QED
      BY <2>3, <3>1 DEF slot
  <2>5. pollFds[slot].fd = s
    BY <2>3, <2>4
  <2>6. NoneLive'
    <3>1. \A i \in Job \ {j} : ~Live(i)
      BY <1>10 DEF Piped
    <3>2. ASSUME Live(j) PROVE jobs[j].st = "done" /\ j \in Named(pid)
      <4>1. Awaited(s, j, b, p)
        BY <1>10, <2>2, <3>2 DEF Piped, BeingRead, Finished, Live
      <4>2. b.cgiPid = j /\ p.cgiPid = j /\ jobs[j].st = "done"
        BY <1>1, <4>1 DEF Awaited
      <4>3. \A x : x \notin {F, s} => Buffer(clients, x) = Zeroed
        BY <1>10, BlankOf DEF Piped, Only, Blank
      <4>4. Zeroed.cgiPid = 0 /\ 0 \notin Job
        BY NumbersAssumption DEF Zeroed
      <4>5. pid = j \/ pid \notin Job
        BY <1>3, <2>2, <4>2, <4>3, <4>4
      <4> QED
        BY <4>2, <4>5 DEF Named
    <3>3. CASE UNCHANGED jobs /\ \A i \in Named(pid) : ~Live(i)
      BY <3>1, <3>2, <3>3 DEF NoneLive, Live
    <3>4. CASE \E i \in Ended(pid) : jobs' = [jobs EXCEPT ![i].st = "reaped"]
      <4>1. PICK i \in Named(pid) : jobs[i].st = "done" /\ jobs' = [jobs EXCEPT ![i].st = "reaped"]
        BY <3>4 DEF Ended
      <4>2. i = j
        BY <1>7, <3>1, <4>1 DEF Live
      <4>3. jobs'[j].st = "reaped" /\ \A k \in Job \ {j} : jobs'[k] = jobs[k]
        <5>1. jobs \in [Job -> JobType] /\ jobs[j] \in JobType
          BY TypesOfState
        <5> QED
          BY <4>1, <4>2, <5>1 DEF JobType
      <4> QED
        BY <3>1, <4>3 DEF NoneLive, Live
    <3> QED
      BY <1>2, <3>3, <3>4
  <2>7. Accepted(F)'
    <3>1. F # s /\ s # 0 /\ 0 \in Fds
      BY <1>10, PipedFacts, PortsFacts
    <3>2. files'[F] = files[F] /\ files'[0] = files[0]
      BY <1>6, <2>5, <3>1
    <3> QED
      BY <1>1, <1>10, <3>2 DEF Piped, Accepted, AllOpen
  <2>8. Watchable({F})'
    BY <1>6, <1>10, <2>5 DEF Piped, Only, Watchable, Free, Obj
  <2>9. Blank({F})'
    <3>1. \A x : x \notin {F, s} => Buffer(clients, x) = Zeroed
      BY <1>10, BlankOf DEF Piped, Only, Blank
    <3>2. \A x : x \notin {F} => Buffer(clients', x) = Zeroed
      BY <1>3, <2>5, <3>1
    <3>3. \A x \in DOMAIN clients' \ {F} : clients'[x] = Zeroed
      BY <3>2, BlankOf
    <3> QED
      BY <3>3 DEF Blank
  <2>10. Dropping(F)'
    BY <1>1, <1>10, <2>1, <2>6, <2>7, <2>8, <2>9 DEF Dropping, Piped
  <2> QED
    BY <2>10 DEF Stage
<1> QED
  BY <1>5, <1>8, <1>9, <1>10 DEF Stage

LEMMA ScanDropStage ==
  ASSUME SocketInv, Reported, Stage, ScanDrop
  PROVE  Reported' /\ Stage'
<1>1. /\ UNCHANGED <<conns, jobs, now, up, pollFds, addPollFds, numClients>>
      /\ delIndex' = Append(delIndex, cur) /\ files' = Close(files, Here) /\ clients' = Forget(clients, Here)
      /\ pc' = "scan" /\ cur' = cur + 1
      /\ pc = "drop" \/ (pc = "scan" /\ MustGo(pollFds[cur], Client) /\ CgiSlots(cur, Client) = {})
  BY DEF ScanDrop, InScan, PushDelPollFd, Here
<1>2. /\ cur \in NumPorts + 1 .. Len(pollFds) /\ Len(pollFds) \in Nat /\ cur \in Nat
  <2>1. CASE InScan("drop")
    BY <2>1, AtScan DEF InScan, SocketInv, CursorOK
  <2>2. CASE InScan("scan") /\ MustGo(pollFds[cur], Client)
    <3>1. /\ cur \in 1..Len(pollFds) /\ Len(pollFds) \in Nat /\ ~(cur <= NumPorts)
      BY <2>2, AtScan
    <3> QED
      BY <3>1, PortsFacts
  <2> QED
    BY <2>1, <2>2 DEF ScanDrop
<1>3. \A x : Buffer(clients', x) = IF x = Here THEN Zeroed ELSE Buffer(clients, x)
  <2>1. \A cm, fd, x : Buffer(Forget(cm, fd), x) = IF x = fd THEN Zeroed ELSE Buffer(cm, x)
    BY BufferOf
  <2> QED
    BY <1>1, <2>1
<1>4. \A x \in Fds : files'[x] = IF x = Here THEN Free ELSE files[x]
  BY <1>1, TypesOfState DEF Close
<1>5. Reported'
  BY <1>1, ReportedStays
<1>6. SameOpen /\ UNCHANGED jobs
  BY <1>1, SameItAll
<1>7. ASSUME Over PROVE Stage'
  <2>1. \A j \in Job : Live(j)' = Live(j)
    BY <1>1 DEF Live
  <2>2. \A x \in Fds : files'[x].kind = "conn" => files[x].kind = "conn"
    BY <1>4 DEF Free, Obj
  <2>3. \A x : Buffer(clients', x) \in {Buffer(clients, x), Zeroed}
    BY <1>3
  <2>4. Over'
    BY <1>1, <1>7, <2>1, <2>2, <2>3, OverStays
  <2> QED
    BY <2>4 DEF Stage
<1>8. ASSUME NEW F \in Fds, Dropping(F) PROVE Stage'
  <2>1. Here = F
    BY <1>8 DEF Dropping, Here
  <2>2. Over'
    BY <1>1, <1>6, <1>8, <2>1, AloneDrop DEF Dropping
  <2> QED
    BY <2>2 DEF Stage
<1>9. ~Nobody
  <2>1. ~(Len(pollFds) = NumPorts)
    BY <1>2, PortsFacts
  <2> QED
    BY <2>1 DEF Nobody
<1>10. ASSUME NEW F \in Fds, Alone(F) PROVE Stage'
  <2>1. Here = F
    <3>1. pc = "scan"
      BY <1>1, <1>10 DEF Alone
    <3>2. cur = First /\ pollFds[First].fd = F
      BY <1>2, <1>10, <3>1, Slots12 DEF Alone, Listed
    <3> QED
      BY <3>2 DEF Here
  <2>2. Over'
    BY <1>1, <1>6, <1>10, <2>1, AloneDrop DEF Alone, Only
  <2> QED
    BY <2>2 DEF Stage
<1>11. ASSUME NEW F \in Fds, NEW s \in Fds, NEW j \in Job, Piped(F, s, j)
       PROVE  Stage'
  <2>1. PICK b, p : b = Buffer(clients, F) /\ p = Buffer(clients, s)
    OBVIOUS
  <2>2. pc = "scan" /\ MustGo(pollFds[cur], Client) /\ CgiSlots(cur, Client) = {} /\ delIndex = <<>>
    BY <1>1, <1>11 DEF Piped
  <2>3. Awaited(s, j, b, p) \/ BeingRead(s, j, b, p) \/ Finished(F, s, j, b, p)
    BY <1>11, <2>1 DEF Piped
  <2>4. /\ b \in BufferType /\ p \in BufferType /\ F # s /\ F # -1 /\ s # 0 /\ s # -1 /\ F # 0
        /\ ~b.isClosed /\ ~p.isClosed /\ b.clientFd = F
        /\ files[s] = Obj("out", j) /\ files[F].kind = "conn" /\ Accepted(F) /\ Only({F, s})
        /\ s \in Nat /\ now \in Nat /\ TIMEOUT \in Nat
    BY SMTT(60), <1>11, <2>1, PipedFacts, PortsFacts, TypesOfState, BoundsAssumption DEF Piped
  <2>5. CASE cur = First
    <3>1. Here = F /\ Client = b
      BY <1>11, <2>1, <2>5 DEF Piped, Here, Client
    <3>2. ~Awaited(s, j, b, p) /\ ~BeingRead(s, j, b, p)
      <4>1. ASSUME Len(pollFds) = Second, pollFds[Second].fd = s, b.cgiFd = s PROVE FALSE
        <5>1. Second \in cur..Len(pollFds) /\ s > 0
          BY <2>4, <2>5, <4>1, Slots12
        <5> QED
          BY <2>2, <3>1, <4>1, <5>1 DEF CgiSlots
      <4>2. ASSUME "HUP" \notin pollFds[First].revents, b.last = now PROVE FALSE
        <5>1. ~isTimeout(b.last)
          BY <2>4, <4>2 DEF isTimeout
        <5> QED
          BY <2>2, <2>4, <2>5, <3>1, <4>2, <5>1 DEF MustGo
      <4> QED
        BY <4>1, <4>2 DEF Awaited, BeingRead
    <3>3. Finished(F, s, j, b, p)
      BY <2>3, <3>2
    <3>4. AllOpen /\ NoneLive
      BY <1>11, <3>3 DEF Piped, Accepted, Finished, NoneLive
    <3>5. \A x \in Fds : files[x].kind = "conn" => x = F
      BY <1>11 DEF Piped, Only, Watchable, Obj
    <3>6. \A x : x # F => Buffer(clients, x).state \notin GoneState
      <4>1. \A x : x \notin {F, s} => Buffer(clients, x) = Zeroed
        BY <2>4, BlankOf DEF Only, Blank
      <4>2. Zeroed.state \notin GoneState /\ p.state \notin GoneState
        BY <3>3 DEF Zeroed, GoneState, Finished
      <4> QED
        BY <2>1, <4>1, <4>2
    <3>7. Over'
      BY <1>1, <1>6, <3>1, <3>4, <3>5, <3>6, DropOver
    <3> QED
      BY <3>7 DEF Stage
  <2>6. CASE cur # First
    <3>1. cur = Second /\ Len(pollFds) = Second /\ pollFds[Second].fd = s /\ addPollFds = <<>>
      <4>1. Len(pollFds) = First \/ (Len(pollFds) = Second /\ pollFds[Second].fd = s /\ addPollFds = <<>>)
        BY <2>3 DEF Awaited, BeingRead, Finished
      <4> QED
        BY <1>2, <2>6, <4>1, Slots12
    <3>2. Here = s /\ Client = p
      BY <2>1, <3>1 DEF Here, Client
    <3>3. ~Awaited(s, j, b, p)
      <4>1. ASSUME Awaited(s, j, b, p) PROVE FALSE
        <5>1. ~isTimeout(p.last) /\ p.state = "WAIT_CGI_CHILD"
          BY <2>2, <3>1, <4>1, Slots12 DEF Awaited
        <5> QED
          BY <2>2, <2>4, <3>2, <5>1 DEF MustGo
      <4> QED
        BY <4>1
    <3>4. ~Live(j) /\ b.state \in ClientState
      BY <2>3, <3>3 DEF BeingRead, Finished, Live, IsClient, ClientState
    <3>5. NoneLive'
      BY <1>1, <1>11, <3>4 DEF Piped, NoneLive, Live
    <3>6. Accepted(F)' /\ Watchable({F})' /\ files'[s] = Free
      <4>1. 0 \in Fds
        BY PortsFacts
      <4>2. files'[F] = files[F] /\ files'[0] = files[0] /\ files'[s] = Free
        BY <1>4, <2>4, <3>2, <4>1
      <4>3. Watchable({F})'
        BY <1>4, <2>4, <3>2 DEF Only, Watchable, Free, Obj
      <4> QED
        BY <1>1, <2>4, <4>2, <4>3 DEF Accepted, AllOpen
    <3>7. Buffer(clients', F) = b
      BY <1>3, <2>1, <2>4, <3>2
    <3>8. Blank({F})' /\ Known({F})'
      <4>1. \A x : x \notin {F, s} => Buffer(clients, x) = Zeroed
        BY <2>4, BlankOf DEF Only, Blank
      <4>2. \A x : x \notin {F} => Buffer(clients', x) = Zeroed
        BY <1>3, <3>2, <4>1
      <4>3. \A x \in DOMAIN clients' \ {F} : clients'[x] = Zeroed
        BY <4>2, BlankOf
      <4>4. \A cl, fd : DOMAIN Forget(cl, fd) = DOMAIN cl \ {fd}
        BY DomainOf
      <4>5. DOMAIN clients' = DOMAIN clients \ {s}
        BY <1>1, <3>2, <4>4
      <4> QED
        BY <2>4, <4>3, <4>5 DEF Blank, Known, Only
    <3>9. IsClient(F, b)'
      <4>1. b.cgiFd \notin {0, F} /\ Killable(b)
        BY <2>3, <2>4, <3>3 DEF BeingRead, Finished, IsClient, Killable
      <4>2. ASSUME b.state = "EXEC_CGI" PROVE HasCgi(files', jobs', b)
        <5>1. HasCgi(files, jobs, b)
          BY <2>3, <3>3, <4>2 DEF BeingRead, Finished, IsClient
        <5>2. b.cgi.r \in Fds /\ b.cgi.w \in Fds
          BY <2>4, <5>1, PortsFacts DEF HasCgi, BufferType, CgiType
        <5>3. b.cgi.r # s /\ b.cgi.w # s
          BY <2>4, <5>1 DEF HasCgi, Obj
        <5>4. files'[b.cgi.r] = files[b.cgi.r] /\ files'[b.cgi.w] = files[b.cgi.w]
          BY <1>4, <3>2, <5>2, <5>3
        <5> QED
          BY <1>1, <5>1, <5>4 DEF HasCgi
      <4> QED
        BY <2>4, <3>4, <4>1, <4>2 DEF IsClient
    <3>10. Listed(F)'
      <4>1. delIndex' = <<Second>>
        BY <1>1, <2>2, <3>1
      <4>2. cur' > Second /\ First' = First /\ Second' = Second
        BY <1>1, <3>1, Slots12 DEF First, Second, NumPorts
      <4>3. pollFds[First].fd = F
        BY <1>11 DEF Piped
      <4> QED
        BY <1>1, <3>1, <3>6, <4>1, <4>2, <4>3 DEF Listed
    <3>11. Alone(F)'
      BY <1>1, <2>4, <3>5, <3>6, <3>7, <3>8, <3>9, <3>10 DEF Alone, Only
    <3> QED
      BY <3>11 DEF Stage
  <2> QED
    BY <2>5, <2>6
<1> QED
  BY <1>5, <1>7, <1>8, <1>9, <1>10, <1>11 DEF Stage

(* Sorting leaves an index alone. *)
LEMMA SortedAgain ==
  ASSUME NEW s, NEW n \in Nat, NEW t \in Seq(Nat), s = <<>> \/ s = <<n>>, t \in SortedUnique(Range(s))
  PROVE  t = s
<1>1. t \in [1..Cardinality(Range(s)) -> Range(s)]
  BY DEF SortedUnique
<1>2. DOMAIN t = 1..Len(t) /\ Len(t) \in Nat
  BY LenProperties
<1>3. CASE s = <<>>
  <2>1. Range(s) = {}
    BY <1>3 DEF Range
  <2>2. Cardinality(Range(s)) = 0
    BY <2>1, FS_EmptySet
  <2>3. 1..Len(t) = 1..0
    BY <1>1, <1>2, <2>2
  <2>4. Len(t) = 0
    BY <1>2, <2>3
  <2> QED
    BY <1>3, <2>4, EmptySeq
<1>4. CASE s = <<n>>
  <2>1. Range(s) = {n}
    BY <1>4 DEF Range
  <2>2. Cardinality(Range(s)) = 1
    BY <2>1, FS_Singleton
  <2>3. 1..Len(t) = 1..1 /\ t \in [1..1 -> {n}]
    BY <1>1, <1>2, <2>1, <2>2
  <2>4. Len(t) = 1 /\ t[1] = n
    BY <1>2, <2>3
  <2>5. <<n>> \in Seq(Nat) /\ Len(<<n>>) = 1 /\ <<n>>[1] = n
    OBVIOUS
  <2>6. \A i \in 1..Len(t) : t[i] = <<n>>[i]
    BY <2>3, <2>4, <2>5
  <2>7. t = <<n>>
    BY <2>4, <2>5, <2>6, SeqEqual
  <2> QED
    BY <1>4, <2>7
<1> QED
  BY <1>3, <1>4

LEMMA SortIndexesStage ==
  ASSUME SocketInv, Reported, Stage, SortIndexes
  PROVE  Reported' /\ Stage'
<1>1. /\ pc = "scan" /\ cur > Len(pollFds) /\ pc' = "erase" /\ cur' = 1
      /\ UNCHANGED <<files, conns, jobs, now, up, pollFds, addPollFds, numClients, clients>>
      /\ delIndex' \in SortedUnique(Range(delIndex)) /\ delIndex' \in Seq(Nat)
  <2>1. TypeOK'
    BY SortIndexesKeeps DEF SocketInv
  <2> QED
    BY <2>1 DEF SortIndexes, kernel, Marked, TypeOK
<1>2. Len(pollFds) \in Nat /\ cur \in Nat /\ First' = First /\ Second' = Second
  BY TypesOfState, LenProperties DEF SocketInv, TypeOK, First, Second, NumPorts
<1>3. ASSUME delIndex = <<>> \/ delIndex = <<Second>>
      PROVE  delIndex' = delIndex
  BY <1>1, <1>3, SortedAgain, Slots12
<1>4. Reported'
  BY <1>1, ReportedStays
<1>5. \A S : Only(S) => Only(S)'
  BY <1>1 DEF Only, Watchable, Blank, Known
<1>6. NoneLive => NoneLive'
  BY <1>1 DEF NoneLive, Live
<1>7. ASSUME Nobody PROVE Stage'
  BY <1>1, <1>3, <1>5, <1>6, <1>7 DEF Nobody, NoneOpen, Stage, NumPorts
<1>8. ASSUME Over PROVE Stage'
  BY <1>1, <1>6, <1>8 DEF Over, AllOpen, Stage
<1>9. ASSUME NEW F \in Fds, Alone(F)
      PROVE  Stage'
  <2>1. delIndex' = delIndex
    BY <1>3, <1>9 DEF Alone, Listed
  <2>2. ~Buffer(clients, F).isClosed
    <3>1. ASSUME Len(pollFds) # NumPorts PROVE ~Closing
      <4>1. Len(pollFds) = First \/ Len(pollFds) = Second
        BY <1>9, <3>1 DEF Alone, Listed
      <4>2. ~(cur <= First)
        BY <1>1, <1>2, <4>1, Slots12
      <4> QED
        BY <1>1, <4>2 DEF Closing
    <3>2. CASE Len(pollFds) = NumPorts
      <4>1. ~(Len(pollFds) = First) /\ ~(Len(pollFds) = Second)
        BY <3>2, Slots12
      <4> QED
        BY <1>9, <4>1 DEF Alone, Listed
    <3> QED
      BY <1>9, <3>1, <3>2 DEF Alone
  <2>3. Listed(F)'
    BY <1>1, <1>2, <1>9, <2>1, <2>2 DEF Alone, Listed, Buffer, NumPorts
  <2>4. IsClient(F, Buffer(clients, F))'
    BY <1>1, <1>9 DEF Alone, IsClient, HasCgi, Buffer
  <2>5. Alone(F)'
    BY <1>1, <1>5, <1>6, <1>9, <2>2, <2>3, <2>4 DEF Alone, Accepted, AllOpen, Buffer
  <2> QED
    BY <2>5 DEF Stage
<1>10. ASSUME NEW F \in Fds, NEW s \in Fds, NEW j \in Job, Piped(F, s, j)
       PROVE  Stage'
  <2>1. PICK b, p : b = Buffer(clients, F) /\ p = Buffer(clients, s)
    OBVIOUS
  <2>2. Buffer(clients', F) = b /\ Buffer(clients', s) = p
    BY <1>1, <2>1
  <2>3. delIndex' = <<>>
    BY <1>3, <1>10 DEF Piped
  <2>4. Awaited(s, j, b, p) => Awaited(s, j, b, p)'
    BY <1>1, <1>2 DEF Awaited, Live
  <2>5. BeingRead(s, j, b, p) => BeingRead(s, j, b, p)'
    BY <1>1, <1>2 DEF BeingRead
  <2>6. Finished(F, s, j, b, p) => Finished(F, s, j, b, p)'
    <3>1. IsClient(F, b) => IsClient(F, b)'
      BY <1>1 DEF IsClient, HasCgi
    <3>2. ASSUME Finished(F, s, j, b, p) PROVE b.state = "WRITE_REQUEST_ERROR"
      <4>1. ~(cur <= Second)
        BY <1>1, <1>2, <3>2, Slots12 DEF Finished
      <4> QED
        BY <1>1, <3>2, <4>1 DEF Finished
    <3> QED
      BY <1>1, <1>2, <3>1, <3>2 DEF Finished, Live
  <2>7. Awaited(s, j, b, p) \/ BeingRead(s, j, b, p) \/ Finished(F, s, j, b, p)
    BY <1>10, <2>1 DEF Piped
  <2>8. Accepted(F)' /\ Only({F, s})' /\ \A i \in Job \ {j} : ~Live(i)'
    BY <1>1, <1>5, <1>10 DEF Piped, Accepted, AllOpen, Live
  <2>9. Piped(F, s, j)'
    BY <1>1, <1>2, <1>10, <2>1, <2>2, <2>3, <2>4, <2>5, <2>6, <2>7, <2>8 DEF Piped, Only
  <2> QED
    BY <2>9 DEF Stage
<1>11. \A F \in Fds : ~Dropping(F)
  BY <1>1 DEF Dropping
<1> QED
  BY <1>4, <1>7, <1>8, <1>9, <1>10, <1>11 DEF Stage

LEMMA EraseStage ==
  ASSUME SocketInv, Reported, Stage, Erase
  PROVE  Reported' /\ Stage'
<1> DEFINE k == Head(delIndex)
<1>1. /\ pc = "erase" /\ pc' = "erase" /\ delIndex # <<>> /\ delIndex' = Tail(delIndex)
      /\ UNCHANGED <<conns, jobs, now, up, cur, addPollFds, clients>>
      /\ files' = Close(files, pollFds[k].fd) /\ pollFds' = RemoveAt(pollFds, k)
  BY DEF Erase
<1>2. /\ pollFds \in Seq(EntryType) /\ Len(pollFds) \in Nat /\ k \in 1..Len(pollFds)
      /\ DOMAIN pollFds = 1..Len(pollFds)
  <2>1. delIndex \in Seq(Nat) /\ delIndex # <<>> /\ pollFds \in Seq(EntryType)
    BY DEF Erase, SocketInv, TypeOK
  <2>2. 1 \in DOMAIN delIndex /\ k = delIndex[1]
    BY <2>1
  <2>3. k \in NumPorts + 1 .. Len(pollFds)
    BY <2>2 DEF SocketInv, VectorsOK
  <2> HIDE DEF k
  <2> QED
    BY <2>1, <2>3, PortsFacts, LenProperties
<1> HIDE DEF k
<1>3. /\ pollFds' \in Seq(EntryType) /\ Len(pollFds') = Len(pollFds) - 1
      /\ \A i \in 1..Len(pollFds) - 1 :
           pollFds'[i] = IF i < k THEN pollFds[i] ELSE pollFds[i + 1]
  BY <1>1, <1>2, RemoveAtProperties
<1>4. Reported'
  <2>1. DOMAIN pollFds' = 1..Len(pollFds) - 1
    BY <1>3, LenProperties
  <2>2. ASSUME NEW i \in 1..Len(pollFds) - 1
        PROVE  \E n \in 1..Len(pollFds) : pollFds'[i] = pollFds[n]
    <3>1. i \in 1..Len(pollFds) /\ i + 1 \in 1..Len(pollFds)
      BY <1>2
    <3> QED
      BY <1>3, <3>1
  <2> QED
    BY <1>1, <1>2, <2>1, <2>2 DEF Reported
<1>5. ASSUME Over PROVE Stage'
  <2>1. \A x \in Fds : files'[x].kind = "conn" => files[x].kind = "conn"
    BY <1>1, TypesOfState DEF Close, Free, Obj
  <2>2. \A j \in Job : Live(j)' = Live(j)
    BY <1>1 DEF Live
  <2>3. Over'
    BY <1>1, <1>5, <2>1, <2>2, OverStays
  <2> QED
    BY <2>3 DEF Stage
<1>6. ~Nobody /\ (\A F \in Fds : ~Dropping(F)) /\ (\A F, s \in Fds : \A j \in Job : ~Piped(F, s, j))
  BY <1>1 DEF Nobody, Dropping, Piped
<1>7. ASSUME NEW F \in Fds, Alone(F)
      PROVE  Stage'
  <2>1. /\ Len(pollFds) = Second /\ pollFds[First].fd = F /\ addPollFds = <<>>
        /\ files[pollFds[Second].fd] = Free /\ delIndex = <<Second>>
    BY <1>1, <1>7 DEF Alone, Listed
  <2>2. k = Second /\ delIndex' = <<>>
    BY <1>1, <2>1, Slots12 DEF k
  <2>3. files' = files
    <3>1. PICK x : x = pollFds[Second].fd
      OBVIOUS
    <3>2. files' = Close(files, x) /\ files[x] = Free
      BY <1>1, <2>1, <2>2, <3>1
    <3>3. DOMAIN files = Fds /\ files = [y \in Fds |-> files[y]]
      BY TypesOfState
    <3> QED
      BY <3>2, <3>3 DEF Close
  <2>4. Len(pollFds') = First /\ pollFds'[First].fd = F
    <3>1. First \in 1..Len(pollFds) - 1 /\ First < k /\ Len(pollFds) - 1 = First
      BY <2>1, <2>2, Slots12
    <3> QED
      BY <1>3, <2>1, <3>1
  <2>5. First' = First
    BY DEF First, NumPorts
  <2>6. Listed(F)'
    BY <1>1, <2>1, <2>2, <2>4, <2>5 DEF Listed
  <2>7. ~Buffer(clients, F).isClosed
    BY <1>1, <1>7 DEF Alone, Closing
  <2>8. IsClient(F, Buffer(clients, F))'
    BY <1>1, <1>7, <2>3 DEF Alone, IsClient, HasCgi, Buffer
  <2>9. Accepted(F)' /\ NoneLive' /\ Only({F})'
    BY <1>1, <1>7, <2>3 DEF Alone, Accepted, AllOpen, NoneLive, Live, Only, Watchable, Blank, Known
  <2>10. Alone(F)'
    BY <1>1, <2>6, <2>7, <2>8, <2>9 DEF Alone, Buffer
  <2> QED
    BY <2>10 DEF Stage
<1> QED
  BY <1>4, <1>5, <1>6, <1>7 DEF Stage

LEMMA AddPendingStage ==
  ASSUME SocketInv, Reported, Stage, AddPending
  PROVE  Reported' /\ Stage'
<1> DEFINE cleared == [i \in DOMAIN pollFds |-> [pollFds[i] EXCEPT !.revents = {}]]
<1>1. /\ pc = "erase" /\ pc' = "poll" /\ cur' = 1 /\ delIndex = <<>> /\ addPollFds' = <<>>
      /\ UNCHANGED <<files, conns, jobs, now, up, delIndex, clients>>
      /\ pollFds' = cleared \o addPollFds
  BY DEF AddPending, kernel
<1>2. /\ pollFds \in Seq(EntryType) /\ addPollFds \in Seq(EntryType)
      /\ Len(pollFds) \in Nat /\ Len(addPollFds) \in Nat
      /\ DOMAIN pollFds = 1..Len(pollFds) /\ DOMAIN addPollFds = 1..Len(addPollFds)
  BY TypesOfState, LenProperties
<1>3. ASSUME NEW i \in 1..Len(pollFds)
      PROVE  /\ [pollFds[i] EXCEPT !.revents = {}] \in EntryType
             /\ [pollFds[i] EXCEPT !.revents = {}].fd = pollFds[i].fd
             /\ [pollFds[i] EXCEPT !.revents = {}].events = pollFds[i].events
             /\ [pollFds[i] EXCEPT !.revents = {}].revents = {}
  <2>1. pollFds[i] \in EntryType
    BY <1>2, ElementOfSeq
  <2> QED
    BY <2>1 DEF EntryType
<1>4. /\ cleared \in Seq(EntryType) /\ Len(cleared) = Len(pollFds)
      /\ \A i \in 1..Len(pollFds) : /\ cleared[i].fd = pollFds[i].fd
                                    /\ cleared[i].events = pollFds[i].events
                                    /\ cleared[i].revents = {}
  <2>1. cleared \in [1..Len(pollFds) -> EntryType]
    BY <1>2, <1>3
  <2>2. cleared \in Seq(EntryType) /\ Len(cleared) = Len(pollFds)
    BY <1>2, <2>1, LenProperties
  <2> QED
    BY <1>2, <1>3, <2>2
<1> HIDE DEF cleared
<1>5. /\ DOMAIN pollFds' = 1..Len(pollFds) + Len(addPollFds) /\ Len(pollFds') = Len(pollFds) + Len(addPollFds)
      /\ \A i \in 1..Len(pollFds) + Len(addPollFds) :
           pollFds'[i] = IF i <= Len(pollFds) THEN cleared[i] ELSE addPollFds[i - Len(pollFds)]
  <2>1. /\ cleared \o addPollFds \in Seq(EntryType)
        /\ Len(cleared \o addPollFds) = Len(cleared) + Len(addPollFds)
        /\ \A i \in 1..Len(cleared) + Len(addPollFds) :
             (cleared \o addPollFds)[i] =
               IF i <= Len(cleared) THEN cleared[i] ELSE addPollFds[i - Len(cleared)]
    BY ZenonT(60), <1>2, <1>4, ConcatProperties
  <2> QED
    BY <1>1, <1>4, <2>1, LenProperties
<1>6. ASSUME NEW i \in 1..Len(pollFds)
      PROVE  /\ pollFds'[i].fd = pollFds[i].fd /\ pollFds'[i].events = pollFds[i].events
             /\ pollFds'[i].revents = {}
  <2>1. i \in 1..Len(pollFds) + Len(addPollFds) /\ i <= Len(pollFds)
    BY <1>2
  <2> QED
    BY <1>4, <1>5, <2>1
<1>7. ASSUME NEW n \in 1..Len(addPollFds)
      PROVE  pollFds'[Len(pollFds) + n] = addPollFds[n]
  <2>1. /\ Len(pollFds) + n \in 1..Len(pollFds) + Len(addPollFds) /\ ~(Len(pollFds) + n <= Len(pollFds))
        /\ Len(pollFds) + n - Len(pollFds) = n
    BY <1>2
  <2> QED
    BY <1>5, <2>1
<1>8. Reported'
  <2>1. ASSUME NEW i \in 1..Len(pollFds) + Len(addPollFds)
        PROVE  pollFds'[i].revents = {}
    <3>1. CASE i <= Len(pollFds)
      BY <1>2, <1>6, <3>1
    <3>2. CASE ~(i <= Len(pollFds))
      <4> DEFINE n == i - Len(pollFds)
      <4>1. n \in 1..Len(addPollFds) /\ pollFds'[i] = addPollFds[n]
        BY <1>2, <1>5, <3>2
      <4> HIDE DEF n
      <4> QED
        BY <1>2, <4>1 DEF Reported
    <3> QED
      BY <3>1, <3>2
  <2> QED
    BY <1>1, <1>5, <2>1 DEF Reported
<1>9. /\ First' = First /\ Second' = Second
      /\ \A S : Only(S) => Only(S)'
      /\ NoneLive => NoneLive'
  BY <1>1 DEF First, Second, NumPorts, Only, Watchable, Blank, Known, NoneLive, Live
<1>10. ASSUME addPollFds = <<>> PROVE Len(pollFds') = Len(pollFds)
  BY <1>2, <1>5, <1>10
<1>11. ASSUME Nobody PROVE Stage'
  BY <1>1, <1>9, <1>10, <1>11 DEF Nobody, NoneOpen, Stage, NumPorts
<1>12. ASSUME Over PROVE Stage'
  BY <1>1, <1>9, <1>12 DEF Over, AllOpen, Stage
<1>13. ASSUME NEW F \in Fds, Alone(F)
       PROVE  Stage'
  <2>1. Len(pollFds') = First /\ pollFds'[First].fd = F
    <3>1. CASE Len(pollFds) = First /\ pollFds[First].fd = F /\ addPollFds = <<>>
      <4>1. First \in 1..Len(pollFds)
        BY <3>1, Slots12
      <4> QED
        BY <1>6, <1>10, <3>1, <4>1
    <3>2. CASE Len(pollFds) = NumPorts /\ Len(addPollFds) = 1 /\ addPollFds[1].fd = F
      <4>1. 1 \in 1..Len(addPollFds) /\ Len(pollFds) + 1 = First
        BY <3>2, Slots12
      <4> QED
        BY <1>5, <1>7, <3>2, <4>1
    <3>3. ~(delIndex = <<Second>>)
      BY <1>1
    <3> QED
      BY <1>13, <3>1, <3>2, <3>3 DEF Alone, Listed
  <2>2. Listed(F)'
    BY <1>1, <1>9, <2>1 DEF Listed
  <2>3. ~Buffer(clients, F).isClosed
    BY <1>1, <1>13 DEF Alone, Closing
  <2>4. IsClient(F, Buffer(clients, F))'
    BY <1>1, <1>13 DEF Alone, IsClient, HasCgi, Buffer
  <2>5. Alone(F)'
    BY <1>1, <1>9, <1>13, <2>2, <2>3, <2>4 DEF Alone, Accepted, AllOpen, Buffer
  <2> QED
    BY <2>5 DEF Stage
<1>14. ASSUME NEW F \in Fds, NEW s \in Fds, NEW j \in Job, Piped(F, s, j)
       PROVE  Stage'
  <2>1. PICK b, p : b = Buffer(clients, F) /\ p = Buffer(clients, s)
    OBVIOUS
  <2>2. Buffer(clients', F) = b /\ Buffer(clients', s) = p
    BY <1>1, <2>1
  <2>3. /\ Len(pollFds') = Second /\ pollFds'[Second].fd = s /\ pollFds'[First].fd = F
        /\ BeingRead(s, j, b, p) => pollFds'[Second].events = "IN"
    <3>1. First \in 1..Len(pollFds) /\ pollFds'[First].fd = F
      BY <1>6, <1>14, PipedFacts
    <3>2. CASE Len(pollFds) = Second /\ pollFds[Second].fd = s /\ addPollFds = <<>>
      <4>1. Second \in 1..Len(pollFds)
        BY <3>2, Slots12
      <4>2. pollFds'[Second].events = pollFds[Second].events /\ pollFds'[Second].fd = s
        BY <1>6, <3>2, <4>1
      <4> QED
        BY <1>10, <3>1, <3>2, <4>2 DEF BeingRead
    <3>3. CASE Len(pollFds) = First /\ Len(addPollFds) = 1 /\ addPollFds[1].fd = s
      <4>1. 1 \in 1..Len(addPollFds) /\ Len(pollFds) + 1 = Second /\ First # Second
        BY <3>3, Slots12
      <4>2. pollFds'[Second].fd = s /\ Len(pollFds') = Second
        BY <1>5, <1>7, <3>3, <4>1
      <4> QED
        BY <3>1, <3>3, <4>1, <4>2 DEF BeingRead
    <3> QED
      BY <1>14, <2>1, <3>2, <3>3 DEF Piped, Awaited, BeingRead, Finished
  <2>4. Awaited(s, j, b, p) => Awaited(s, j, b, p)'
    BY <1>1, <1>9, <2>3 DEF Awaited, Live
  <2>5. BeingRead(s, j, b, p) => BeingRead(s, j, b, p)'
    BY <1>1, <1>9, <2>3 DEF BeingRead
  <2>6. Finished(F, s, j, b, p) => Finished(F, s, j, b, p)'
    <3>1. IsClient(F, b) => IsClient(F, b)'
      BY <1>1 DEF IsClient, HasCgi
    <3> QED
      BY <1>1, <1>9, <2>3, <3>1 DEF Finished, Live
  <2>7. Awaited(s, j, b, p) \/ BeingRead(s, j, b, p) \/ Finished(F, s, j, b, p)
    BY <1>14, <2>1 DEF Piped
  <2>8. Accepted(F)' /\ Only({F, s})' /\ \A i \in Job \ {j} : ~Live(i)'
    BY <1>1, <1>9, <1>14 DEF Piped, Accepted, AllOpen, Live
  <2>9. Piped(F, s, j)'
    BY <1>1, <1>9, <1>14, <2>1, <2>2, <2>3, <2>4, <2>5, <2>6, <2>7, <2>8 DEF Piped, Only
  <2> QED
    BY <2>9 DEF Stage
<1>15. \A F \in Fds : ~Dropping(F)
  BY <1>1 DEF Dropping
<1> QED
  BY <1>8, <1>11, <1>12, <1>13, <1>14, <1>15 DEF Stage

-----------------------------------------------------------------------------
(* A script serves the one peer there is *)

LEMMA InitOne == Init => OneInv
<1> SUFFICES ASSUME Init PROVE OneInv
  OBVIOUS
<1>1. /\ files = [fd \in Fds |-> IF fd <= 2 THEN Obj("std", 0)
                                 ELSE IF fd \in Range(Ports) THEN Obj("lsn", 0)
                                 ELSE Free]
      /\ \A c \in Conn : conns[c] = NewConn
      /\ \A j \in Job : jobs[j] = NoJob
      /\ up /\ pc = "poll" /\ addPollFds = <<>> /\ delIndex = <<>> /\ clients = <<>>
      /\ pollFds = [i \in 1..NumPorts |-> Entry(Ports[i], "IN")]
  BY DEF Init
<1>2. pollFds \in Seq(EntryType) /\ DOMAIN pollFds = 1..NumPorts /\ NumPorts \in Nat
  BY <1>1, InitSocketInv, TypesOfState, PortsFacts
<1>3. Len(pollFds) = NumPorts
  BY <1>2, LenProperties
<1>4. Reported
  BY <1>1, <1>2 DEF Reported, Entry
<1>5. NoneOpen /\ NoneLive
  BY <1>1 DEF NoneOpen, NewConn, NoneLive, Live, NoJob
<1>6. files[0].kind = "std" /\ \A fd \in Fds : files[fd].kind \notin {"conn", "out"}
  BY <1>1, PortsFacts DEF Obj, Free
<1>7. DOMAIN clients = {}
  BY <1>1
<1>8. Only({})
  BY <1>6, <1>7 DEF Only, Watchable, Blank, Known
<1>9. Nobody
  BY <1>1, <1>3, <1>5, <1>6, <1>8 DEF Nobody
<1> QED
  BY <1>1, <1>4, <1>9 DEF OneInv, Stage

LEMMA NextOne ==
  ASSUME OnePeer, SocketInv, OneInv, [Next]_vars
  PROVE  OneInv'
<1>1. CASE Server
  <2>1. up
    BY <1>1 DEF Server, Poll, Handle, AcceptConnection, ExecReadRequest, ExecCoreHandler,
         ExecWriteResponse, ExecCgiRefused, ExecCgi, ExecWriteError, ExecWriteCGIBody,
         ExecWaitCgiChild, ExecReadCgi, ExecWriteCgi, NoHandler, ServerDies, Dies, OutTurn, InTurn, Turn,
         DeleteClient, EndHandle, ScanKeep, ScanKill, ScanReap, ScanDrop, SortIndexes, Erase,
         AddPending, InScan
  <2>2. Reported /\ Stage
    BY <2>1 DEF OneInv
  <2>3. CASE ServerDies
    <3>1. ~up' /\ pc' = "handle"
      BY <2>3 DEF ServerDies, Dies, OutTurn, InTurn, Turn
    <3> QED
      BY <3>1 DEF OneInv
  <2>4. CASE Handle /\ ~ServerDies
    <3>1. up'
      BY <2>1, <2>4, HandleTurn DEF HandlerTurn
    <3> QED
      BY <2>2, <2>4, <3>1, HandleStage DEF OneInv
  <2>5. CASE Poll \/ DeleteClient \/ AddPending
    <3>1. up'
      BY <2>1, <2>5 DEF Poll, DeleteClient, EndHandle, ScanKeep, ScanKill, ScanReap, ScanDrop,
           SortIndexes, Erase, AddPending
    <3>2. Reported' /\ Stage'
      BY <2>2, <2>5, PollStage, EndHandleStage, ScanKeepStage, ScanKillStage, ScanReapStage,
         ScanDropStage, SortIndexesStage, EraseStage, AddPendingStage
      DEF DeleteClient
    <3> QED
      BY <3>1, <3>2 DEF OneInv
  <2> QED
    BY <1>1, <2>3, <2>4, <2>5 DEF Server
<1>2. CASE (\E c \in Conn : Peer(c)) \/ (\E j \in Job : Child(j)) \/ Tick \/ UNCHANGED vars
  BY <1>2, OutsideOne
<1> QED
  BY <1>1, <1>2 DEF Next

(* Between passes a script that has not been waited for has its pipe watched,
   by the buffer that waits for its end. *)
LEMMA LiveIsPiped ==
  ASSUME SocketInv, OneInv, pc = "poll", NEW j \in Job, Live(j)
  PROVE  \E s \in DOMAIN clients \cap Fds :
           /\ files[s] = Obj("out", j)
           /\ clients[s].cgiPid = j /\ clients[s].state = "WAIT_CGI_CHILD"
           /\ \E i \in DOMAIN pollFds : pollFds[i].fd = s
<1>1. Stage
  BY DEF OneInv
<1>2. ~NoneLive
  BY DEF NoneLive
<1>3. PICK F \in Fds, s \in Fds, k \in Job : Piped(F, s, k)
  BY <1>1, <1>2 DEF Stage, Nobody, Over, Alone, Dropping
<1>4. k = j
  BY <1>3 DEF Piped
<1>5. Awaited(s, j, Buffer(clients, F), Buffer(clients, s))
  BY <1>3, <1>4 DEF Piped, BeingRead, Finished, Live
<1>6. Len(pollFds) = Second /\ pollFds[Second].fd = s
  BY <1>5 DEF Awaited
<1>7. Second \in DOMAIN pollFds
  <2>1. DOMAIN pollFds = 1..Len(pollFds)
    BY TypesOfState, LenProperties
  <2> QED
    BY <1>6, <2>1, Slots12
<1>8. s \in DOMAIN clients /\ clients[s] = Buffer(clients, s) /\ files[s] = Obj("out", j)
  BY <1>3, <1>4, PipedFacts
<1> QED
  BY <1>5, <1>6, <1>7, <1>8 DEF Awaited

(* Whatever the one peer does, and whatever its scripts print: between
   passes the output of a running script is under poll. *)
THEOREM OnePeerNoOrphans ==
  ASSUME OnePeer
  PROVE  Spec => []NoOrphans
<1>1. Init => OneInv
  BY InitOne
<1>2. SocketInv /\ OneInv /\ [Next]_vars => OneInv'
  BY NextOne
<1>3. SocketInv /\ OneInv => NoOrphans
  BY LiveIsPiped DEF NoOrphans, Live
<1> QED
  BY <1>1, <1>2, <1>3, SocketInvHolds, PTL DEF Spec

(* And a script of its that has ended will be waited for: the buffer of its
   pipe knows its pid, and no other has taken its number. *)
THEOREM OnePeerZombiesAwaited ==
  ASSUME OnePeer
  PROVE  Spec => []ZombiesAwaited
<1>1. Init => OneInv
  BY InitOne
<1>2. SocketInv /\ OneInv /\ [Next]_vars => OneInv'
  BY NextOne
<1>3. SocketInv /\ OneInv => ZombiesAwaited
  BY LiveIsPiped DEF ZombiesAwaited, Live
<1> QED
  BY <1>1, <1>2, <1>3, SocketInvHolds, PTL DEF Spec

(* And what is read from its script is read for it. *)
THEOREM OnePeerServed ==
  ASSUME OnePeer
  PROVE  Spec => []CgiServesItsClient
<1>1. Init => OneInv
  BY InitOne
<1>2. SocketInv /\ OneInv /\ [Next]_vars => OneInv'
  BY NextOne
<1>3. SocketInv /\ OneInv => CgiServesItsClient
  <2> SUFFICES ASSUME SocketInv, OneInv, pc = "poll", NEW fd \in DOMAIN clients \cap Fds,
                      clients[fd].state \in {"WRITE_CGI_BODY", "WAIT_CGI_CHILD", "READ_CGI"},
                      files[fd].kind \in {"out", "stdinW"}
               PROVE  files[clients[fd].clientFd] = Obj("conn", jobs[files[fd].id].http.conn)
    BY DEF CgiServesItsClient
  <2>1. Stage /\ clients[fd] = Buffer(clients, fd) /\ clients[fd] # Zeroed
    BY DEF OneInv, Buffer, Zeroed
  <2>2. ~Nobody
    BY <2>1 DEF Nobody, Only, Blank
  <2>3. ~Over
    BY DEF Over
  <2>4. \A F \in Fds : ~Alone(F) /\ ~Dropping(F)
    BY <2>1 DEF Alone, Accepted, Only, Blank, Dropping
  <2>5. PICK F \in Fds, s \in Fds, j \in Job : Piped(F, s, j)
    BY <2>1, <2>2, <2>3, <2>4 DEF Stage
  <2>6. fd = s
    <3>1. fd # F
      BY <2>5 DEF Piped, Accepted
    <3> QED
      BY <2>1, <2>5, <3>1 DEF Piped, Only, Blank
  <2>7. clients[fd].clientFd = F /\ files[fd].id = j /\ jobs[j].http.conn \in Conn
    BY <2>1, <2>5, <2>6 DEF Piped, Obj
  <2>8. \E c \in Conn : files[F] = Obj("conn", c)
    <3>1. files[F] \in Object /\ files[F].kind = "conn"
      BY <2>5, PipedFacts, TypesOfState
    <3> QED
      BY <3>1 DEF Object, Obj, Free
  <2> QED
    BY <2>7, <2>8 DEF OnePeer
<1> QED
  BY <1>1, <1>2, <1>3, SocketInvHolds, PTL DEF Spec

=============================================================================

-------------------------- MODULE SocketInterface --------------------------
(***************************************************************************)
(* Class SocketInterface: the single-threaded event loop that accepts      *)
(* connections, reads requests, runs CGI scripts and writes responses, all *)
(* behind one poll().  Every handler of eventLoop is an action; peers, CGI *)
(* processes and the clock are the environment and move between handlers.  *)
(*                                                                         *)
(* Data is abstracted to what decides control: a request is one of five    *)
(* kinds, an answer is the request it answers, a script's output is one of *)
(* four kinds.  Descriptors stay numbers that are taken over once closed,  *)
(* because _clients, _pollFds, cgiFd and clientFd all name them by number. *)
(* Framing of requests, partial bodies and chunking are left out here.     *)
(***************************************************************************)
EXTENDS Descriptors, SortedIndexes, Integers, SequencesExt

CONSTANTS
  Ports,                    \* _sockets: the listening descriptors
  TIMEOUT,                  \* SocketInterface.hpp:24 (15 s)
  MAX_LOCAL_REDIRECT_COUNT, \* SocketInterface.hpp:25 (10)
  Request,      \* requests a peer may send, [kind, close]; close is the header
                \*   Connection: close; kinds: "static" (core handler), "bad"
                \*   (RequestParser refuses it), "get" and "post" (CGI),
                \*   "nocgi" (a CGI url whose script or method is refused)
  Output,       \* what a script may print: "doc", "local" and "loop" (local
                \*   redirects to a file and to a CGI), "none"
  Success,      \* what a script's exit may be, a subset of BOOLEAN
  Fault,        \* what peers may do besides: "part" (send half a request),
                \*   "fin" (stop sending), "rst" (reset the connection)
  MaxRequests,  \* bound: requests per connection
  Writes,       \* bound: writes a response may take
  MaxNow        \* bound: seconds the clock may show

(* createSockets opens one socket per port after stdin, stdout and stderr. *)
ASSUME PortsAssumption == Ports \in Seq(3..MaxFd) /\ IsInjective(Ports)
ASSUME RequestAssumption ==
  Request \subseteq [kind : {"static", "bad", "get", "post", "nocgi"}, close : BOOLEAN]
ASSUME ScriptAssumption ==
  Output \subseteq {"doc", "local", "loop", "none"} /\ Success \subseteq BOOLEAN
ASSUME BoundsAssumption ==
  /\ TIMEOUT \in Nat /\ MAX_LOCAL_REDIRECT_COUNT \in Nat
  /\ MaxRequests \in Nat /\ Writes \in Nat \ {0} /\ MaxNow \in Nat \ {0}

VARIABLES
  files,        \* the descriptor table
  conns,        \* the connections, as their peers see them
  jobs,         \* the CGI processes
  now,          \* getNowTime()
  up,           \* FALSE once the process died of an exception or a signal
  pc,           \* the part of eventLoop that runs
  cur,          \* its loop variable i
  pollFds,      \* _pollFds
  addPollFds,   \* _addPollFds
  delIndex,     \* _delIndex
  numClients,   \* _numClients
  clients       \* _clients: the RequestBuffers, by descriptor

kernel == <<files, conns, jobs, now>>
vectors == <<addPollFds, delIndex, numClients>>
vars == <<kernel, up, pc, cur, pollFds, vectors, clients>>

NumPorts == Len(Ports)

-----------------------------------------------------------------------------
(* Data *)

NoHttp == [conn |-> 0, n |-> 0, kind |-> "none", close |-> FALSE]
Unfinished == [NoHttp EXCEPT !.kind = "unfinished"]
Unreadable == [NoHttp EXCEPT !.kind = "bad"]

(* Request n of connection c, as RequestParser returns it. *)
Http(c, n) ==
  [conn |-> c, n |-> n, kind |-> conns[c].asked[n].kind, close |-> conns[c].asked[n].close]

Nothing == [to |-> NoHttp, what |-> "nothing", left |-> 0]
Answer(http, what) == [to |-> http, what |-> what, left |-> Writes]

(* Cgi::pipe_stdin, and the serial number of the pipe. *)
NoCgi == [r |-> 0, w |-> 0, job |-> 0]

(* The buffer operator[] of std::map makes for a missing key, every member
   zero, so its state is READ_REQUEST; and the one createClient inserts. *)
Zeroed ==
  [state |-> "READ_REQUEST", clientFd |-> 0, cgiFd |-> 0, cgiPid |-> 0, redirects |-> 0,
   http |-> NoHttp, response |-> Nothing, body |-> 0, cgi |-> NoCgi, out |-> 0,
   isClosed |-> FALSE, last |-> 0]
NewBuffer(fd, state) ==
  [Zeroed EXCEPT !.state = state, !.clientFd = fd, !.cgiFd = -1, !.cgiPid = -1, !.last = now]

(* _clients[fd], read and written; insert keeps the buffer that is there. *)
Buffer(cl, fd) == IF fd \in DOMAIN cl THEN cl[fd] ELSE Zeroed
Put(cl, fd, b) == [x \in DOMAIN cl \cup {fd} |-> IF x = fd THEN b ELSE cl[x]]
Touch(cl, fd) == Put(cl, fd, Buffer(cl, fd))
Insert(cl, fd, b) == IF fd \in DOMAIN cl THEN cl ELSE Put(cl, fd, b)
Forget(cl, fd) == Restrict(cl, DOMAIN cl \ {fd})

Entry(fd, events) == [fd |-> fd, events |-> events, revents |-> {}]

(* createClient: the entry it queues and the buffer it inserts. *)
CreateClientEntry(fd, state) == Entry(fd, IF state = "WRITE_CGI_BODY" THEN "OUT" ELSE "IN")

(* Mutant: createClient ignores its state argument. *)
CreateClientBufferAnyState(cl, fd, state) == Insert(cl, fd, NewBuffer(fd, "READ_REQUEST"))

(* Mutant: createClient takes the entry at hand for the new client. *)
CreateClientBufferOfEntry(cl, fd, state) == Insert(cl, fd, NewBuffer(pollFds[cur].fd, state))

CreateClientBuffer(cl, fd, state) == Insert(cl, fd, NewBuffer(fd, state))

FreshJob(jb) == Min({ j \in Job : jb[j].st = "none" })
HasFreshJob(jb) == { j \in Job : jb[j].st = "none" } # {}
NoJob == [st |-> "none", http |-> NoHttp, out |-> "none", read |-> FALSE, ok |-> FALSE]
NewConn == [st |-> "new", port |-> 0, asked |-> <<>>, unread |-> <<>>, got |-> <<>>,
            half |-> FALSE, fin |-> FALSE, rst |-> FALSE]

IsClosed(c) == conns[c].st = "open" /\ ~IsOpen(files, Obj("conn", c))

-----------------------------------------------------------------------------

Init ==
  /\ files = [fd \in Fds |-> IF fd <= 2 THEN Obj("std", 0)
                             ELSE IF fd \in Range(Ports) THEN Obj("lsn", 0)
                             ELSE Free]
  /\ conns = [c \in Conn |-> NewConn]
  /\ jobs = [j \in Job |-> NoJob]
  /\ now = 1
  /\ up = TRUE
  /\ pc = "poll"
  /\ cur = 1
  /\ pollFds = [i \in 1..NumPorts |-> Entry(Ports[i], "IN")]
  /\ addPollFds = <<>>
  /\ delIndex = <<>>
  /\ numClients = 0
  /\ clients = <<>>

-----------------------------------------------------------------------------
(* poll() *)

(* Connection c is in the backlog of listening descriptor fd. *)
Waits(c, fd) == conns[c].st = "queued" /\ conns[c].port = fd

(* What poll() reports of one entry. *)
Reports(e) ==
  LET obj == IF e.fd \in Fds THEN files[e.fd] ELSE Free
      j == obj.id
  IN CASE obj.kind = "free" -> {"NVAL"}
       [] obj.kind = "lsn" /\ e.events = "IN" ->
            IF \E c \in Conn : Waits(c, e.fd) THEN {"IN"} ELSE {}
       [] obj.kind = "conn" /\ e.events = "IN" ->
            IF conns[j].fin \/ conns[j].rst THEN {"IN", "HUP"}
            ELSE IF conns[j].unread # <<>> THEN {"IN"}
            ELSE {}
       [] obj.kind = "conn" /\ e.events = "OUT" ->
            IF conns[j].rst THEN {"HUP"} ELSE {"OUT"}
       [] obj.kind = "out" /\ e.events = "IN" ->
            IF jobs[j].st \in {"done", "reaped"} THEN {"IN", "HUP"}
            ELSE IF jobs[j].out # "none" /\ ~jobs[j].read THEN {"IN"}
            ELSE {}
       [] obj.kind = "stdinW" /\ e.events = "OUT" ->
            IF IsOpen(files, Obj("stdinR", j)) THEN {"OUT"} ELSE {"HUP"}
       [] OTHER -> {}

(* The next entry from i on for which the handler loop does anything. *)
NextTurn(pf, i) ==
  LET ready == { k \in i..NumPorts + numClients : pf[k].revents \cap {"IN", "OUT"} # {} }
  IN IF ready = {} THEN NumPorts + numClients + 1 ELSE Min(ready)

(* poll(..., -1) blocks until some entry has something to report. *)
Poll ==
  /\ up /\ pc = "poll"
  /\ \E i \in 1..NumPorts + numClients : Reports(pollFds[i]) # {}
  /\ pollFds' = [i \in DOMAIN pollFds |->
                   IF i <= NumPorts + numClients
                   THEN [pollFds[i] EXCEPT !.revents = Reports(pollFds[i])]
                   ELSE pollFds[i]]
  /\ cur' = NextTurn(pollFds', 1)
  /\ pc' = "handle"
  /\ UNCHANGED <<kernel, up, vectors, clients>>

-----------------------------------------------------------------------------
(* The handlers.  Each takes one turn of eventLoop's loop, for entry cur.   *)

Turn == up /\ pc = "handle" /\ cur <= NumPorts + numClients
EndTurn == cur' = NextTurn(pollFds, cur + 1) /\ UNCHANGED <<pc, now, numClients>>

Here == pollFds[cur].fd
Client == Buffer(clients, Here)

OutTurn(state) ==
  Turn /\ "OUT" \in pollFds[cur].revents /\ Client.state = state
InTurn(state) ==
  /\ Turn
  /\ "OUT" \notin pollFds[cur].revents /\ "IN" \in pollFds[cur].revents
  /\ cur > NumPorts
  /\ Client.state = state

SetEvents(pf, i, events) == [pf EXCEPT ![i].events = events]

(* pollFd.events = events; client = b. *)
Becomes(b, events) ==
  /\ clients' = Put(clients, Here, b)
  /\ pollFds' = SetEvents(pollFds, cur, events)

(* A write to a connection that was reset, or to a pipe nobody can read,
   raises SIGPIPE, which nothing handles: the process ends.  On a connection
   the first such write may be told ECONNRESET instead. *)
IsBroken(obj) ==
  \/ obj.kind = "conn" /\ conns[obj.id].rst
  \/ obj.kind = "stdinW" /\ ~IsOpen(files, Obj("stdinR", obj.id))
IsWritable(obj) == obj.kind \in {"conn", "stdinW"} /\ ~IsBroken(obj)
Fails(obj) == ~IsWritable(obj) /\ ~(obj.kind = "stdinW" /\ IsBroken(obj))

Dies ==
  /\ up' = FALSE
  /\ UNCHANGED <<kernel, pc, cur, pollFds, vectors, clients>>

(* A connection waits in the backlog; accept() takes the oldest. *)
AcceptConnection ==
  /\ Turn /\ cur <= NumPorts /\ "IN" \in pollFds[cur].revents
  /\ \/ /\ HasFree(files)
        /\ LET c == Min({ d \in Conn : Waits(d, Here) })
               fd == LowestFree(files)
           IN /\ files' = Open(files, Obj("conn", c))
              /\ conns' = [conns EXCEPT ![c].st = "open"]
              /\ addPollFds' = Append(addPollFds, CreateClientEntry(fd, "READ_REQUEST"))
              /\ clients' = CreateClientBuffer(clients, fd, "READ_REQUEST")
     \/ /\ ~HasFree(files)
        /\ UNCHANGED <<files, conns, addPollFds, clients>>
  /\ EndTurn
  /\ UNCHANGED <<jobs, up, pollFds, delIndex>>

(* The Cgi constructor's pipe(), for entry fd's request.  Job and MaxFd
   bound what is modelled: pipe() and fork() are not seen to fail. *)
MakeCgi(jb, http, cl, fd) ==
  LET j == FreshJob(jb)
      r == LowestFree(files)
      w == LowestFree(Open(files, Obj("stdinR", j)))
  IN /\ HasFreshJob(jb) /\ CanPipe(files)
     /\ files' = [files EXCEPT ![r] = Obj("stdinR", j), ![w] = Obj("stdinW", j)]
     /\ jobs' = [jb EXCEPT ![j].st = "made", ![j].http = http]
     /\ \/ /\ http.kind # "post"
           /\ clients' = Put(cl, fd, [cl[fd] EXCEPT !.cgi = [r |-> r, w |-> w, job |-> j],
                                                    !.state = "EXEC_CGI"])
           /\ UNCHANGED addPollFds
        \/ /\ http.kind = "post"       \* setCgiBody
           /\ addPollFds' = Append(addPollFds, CreateClientEntry(w, "WRITE_CGI_BODY"))
           /\ LET made == Put(cl, fd, [cl[fd] EXCEPT !.cgi = [r |-> r, w |-> w, job |-> j]])
                  added == CreateClientBuffer(made, w, "WRITE_CGI_BODY")
                  told == [added EXCEPT ![w].clientFd = added[fd].clientFd]
              IN \E size \in 0..Writes :
                   clients' = [told EXCEPT ![w].body = size, ![fd].state = "WAIT_CGI"]

(* execParseRequest on entry i of pf, whose buffer is in cl: the bytes read
   make request http, or do not finish one.  isRequestFinished and request
   are reset by every branch that finishes. *)
ExecParseRequest(cl, pf, jb, i, http) ==
  LET fd == pf[i].fd
      b == [cl[fd] EXCEPT !.last = now]
      Parsed(c, events) ==
        /\ clients' = Put(cl, fd, c)
        /\ pollFds' = SetEvents(pf, i, events)
        /\ jobs' = jb
        /\ UNCHANGED <<files, addPollFds>>
  IN \/ /\ http.kind = "unfinished"
        /\ Parsed([b EXCEPT !.state = "READ_REQUEST"], "IN")
     \/ /\ http.kind = "bad"
        /\ Parsed([b EXCEPT !.state = "WRITE_REQUEST_ERROR", !.http = http,
                            !.response = Answer(http, "error")], "OUT")
     \/ /\ http.kind = "static"
        /\ Parsed([b EXCEPT !.state = "EXEC_CORE_HANDLER", !.http = http], "OUT")
     \/ /\ http.kind \in {"get", "nocgi", "post"}
        /\ MakeCgi(jb, http, Put(cl, fd, [b EXCEPT !.http = http]), fd)
        /\ pollFds' = SetEvents(pf, i, "OUT")

(* read() returns one or more of the segments that have arrived, nothing at
   the end of the stream, or fails; a failure leaves the events as they are.
   A pipe can come here when its buffer is another client's leftover. *)
ExecReadRequest ==
  /\ InTurn("READ_REQUEST")
  /\ LET cl == Touch(clients, Here)
         obj == files[Here]
         j == obj.id
         isData == \/ obj.kind = "conn" /\ ~conns[j].rst /\ conns[j].unread # <<>>
                   \/ obj.kind = "out" /\ jobs[j].out # "none" /\ ~jobs[j].read
         isEnd == \/ obj.kind = "conn" /\ ~conns[j].rst /\ conns[j].fin
                  \/ obj.kind = "out" /\ jobs[j].st \in {"done", "reaped"}
     IN \/ /\ isData /\ obj.kind = "conn"
           /\ \E k \in 1..Len(conns[j].unread) :
                LET n == conns[j].unread[k]
                IN /\ conns' = [conns EXCEPT ![j].unread = SubSeq(@, k + 1, Len(@))]
                   /\ ExecParseRequest(cl, SetEvents(pollFds, cur, "IN"), jobs, cur,
                                       IF n = 0 THEN Unfinished ELSE Http(j, n))
        \/ /\ isData /\ obj.kind = "out"
           /\ ExecParseRequest(cl, SetEvents(pollFds, cur, "IN"),
                               [jobs EXCEPT ![j].read = TRUE], cur, Unreadable)
           /\ UNCHANGED conns
        \/ /\ isEnd /\ ~isData
           /\ ExecParseRequest(cl, SetEvents(pollFds, cur, "IN"), jobs, cur, Unfinished)
           /\ UNCHANGED conns
        \/ /\ ~isEnd /\ ~isData
           /\ clients' = Put(clients, Here, [Client EXCEPT !.state = "WRITE_REQUEST_ERROR"])
           /\ UNCHANGED <<files, conns, jobs, pollFds, addPollFds>>
  /\ EndTurn
  /\ UNCHANGED <<up, delIndex>>

ExecCoreHandler ==
  /\ OutTurn("EXEC_CORE_HANDLER")
  /\ Becomes([Client EXCEPT !.state = "WRITE_RESPONSE", !.last = now,
                            !.response = Answer(Client.http, "doc")], "OUT")
  /\ EndTurn
  /\ UNCHANGED <<files, conns, jobs, up, addPollFds, delIndex>>

(* Mutant: the answer is not shortened by what was written. *)
WriteSomeAgain(b) ==
  LET obj == files[Here]
      sent == [conn |-> b.response.to.conn, n |-> b.response.to.n, what |-> b.response.what]
  IN /\ b.response.left > 0
     /\ clients' = Put(clients, Here, b)
     /\ conns' = IF obj.kind = "conn"
                 THEN [conns EXCEPT ![obj.id].got = Append(@, sent)]
                 ELSE conns

(* write() of client.response took some of it; b is the buffer otherwise
   updated.  The peer has the answer when all of it is written. *)
WriteSome(b) ==
  LET obj == files[Here]
  IN /\ b.response.left > 0
     /\ \E n \in 1..b.response.left :
          LET left == b.response.left - n
              sent == [conn |-> b.response.to.conn, n |-> b.response.to.n, what |-> b.response.what]
          IN /\ clients' = Put(clients, Here,
                  [b EXCEPT !.response = IF left = 0 THEN Nothing ELSE [@ EXCEPT !.left = left]])
             /\ conns' = IF left = 0 /\ obj.kind = "conn"
                         THEN [conns EXCEPT ![obj.id].got = Append(@, sent)]
                         ELSE conns

ExecWriteResponse ==
  /\ OutTurn("WRITE_RESPONSE")
  /\ LET b == [Client EXCEPT !.last = now]
     IN \/ /\ IsWritable(files[Here])
           /\ WriteSome(b)
           /\ UNCHANGED pollFds
        \/ /\ IsWritable(files[Here]) /\ b.response.left = 0
           /\ Becomes([b EXCEPT !.state = "READ_REQUEST", !.response = Nothing,
                                !.redirects = 0, !.cgiPid = -1,
                                !.isClosed = @ \/ b.http.close], "IN")
           /\ UNCHANGED conns
        \/ /\ Fails(files[Here])
           /\ Becomes([b EXCEPT !.state = "WRITE_REQUEST_ERROR",
                                !.response = Answer(b.http, "error")], "OUT")
           /\ UNCHANGED conns
  /\ EndTurn
  /\ UNCHANGED <<files, jobs, up, addPollFds, delIndex>>

(* Cgi::execCGI refuses: 405, or 404 when the script is no regular file. *)
ExecCgiRefused ==
  /\ OutTurn("EXEC_CGI")
  /\ Client.cgi = NoCgi \/ Client.http.kind = "nocgi"
  /\ Becomes([Client EXCEPT !.state = "WRITE_REQUEST_ERROR", !.last = now,
                            !.response = Answer(Client.http, "error")], "OUT")
  /\ EndTurn
  /\ UNCHANGED <<files, conns, jobs, up, addPollFds, delIndex>>

(* Mutant: the pipe keeps itself as its client. *)
CgiBuffersOwnClient(cl, k, fd, j) ==
  LET added == CreateClientBuffer(cl, fd, "WAIT_CGI_CHILD")
      piped == [added EXCEPT ![fd].cgiPid = j]
  IN [piped EXCEPT ![k].cgiPid = j, ![k].cgiFd = fd, ![k].state = "WAIT_CGI", ![k].last = now]

(* Mutant: the client is not told the pid. *)
CgiBuffersNoPid(cl, k, fd, j) ==
  LET added == CreateClientBuffer(cl, fd, "WAIT_CGI_CHILD")
      piped == [added EXCEPT ![fd].clientFd = k, ![fd].cgiPid = j]
  IN [piped EXCEPT ![k].cgiFd = fd, ![k].state = "WAIT_CGI", ![k].last = now]

(* The buffers of client k and of its script's pipe fd, read from job j. *)
CgiBuffers(cl, k, fd, j) ==
  LET added == CreateClientBuffer(cl, fd, "WAIT_CGI_CHILD")
      piped == [added EXCEPT ![fd].clientFd = k, ![fd].cgiPid = j]
  IN [piped EXCEPT ![k].cgiPid = j, ![k].cgiFd = fd, ![k].state = "WAIT_CGI", ![k].last = now]

(* Mutant: the parent keeps the read end of stdin. *)
CgiFilesReadEndKept(cgi, j) == Close(Open(files, Obj("out", j)), cgi.w)

(* Its descriptors: the pipe for the output stays, that for the input goes. *)
CgiFiles(cgi, j) == Close(Close(Open(files, Obj("out", j)), cgi.r), cgi.w)

(* execCgi: pipe, fork, close the ends the child keeps, and queue the read
   end.  validatePath reads an uninitialised stat buffer for a file that does
   not exist, so a "nocgi" script may be run as well (its execve fails).
   A buffer that is executed twice starts a second process. *)
ExecCgi ==
  /\ OutTurn("EXEC_CGI")
  /\ Client.cgi # NoCgi
  /\ CanPipe(files) /\ (jobs[Client.cgi.job].st = "made" \/ HasFreshJob(jobs))
  /\ LET j == IF jobs[Client.cgi.job].st = "made" THEN Client.cgi.job ELSE FreshJob(jobs)
         fd == LowestFree(files)
     IN /\ files' = CgiFiles(Client.cgi, j)
        /\ jobs' = [jobs EXCEPT ![j].st = "run", ![j].http = Client.http]
        /\ addPollFds' = Append(addPollFds, CreateClientEntry(fd, "WAIT_CGI_CHILD"))
        /\ clients' = CgiBuffers(clients, Here, fd, j)
  /\ pollFds' = SetEvents(pollFds, cur, "OUT")
  /\ EndTurn
  /\ UNCHANGED <<conns, up, delIndex>>

(* Mutant: the buffer is not erased. *)
PushDelPollFdKeepsBuffer(i, cl) ==
  /\ delIndex' = Append(delIndex, i)
  /\ files' = Close(files, pollFds[i].fd)
  /\ clients' = cl

(* pushDelPollFd(pollFds[i].fd, i) on intermediate values of the tables. *)
PushDelPollFd(i, cl) ==
  /\ delIndex' = Append(delIndex, i)
  /\ files' = Close(files, pollFds[i].fd)
  /\ clients' = Forget(cl, pollFds[i].fd)

ExecWriteError ==
  /\ OutTurn("WRITE_REQUEST_ERROR")
  /\ \/ /\ IsWritable(files[Here])
        /\ WriteSome(Client)
        /\ pollFds' = SetEvents(pollFds, cur, "OUT")
        /\ UNCHANGED <<files, delIndex>>
     \/ /\ IsWritable(files[Here]) /\ Client.response.left = 0
        /\ pollFds' = SetEvents(pollFds, cur, "none")
        /\ PushDelPollFd(cur, clients)
        /\ UNCHANGED conns
     \/ /\ Fails(files[Here])
        /\ pollFds' = SetEvents(pollFds, cur, "OUT")
        /\ PushDelPollFd(cur, clients)
        /\ UNCHANGED conns
  /\ EndTurn
  /\ UNCHANGED <<jobs, up, addPollFds>>

(* The body of a POST goes to the script's stdin; when none is left, the
   client's script is started. *)
ExecWriteCGIBody ==
  /\ OutTurn("WRITE_CGI_BODY")
  /\ LET b == [Client EXCEPT !.last = now]
         cl == Put(clients, Here, b)
     IN \/ /\ IsWritable(files[Here]) /\ b.body > 0
           /\ \E n \in 1..b.body : clients' = Put(clients, Here, [b EXCEPT !.body = @ - n])
           /\ UNCHANGED pollFds
        \/ /\ IsWritable(files[Here]) /\ b.body = 0
           /\ pollFds' = SetEvents(pollFds, cur, "none")
           /\ clients' = Put(cl, b.clientFd,
                             [Buffer(cl, b.clientFd) EXCEPT !.state = "EXEC_CGI"])
        \/ /\ Fails(files[Here])
           /\ Becomes(b, "OUT")
  /\ EndTurn
  /\ UNCHANGED <<files, conns, jobs, up, addPollFds, delIndex>>

(* Mutant: the exit status is ignored. *)
ExecWaitCgiChildAnyStatus ==
  /\ InTurn("WAIT_CGI_CHILD")
  /\ Client.cgiPid \in Job /\ jobs[Client.cgiPid].st = "done"
  /\ jobs' = [jobs EXCEPT ![Client.cgiPid].st = "reaped"]
  /\ Becomes([Client EXCEPT !.state = "READ_CGI"], "IN")
  /\ EndTurn
  /\ UNCHANGED <<files, conns, up, addPollFds, delIndex>>

(* The processes waitpid(pid) answers for: any of them for 0 and -1. *)
Named(pid) == IF pid \in Job THEN {pid} ELSE Job
Ended(pid) == { j \in Named(pid) : jobs[j].st = "done" }

(* waitpid(cgiPid, WNOHANG).  Once a process it names has ended, the output
   is read next, or the client is told 500 by that process's status; until
   then, or when there is no such process, nothing happens. *)
ExecWaitCgiChild ==
  /\ InTurn("WAIT_CGI_CHILD")
  /\ LET k == Client.clientFd
     IN \/ \E j \in Ended(Client.cgiPid) :
             /\ jobs' = [jobs EXCEPT ![j].st = "reaped"]
             /\ \/ /\ jobs[j].ok
                   /\ Becomes([Client EXCEPT !.state = "READ_CGI"], "IN")
                \/ /\ ~jobs[j].ok /\ k \in DOMAIN clients
                   /\ LET told == [clients EXCEPT ![k].state = "WRITE_REQUEST_ERROR",
                                                  ![k].response = Answer(jobs[j].http, "error")]
                      IN clients' = [told EXCEPT ![Here].state = "WAIT_CGI"]
                   /\ UNCHANGED pollFds
                \/ /\ ~jobs[j].ok /\ k \notin DOMAIN clients
                   /\ UNCHANGED <<clients, pollFds>>
        \/ /\ Ended(Client.cgiPid) = {}
           /\ UNCHANGED <<clients, pollFds, jobs>>
  /\ EndTurn
  /\ UNCHANGED <<files, conns, up, addPollFds, delIndex>>

(* The client's buffer before a local redirect is parsed as its next request. *)
Redirected(b) ==
  [b EXCEPT !.redirects = @ + 1, !.response = Nothing, !.cgiFd = -1, !.cgiPid = -1,
            !.http = [@ EXCEPT !.close = FALSE]]

(* What the redirected request may be parsed as.  It has the method of the
   client's request: a script's POST stays a POST, with a body for the next
   script's stdin; a request without a method is refused; a refused request,
   and one of the core handler, may have had any method. *)
RedirectKinds(kind, out) ==
  { next \in {"bad", "static", "get", "post"} :
      \/ next = "bad" /\ kind \in {"none", "bad"}
      \/ next = "static" /\ out = "local" /\ kind # "none"
      \/ next = "get" /\ out = "loop" /\ kind \in {"get", "nocgi", "static", "bad"}
      \/ next = "post" /\ out = "loop" /\ kind \in {"post", "static", "bad"} }

(* parseCgiResponse for the client k of the pipe at hand; cl and pf already
   say that the pipe waits to be deleted. *)
ParseCgiResponse(cl, pf, k) ==
  LET job == jobs[Client.out]
      b == cl[k]
      slot == { i \in 1..NumPorts + numClients : pf[i].fd = b.clientFd }
  IN \/ /\ job.out = "doc"
        /\ clients' = Put(cl, k, [b EXCEPT !.state = "WRITE_CGI",
                                           !.response = Answer(job.http, "doc")])
        /\ pollFds' = pf
        /\ UNCHANGED <<files, jobs, addPollFds>>
     \/ /\ job.out \in {"local", "loop"} /\ b.redirects >= MAX_LOCAL_REDIRECT_COUNT
        /\ clients' = Put(cl, k, [b EXCEPT !.redirects = @ + 1, !.state = "WRITE_REQUEST_ERROR",
                                           !.response = Answer(job.http, "error")])
        /\ pollFds' = pf
        /\ UNCHANGED <<files, jobs, addPollFds>>
     \/ /\ job.out \in {"local", "loop"} /\ b.redirects < MAX_LOCAL_REDIRECT_COUNT
        /\ LET reset == Put(cl, k, Redirected(b))
           IN \/ /\ slot = {}
                 /\ clients' = reset
                 /\ pollFds' = pf
                 /\ UNCHANGED <<files, jobs, addPollFds>>
              \/ /\ slot # {}
                 /\ \E kind \in RedirectKinds(b.http.kind, job.out) :
                      ExecParseRequest(Touch(reset, b.clientFd), SetEvents(pf, Min(slot), "OUT"),
                                       jobs, Min(slot),
                                       [job.http EXCEPT !.kind = kind, !.close = FALSE])

(* read() returns what the script printed, or the end of it; the response
   is made then.  A descriptor that is no pipe any more gives nothing. *)
HasOutput(obj) == obj.kind = "out" /\ jobs[obj.id].out # "none" /\ ~jobs[obj.id].read
AtEndOfOutput(obj) ==
  obj.kind = "out" /\ ~HasOutput(obj) /\ jobs[obj.id].st \in {"done", "reaped"}

ExecReadCgi ==
  /\ InTurn("READ_CGI")
  /\ LET obj == files[Here]
         k == Client.clientFd
     IN \/ /\ HasOutput(obj)
           /\ k \in DOMAIN clients              \* otherwise ServerDies
           /\ jobs' = [jobs EXCEPT ![obj.id].read = TRUE]
           /\ LET cl == Put(clients, Here, [Client EXCEPT !.out = obj.id])
              IN clients' = [cl EXCEPT ![k].last = now]
           /\ pollFds' = SetEvents(pollFds, cur, "IN")
           /\ UNCHANGED <<files, addPollFds>>
        \/ /\ AtEndOfOutput(obj)
           /\ k \in DOMAIN clients /\ Client.out # 0   \* otherwise ServerDies
           /\ LET cl == Put(clients, Here, [Client EXCEPT !.state = "WAIT_CGI"])
              IN ParseCgiResponse([cl EXCEPT ![k].last = now], SetEvents(pollFds, cur, "none"), k)
        \/ /\ ~HasOutput(obj) /\ ~AtEndOfOutput(obj)
           /\ UNCHANGED <<files, jobs, pollFds, addPollFds, clients>>
  /\ EndTurn
  /\ UNCHANGED <<conns, up, delIndex>>

ExecWriteCgi ==
  /\ OutTurn("WRITE_CGI")
  /\ LET b == [Client EXCEPT !.last = now]
     IN \/ /\ IsWritable(files[Here])
           /\ WriteSome(b)
           /\ UNCHANGED <<files, pollFds>>
        \/ /\ IsWritable(files[Here]) /\ b.response.left = 0
           /\ files' = Close(files, b.cgiFd)
           /\ Becomes([b EXCEPT !.state = "READ_REQUEST", !.response = Nothing, !.cgiFd = -1,
                                !.isClosed = @ \/ b.http.close], "IN")
           /\ UNCHANGED conns
        \/ /\ Fails(files[Here])
           /\ Becomes(b, "OUT")
           /\ UNCHANGED <<files, conns>>
  /\ EndTurn
  /\ UNCHANGED <<jobs, up, addPollFds, delIndex>>

(* States that have no handler for the event: the lookup alone may insert. *)
NoHandler ==
  /\ Turn
  /\ \/ /\ "OUT" \in pollFds[cur].revents
        /\ Client.state \notin {"EXEC_CORE_HANDLER", "WRITE_RESPONSE", "EXEC_CGI", "WRITE_CGI",
                                "WRITE_REQUEST_ERROR", "WRITE_CGI_BODY"}
     \/ /\ "OUT" \notin pollFds[cur].revents /\ "IN" \in pollFds[cur].revents
        /\ cur > NumPorts
        /\ Client.state \notin {"READ_REQUEST", "WAIT_CGI_CHILD", "READ_CGI"}
  /\ clients' = Touch(clients, Here)
  /\ EndTurn
  /\ UNCHANGED <<files, conns, jobs, up, pollFds, addPollFds, delIndex>>

(* The process ends inside a handler: SIGPIPE, out_of_range from at() when
   the CGI's client is gone, or from substr() when a script printed nothing.
   main() catches the exception and returns. *)
ServerDies ==
  /\ \/ /\ \E st \in {"WRITE_RESPONSE", "WRITE_REQUEST_ERROR", "WRITE_CGI", "WRITE_CGI_BODY"} :
             OutTurn(st)
        /\ IsBroken(files[Here])
     \/ /\ InTurn("READ_CGI")
        /\ \/ HasOutput(files[Here]) /\ Client.clientFd \notin DOMAIN clients
           \/ AtEndOfOutput(files[Here])
                /\ (Client.out = 0 \/ Client.clientFd \notin DOMAIN clients)
  /\ Dies

-----------------------------------------------------------------------------
(* deleteClient and the end of the pass *)

EndHandle ==
  /\ up /\ pc = "handle" /\ cur > NumPorts + numClients
  /\ pc' = "scan"
  /\ cur' = 1
  /\ UNCHANGED <<kernel, up, pollFds, vectors, clients>>

InScan(part) == up /\ pc = part /\ cur <= Len(pollFds)

isTimeout(last) == last # 0 /\ now - last > TIMEOUT

(* Mutant: READ_CGI is not spared at the hang-up. *)
MustGoWhileRead(e, b) ==
  \/ /\ b.state \notin {"EXEC_CGI", "WAIT_CGI_CHILD", "WRITE_REQUEST_ERROR"}
     /\ "HUP" \in e.revents
  \/ b.isClosed
  \/ isTimeout(b.last)

(* The condition of lines 589 and 590. *)
MustGo(e, b) ==
  \/ /\ b.state \notin {"EXEC_CGI", "READ_CGI", "WAIT_CGI_CHILD", "WRITE_REQUEST_ERROR"}
     /\ "HUP" \in e.revents
  \/ b.isClosed
  \/ isTimeout(b.last)

(* Mutant: a deleted client takes no CGI with it. *)
CgiSlotsNone(i, b) == {}

(* The entry of the client's CGI: searched from the client's own on. *)
CgiSlots(i, b) == { j \in i..Len(pollFds) : b.cgiFd > 0 /\ pollFds[j].fd = b.cgiFd }

ScanKeep ==
  /\ InScan("scan")
  /\ ~MustGo(pollFds[cur], Client)
  /\ clients' = Touch(clients, Here)
  /\ cur' = cur + 1
  /\ UNCHANGED <<kernel, up, pc, pollFds, vectors>>

(* kill(cgiPid, SIGKILL) *)
ScanKill ==
  /\ InScan("scan")
  /\ MustGo(pollFds[cur], Client)
  /\ CgiSlots(cur, Client) # {}
  /\ clients' = Touch(clients, Here)
  /\ jobs' = [j \in Job |-> IF j = Client.cgiPid /\ jobs[j].st = "run"
                            THEN [jobs[j] EXCEPT !.st = "done", !.ok = FALSE]
                            ELSE jobs[j]]
  /\ pc' = "reap"
  /\ UNCHANGED <<files, conns, now, up, cur, pollFds, vectors>>

(* waitpid(_clients[i].cgiPid, NULL, 0) looks its pid up under the index i,
   counted from 0, and blocks while the process it names, or any process for
   0 and -1, runs.  Then the CGI's own entry is queued for deletion. *)
ScanReap ==
  /\ InScan("reap")
  /\ LET cl == Touch(clients, cur - 1)
         pid == cl[cur - 1].cgiPid
     IN /\ \/ \E j \in Ended(pid) : jobs' = [jobs EXCEPT ![j].st = "reaped"]
           \/ /\ \A j \in Named(pid) : jobs[j].st \notin {"run", "done"}
              /\ UNCHANGED jobs
        /\ PushDelPollFd(Min(CgiSlots(cur, Client)), cl)
  /\ pc' = "drop"
  /\ UNCHANGED <<conns, now, up, cur, pollFds, addPollFds, numClients>>

ScanDrop ==
  /\ \/ InScan("drop")
     \/ /\ InScan("scan")
        /\ MustGo(pollFds[cur], Client)
        /\ CgiSlots(cur, Client) = {}
  /\ PushDelPollFd(cur, clients)
  /\ pc' = "scan"
  /\ cur' = cur + 1
  /\ UNCHANGED <<conns, jobs, now, up, pollFds, addPollFds, numClients>>

Marked == Range(delIndex)

(* The scan ends; the queued indexes are sorted and made unique. *)
SortIndexes ==
  /\ up /\ pc = "scan" /\ cur > Len(pollFds)
  /\ delIndex' \in SortedUnique(Marked)
  /\ pc' = "erase"
  /\ cur' = 1
  /\ UNCHANGED <<kernel, up, pollFds, addPollFds, numClients, clients>>

(* Mutant: _numClients is not decremented. *)
EraseUncounted ==
  /\ up /\ pc = "erase" /\ delIndex # <<>>
  /\ files' = Close(files, pollFds[Head(delIndex)].fd)
  /\ pollFds' = RemoveAt(pollFds, Head(delIndex))
  /\ delIndex' = Tail(delIndex)
  /\ UNCHANGED <<conns, jobs, now, up, pc, cur, addPollFds, numClients, clients>>

(* Mutant: the entry erased is the one before. *)
EraseNeighbour ==
  /\ up /\ pc = "erase" /\ delIndex # <<>>
  /\ files' = Close(files, pollFds[Head(delIndex)].fd)
  /\ pollFds' = RemoveAt(pollFds, Head(delIndex) - 1)
  /\ delIndex' = Tail(delIndex)
  /\ numClients' = numClients - 1
  /\ UNCHANGED <<conns, jobs, now, up, pc, cur, addPollFds, clients>>

(* The erase loop closes the descriptor of each entry once more. *)
Erase ==
  /\ up /\ pc = "erase" /\ delIndex # <<>>
  /\ files' = Close(files, pollFds[Head(delIndex)].fd)
  /\ pollFds' = RemoveAt(pollFds, Head(delIndex))
  /\ delIndex' = Tail(delIndex)
  /\ numClients' = numClients - 1
  /\ UNCHANGED <<conns, jobs, now, up, pc, cur, addPollFds, clients>>

AddPending ==
  /\ up /\ pc = "erase" /\ delIndex = <<>>
  /\ pollFds' = [i \in DOMAIN pollFds |-> [pollFds[i] EXCEPT !.revents = {}]] \o addPollFds
  /\ numClients' = numClients + Len(addPollFds)
  /\ addPollFds' = <<>>
  /\ pc' = "poll"
  /\ cur' = 1
  /\ UNCHANGED <<kernel, up, delIndex, clients>>

Handle ==
  \/ AcceptConnection \/ ExecReadRequest \/ ExecCoreHandler \/ ExecWriteResponse
  \/ ExecCgiRefused \/ ExecCgi \/ ExecWriteError \/ ExecWriteCGIBody
  \/ ExecWaitCgiChild \/ ExecReadCgi \/ ExecWriteCgi
  \/ NoHandler \/ ServerDies

DeleteClient == EndHandle \/ ScanKeep \/ ScanKill \/ ScanReap \/ ScanDrop \/ SortIndexes \/ Erase

Server == Poll \/ Handle \/ DeleteClient \/ AddPending

-----------------------------------------------------------------------------
(* The environment: peers, scripts and the clock.  What they do is noticed
   only by poll() and by the handlers, so they move only then. *)

server == <<up, pc, cur, pollFds, vectors, clients>>
EnvTurn == up /\ pc \in {"poll", "handle"}

(* Connections are opened in the order of their numbers. *)
Connect(c, port) ==
  /\ EnvTurn
  /\ conns[c].st = "new"
  /\ \A d \in Conn : d < c => conns[d].st # "new"
  /\ conns' = [conns EXCEPT ![c].st = "queued", ![c].port = port]
  /\ UNCHANGED <<server, files, jobs, now>>

Speaks(c) ==
  /\ EnvTurn
  /\ conns[c].st \in {"queued", "open"} /\ ~IsClosed(c)
  /\ ~conns[c].fin /\ ~conns[c].rst
  /\ Len(conns[c].asked) = Len(conns[c].got)
  /\ Len(conns[c].asked) < MaxRequests

IsCgiKind(kind) == kind \in {"get", "post", "nocgi"}

(* Processes the requests sent and the redirects printed may still need. *)
JobsUsed ==
  Cardinality({ cn \in Conn \X (1..MaxRequests) :
                  /\ cn[2] <= Len(conns[cn[1]].asked)
                  /\ IsCgiKind(conns[cn[1]].asked[cn[2]].kind) })
    + Cardinality({ j \in Job : jobs[j].out = "loop" })

(* A peer sends a request once its last one is answered (no pipelining). *)
Send(c, r) ==
  /\ Speaks(c)
  /\ IsCgiKind(r.kind) => JobsUsed < Cardinality(Job)
  /\ conns' = [conns EXCEPT ![c].asked = Append(@, r),
                            ![c].unread = Append(@, Len(conns[c].asked) + 1),
                            ![c].half = FALSE]
  /\ UNCHANGED <<server, files, jobs, now>>

(* It sends the first half of one. *)
SendPart(c) ==
  /\ "part" \in Fault
  /\ Speaks(c) /\ ~conns[c].half
  /\ conns' = [conns EXCEPT ![c].unread = Append(@, 0), ![c].half = TRUE]
  /\ UNCHANGED <<server, files, jobs, now>>

(* It sends no more (FIN), or resets the connection. *)
Finish(c) ==
  /\ "fin" \in Fault
  /\ EnvTurn
  /\ conns[c].st \in {"queued", "open"} /\ ~IsClosed(c) /\ ~conns[c].fin /\ ~conns[c].rst
  /\ conns' = [conns EXCEPT ![c].fin = TRUE]
  /\ UNCHANGED <<server, files, jobs, now>>

Reset(c) ==
  /\ "rst" \in Fault
  /\ EnvTurn
  /\ conns[c].st = "open" /\ ~IsClosed(c) /\ ~conns[c].rst
  /\ conns' = [conns EXCEPT ![c].rst = TRUE]
  /\ UNCHANGED <<server, files, jobs, now>>

(* A script prints, and ends.  One that could not be started just ends. *)
ChildWrite(j) ==
  /\ EnvTurn
  /\ jobs[j].st = "run" /\ jobs[j].out = "none" /\ jobs[j].http.kind # "nocgi"
  /\ \E o \in Output \ {"none"} :
       /\ o = "loop" => JobsUsed < Cardinality(Job)
       /\ jobs' = [jobs EXCEPT ![j].out = o]
  /\ UNCHANGED <<server, files, conns, now>>

ChildExit(j) ==
  /\ up /\ pc \in {"poll", "handle", "reap"}
  /\ jobs[j].st = "run"
  /\ \E ok \in Success :
       /\ jobs[j].http.kind = "nocgi" => ~ok
       /\ ok /\ jobs[j].out = "none" => "none" \in Output
       /\ jobs' = [jobs EXCEPT ![j].st = "done", ![j].ok = ok]
  /\ UNCHANGED <<server, files, conns, now>>

(* Time passes while the loop waits: a pass takes less than a second unless
   it blocks in waitpid. *)
Tick ==
  /\ up /\ pc \in {"poll", "reap"}
  /\ now < MaxNow
  /\ now' = now + 1
  /\ UNCHANGED <<server, files, conns, jobs>>

Peer(c) ==
  \/ \E port \in Range(Ports) : Connect(c, port)
  \/ \E r \in Request : Send(c, r)
  \/ SendPart(c) \/ Finish(c) \/ Reset(c)

Child(j) == ChildWrite(j) \/ ChildExit(j)

Next == Server \/ (\E c \in Conn : Peer(c)) \/ (\E j \in Job : Child(j)) \/ Tick

Spec == Init /\ [][Next]_vars

(* The loop takes turns as long as poll() has something to report, and each
   script runs to its end.  Strongly fair: a script moves on its own, and is
   held back in this model only while the loop is past its handlers.  Peers
   and the clock owe nothing. *)
Fairness == WF_vars(Server) /\ \A j \in Job : SF_vars(Child(j))

FairSpec == Spec /\ Fairness
=============================================================================

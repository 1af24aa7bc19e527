--------------------- MODULE SocketInterfaceProperties ---------------------
(***************************************************************************)
(* What class SocketInterface owes its peers and its scripts.  Some of it  *)
(* holds for every workload, some only for the workloads README.md names.  *)
(***************************************************************************)
EXTENDS SocketInterface

HttpType ==
  [conn : Conn \cup {0}, n : 0..MaxRequests,
   kind : {"none", "unfinished", "static", "bad", "get", "post", "nocgi"}, close : BOOLEAN]

ConnType ==
  [st : {"new", "queued", "open"}, port : Range(Ports) \cup {0}, asked : Seq(Request),
   unread : Seq(0..MaxRequests), half : BOOLEAN, fin : BOOLEAN, rst : BOOLEAN,
   got : Seq([conn : Conn \cup {0}, n : 0..MaxRequests, what : {"nothing", "doc", "error"}])]

JobType ==
  [st : {"none", "made", "run", "done", "reaped"}, http : HttpType,
   out : {"none", "doc", "local", "loop"}, read : BOOLEAN, ok : BOOLEAN]

EntryType ==
  [fd : Fds, events : {"IN", "OUT", "none"}, revents : SUBSET {"IN", "OUT", "HUP", "NVAL"}]

(* No buffer names a listening socket, as its client or as its script. *)
Handled == Fds \ Range(Ports)

State ==
  {"READ_REQUEST", "READ_CGI", "WRITE_RESPONSE", "EXEC_CGI", "EXEC_CORE_HANDLER",
   "WRITE_CGI", "WAIT_CGI", "WRITE_REQUEST_ERROR", "WRITE_CGI_BODY", "WAIT_CGI_CHILD"}

ResponseType == [to : HttpType, what : {"nothing", "doc", "error"}, left : 0..Writes]
CgiType == [r : Handled, w : Handled, job : Job] \cup {NoCgi}

BufferType ==
  [state : State, clientFd : Handled, cgiFd : Handled \cup {-1}, cgiPid : Job \cup {-1, 0},
   redirects : Nat, http : HttpType, response : ResponseType,
   body : 0..Writes, cgi : CgiType, out : Job \cup {0}, isClosed : BOOLEAN, last : 0..MaxNow]

(* Every variable keeps its type; a response is never longer than it was
   made, and what is still to be read of a connection belongs to a request
   that was asked on it. *)
TypeOK ==
  /\ files \in [Fds -> Object]
  /\ conns \in [Conn -> ConnType]
  /\ \A c \in Conn : /\ Len(conns[c].asked) <= MaxRequests
                     /\ conns[c].unread \in Seq(0..Len(conns[c].asked))
  /\ jobs \in [Job -> JobType]
  /\ now \in 1..MaxNow
  /\ up \in BOOLEAN
  /\ pc \in {"poll", "handle", "scan", "reap", "drop", "erase"}
  /\ cur \in 1..Len(pollFds) + 1
  /\ pollFds \in Seq(EntryType)
  /\ addPollFds \in Seq(EntryType)
  /\ delIndex \in Seq(Nat)
  /\ numClients \in Nat
  /\ clients \in [DOMAIN clients -> BufferType]

-----------------------------------------------------------------------------
(* The loop's own bookkeeping *)

FdsOf(entries) == [i \in DOMAIN entries |-> entries[i].fd]

Bookkeeping ==
  INSTANCE PollSet WITH
    Fd <- Fds,
    pollFds <- FdsOf(pollFds),
    addPollFds <- FdsOf(addPollFds),
    pc <- IF pc \in {"reap", "drop"} THEN "scan" ELSE pc

(* What the handlers and deleteClient really do to _pollFds, _addPollFds,
   _delIndex and _numClients is what PollSet allows: they never mark a
   listening socket or an index beyond the vector, and never touch the
   vectors outside createClient, pushDelPollFd and the end of the pass.  So
   everything proved of PollSet holds of the event loop. *)
KeepsBookkeeping == Bookkeeping!Spec

(* Every connection and every script's output that is open has an entry in
   _pollFds or waits for one in _addPollFds: none is forgotten open, although
   numbers are reused while old entries still carry them. *)
WatchedDescriptors ==
  \A fd \in Fds : files[fd].kind \in {"conn", "out"} =>
    \/ \E i \in DOMAIN pollFds : pollFds[i].fd = fd
    \/ \E i \in DOMAIN addPollFds : addPollFds[i].fd = fd

-----------------------------------------------------------------------------
(* What peers are owed *)

(* A peer receives only answers to its own requests, each once, in the order
   it asked, whatever is accepted, executed or closed between request and
   answer: the answer finds its way back through descriptor numbers, for a
   script's through clientFd, which SocketInterface.hpp:47 has to return the
   CGI's result. *)
AnswersMatch ==
  \A c \in Conn : \A i \in DOMAIN conns[c].got :
    conns[c].got[i].conn = c /\ conns[c].got[i].n = i

(* While no timeout can have struck, the server closes a connection only
   after the peer ended it, after an error page, or after the answer to a
   request with Connection: close; never in the middle of an exchange. *)
ClosedForCause ==
  \A c \in Conn : IsClosed(c) =>
    \/ conns[c].fin \/ conns[c].rst \/ now > TIMEOUT + 1
    \/ /\ conns[c].got # <<>>
       /\ \/ Last(conns[c].got).what = "error"
          \/ conns[c].asked[Len(conns[c].got)].close

(* Every request of a connection that was accepted is answered in the end,
   unless the peer stops sending, the connection is closed, or so much time
   passes that a script's pipe may be deleted under it. *)
Answered ==
  \A c \in Conn :
    conns[c].st = "open" /\ Len(conns[c].got) < Len(conns[c].asked)
      ~> \/ Len(conns[c].got) = Len(conns[c].asked)
         \/ IsClosed(c) \/ conns[c].fin \/ now > TIMEOUT + 1

(* Only two things end the process: a write to a connection its peer has
   reset, and a script that prints nothing and still exits with 0, whose
   output parseCgiResponse cannot cut.  No other exchange does, whatever was
   closed, redirected or refused in it. *)
StaysUp ==
  ~up => \/ \E c \in Conn : conns[c].rst
         \/ \E j \in Job : jobs[j].st = "reaped" /\ jobs[j].out = "none" /\ jobs[j].ok

-----------------------------------------------------------------------------
(* What scripts are owed *)

(* Between passes, whatever is read from a script or written to it is done
   for the connection whose request the script was started for. *)
CgiServesItsClient ==
  pc = "poll" =>
    \A fd \in DOMAIN clients \cap Fds :
      /\ clients[fd].state \in {"WRITE_CGI_BODY", "WAIT_CGI_CHILD", "READ_CGI"}
      /\ files[fd].kind \in {"out", "stdinW"}
      => files[clients[fd].clientFd] = Obj("conn", jobs[files[fd].id].http.conn)

(* deleteClient sends SIGKILL to a script, never to the process group (0) or
   to every process (-1), the values cgiPid has without a script:
   SocketInterface.hpp:49 has cgiPid to delete the CGI. *)
KillTargets == pc = "reap" => Client.cgiPid \in Job

(* The server is at rest: nobody is connected and no script runs. *)
AtRest ==
  /\ up /\ pc = "poll"
  /\ \A c \in Conn : conns[c].st = "new" \/ IsClosed(c)
  /\ \A j \in Job : jobs[j].st # "run"

(* A server at rest holds its listening sockets and nothing else: each pipe
   and connection was closed on whatever path its exchange took, except the
   input pipe of a script that was never started because its client left. *)
NothingLeaks ==
  AtRest => \A fd \in Fds :
    \/ files[fd].kind \in {"free", "std", "lsn"}
    \/ files[fd].kind \in {"stdinR", "stdinW"} /\ jobs[files[fd].id].st = "made"

(* The closed input pipe of a POST stays under poll, and when its time is over
   its deletion takes along whatever got its number: no such thing can have
   happened yet. *)
Undisturbed == now <= TIMEOUT + 1 \/ \A j \in Job : jobs[j].http.kind # "post"

(* Between passes the output of every running script is under poll: the pipe
   goes only together with its script, so none is left to run for nobody. *)
NoOrphans ==
  Undisturbed => \A j \in Job : jobs[j].st = "run" /\ pc = "poll" =>
    \E i \in DOMAIN pollFds : files[pollFds[i].fd] = Obj("out", j)

(* A script that ended while its client stayed is waited for: a zombie's
   output pipe is still watched by the entry that will reap it. *)
ZombiesAwaited ==
  Undisturbed => \A j \in Job : jobs[j].st = "done" /\ pc = "poll" =>
    \E fd \in DOMAIN clients \cap Fds :
      /\ files[fd] = Obj("out", j)
      /\ clients[fd].cgiPid = j /\ clients[fd].state = "WAIT_CGI_CHILD"

-----------------------------------------------------------------------------
(* What comments say and the code does not do (see README.md) *)

(* SocketInterface.hpp:48 and SocketInterface.cpp:393: cgiFd is there to
   delete the CGI.  So closing it ends no connection. *)
ClosesOnlyCgi ==
  [][ExecWriteCgi => \A c \in Conn : IsClosed(c)' => IsClosed(c)]_vars

(* SocketInterface.hpp:49: cgiPid is there to delete the CGI.  So after the
   kill, the process that was killed is the one waited for. *)
ReapsTheKilled ==
  [][pc = "reap" /\ pc' = "drop" => jobs'[Client.cgiPid].st = "reaped"]_vars
=============================================================================

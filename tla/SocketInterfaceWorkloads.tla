---------------------- MODULE SocketInterfaceWorkloads ----------------------
(***************************************************************************)
(* Proofs about the event loop under a workload, for every number of       *)
(* ports, scripts and descriptors: what holds as long as no script         *)
(* redirects, and, for a single peer that asks for nothing by POST, what   *)
(* its connection goes through while no script runs for it (the rest is in *)
(* SocketInterfaceOnePeer).  In general it does not hold (see README.md).  *)
(***************************************************************************)
EXTENDS SocketInterfaceProofs

-----------------------------------------------------------------------------
(* deleteClient's kill() *)

(* No script prints a local redirect. *)
NoRedirects == Output \cap {"local", "loop"} = {}

(* Whoever has a script has its pid, and whoever reads a request or answers
   one from a file has no script. *)
Killable(b) ==
  /\ b.cgiFd > 0 => b.cgiPid \in Job
  /\ b.state \in {"READ_REQUEST", "EXEC_CORE_HANDLER", "WRITE_RESPONSE"} => ~(b.cgiFd > 0)
AllKillable(cl) == \A fd \in DOMAIN cl : Killable(cl[fd])

NoneRedirects(jb) == \A j \in Job : jb[j].out \notin {"local", "loop"}

KillInv == AllKillable(clients) /\ NoneRedirects(jobs)

(* Buffers that are touched, replaced or dropped. *)
LEMMA KillableZeroed == Killable(Zeroed)
BY DEF Killable, Zeroed

LEMMA KillableBuffer ==
  ASSUME NEW cl, AllKillable(cl), NEW fd
  PROVE  Killable(Buffer(cl, fd)) /\ AllKillable(Touch(cl, fd)) /\ AllKillable(Forget(cl, fd))
BY KillableZeroed DEF AllKillable, Buffer, Touch, Put, Forget, Restrict

LEMMA KillablePut ==
  ASSUME NEW cl, AllKillable(cl), NEW fd, NEW b, Killable(b)
  PROVE  AllKillable(Put(cl, fd, b))
BY DEF AllKillable, Put

LEMMA KillableChange ==
  ASSUME NEW cl, AllKillable(cl), NEW fd, NEW b, fd \in DOMAIN cl => Killable(b)
  PROVE  AllKillable([cl EXCEPT ![fd] = b])
BY DEF AllKillable

LEMMA KillableCreate ==
  ASSUME NEW cl, AllKillable(cl), NEW fd, NEW st
  PROVE  AllKillable(CreateClientBuffer(cl, fd, st))
<1>1. Killable(NewBuffer(fd, st))
  BY DEF Killable, NewBuffer, Zeroed
<1> QED
  BY <1>1, KillablePut DEF CreateClientBuffer, Insert

(* A buffer that keeps its script, and goes on with it or was without one. *)
LEMMA KillableSame ==
  ASSUME NEW b \in BufferType, Killable(b), NEW c \in BufferType,
         c.cgiFd = b.cgiFd, c.cgiPid = b.cgiPid,
         \/ c.state \notin {"READ_REQUEST", "EXEC_CORE_HANDLER", "WRITE_RESPONSE"}
         \/ b.state \in {"READ_REQUEST", "EXEC_CORE_HANDLER", "WRITE_RESPONSE"}
  PROVE  Killable(c)
BY DEF Killable

(* Jobs change, but not what they print. *)
LEMMA SilentJobs ==
  ASSUME NEW jb \in [Job -> JobType], NoneRedirects(jb), NEW j \in Job
  PROVE  /\ NoneRedirects([jb EXCEPT ![j].read = TRUE])
         /\ \A st : NoneRedirects([jb EXCEPT ![j].st = st])
         /\ \A st, http : NoneRedirects([jb EXCEPT ![j].st = st, ![j].http = http])
         /\ \A st, ok : NoneRedirects([jb EXCEPT ![j].st = st, ![j].ok = ok])
<1>1. jb[j] \in JobType
  OBVIOUS
<1>2. \A x : x.out = jb[j].out => NoneRedirects([jb EXCEPT ![j] = x])
  BY DEF NoneRedirects
<1>3. NoneRedirects([jb EXCEPT ![j].read = TRUE])
  <2>1. [jb[j] EXCEPT !.read = TRUE].out = jb[j].out
    BY <1>1 DEF JobType
  <2>2. [jb EXCEPT ![j].read = TRUE] = [jb EXCEPT ![j] = [jb[j] EXCEPT !.read = TRUE]]
    OBVIOUS
  <2> QED
    BY <1>2, <2>1, <2>2
<1>4. ASSUME NEW st
      PROVE  NoneRedirects([jb EXCEPT ![j].st = st])
  <2>1. [jb[j] EXCEPT !.st = st].out = jb[j].out
    BY <1>1 DEF JobType
  <2>2. [jb EXCEPT ![j].st = st] = [jb EXCEPT ![j] = [jb[j] EXCEPT !.st = st]]
    OBVIOUS
  <2> QED
    BY <1>2, <2>1, <2>2
<1>5. ASSUME NEW st, NEW http
      PROVE  NoneRedirects([jb EXCEPT ![j].st = st, ![j].http = http])
  <2>1. [jb[j] EXCEPT !.st = st, !.http = http].out = jb[j].out
    BY <1>1 DEF JobType
  <2>2. [jb EXCEPT ![j].st = st, ![j].http = http]
          = [jb EXCEPT ![j] = [jb[j] EXCEPT !.st = st, !.http = http]]
    OBVIOUS
  <2> QED
    BY <1>2, <2>1, <2>2
<1>6. ASSUME NEW st, NEW ok
      PROVE  NoneRedirects([jb EXCEPT ![j].st = st, ![j].ok = ok])
  <2>1. [jb[j] EXCEPT !.st = st, !.ok = ok].out = jb[j].out
    BY <1>1 DEF JobType
  <2>2. [jb EXCEPT ![j].st = st, ![j].ok = ok]
          = [jb EXCEPT ![j] = [jb[j] EXCEPT !.st = st, !.ok = ok]]
    OBVIOUS
  <2> QED
    BY <1>2, <2>1, <2>2
<1> QED
  BY <1>3, <1>4, <1>5, <1>6

(* A handler's client, and what a handler makes of its own client. *)
LEMMA KillAtHand ==
  ASSUME SocketInv, KillInv
  PROVE  /\ Client \in BufferType /\ Killable(Client) /\ AllKillable(clients)
         /\ jobs \in [Job -> JobType] /\ NoneRedirects(jobs) /\ now \in 0..MaxNow
<1>1. Client \in BufferType
  BY BufferGood DEF Client, SocketInv
<1> QED
  BY <1>1, TypesOfState, KillableBuffer DEF KillInv, Client

LEMMA KillBecomes ==
  ASSUME SocketInv, KillInv, UNCHANGED jobs, NEW b \in BufferType,
         clients' = Put(clients, Here, b), b.cgiFd = Client.cgiFd, b.cgiPid = Client.cgiPid,
         \/ b.state \notin {"READ_REQUEST", "EXEC_CORE_HANDLER", "WRITE_RESPONSE"}
         \/ Client.state \in {"READ_REQUEST", "EXEC_CORE_HANDLER", "WRITE_RESPONSE"}
  PROVE  KillInv'
<1>1. Killable(b)
  BY KillAtHand, KillableSame
<1>2. AllKillable(clients')
  BY <1>1, KillAtHand, KillablePut
<1> QED
  BY <1>2 DEF KillInv, AllKillable, Killable, NoneRedirects

LEMMA KillWriteSome ==
  ASSUME SocketInv, KillInv, UNCHANGED jobs, NEW b \in BufferType, WriteSome(b),
         b.cgiFd = Client.cgiFd, b.cgiPid = Client.cgiPid, b.state = Client.state
  PROVE  KillInv'
<1>1. PICK n \in 1..b.response.left :
        LET left == b.response.left - n
        IN clients' = Put(clients, Here,
                [b EXCEPT !.response = IF left = 0 THEN Nothing ELSE [@ EXCEPT !.left = left]])
  BY DEF WriteSome
<1>2. b.response \in ResponseType /\ b.response.left \in 0..Writes
  BY DEF BufferType, ResponseType
<1>3. [b.response EXCEPT !.left = b.response.left - n] \in ResponseType
  BY <1>2, BoundsAssumption DEF ResponseType
<1>4. PICK r \in ResponseType : clients' = Put(clients, Here, [b EXCEPT !.response = r])
  BY <1>1, <1>3, BaseTypes
<1> DEFINE c == [b EXCEPT !.response = r]
<1>5. c \in BufferType /\ c.cgiFd = b.cgiFd /\ c.cgiPid = b.cgiPid /\ c.state = b.state
  BY DEF BufferType
<1> HIDE DEF c
<1>6. clients' = Put(clients, Here, c)
  BY <1>4 DEF c
<1>7. Killable(c)
  BY <1>5, KillAtHand, KillableSame
<1>8. AllKillable(clients')
  BY <1>6, <1>7, KillAtHand, KillablePut
<1> QED
  BY <1>8 DEF KillInv, AllKillable, Killable, NoneRedirects

LEMMA KillNext ==
  ASSUME AllKillable(clients'), NoneRedirects(jobs')
  PROVE  KillInv'
BY DEF KillInv, AllKillable, Killable, NoneRedirects

LEMMA ExecCoreHandlerKill ==
  ASSUME SocketInv, KillInv, ExecCoreHandler \/ ExecCgiRefused
  PROVE  KillInv'
<1>1. Client \in BufferType /\ now \in 0..MaxNow
  BY KillAtHand
<1>2. \A what \in {"doc", "error"} : Answer(Client.http, what) \in ResponseType
  BY <1>1, BaseTypes DEF BufferType
<1>3. CASE ExecCoreHandler
  <2> DEFINE b == [Client EXCEPT !.state = "WRITE_RESPONSE", !.last = now,
                                 !.response = Answer(Client.http, "doc")]
  <2>1. /\ b \in BufferType /\ b.cgiFd = Client.cgiFd /\ b.cgiPid = Client.cgiPid
        /\ Client.state = "EXEC_CORE_HANDLER" /\ clients' = Put(clients, Here, b) /\ UNCHANGED jobs
    BY <1>1, <1>2, <1>3 DEF ExecCoreHandler, OutTurn, Becomes, BufferType, State
  <2> HIDE DEF b
  <2> QED
    BY <2>1, KillBecomes
<1>4. CASE ExecCgiRefused
  <2> DEFINE b == [Client EXCEPT !.state = "WRITE_REQUEST_ERROR", !.last = now,
                                 !.response = Answer(Client.http, "error")]
  <2>1. /\ b \in BufferType /\ b.cgiFd = Client.cgiFd /\ b.cgiPid = Client.cgiPid
        /\ b.state = "WRITE_REQUEST_ERROR" /\ clients' = Put(clients, Here, b) /\ UNCHANGED jobs
    BY <1>1, <1>2, <1>4 DEF ExecCgiRefused, Becomes, BufferType, State
  <2> HIDE DEF b
  <2> QED
    BY <2>1, KillBecomes
<1> QED
  BY <1>3, <1>4

LEMMA ExecWriteResponseKill ==
  ASSUME SocketInv, KillInv, ExecWriteResponse
  PROVE  KillInv'
<1> DEFINE b == [Client EXCEPT !.last = now]
           done == [b EXCEPT !.state = "READ_REQUEST", !.response = Nothing, !.redirects = 0,
                             !.cgiPid = -1, !.isClosed = @ \/ b.http.close]
           failed == [b EXCEPT !.state = "WRITE_REQUEST_ERROR", !.response = Answer(b.http, "error")]
<1>1. /\ Client \in BufferType /\ now \in 0..MaxNow /\ Killable(Client)
      /\ Client.state = "WRITE_RESPONSE" /\ UNCHANGED jobs
  BY KillAtHand DEF ExecWriteResponse, OutTurn
<1>2. /\ b \in BufferType /\ b.cgiFd = Client.cgiFd /\ b.cgiPid = Client.cgiPid
      /\ b.state = Client.state /\ b.http \in HttpType
  BY <1>1 DEF BufferType
<1>3. \/ WriteSome(b)
      \/ clients' = Put(clients, Here, done)
      \/ clients' = Put(clients, Here, failed)
  BY DEF ExecWriteResponse, Becomes
<1> HIDE DEF b
<1>4. CASE clients' = Put(clients, Here, done)
  <2>1. done.cgiFd = b.cgiFd
    BY <1>2 DEF BufferType
  <2>2. Killable(done)
    BY <1>1, <1>2, <2>1 DEF Killable
  <2> QED
    BY <1>1, <1>4, <2>2, KillAtHand, KillablePut, KillNext
<1>5. CASE clients' = Put(clients, Here, failed)
  <2>1. Answer(b.http, "error") \in ResponseType
    BY <1>2, BaseTypes
  <2>2. /\ failed \in BufferType /\ failed.cgiFd = b.cgiFd /\ failed.cgiPid = b.cgiPid
        /\ failed.state = "WRITE_REQUEST_ERROR"
    BY <1>2, <2>1 DEF BufferType, State
  <2> QED
    BY <1>1, <1>2, <1>5, <2>2, KillBecomes
<1> QED
  BY <1>1, <1>2, <1>3, <1>4, <1>5, KillWriteSome

LEMMA ExecWriteCgiKill ==
  ASSUME SocketInv, KillInv, ExecWriteCgi
  PROVE  KillInv'
<1> DEFINE b == [Client EXCEPT !.last = now]
           done == [b EXCEPT !.state = "READ_REQUEST", !.response = Nothing, !.cgiFd = -1,
                             !.isClosed = @ \/ b.http.close]
<1>1. /\ Client \in BufferType /\ now \in 0..MaxNow /\ Killable(Client)
      /\ Client.state = "WRITE_CGI" /\ UNCHANGED jobs
  BY KillAtHand DEF ExecWriteCgi, OutTurn
<1>2. /\ b \in BufferType /\ b.cgiFd = Client.cgiFd /\ b.cgiPid = Client.cgiPid
      /\ b.state = Client.state
  BY <1>1 DEF BufferType
<1>3. \/ WriteSome(b)
      \/ clients' = Put(clients, Here, done)
      \/ clients' = Put(clients, Here, b)
  BY DEF ExecWriteCgi, Becomes
<1> HIDE DEF b
<1>4. CASE clients' = Put(clients, Here, done)
  <2>1. done.cgiFd = -1
    BY <1>2 DEF BufferType
  <2>2. Killable(done)
    BY <2>1 DEF Killable
  <2> QED
    BY <1>1, <1>4, <2>2, KillAtHand, KillablePut, KillNext
<1> QED
  BY <1>1, <1>2, <1>3, <1>4, KillWriteSome, KillBecomes

LEMMA ExecWriteErrorKill ==
  ASSUME SocketInv, KillInv, ExecWriteError
  PROVE  KillInv'
<1>1. UNCHANGED jobs /\ (WriteSome(Client) \/ clients' = Forget(clients, Here))
  BY DEF ExecWriteError, PushDelPollFd, Here
<1> QED
  BY <1>1, KillAtHand, KillWriteSome, KillableBuffer, KillNext

LEMMA ExecWriteCGIBodyKill ==
  ASSUME SocketInv, KillInv, ExecWriteCGIBody
  PROVE  KillInv'
<1> DEFINE b == [Client EXCEPT !.last = now]
           cl == Put(clients, Here, b)
           k == Client.clientFd
<1>1. /\ Client \in BufferType /\ now \in 0..MaxNow /\ Killable(Client)
      /\ Client.state = "WRITE_CGI_BODY" /\ UNCHANGED jobs
  BY KillAtHand DEF ExecWriteCGIBody, OutTurn
<1>2. /\ b \in BufferType /\ b.cgiFd = Client.cgiFd /\ b.cgiPid = Client.cgiPid
      /\ b.state = Client.state /\ b.clientFd = k
  BY <1>1 DEF BufferType
<1>3. \/ \E n \in 1..b.body : clients' = Put(clients, Here, [b EXCEPT !.body = @ - n])
      \/ clients' = Put(cl, b.clientFd, [Buffer(cl, b.clientFd) EXCEPT !.state = "EXEC_CGI"])
      \/ clients' = Put(clients, Here, b)
  BY DEF ExecWriteCGIBody, Becomes
<1> HIDE DEF b
<1>4. CASE \E n \in 1..b.body : clients' = Put(clients, Here, [b EXCEPT !.body = @ - n])
  <2>1. PICK n \in 1..b.body : clients' = Put(clients, Here, [b EXCEPT !.body = @ - n])
    BY <1>4
  <2>2. Killable([b EXCEPT !.body = @ - n])
    <3>1. /\ [b EXCEPT !.body = @ - n].cgiFd = b.cgiFd
          /\ [b EXCEPT !.body = @ - n].cgiPid = b.cgiPid
          /\ [b EXCEPT !.body = @ - n].state = b.state
      BY <1>2 DEF BufferType
    <3> QED
      BY <1>1, <1>2, <3>1 DEF Killable
  <2> QED
    BY <1>1, <2>1, <2>2, KillAtHand, KillablePut, KillNext
<1>5. CASE clients' = Put(cl, b.clientFd, [Buffer(cl, b.clientFd) EXCEPT !.state = "EXEC_CGI"])
  <2>1. GoodClients(cl) /\ AllKillable(cl)
    <3>1. Here \notin Range(Ports)
      BY AtHand DEF ExecWriteCGIBody, OutTurn
    <3>2. Killable(b)
      BY <1>1, <1>2 DEF Killable
    <3> QED
      BY <1>2, <3>1, <3>2, KillAtHand, KillablePut, PutGood, TypesOfState
  <2> HIDE DEF cl
  <2> DEFINE kb == Buffer(cl, b.clientFd)
             next == [kb EXCEPT !.state = "EXEC_CGI"]
  <2>2. kb \in BufferType /\ Killable(kb)
    BY <2>1, BufferGood, KillableBuffer
  <2> HIDE DEF kb
  <2>3. next.cgiFd = kb.cgiFd /\ next.cgiPid = kb.cgiPid /\ next.state = "EXEC_CGI"
    BY <2>2 DEF BufferType
  <2>4. clients' = Put(cl, b.clientFd, next)
    BY <1>5 DEF kb
  <2>5. Killable(next)
    BY <2>2, <2>3 DEF Killable
  <2> HIDE DEF next
  <2> QED
    BY <1>1, <2>1, <2>4, <2>5, KillAtHand, KillablePut, KillNext
<1> QED
  BY <1>1, <1>2, <1>3, <1>4, <1>5, KillBecomes

LEMMA ExecWaitCgiChildKill ==
  ASSUME SocketInv, KillInv, ExecWaitCgiChild
  PROVE  KillInv'
<1> DEFINE k == Client.clientFd
<1>1. Client \in BufferType /\ Killable(Client)
  BY KillAtHand
<1>2. NoneRedirects(jobs')
  <2>1. jobs' = jobs \/ \E j \in Job : jobs' = [jobs EXCEPT ![j].st = "reaped"]
    BY DEF ExecWaitCgiChild, Ended, Named
  <2>2. \A j \in Job : NoneRedirects([jobs EXCEPT ![j].st = "reaped"])
    BY KillAtHand, SilentJobs
  <2> QED
    BY <2>1, <2>2, KillAtHand
<1>3. AllKillable(clients')
  <2>1. CASE clients' = Put(clients, Here, [Client EXCEPT !.state = "READ_CGI"])
    <3>1. /\ [Client EXCEPT !.state = "READ_CGI"].cgiFd = Client.cgiFd
          /\ [Client EXCEPT !.state = "READ_CGI"].cgiPid = Client.cgiPid
          /\ [Client EXCEPT !.state = "READ_CGI"].state = "READ_CGI"
      BY <1>1 DEF BufferType
    <3>2. Killable([Client EXCEPT !.state = "READ_CGI"])
      BY <1>1, <3>1 DEF Killable
    <3> QED
      BY <2>1, <3>2, KillAtHand, KillablePut
  <2>2. ASSUME NEW j, k \in DOMAIN clients,
               LET told == [clients EXCEPT ![k].state = "WRITE_REQUEST_ERROR",
                                           ![k].response = Answer(jobs[j].http, "error")]
               IN clients' = [told EXCEPT ![Here].state = "WAIT_CGI"]
        PROVE  AllKillable(clients')
    <3> DEFINE r == Answer(jobs[j].http, "error")
               kb == [clients[k] EXCEPT !.state = "WRITE_REQUEST_ERROR", !.response = r]
               told == [clients EXCEPT ![k] = kb]
               hb == [told[Here] EXCEPT !.state = "WAIT_CGI"]
    <3>1. clients[k] \in BufferType /\ Killable(clients[k])
      BY <2>2, TypesOfState, KillAtHand DEF GoodClients, AllKillable
    <3>2. clients' = [told EXCEPT ![Here] = hb]
      BY <2>2
    <3> HIDE DEF r, k
    <3>3. kb.cgiFd = clients[k].cgiFd /\ kb.cgiPid = clients[k].cgiPid
          /\ kb.state = "WRITE_REQUEST_ERROR" /\ DOMAIN kb = DOMAIN clients[k]
      BY <3>1 DEF BufferType
    <3>4. Killable(kb)
      BY <3>1, <3>3 DEF Killable
    <3> HIDE DEF kb
    <3>5. AllKillable(told) /\ \A x \in DOMAIN told : told[x] = kb \/ told[x] \in BufferType
      BY <3>4, KillAtHand, KillableChange, TypesOfState DEF GoodClients
    <3>6. Here \in DOMAIN told => Killable(hb)
      <4> SUFFICES ASSUME Here \in DOMAIN told
                   PROVE  Killable(hb)
        OBVIOUS
      <4> HIDE DEF told
      <4>1. Killable(told[Here])
        BY <3>5 DEF AllKillable
      <4>2. {"cgiFd", "cgiPid", "state"} \subseteq DOMAIN told[Here]
        BY <3>1, <3>3, <3>5 DEF BufferType
      <4>3. hb.cgiFd = told[Here].cgiFd /\ hb.cgiPid = told[Here].cgiPid /\ hb.state = "WAIT_CGI"
        BY <4>2
      <4> QED
        BY <4>1, <4>3 DEF Killable
    <3> HIDE DEF told, hb
    <3> QED
      BY <3>2, <3>5, <3>6, KillableChange
  <2>3. CASE UNCHANGED clients
    BY <2>3, KillAtHand
  <2> QED
    BY <2>1, <2>2, <2>3 DEF ExecWaitCgiChild, Becomes
<1> QED
  BY <1>2, <1>3, KillNext

LEMMA AcceptConnectionKill ==
  ASSUME SocketInv, KillInv, AcceptConnection
  PROVE  KillInv'
<1>1. UNCHANGED jobs
  BY DEF AcceptConnection
<1>2. UNCHANGED clients \/ \E fd : clients' = CreateClientBuffer(clients, fd, "READ_REQUEST")
  BY DEF AcceptConnection
<1> QED
  BY <1>1, <1>2, KillAtHand, KillableCreate, KillNext

LEMMA ExecCgiKill ==
  ASSUME SocketInv, KillInv, ExecCgi
  PROVE  KillInv'
<1> DEFINE cgi == Client.cgi
           j == IF jobs[cgi.job].st = "made" THEN cgi.job ELSE FreshJob(jobs)
           fd == LowestFree(files)
           added == CreateClientBuffer(clients, fd, "WAIT_CGI_CHILD")
           fb == [added[fd] EXCEPT !.clientFd = Here, !.cgiPid = j]
           piped == [added EXCEPT ![fd] = fb]
           kb == [piped[Here] EXCEPT !.cgiPid = j, !.cgiFd = fd, !.state = "WAIT_CGI", !.last = now]
<1>1. /\ Turn /\ cur > NumPorts /\ Client \in BufferType /\ Here \in Handled /\ Client.cgi # NoCgi
      /\ jobs[cgi.job].st = "made" \/ HasFreshJob(jobs)
      /\ CanPipe(files)
  BY AtHand DEF ExecCgi, OutTurn
<1>2. j \in Job
  BY <1>1, FreshJobIsFresh DEF BufferType, CgiType
<1>3. fd \in Handled
  BY <1>1, LowestFreeIsFree, FreeIsHandled, TypesOfState DEF CanPipe
<1>4. /\ jobs' = [jobs EXCEPT ![j].st = "run", ![j].http = Client.http]
      /\ clients' = [piped EXCEPT ![Here] = kb]
  BY ZenonT(60) DEF ExecCgi, CgiBuffers
<1> HIDE DEF j, fd
<1>5. NoneRedirects(jobs')
  BY <1>2, <1>4, KillAtHand, SilentJobs
<1>6. AllKillable(added) /\ GoodClients(added) /\ fd \in DOMAIN added
  <2>1. "WAIT_CGI_CHILD" \in State
    BY DEF State
  <2>2. /\ GoodClients(CreateClientBuffer(clients, fd, "WAIT_CGI_CHILD"))
        /\ DOMAIN CreateClientBuffer(clients, fd, "WAIT_CGI_CHILD") = DOMAIN clients \cup {fd}
    BY <1>3, <2>1, CreateClientGood, TypesOfState
  <2> QED
    BY <2>2, KillAtHand, KillableCreate
<1> HIDE DEF added
<1>7. added[fd] \in BufferType /\ Killable(added[fd])
  BY <1>6 DEF GoodClients, AllKillable
<1>8. fb \in BufferType
  BY <1>1, <1>2, <1>7 DEF BufferType
<1>9. fb.cgiFd = added[fd].cgiFd /\ fb.cgiPid = j /\ fb.state = added[fd].state
  BY <1>7 DEF BufferType
<1>10. Killable(fb)
  BY <1>2, <1>7, <1>9 DEF Killable
<1> HIDE DEF fb
<1>11. AllKillable(piped) /\ GoodClients(piped)
  BY <1>3, <1>6, <1>8, <1>10, KillableChange, ChangeIfThere DEF Handled
<1> HIDE DEF piped
<1>12. Here \in DOMAIN piped => Killable(kb)
  <2> SUFFICES ASSUME Here \in DOMAIN piped
               PROVE  Killable(kb)
    OBVIOUS
  <2>1. piped[Here] \in BufferType
    BY <1>11 DEF GoodClients
  <2>2. kb.cgiPid = j /\ kb.state = "WAIT_CGI"
    BY <2>1 DEF BufferType
  <2> QED
    BY <1>2, <2>2 DEF Killable
<1> HIDE DEF kb
<1> QED
  BY <1>4, <1>5, <1>11, <1>12, KillableChange, KillNext

(* A request is parsed for a client without a script. *)
LEMMA MakeCgiKill ==
  ASSUME SocketInv, NEW jb \in [Job -> JobType], NoneRedirects(jb), NEW http,
         NEW cl, GoodClients(cl), AllKillable(cl), NEW fd \in Handled, fd \in DOMAIN cl,
         MakeCgi(jb, http, cl, fd)
  PROVE  KillInv'
<1> DEFINE j == FreshJob(jb)
           r == LowestFree(files)
           w == LowestFree(Open(files, Obj("stdinR", j)))
           cgi == [r |-> r, w |-> w, job |-> j]
           mb == [cl[fd] EXCEPT !.cgi = cgi]
           made == Put(cl, fd, mb)
           added == CreateClientBuffer(made, w, "WRITE_CGI_BODY")
           Filled(size) == [added EXCEPT ![w].clientFd = added[fd].clientFd, ![w].body = size,
                                         ![fd].state = "WAIT_CGI"]
<1>1. j \in Job
  BY FreshJobIsFresh DEF MakeCgi
<1>2. w \in Handled /\ r \in Handled
  <2>1. CanPipe(files) /\ files \in [Fds -> Object]
    BY TypesOfState DEF MakeCgi
  <2>2. Obj("stdinR", j) \in Object /\ Obj("stdinR", j) # Free
    BY <1>1 DEF Obj, Object, Free
  <2>3. r \in Fds /\ w \in Fds /\ files[r] = Free /\ files[w] = Free
    BY <2>1, <2>2, PipeEnds
  <2> QED
    BY <2>3, FreeIsHandled, TypesOfState
<1>3. /\ jobs' = [jb EXCEPT ![j].st = "made", ![j].http = http]
      /\ \/ clients' = Put(cl, fd, [cl[fd] EXCEPT !.cgi = cgi, !.state = "EXEC_CGI"])
         \/ \E size \in 0..Writes : clients' = Filled(size)
  BY DEF MakeCgi
<1> HIDE DEF j, r, w
<1>4. NoneRedirects(jobs')
  BY <1>1, <1>3, SilentJobs
<1>5. cl[fd] \in BufferType /\ Killable(cl[fd]) /\ cgi \in CgiType
  BY <1>1, <1>2 DEF GoodClients, AllKillable, CgiType
<1> HIDE DEF cgi
<1>6. CASE clients' = Put(cl, fd, [cl[fd] EXCEPT !.cgi = cgi, !.state = "EXEC_CGI"])
  <2> DEFINE b == [cl[fd] EXCEPT !.cgi = cgi, !.state = "EXEC_CGI"]
  <2>1. b.cgiFd = cl[fd].cgiFd /\ b.cgiPid = cl[fd].cgiPid /\ b.state = "EXEC_CGI"
    BY <1>5 DEF BufferType
  <2> HIDE DEF b
  <2>2. Killable(b)
    BY <1>5, <2>1 DEF Killable
  <2> QED
    BY <1>4, <1>6, <2>2, KillablePut, KillNext DEF b
<1>7. CASE \E size \in 0..Writes : clients' = Filled(size)
  <2> PICK size \in 0..Writes : clients' = Filled(size)
    BY <1>7
  <2>1. /\ mb \in BufferType
        /\ mb.cgiFd = cl[fd].cgiFd /\ mb.cgiPid = cl[fd].cgiPid /\ mb.state = cl[fd].state
    BY <1>5 DEF BufferType
  <2> HIDE DEF mb
  <2>2. GoodClients(made) /\ AllKillable(made) /\ fd \in DOMAIN made
    <3>1. Killable(mb)
      BY <1>5, <2>1 DEF Killable
    <3> QED
      BY <2>1, <3>1, PutGood, KillablePut DEF Handled, Put
  <2> HIDE DEF made
  <2>3. GoodClients(added) /\ DOMAIN added = DOMAIN made \cup {w} /\ AllKillable(added)
    <3>1. "WRITE_CGI_BODY" \in State
      BY DEF State
    <3>2. /\ GoodClients(CreateClientBuffer(made, w, "WRITE_CGI_BODY"))
          /\ DOMAIN CreateClientBuffer(made, w, "WRITE_CGI_BODY") = DOMAIN made \cup {w}
      BY <1>2, <2>2, <3>1, CreateClientGood, TypesOfState
    <3> QED
      BY <2>2, <3>2, KillableCreate
  <2> HIDE DEF added
  <2>4. /\ added[w] \in BufferType /\ added[fd] \in BufferType
        /\ Killable(added[w]) /\ Killable(added[fd])
    BY <2>2, <2>3 DEF GoodClients, AllKillable
  <2> DEFINE wb == [added[w] EXCEPT !.clientFd = added[fd].clientFd, !.body = size]
             filled == [added EXCEPT ![w].clientFd = added[fd].clientFd, ![w].body = size]
  <2>5. /\ wb \in BufferType
        /\ wb.cgiFd = added[w].cgiFd /\ wb.cgiPid = added[w].cgiPid /\ wb.state = added[w].state
    <3>1. added[fd].clientFd \in Handled
      BY <2>4 DEF BufferType
    <3> QED
      BY <2>4, <3>1 DEF BufferType
  <2>6. filled = [added EXCEPT ![w] = wb]
    OBVIOUS
  <2> HIDE DEF wb, filled
  <2>7. GoodClients(filled) /\ AllKillable(filled) /\ fd \in DOMAIN filled
    <3>1. Killable(wb)
      BY <2>4, <2>5 DEF Killable
    <3>2. GoodClients([added EXCEPT ![w] = wb]) /\ AllKillable([added EXCEPT ![w] = wb])
      BY <1>2, <2>3, <2>5, <3>1, ChangeIfThere, KillableChange DEF Handled
    <3> QED
      BY <2>2, <2>3, <2>6, <3>2
  <2> DEFINE fb == [filled[fd] EXCEPT !.state = "WAIT_CGI"]
  <2>8. filled[fd] \in BufferType /\ Killable(filled[fd])
    BY <2>7 DEF GoodClients, AllKillable
  <2>9. fb.cgiFd = filled[fd].cgiFd /\ fb.cgiPid = filled[fd].cgiPid /\ fb.state = "WAIT_CGI"
    BY <2>8 DEF BufferType
  <2>10. clients' = [filled EXCEPT ![fd] = fb]
    BY DEF filled
  <2> HIDE DEF fb
  <2>11. Killable(fb)
    BY <2>8, <2>9 DEF Killable
  <2> QED
    <3>1. AllKillable([filled EXCEPT ![fd] = fb])
      BY <2>7, <2>11, KillableChange
    <3> HIDE DEF filled
    <3>2. AllKillable(clients')
      BY <2>10, <3>1
    <3> QED
      BY <1>4, <3>2, KillNext
<1> QED
  BY <1>3, <1>6, <1>7

LEMMA ExecParseRequestKill ==
  ASSUME SocketInv, NEW jb \in [Job -> JobType], NoneRedirects(jb), NEW http \in HttpType,
         NEW cl, GoodClients(cl), AllKillable(cl), NEW pf, NEW i,
         pf[i].fd \in DOMAIN cl, pf[i].fd \in Handled, ~(cl[pf[i].fd].cgiFd > 0),
         ExecParseRequest(cl, pf, jb, i, http)
  PROVE  KillInv'
<1> DEFINE fd == pf[i].fd
           b == [cl[fd] EXCEPT !.last = now]
<1>1. cl[fd] \in BufferType /\ Killable(cl[fd])
  BY DEF GoodClients, AllKillable
<1>2. b \in BufferType /\ b.cgiFd = cl[fd].cgiFd /\ b.cgiPid = cl[fd].cgiPid
  BY <1>1, TypesOfState DEF BufferType
<1>3. \/ /\ jobs' = jb
         /\ \/ clients' = Put(cl, fd, [b EXCEPT !.state = "READ_REQUEST"])
            \/ clients' = Put(cl, fd, [b EXCEPT !.state = "WRITE_REQUEST_ERROR", !.http = http,
                                                !.response = Answer(http, "error")])
            \/ clients' = Put(cl, fd, [b EXCEPT !.state = "EXEC_CORE_HANDLER", !.http = http])
      \/ MakeCgi(jb, http, Put(cl, fd, [b EXCEPT !.http = http]), fd)
  BY DEF ExecParseRequest
<1> HIDE DEF b, fd
<1>4. ~(b.cgiFd > 0) /\ fd \in Handled /\ fd \notin Range(Ports)
  BY <1>2 DEF fd, Handled
<1>5. ASSUME NEW c, clients' = Put(cl, fd, c), c.cgiFd = b.cgiFd, jobs' = jb
      PROVE  KillInv'
  <2>1. Killable(c)
    BY <1>4, <1>5 DEF Killable
  <2> QED
    BY <1>5, <2>1, KillablePut, KillNext
<1>6. /\ [b EXCEPT !.state = "READ_REQUEST"].cgiFd = b.cgiFd
      /\ [b EXCEPT !.state = "WRITE_REQUEST_ERROR", !.http = http,
                   !.response = Answer(http, "error")].cgiFd = b.cgiFd
      /\ [b EXCEPT !.state = "EXEC_CORE_HANDLER", !.http = http].cgiFd = b.cgiFd
      /\ [b EXCEPT !.http = http].cgiFd = b.cgiFd
      /\ [b EXCEPT !.http = http] \in BufferType
  BY <1>2 DEF BufferType
<1>7. CASE MakeCgi(jb, http, Put(cl, fd, [b EXCEPT !.http = http]), fd)
  <2> DEFINE c == [b EXCEPT !.http = http]
             cl2 == Put(cl, fd, c)
  <2>1. c \in BufferType /\ c.cgiFd = b.cgiFd /\ MakeCgi(jb, http, cl2, fd)
    BY <1>6, <1>7
  <2> HIDE DEF c
  <2>2. Killable(c)
    BY <1>4, <2>1 DEF Killable
  <2>3. GoodClients(cl2) /\ AllKillable(cl2) /\ fd \in DOMAIN cl2
    BY <1>4, <2>1, <2>2, PutGood, KillablePut DEF Put
  <2> HIDE DEF cl2
  <2> QED
    BY <1>4, <2>1, <2>3, MakeCgiKill
<1> QED
  BY <1>3, <1>5, <1>6, <1>7

LEMMA ExecReadRequestKill ==
  ASSUME SocketInv, KillInv, ExecReadRequest
  PROVE  KillInv'
<1> DEFINE cl == Touch(clients, Here)
           pf == SetEvents(pollFds, cur, "IN")
           j == files[Here].id
           failed == [Client EXCEPT !.state = "WRITE_REQUEST_ERROR"]
<1>1. /\ Turn /\ cur \in NumPorts + 1 .. Len(pollFds) /\ cur > NumPorts
      /\ Client \in BufferType /\ Killable(Client) /\ ~(Client.cgiFd > 0)
      /\ Here \in Handled /\ Here \in Fds /\ Client.state = "READ_REQUEST"
  BY AtHand, KillAtHand DEF ExecReadRequest, InTurn, Killable
<1>2. GoodClients(cl) /\ AllKillable(cl) /\ Here \in DOMAIN cl /\ cl[Here] = Client
  <2>1. GoodClients(cl) /\ Here \in DOMAIN cl
    BY TouchGood, TypesOfState
  <2>2. cl[Here] = Client
    BY DEF Touch, Put, Client
  <2> QED
    BY <2>1, <2>2, KillAtHand, KillableBuffer
<1>3. pf[cur].fd = Here
  <2>1. SameEntries(pollFds, pf)
    BY <1>1, EventsAtHand
  <2>2. cur \in 1..Len(pollFds)
    BY <1>1, PortsFacts
  <2> QED
    BY <2>1, <2>2 DEF SameEntries, Here
<1>4. \/ /\ files[Here].kind = "conn"
         /\ \E k \in 1..Len(conns[j].unread) :
              ExecParseRequest(cl, pf, jobs, cur,
                IF conns[j].unread[k] = 0 THEN Unfinished ELSE Http(j, conns[j].unread[k]))
      \/ /\ files[Here].kind = "out"
         /\ ExecParseRequest(cl, pf, [jobs EXCEPT ![j].read = TRUE], cur, Unreadable)
      \/ ExecParseRequest(cl, pf, jobs, cur, Unfinished)
      \/ clients' = Put(clients, Here, failed) /\ UNCHANGED jobs
  BY DEF ExecReadRequest
<1> HIDE DEF cl, pf
<1>5. ASSUME NEW jb \in [Job -> JobType], NoneRedirects(jb), NEW http \in HttpType,
             ExecParseRequest(cl, pf, jb, cur, http)
      PROVE  KillInv'
  BY <1>1, <1>2, <1>3, <1>5, ExecParseRequestKill
<1>6. CASE /\ files[Here].kind = "conn"
           /\ \E k \in 1..Len(conns[j].unread) :
                ExecParseRequest(cl, pf, jobs, cur,
                  IF conns[j].unread[k] = 0 THEN Unfinished ELSE Http(j, conns[j].unread[k]))
  <2>1. j \in Conn
    BY <1>1, <1>6, TypesOfState DEF Object
  <2> HIDE DEF j
  <2>2. PICK k \in 1..Len(conns[j].unread) :
          ExecParseRequest(cl, pf, jobs, cur,
            IF conns[j].unread[k] = 0 THEN Unfinished ELSE Http(j, conns[j].unread[k]))
    BY <1>6
  <2> DEFINE http == IF conns[j].unread[k] = 0 THEN Unfinished ELSE Http(j, conns[j].unread[k])
  <2>3. http \in HttpType
    BY <2>1, ReadHttpType, TypesOfState
  <2>4. ExecParseRequest(cl, pf, jobs, cur, http)
    BY <2>2
  <2> HIDE DEF http
  <2> QED
    BY <1>5, <2>3, <2>4, KillAtHand
<1>7. CASE /\ files[Here].kind = "out"
           /\ ExecParseRequest(cl, pf, [jobs EXCEPT ![j].read = TRUE], cur, Unreadable)
  <2>1. j \in Job
    BY <1>1, <1>7, TypesOfState DEF Object
  <2> HIDE DEF j
  <2> DEFINE jb == [jobs EXCEPT ![j].read = TRUE]
  <2>2. jb \in [Job -> JobType] /\ NoneRedirects(jb)
    BY <2>1, JobChanges, BaseTypes, SilentJobs, KillAtHand
  <2>3. ExecParseRequest(cl, pf, jb, cur, Unreadable)
    BY <1>7
  <2> HIDE DEF jb
  <2> QED
    BY <1>5, <2>2, <2>3, BaseTypes
<1>8. CASE ExecParseRequest(cl, pf, jobs, cur, Unfinished)
  BY <1>5, <1>8, BaseTypes, KillAtHand
<1>9. CASE clients' = Put(clients, Here, failed) /\ UNCHANGED jobs
  <2>1. /\ failed \in BufferType /\ failed.cgiFd = Client.cgiFd /\ failed.cgiPid = Client.cgiPid
        /\ failed.state = "WRITE_REQUEST_ERROR"
    BY <1>1 DEF BufferType, State
  <2> HIDE DEF failed
  <2> QED
    BY <1>9, <2>1, KillBecomes
<1> QED
  BY <1>4, <1>6, <1>7, <1>8, <1>9

(* What a script that redirects nowhere printed is a document. *)
LEMMA ExecReadCgiKill ==
  ASSUME SocketInv, KillInv, ExecReadCgi
  PROVE  KillInv'
<1> DEFINE obj == files[Here]
           k == Client.clientFd
<1>1. /\ Turn /\ Client \in BufferType /\ Killable(Client) /\ Client.state = "READ_CGI"
      /\ Here \in Fds /\ Here \notin Range(Ports) /\ k \notin Range(Ports)
  <2>1. Turn /\ cur > NumPorts /\ Client.state = "READ_CGI"
    BY DEF ExecReadCgi, InTurn
  <2> QED
    BY <2>1, AtHand, KillAtHand DEF BufferType, Handled
(* The pipe's buffer changes, then its client hears of it. *)
<1>2. ASSUME NEW x \in BufferType, Killable(x), k \in DOMAIN clients
      PROVE  LET cl == Put(clients, Here, x)
                 c == [cl EXCEPT ![k].last = now]
             IN GoodClients(c) /\ AllKillable(c) /\ k \in DOMAIN c
  <2> DEFINE cl == Put(clients, Here, x)
             kb == [cl[k] EXCEPT !.last = now]
  <2>1. GoodClients(cl) /\ AllKillable(cl) /\ k \in DOMAIN cl
    <3>1. GoodClients(cl) /\ AllKillable(cl)
      BY <1>1, <1>2, PutGood, KillablePut, KillAtHand, TypesOfState
    <3> QED
      BY <1>2, <3>1 DEF Put
  <2> HIDE DEF cl, k
  <2>2. cl[k] \in BufferType /\ Killable(cl[k])
    BY <2>1 DEF GoodClients, AllKillable
  <2>3. kb \in BufferType /\ kb.cgiFd = cl[k].cgiFd /\ kb.cgiPid = cl[k].cgiPid
        /\ kb.state = cl[k].state
    BY <2>2, TypesOfState DEF BufferType
  <2>4. Killable(kb)
    BY <2>2, <2>3 DEF Killable
  <2> HIDE DEF kb
  <2>5. /\ GoodClients([cl EXCEPT ![k] = kb]) /\ AllKillable([cl EXCEPT ![k] = kb])
        /\ k \in DOMAIN [cl EXCEPT ![k] = kb]
    BY <1>1, <2>1, <2>3, <2>4, ChangeIfThere, KillableChange
  <2> QED
    BY <2>5 DEF cl, kb
<1>3. CASE /\ HasOutput(obj) /\ k \in DOMAIN clients
           /\ jobs' = [jobs EXCEPT ![obj.id].read = TRUE]
           /\ LET cl == Put(clients, Here, [Client EXCEPT !.out = obj.id])
              IN clients' = [cl EXCEPT ![k].last = now]
  <2>1. obj.id \in Job
    BY <1>1, <1>3, TypesOfState DEF HasOutput, Object
  <2> DEFINE x == [Client EXCEPT !.out = obj.id]
  <2>2. x \in BufferType /\ x.cgiFd = Client.cgiFd /\ x.cgiPid = Client.cgiPid
        /\ x.state = Client.state
    BY <1>1, <2>1 DEF BufferType
  <2>3. Killable(x)
    BY <1>1, <2>2 DEF Killable
  <2> HIDE DEF x
  <2>4. AllKillable(clients')
    BY <1>2, <1>3, <2>2, <2>3 DEF x
  <2> HIDE DEF obj
  <2>5. NoneRedirects(jobs')
    BY <1>3, <2>1, SilentJobs, KillAtHand
  <2> QED
    BY <2>4, <2>5, KillNext
<1>4. CASE /\ k \in DOMAIN clients /\ Client.out # 0
           /\ LET cl == Put(clients, Here, [Client EXCEPT !.state = "WAIT_CGI"])
              IN ParseCgiResponse([cl EXCEPT ![k].last = now], SetEvents(pollFds, cur, "none"), k)
  <2> DEFINE x == [Client EXCEPT !.state = "WAIT_CGI"]
             cl == Put(clients, Here, x)
             c == [cl EXCEPT ![k].last = now]
             job == jobs[Client.out]
             b == c[k]
             done == [b EXCEPT !.state = "WRITE_CGI", !.response = Answer(job.http, "doc")]
  <2>1. Client.out \in Job
    BY <1>1, <1>4 DEF BufferType
  <2>2. x \in BufferType /\ x.cgiFd = Client.cgiFd /\ x.cgiPid = Client.cgiPid
        /\ x.state = "WAIT_CGI"
    BY <1>1 DEF BufferType, State
  <2>3. Killable(x)
    BY <1>1, <2>2 DEF Killable
  <2> HIDE DEF x
  <2>4. GoodClients(c) /\ AllKillable(c) /\ k \in DOMAIN c
    BY <1>2, <1>4, <2>2, <2>3
  <2>5. job.out \notin {"local", "loop"}
    BY <2>1, KillAtHand DEF NoneRedirects
  <2>6. ParseCgiResponse(c, SetEvents(pollFds, cur, "none"), k)
    BY <1>4 DEF x
  <2> HIDE DEF c, job
  <2>7. clients' = Put(c, k, done) /\ UNCHANGED jobs
    BY <2>5, <2>6 DEF ParseCgiResponse, job
  <2>8. b \in BufferType /\ Killable(b)
    BY <2>4 DEF GoodClients, AllKillable
  <2> HIDE DEF b
  <2>9. done.cgiFd = b.cgiFd /\ done.cgiPid = b.cgiPid /\ done.state = "WRITE_CGI"
    BY <2>8 DEF BufferType
  <2>10. Killable(done)
    BY <2>8, <2>9 DEF Killable
  <2> HIDE DEF done
  <2> QED
    BY <2>4, <2>7, <2>10, KillablePut, KillNext, KillAtHand
<1>5. CASE UNCHANGED <<jobs, clients>>
  BY <1>5, KillAtHand, KillNext
<1> QED
  BY <1>3, <1>4, <1>5 DEF ExecReadCgi

LEMMA HandleKill ==
  ASSUME SocketInv, KillInv, Handle
  PROVE  KillInv'
<1>1. CASE NoHandler
  <2>1. UNCHANGED jobs /\ clients' = Touch(clients, Here)
    BY <1>1 DEF NoHandler
  <2> QED
    BY <2>1, KillAtHand, KillableBuffer, KillNext
<1>2. CASE ServerDies
  <2>1. UNCHANGED <<jobs, clients>>
    BY <1>2 DEF ServerDies, Dies, kernel
  <2> QED
    BY <2>1, KillAtHand, KillNext
<1> QED
  BY <1>1, <1>2, AcceptConnectionKill, ExecReadRequestKill, ExecCoreHandlerKill,
     ExecWriteResponseKill, ExecCgiKill, ExecWriteErrorKill, ExecWriteCGIBodyKill,
     ExecWaitCgiChildKill, ExecReadCgiKill, ExecWriteCgiKill
  DEF Handle

LEMMA DeleteClientKill ==
  ASSUME SocketInv, KillInv, DeleteClient
  PROVE  KillInv'
<1>1. CASE EndHandle \/ SortIndexes \/ Erase
  <2>1. UNCHANGED <<jobs, clients>>
    BY <1>1 DEF EndHandle, SortIndexes, Erase, kernel
  <2> QED
    BY <2>1, KillAtHand, KillNext
<1>2. CASE ScanKeep \/ ScanDrop
  <2>1. UNCHANGED jobs /\ \E fd : clients' = Touch(clients, fd) \/ clients' = Forget(clients, fd)
    BY <1>2 DEF ScanKeep, ScanDrop, PushDelPollFd, kernel
  <2> QED
    BY <2>1, KillAtHand, KillableBuffer, KillNext
<1>3. CASE ScanKill
  <2>1. /\ clients' = Touch(clients, Here)
        /\ jobs' = [j \in Job |-> IF j = Client.cgiPid /\ jobs[j].st = "run"
                                  THEN [jobs[j] EXCEPT !.st = "done", !.ok = FALSE]
                                  ELSE jobs[j]]
    BY <1>3 DEF ScanKill
  <2>2. \A j \in Job : [jobs[j] EXCEPT !.st = "done", !.ok = FALSE].out = jobs[j].out
    BY KillAtHand DEF JobType
  <2>3. NoneRedirects(jobs')
    BY <2>1, <2>2, KillAtHand DEF NoneRedirects
  <2> QED
    BY <2>1, <2>3, KillAtHand, KillableBuffer, KillNext
<1>4. CASE ScanReap
  <2>1. \E x, y : clients' = Forget(Touch(clients, x), y)
    BY <1>4 DEF ScanReap, PushDelPollFd
  <2>2. UNCHANGED jobs \/ \E j \in Job : jobs' = [jobs EXCEPT ![j].st = "reaped"]
    BY <1>4 DEF ScanReap, Ended, Named
  <2>3. NoneRedirects(jobs')
    <3>1. \A j \in Job : NoneRedirects([jobs EXCEPT ![j].st = "reaped"])
      BY KillAtHand, SilentJobs
    <3> QED
      BY <2>2, <3>1, KillAtHand
  <2>4. AllKillable(clients')
    BY <2>1, KillAtHand, KillableBuffer
  <2> QED
    BY <2>3, <2>4, KillNext
<1> QED
  BY <1>1, <1>2, <1>3, <1>4 DEF DeleteClient

LEMMA NextKill ==
  ASSUME NoRedirects, SocketInv, KillInv, [Next]_vars
  PROVE  KillInv'
<1>1. CASE Poll \/ AddPending \/ Tick \/ (\E c \in Conn : Peer(c)) \/ UNCHANGED vars
  <2>1. UNCHANGED <<jobs, clients>>
    BY <1>1 DEF Poll, AddPending, Tick, Peer, Connect, Send, SendPart, Finish, Reset,
                server, kernel, vars
  <2> QED
    BY <2>1, KillAtHand, KillNext
<1>2. ASSUME NEW j \in Job, Child(j)
      PROVE  KillInv'
  <2>1. CASE ChildWrite(j)
    <3>1. PICK o \in Output : jobs' = [jobs EXCEPT ![j].out = o]
      BY <2>1 DEF ChildWrite
    <3>2. jobs \in [Job -> JobType] /\ NoneRedirects(jobs)
      BY KillAtHand
    <3>3. o \notin {"local", "loop"}
      BY DEF NoRedirects
    <3>4. NoneRedirects(jobs')
      BY <3>1, <3>2, <3>3 DEF NoneRedirects, JobType
    <3> QED
      BY <2>1, <3>4, KillAtHand, KillNext DEF ChildWrite, server
  <2>2. CASE ChildExit(j)
    <3>1. PICK ok : jobs' = [jobs EXCEPT ![j].st = "done", ![j].ok = ok]
      BY <2>2 DEF ChildExit
    <3>2. NoneRedirects(jobs')
      BY <3>1, KillAtHand, SilentJobs
    <3> QED
      BY <2>2, <3>2, KillAtHand, KillNext DEF ChildExit, server
  <2> QED
    BY <1>2, <2>1, <2>2 DEF Child
<1> QED
  BY <1>1, <1>2, HandleKill, DeleteClientKill DEF Next, Server

(* deleteClient kills scripts and nothing else, as long as no script
   redirects: the pid it signals is never 0 (the process group) or -1 (every
   process), the values cgiPid has without a script. *)
THEOREM KillsOnlyScripts ==
  ASSUME NoRedirects
  PROVE  Spec => []KillTargets
<1>1. Init => KillInv
  BY DEF Init, KillInv, AllKillable, NoneRedirects, NoJob
<1>2. SocketInv /\ KillInv /\ [Next]_vars => KillInv'
  BY NextKill
<1>3. SocketInv /\ KillInv => KillTargets
  <2> SUFFICES ASSUME SocketInv, KillInv, pc = "reap"
               PROVE  Client.cgiPid \in Job
    BY DEF KillTargets
  <2>1. Client.cgiFd > 0
    BY DEF SocketInv, CursorOK, CgiSlots
  <2> QED
    BY <2>1, KillAtHand DEF Killable
<1> QED
  BY <1>1, <1>2, <1>3, SocketInvHolds, PTL DEF Spec

(* There is one peer, and it asks for nothing by POST. *)
OnePeer == (\A c, d \in Conn : c = d) /\ (\A r \in Request : r.kind # "post")

(* The entries behind the listening sockets': the peer's, and the one of the
   output of its script. *)
First == NumPorts + 1
Second == NumPorts + 2

(* Scripts whose process is still to be waited for. *)
Live(j) == jobs[j].st \in {"run", "done"}
NoneLive == \A j \in Job : ~Live(j)

AllOpen == \A c \in Conn : conns[c].st = "open"
NoneOpen == \A c \in Conn : conns[c].st # "open"

(* Nothing outside S is watched, or has a buffer that was ever used. *)
Watchable(S) == \A fd \in Fds : files[fd].kind \in {"conn", "out"} => fd \in S
Blank(S) == \A fd \in DOMAIN clients \ S : clients[fd] = Zeroed
Known(S) == S \subseteq DOMAIN clients /\ DOMAIN clients \subseteq Range(Ports) \cup S
Only(S) == Watchable(S) /\ Blank(S) /\ Known(S)

(* The peer has not been accepted yet. *)
Nobody ==
  /\ NoneOpen /\ NoneLive /\ Only({}) /\ files[0].kind = "std"
  /\ Len(pollFds) = NumPorts /\ addPollFds = <<>> /\ delIndex = <<>>
  /\ pc \notin {"reap", "drop"}

(* The peer's connection is descriptor F. *)
Accepted(F) == AllOpen /\ files[F].kind = "conn" /\ files[0].kind = "std"

(* Its request is for a script, and not a POST; so a local redirect's is none. *)
AsksScript(b) == b.http.kind \in {"get", "nocgi"}

(* Its request for a script has its pipe, and the script is still to be run. *)
HasCgi(fl, jb, b) ==
  /\ AsksScript(b)
  /\ b.cgi # NoCgi /\ b.http.conn \in Conn
  /\ fl[b.cgi.r].kind = "stdinR" /\ fl[b.cgi.w].kind = "stdinW"
  /\ jb[b.cgi.job].st = "made"

ClientState ==
  {"READ_REQUEST", "EXEC_CORE_HANDLER", "WRITE_RESPONSE", "EXEC_CGI", "WRITE_CGI",
   "WRITE_REQUEST_ERROR", "WAIT_CGI"}

(* b is the peer's buffer. *)
IsClient(F, b) ==
  /\ b.clientFd = F /\ b.cgiFd \notin {0, F} /\ Killable(b)
  /\ b.state \in ClientState
  /\ b.state = "EXEC_CGI" => HasCgi(files, jobs, b)
  /\ b.isClosed => b.state = "READ_REQUEST"

(* What is marked as closed in a pass is deleted in it. *)
Closing == (pc = "handle" /\ cur > First) \/ (pc = "scan" /\ cur <= First)

(* The peer's entry is under poll, waits to be, or is followed by one of a
   script's pipe that is closed and marked. *)
Listed(F) ==
  \/ Len(pollFds) = First /\ pollFds[First].fd = F /\ addPollFds = <<>> /\ delIndex = <<>>
  \/ /\ Len(pollFds) = NumPorts /\ Len(addPollFds) = 1 /\ addPollFds[1].fd = F
     /\ delIndex = <<>> /\ pc # "poll" /\ ~Buffer(clients, F).isClosed
  \/ /\ Len(pollFds) = Second /\ pollFds[First].fd = F /\ addPollFds = <<>>
     /\ files[pollFds[Second].fd] = Free /\ delIndex = <<Second>>
     /\ (pc = "scan" /\ cur > Second) \/ pc = "erase"

(* No script runs for the peer. *)
Alone(F) ==
  /\ Accepted(F) /\ NoneLive /\ Only({F})
  /\ IsClient(F, Buffer(clients, F)) /\ (Buffer(clients, F).isClosed => Closing)
  /\ Listed(F) /\ pc \notin {"reap", "drop"}

(* The output of script j is descriptor s; b is the peer's buffer and p the
   one of s.  The script's end is waited for, *)
Awaited(s, j, b, p) ==
  /\ p.state = "WAIT_CGI_CHILD" /\ Live(j) /\ p.cgiPid = j /\ p.out = 0
  /\ b.state = "WAIT_CGI" /\ b.cgiPid = j /\ b.cgiFd = s /\ b.last = p.last /\ AsksScript(b)
  /\ pc = "scan" /\ cur > First => ~isTimeout(b.last)
  /\ pc = "reap" => jobs[j].st = "done"
  /\ \/ Len(pollFds) = Second /\ pollFds[Second].fd = s /\ addPollFds = <<>>
     \/ /\ Len(pollFds) = First /\ Len(addPollFds) = 1 /\ addPollFds[1].fd = s
        /\ "HUP" \notin pollFds[First].revents /\ b.last = now
        /\ pc \in {"scan", "erase"} \/ (pc = "handle" /\ cur > First)

(* or its output is read, *)
BeingRead(s, j, b, p) ==
  /\ p.state = "READ_CGI" /\ jobs[j].st = "reaped" /\ p.out \in {0, j}
  /\ b.state = "WAIT_CGI" /\ b.cgiPid = j /\ b.cgiFd = s /\ AsksScript(b)
  /\ Len(pollFds) = Second /\ pollFds[Second].fd = s /\ addPollFds = <<>>
  /\ pollFds[Second].events = "IN"
  /\ pc = "handle" /\ cur <= Second => "HUP" \in pollFds[Second].revents

(* or the pipe is only to be deleted: in the same pass, but after an error. *)
Finished(F, s, j, b, p) ==
  /\ p.state = "WAIT_CGI" /\ ~Live(j)
  /\ IsClient(F, b)
  /\ Len(pollFds) = Second /\ pollFds[Second].fd = s /\ addPollFds = <<>>
  /\ b.state # "WRITE_REQUEST_ERROR" =>
       /\ "HUP" \in pollFds[Second].revents
       /\ (pc = "handle" /\ cur > Second) \/ (pc = "scan" /\ cur <= Second) \/ pc = "reap"

(* A script is run for the peer. *)
Piped(F, s, j) ==
  /\ Accepted(F) /\ files[s] = Obj("out", j) /\ Only({F, s})
  /\ \A i \in Job \ {j} : ~Live(i)
  /\ delIndex = <<>> /\ pc # "drop" /\ (pc = "reap" => cur = First)
  /\ pollFds[First].fd = F
  /\ Buffer(clients, s).cgiFd = -1 /\ ~Buffer(clients, s).isClosed
  /\ Buffer(clients, s).clientFd = F /\ jobs[j].http.conn \in Conn
  /\ Buffer(clients, F).clientFd = F /\ ~Buffer(clients, F).isClosed
  /\ \/ Awaited(s, j, Buffer(clients, F), Buffer(clients, s))
     \/ BeingRead(s, j, Buffer(clients, F), Buffer(clients, s))
     \/ Finished(F, s, j, Buffer(clients, F), Buffer(clients, s))

(* The script's pipe is gone, and the peer's entry goes next. *)
Dropping(F) ==
  /\ pc = "drop" /\ cur = First /\ pollFds[First].fd = F
  /\ Accepted(F) /\ NoneLive /\ Watchable({F}) /\ Blank({F})

(* The peer's connection is closed, and nothing is left to be done. *)
Over ==
  /\ AllOpen /\ NoneLive
  /\ \A fd \in Fds : files[fd].kind # "conn"
  /\ \A fd \in DOMAIN clients :
       clients[fd].state \notin {"EXEC_CGI", "READ_CGI", "WAIT_CGI_CHILD", "WRITE_CGI_BODY"}

(* No entry is told to write after a hang-up. *)
Reported ==
  /\ \A i \in DOMAIN pollFds : ~("OUT" \in pollFds[i].revents /\ "HUP" \in pollFds[i].revents)
  /\ \A i \in DOMAIN addPollFds : addPollFds[i].revents = {}

Stage ==
  \/ Nobody \/ Over
  \/ \E F \in Fds : Alone(F) \/ Dropping(F)
  \/ \E F, s \in Fds : \E j \in Job : Piped(F, s, j)

OneInv == IF up THEN Reported /\ Stage ELSE pc = "handle"

(* The buffers of cl outside S have never been used. *)
LEMMA BlankOf ==
  ASSUME NEW cl, NEW S
  PROVE  (\A fd \in DOMAIN cl \ S : cl[fd] = Zeroed)
           <=> \A fd : fd \notin S => Buffer(cl, fd) = Zeroed
BY DEF Buffer

LEMMA DomainOf ==
  /\ \A cl, fd, b : DOMAIN Put(cl, fd, b) = DOMAIN cl \cup {fd}
  /\ \A cl, fd : DOMAIN Touch(cl, fd) = DOMAIN cl \cup {fd}
  /\ \A cl, fd : DOMAIN Forget(cl, fd) = DOMAIN cl \ {fd}
BY DEF Put, Touch, Forget, Restrict

LEMMA Slots12 ==
  /\ NumPorts \in Nat /\ First \in Nat /\ Second \in Nat
  /\ First = NumPorts + 1 /\ Second = First + 1 /\ First # Second
BY PortsFacts DEF First, Second

(* What the steps outside the event loop leave of the scripts. *)
SameScripts ==
  \A j \in Job :
    /\ jobs'[j].http = jobs[j].http
    /\ jobs'[j].st = jobs[j].st \/ (jobs[j].st = "run" /\ jobs'[j].st = "done")

(* Peers, scripts and the clock do not change the stage. *)
LEMMA OutsideStage ==
  ASSUME SocketInv, Stage, UNCHANGED <<server, files>>, SameScripts,
         \A c \in Conn : conns'[c].st = "open" <=> conns[c].st = "open",
         now' = now \/ pc \in {"poll", "reap"}
  PROVE  Stage'
<1> USE DEF server, vectors
<1>1. AllOpen => AllOpen'
  BY DEF AllOpen
<1>2. NoneOpen => NoneOpen'
  BY DEF NoneOpen
<1>3. \A j \in Job : Live(j)' = Live(j)
  BY DEF SameScripts, Live
<1>4. NoneLive => NoneLive'
  BY <1>3 DEF NoneLive
<1>5. \A S : Only(S) => Only(S)'
  BY DEF Only, Watchable, Blank, Known
<1>6. \A j \in Job : (jobs[j].st = "made" => jobs'[j].st = "made") /\ (jobs[j].st = "reaped" => jobs'[j].st = "reaped")
                     /\ (jobs[j].st = "done" => jobs'[j].st = "done")
  BY DEF SameScripts
<1>7. CASE Nobody
  BY <1>2, <1>4, <1>5, <1>7 DEF Nobody, Stage, NumPorts
<1>8. CASE Over
  BY <1>1, <1>4, <1>8 DEF Over, Stage
<1>9. ASSUME NEW F, Accepted(F)
      PROVE  Accepted(F)'
  BY <1>1, <1>9 DEF Accepted
<1>10. ASSUME NEW F, NEW b \in BufferType, IsClient(F, b)
       PROVE  IsClient(F, b)'
  <2>1. b.cgi # NoCgi => b.cgi.job \in Job
    BY <1>10 DEF BufferType, CgiType
  <2> QED
    BY <1>6, <1>10, <2>1 DEF IsClient, HasCgi
<1>11. ASSUME NEW F \in Fds, Alone(F)
       PROVE  Stage'
  <2>1. Buffer(clients, F) \in BufferType
    BY BufferGood, TypesOfState
  <2>2. Listed(F)'
    BY <1>11 DEF Alone, Listed, First, Second, NumPorts
  <2>3. Closing' = Closing
    BY DEF Closing, First, NumPorts
  <2>4. Alone(F)'
    BY <1>4, <1>5, <1>9, <1>10, <1>11, <2>1, <2>2, <2>3 DEF Alone
  <2> QED
    BY <2>4 DEF Stage
<1>12. ASSUME NEW F \in Fds, Dropping(F)
       PROVE  Stage'
  BY <1>1, <1>4, <1>9, <1>12 DEF Dropping, Stage, Watchable, Blank, First, NumPorts
<1>13. ASSUME NEW F \in Fds, NEW s \in Fds, NEW j \in Job, Piped(F, s, j)
       PROVE  Stage'
  <2>1. PICK b \in BufferType, p \in BufferType : b = Buffer(clients, F) /\ p = Buffer(clients, s)
    BY BufferGood, TypesOfState
  <2>2. CASE Awaited(s, j, b, p)
    <3>1. Awaited(s, j, b, p)'
      BY <1>3, <1>6, <2>2 DEF Awaited, isTimeout, First, Second, NumPorts
    <3> QED
      BY <1>3, <1>5, <1>9, <1>13, <2>1, <3>1 DEF Piped, Stage, SameScripts, First, NumPorts
  <2>3. CASE BeingRead(s, j, b, p)
    <3>1. BeingRead(s, j, b, p)'
      BY <1>3, <1>6, <2>3 DEF BeingRead, Second, First, NumPorts
    <3> QED
      BY <1>3, <1>5, <1>9, <1>13, <2>1, <3>1 DEF Piped, Stage, SameScripts, First, NumPorts
  <2>4. CASE Finished(F, s, j, b, p)
    <3>1. Finished(F, s, j, b, p)'
      BY <1>3, <1>10, <2>1, <2>4 DEF Finished, Second, First, NumPorts
    <3> QED
      BY <1>3, <1>5, <1>9, <1>13, <2>1, <3>1 DEF Piped, Stage, SameScripts, First, NumPorts
  <2> QED
    BY <1>13, <2>1, <2>2, <2>3, <2>4 DEF Piped
<1> QED
  BY <1>7, <1>8, <1>11, <1>12, <1>13 DEF Stage

LEMMA PeerStage ==
  ASSUME SocketInv, Stage, NEW c \in Conn, Peer(c)
  PROVE  Stage'
<1>1. conns \in [Conn -> ConnType] /\ conns[c] \in ConnType
  BY TypesOfState DEF ConnsOK
<1>2. UNCHANGED <<server, files, jobs, now>>
  BY DEF Peer, Connect, Send, SendPart, Finish, Reset
<1>3. SameScripts
  BY <1>2 DEF SameScripts
<1>4. /\ \A d \in Conn : d # c => conns'[d] = conns[d]
      /\ conns'[c].st = "open" <=> conns[c].st = "open"
  <2>1. CASE \E port \in Range(Ports) : Connect(c, port)
    BY <1>1, <2>1 DEF Connect, ConnType
  <2>2. ASSUME NEW r \in Request, Send(c, r)
        PROVE  (\A d \in Conn : d # c => conns'[d] = conns[d]) /\ conns'[c].st = conns[c].st
    BY <1>1, <2>2 DEF Send, ConnType
  <2>3. CASE SendPart(c)
    BY <1>1, <2>3 DEF SendPart, ConnType
  <2>4. CASE Finish(c)
    BY <1>1, <2>4 DEF Finish, ConnType
  <2>5. CASE Reset(c)
    BY <1>1, <2>5 DEF Reset, ConnType
  <2> QED
    BY <2>1, <2>2, <2>3, <2>4, <2>5 DEF Peer
<1>5. \A d \in Conn : conns'[d].st = "open" <=> conns[d].st = "open"
  BY <1>4
<1> QED
  BY <1>2, <1>3, <1>5, OutsideStage

LEMMA OutsideOne ==
  ASSUME SocketInv, OneInv, (\E c \in Conn : Peer(c)) \/ (\E j \in Job : Child(j)) \/ Tick \/ UNCHANGED vars
  PROVE  OneInv'
<1>1. UNCHANGED <<server, files>>
  BY DEF Peer, Connect, Send, SendPart, Finish, Reset, Child, ChildWrite, ChildExit, Tick, server,
         vars, kernel
<1>2. CASE ~up
  BY <1>1, <1>2 DEF OneInv, server
<1>3. CASE up
  <2>1. Stage /\ Reported'
    BY <1>1, <1>3 DEF OneInv, Reported, server, vectors
  <2>2. CASE \E c \in Conn : Peer(c)
    BY <2>1, <2>2, PeerStage, <1>1, <1>3 DEF OneInv, server
  <2>3. CASE \E j \in Job : Child(j)
    <3>1. PICK j \in Job : Child(j)
      BY <2>3
    <3>2. jobs \in [Job -> JobType] /\ jobs[j] \in JobType
      BY TypesOfState
    <3>3. SameScripts
      BY <3>1, <3>2 DEF Child, ChildWrite, ChildExit, SameScripts, JobType
    <3>4. UNCHANGED <<conns, now>>
      BY <3>1 DEF Child, ChildWrite, ChildExit
    <3>5. Stage'
      BY <1>1, <2>1, <3>3, <3>4, OutsideStage
    <3> QED
      BY <1>1, <1>3, <2>1, <3>5 DEF OneInv, server
  <2>4. CASE Tick \/ UNCHANGED vars
    <3>1. SameScripts /\ UNCHANGED conns /\ (now' = now \/ pc \in {"poll", "reap"})
      BY <2>4 DEF Tick, vars, kernel, SameScripts
    <3>2. Stage'
      BY <1>1, <2>1, <3>1, OutsideStage
    <3> QED
      BY <1>1, <1>3, <2>1, <3>2 DEF OneInv, server
  <2> QED
    BY <2>2, <2>3, <2>4
<1> QED
  BY <1>2, <1>3

-----------------------------------------------------------------------------
(* Handlers *)

(* The entry at hand is the peer's, or the one of its script's output. *)
LEMMA WhoseTurn ==
  ASSUME SocketInv, Stage, Turn, cur > NumPorts
  PROVE  \/ Over
         \/ \E F \in Fds : Alone(F) /\ cur = First /\ Here = F /\ Len(pollFds) = First
         \/ \E F, s \in Fds : \E j \in Job :
              Piped(F, s, j) /\ ((cur = First /\ Here = F) \/ (cur = Second /\ Here = s))
<1>1. cur \in 1..Len(pollFds) /\ Len(pollFds) \in Nat /\ pc = "handle"
  BY AtHand DEF Turn
<1>2. ~Nobody
  BY <1>1 DEF Nobody
<1>3. ASSUME NEW F \in Fds, Alone(F)
      PROVE  cur = First /\ Here = F /\ Len(pollFds) = First
  BY <1>1, <1>3, Slots12 DEF Alone, Listed, Here
<1>4. \A F \in Fds : ~Dropping(F)
  BY <1>1 DEF Dropping
<1>5. ASSUME NEW F \in Fds, NEW s \in Fds, NEW j \in Job, Piped(F, s, j)
      PROVE  (cur = First /\ Here = F) \/ (cur = Second /\ Here = s)
  <2>1. pollFds[First].fd = F
    BY <1>5 DEF Piped
  <2>2. \/ Len(pollFds) = Second /\ pollFds[Second].fd = s
        \/ Len(pollFds) = First
    BY <1>5 DEF Piped, Awaited, BeingRead, Finished
  <2> QED
    BY <1>1, <2>1, <2>2, Slots12 DEF Here
<1> QED
  BY <1>2, <1>3, <1>4, <1>5 DEF Stage

(* What a handler makes of the buffer of fd. *)
Rewrites(cl, fd, b) ==
  /\ DOMAIN clients' = DOMAIN cl \cup {fd}
  /\ \A x : Buffer(clients', x) = IF x = fd THEN b ELSE Buffer(cl, x)

LEMMA PutRewrites ==
  ASSUME NEW cl, NEW fd, NEW b, clients' = Put(cl, fd, b)
  PROVE  Rewrites(cl, fd, b)
<1>1. DOMAIN Put(cl, fd, b) = DOMAIN cl \cup {fd}
  BY DomainOf
<1>2. \A x : Buffer(Put(cl, fd, b), x) = IF x = fd THEN b ELSE Buffer(cl, x)
  BY BufferOf
<1> QED
  BY <1>1, <1>2 DEF Rewrites

(* A handler that neither opens nor closes what is watched. *)
SameWatched ==
  /\ files'[0].kind = files[0].kind
  /\ \A fd \in Fds : files[fd].kind \in {"conn", "out"} \/ files'[fd].kind \in {"conn", "out"}
                       => files'[fd] = files[fd]

(* No process is started, and none that is waited for is forgotten. *)
SameLives ==
  \A j \in Job : /\ Live(j)' = Live(j)
                 /\ jobs[j].st # "none" => jobs'[j].http = jobs[j].http

SameOpen == \A c \in Conn : conns'[c].st = conns[c].st

(* A handler's turn that queues nothing. *)
PlainTurn ==
  /\ HandlerTurn /\ UNCHANGED <<addPollFds, delIndex>>
  /\ SameWatched /\ SameOpen

LEMMA PlainFrame ==
  ASSUME SocketInv, PlainTurn, NEW F \in Fds, Accepted(F)
  PROVE  /\ Accepted(F)' /\ (\A S : Watchable(S) => Watchable(S)')
         /\ Len(pollFds') = Len(pollFds) /\ First' = First /\ Second' = Second
         /\ \A i \in 1..Len(pollFds) : pollFds'[i].fd = pollFds[i].fd /\ pollFds'[i].revents = pollFds[i].revents
         /\ cur' \in Nat /\ cur \in Nat /\ cur' > cur /\ cur' <= Len(pollFds) + 1 /\ pc = "handle" /\ pc' = "handle" /\ now' = now
         /\ Len(pollFds) \in Nat
<1>1. AllOpen'
  BY DEF Accepted, AllOpen, PlainTurn, SameOpen
<1>2. files'[F] = files[F] /\ files'[0].kind = files[0].kind
  BY DEF Accepted, PlainTurn, SameWatched
<1>3. \A S : Watchable(S) => Watchable(S)'
  BY DEF Watchable, PlainTurn, SameWatched
<1>4. /\ Len(pollFds') = Len(pollFds)
      /\ \A i \in 1..Len(pollFds) : pollFds'[i].fd = pollFds[i].fd /\ pollFds'[i].revents = pollFds[i].revents
  BY DEF PlainTurn, HandlerTurn, SameEntries
<1>5. cur \in 1..Len(pollFds) /\ Len(pollFds) \in Nat
  BY AtHand DEF PlainTurn, HandlerTurn
<1>6. cur + 1 \in 1..Len(pollFds) + 1
  BY <1>5
<1>7. cur' \in cur + 1 .. Len(pollFds) + 1
  BY <1>6, NextTurnRange DEF PlainTurn, HandlerTurn, EndTurn
<1>8. pc = "handle" /\ pc' = "handle" /\ now' = now
  BY DEF PlainTurn, HandlerTurn, EndTurn, Turn
<1> QED
  BY <1>1, <1>2, <1>3, <1>4, <1>5, <1>7, <1>8 DEF Accepted, First, Second, NumPorts

LEMMA AloneTurn ==
  ASSUME SocketInv, NEW F \in Fds, Alone(F), cur = First, Len(pollFds) = First,
         PlainTurn, SameLives, NEW b \in BufferType, Rewrites(clients, F, b), IsClient(F, b)'
  PROVE  Alone(F)'
<1>1. Accepted(F) /\ NoneLive /\ Only({F}) /\ Listed(F)
  BY DEF Alone
<1>2. /\ Accepted(F)' /\ Watchable({F})'
      /\ Len(pollFds') = Len(pollFds) /\ First' = First /\ Second' = Second
      /\ pollFds'[First].fd = pollFds[First].fd
      /\ cur' > First /\ pc = "handle" /\ pc' = "handle"
  BY <1>1, PlainFrame, Slots12 DEF Only
<1>3. NoneLive'
  BY <1>1 DEF NoneLive, SameLives
<1>4. Blank({F})' /\ Known({F})'
  <2>1. \A fd : fd \notin {F} => Buffer(clients, fd) = Zeroed
    BY <1>1, BlankOf DEF Only, Blank
  <2>2. \A fd : fd \notin {F} => Buffer(clients', fd) = Zeroed
    BY <2>1 DEF Rewrites
  <2>3. \A fd \in DOMAIN clients' \ {F} : clients'[fd] = Zeroed
    BY <2>2, BlankOf
  <2> QED
    BY <1>1, <2>3 DEF Only, Known, Blank, Rewrites
<1>5. Buffer(clients', F) = b
  BY DEF Rewrites
<1>6. Listed(F)'
  BY <1>1, <1>2, Slots12 DEF Listed, PlainTurn
<1>7. Closing'
  BY <1>2 DEF Closing
<1> QED
  BY <1>2, <1>3, <1>4, <1>5, <1>6, <1>7 DEF Alone, Only

(* Reported, after a handler's turn. *)
LEMMA ReportedTurn ==
  ASSUME SocketInv, Reported, HandlerTurn, \A i \in DOMAIN addPollFds' : addPollFds'[i].revents = {}
  PROVE  Reported'
<1>1. pollFds' \in Seq(EntryType) /\ Len(pollFds') = Len(pollFds)
      /\ \A i \in 1..Len(pollFds) : pollFds'[i].revents = pollFds[i].revents
  BY DEF HandlerTurn, SameEntries
<1>2. DOMAIN pollFds' = 1..Len(pollFds) /\ DOMAIN pollFds = 1..Len(pollFds)
  BY <1>1, LenProperties, TypesOfState
<1> QED
  BY <1>1, <1>2 DEF Reported

(* A handler makes b of the peer's buffer, and p of the one of the pipe. *)
TwoBuffers(F, s, b, p) ==
  /\ DOMAIN clients' = DOMAIN clients \cup {F, s}
  /\ \A x : Buffer(clients', x) = IF x = F THEN b ELSE IF x = s THEN p ELSE Buffer(clients, x)
  /\ p.cgiFd = -1 /\ ~p.isClosed /\ p.clientFd = F /\ b.clientFd = F /\ ~b.isClosed

OthersStay(j) ==
  (\A i \in Job \ {j} : Live(i)' = Live(i)) /\ jobs'[j].http = jobs[j].http

(* The peer's script's turn, or the peer's while it has a script. *)
LEMMA PipedTurn ==
  ASSUME SocketInv, NEW F \in Fds, NEW s \in Fds, NEW j \in Job, Piped(F, s, j),
         PlainTurn, OthersStay(j), NEW b, NEW p, TwoBuffers(F, s, b, p),
         Awaited(s, j, b, p)' \/ BeingRead(s, j, b, p)' \/ Finished(F, s, j, b, p)'
  PROVE  Piped(F, s, j)'
<1> USE DEF TwoBuffers, OthersStay
<1>1. Accepted(F) /\ Only({F, s}) /\ files[s] = Obj("out", j) /\ files[F].kind = "conn"
  BY DEF Piped, Accepted
<1>2. F # s
  BY <1>1 DEF Obj
<1>3. First \in 1..Len(pollFds)
  BY Slots12, LenProperties DEF Piped, Awaited, BeingRead, Finished
<1>4. /\ Accepted(F)' /\ Watchable({F, s})'
      /\ First' = First /\ pollFds'[First].fd = pollFds[First].fd
      /\ pc = "handle" /\ pc' = "handle"
  BY <1>1, <1>3, PlainFrame DEF Only
<1>5. files'[s] = Obj("out", j)
  BY <1>1 DEF Obj, PlainTurn, SameWatched
<1>6. Blank({F, s})' /\ Known({F, s})'
  <2>1. \A fd : fd \notin {F, s} => Buffer(clients, fd) = Zeroed
    BY <1>1, BlankOf DEF Only, Blank
  <2>2. \A fd : fd \notin {F, s} => Buffer(clients', fd) = Zeroed
    BY <2>1
  <2>3. \A fd \in DOMAIN clients' \ {F, s} : clients'[fd] = Zeroed
    BY <2>2, BlankOf
  <2> QED
    BY <1>1, <2>3 DEF Only, Known, Blank
<1>7. Buffer(clients', F) = b /\ Buffer(clients', s) = p
  BY <1>2
<1>8. \A i \in Job \ {j} : ~Live(i)'
  BY DEF Piped
<1>9. delIndex' = <<>> /\ jobs'[j].http.conn \in Conn /\ pollFds[First].fd = F
  BY DEF Piped, PlainTurn
<1> QED
  BY <1>4, <1>5, <1>6, <1>7, <1>8, <1>9 DEF Piped, Only

(* A handler's turn after the peer has left. *)
GoneState == {"EXEC_CGI", "READ_CGI", "WAIT_CGI_CHILD", "WRITE_CGI_BODY"}

LEMMA OverTurn ==
  ASSUME SocketInv, Over, NEW fd, NEW b, b.state \notin GoneState, Rewrites(clients, fd, b),
         SameOpen, \A j \in Job : Live(j)' = Live(j),
         \A x \in Fds : files'[x].kind = "conn" => files[x].kind = "conn"
  PROVE  Over'
<1>1. AllOpen' /\ NoneLive'
  BY DEF Over, AllOpen, NoneLive, SameOpen
<1>2. \A x : Buffer(clients, x).state \notin GoneState
  BY DEF Over, Buffer, Zeroed, GoneState
<1>3. \A x : Buffer(clients', x).state \notin GoneState
  BY <1>2 DEF Rewrites
<1>4. \A x \in DOMAIN clients' : clients'[x].state \notin GoneState
  BY <1>3 DEF Buffer
<1> QED
  BY <1>1, <1>4 DEF Over, GoneState

(* How a handler may take the buffer c at hand on, to b. *)
Proceeds(c, b) ==
  /\ b.clientFd = c.clientFd /\ b.cgiFd \in {c.cgiFd, -1}
  /\ Killable(c) => Killable(b)
  /\ b.isClosed => c.isClosed \/ b.state = "READ_REQUEST"
  /\ \/ b.state \in {"READ_REQUEST", "EXEC_CORE_HANDLER", "WRITE_RESPONSE", "WRITE_CGI",
                     "WRITE_REQUEST_ERROR"}
     \/ b.state = "EXEC_CGI" /\ HasCgi(files', jobs', b)
     \/ b.state = c.state /\ b.cgi = c.cgi /\ b.http = c.http /\ UNCHANGED <<files, jobs>>

Goes(b) ==
  /\ Rewrites(clients, Here, b) /\ Proceeds(Client, b)
  /\ UNCHANGED <<addPollFds, delIndex>> /\ SameOpen /\ SameLives

LEMMA SameItAll ==
  /\ UNCHANGED conns => SameOpen
  /\ UNCHANGED jobs => SameLives
  /\ UNCHANGED files => SameWatched
BY DEF SameOpen, SameLives, SameWatched, Live

LEMMA ClientHere ==
  ASSUME SocketInv, Turn, cur > NumPorts
  PROVE  /\ Client \in BufferType /\ Client = Buffer(clients, Here)
         /\ Here \in Fds /\ Here \in Handled
BY AtHand DEF Client

LEMMA WriteSomeGoes ==
  ASSUME SocketInv, Turn, cur > NumPorts, NEW b \in BufferType, WriteSome(b),
         Proceeds(Client, b), UNCHANGED <<files, jobs, addPollFds, delIndex>>,
         Client.state = b.state, Client.cgi = b.cgi, Client.http = b.http
  PROVE  \E c : Goes(c) /\ c.state = b.state /\ c.isClosed = b.isClosed
<1>1. PICK r : clients' = Put(clients, Here, [b EXCEPT !.response = r])
  BY DEF WriteSome
<1> DEFINE c == [b EXCEPT !.response = r]
<1>2. /\ c.state = b.state /\ c.isClosed = b.isClosed /\ c.clientFd = b.clientFd
      /\ c.cgiFd = b.cgiFd /\ c.cgiPid = b.cgiPid /\ c.cgi = b.cgi /\ c.http = b.http
  BY DEF BufferType
<1>3. Rewrites(clients, Here, c)
  BY <1>1, PutRewrites
<1> HIDE DEF c
<1>4. SameOpen
  BY WriteSomeTurn DEF SameOpen
<1>5. Proceeds(Client, c)
  BY <1>2 DEF Proceeds, Killable
<1>6. Goes(c)
  BY <1>3, <1>4, <1>5, SameItAll DEF Goes
<1> QED
  BY <1>2, <1>6

LEMMA BecomesGoes ==
  ASSUME SocketInv, NEW b, NEW ev, Becomes(b, ev), Proceeds(Client, b),
         UNCHANGED <<jobs, conns, addPollFds, delIndex>>
  PROVE  Goes(b)
BY PutRewrites, SameItAll DEF Becomes, Goes

LEMMA CoreHandlerGoes ==
  ASSUME SocketInv, ExecCoreHandler
  PROVE  UNCHANGED files /\ \E b : Goes(b) /\ b.state # "EXEC_CGI"
<1> DEFINE b == [Client EXCEPT !.state = "WRITE_RESPONSE", !.last = now,
                               !.response = Answer(Client.http, "doc")]
<1>1. Turn /\ cur > NumPorts /\ Client.state = "EXEC_CORE_HANDLER"
  BY AtHand DEF ExecCoreHandler, OutTurn
<1>2. /\ b.state = "WRITE_RESPONSE" /\ b.isClosed = Client.isClosed
      /\ b.clientFd = Client.clientFd /\ b.cgiFd = Client.cgiFd /\ b.cgiPid = Client.cgiPid
  BY <1>1, ClientHere DEF BufferType
<1>3. Becomes(b, "OUT") /\ UNCHANGED <<files, jobs, conns, addPollFds, delIndex>>
  BY DEF ExecCoreHandler
<1> HIDE DEF b
<1>4. Proceeds(Client, b)
  BY <1>1, <1>2 DEF Proceeds, Killable
<1> QED
  BY <1>2, <1>3, <1>4, BecomesGoes

LEMMA CgiRefusedGoes ==
  ASSUME SocketInv, ExecCgiRefused
  PROVE  UNCHANGED files /\ \E b : Goes(b) /\ b.state # "EXEC_CGI"
<1> DEFINE b == [Client EXCEPT !.state = "WRITE_REQUEST_ERROR", !.last = now,
                               !.response = Answer(Client.http, "error")]
<1>1. Turn /\ cur > NumPorts
  BY AtHand DEF ExecCgiRefused, OutTurn
<1>2. /\ b.state = "WRITE_REQUEST_ERROR" /\ b.isClosed = Client.isClosed
      /\ b.clientFd = Client.clientFd /\ b.cgiFd = Client.cgiFd /\ b.cgiPid = Client.cgiPid
  BY <1>1, ClientHere DEF BufferType
<1>3. Becomes(b, "OUT") /\ UNCHANGED <<files, jobs, conns, addPollFds, delIndex>>
  BY DEF ExecCgiRefused
<1> HIDE DEF b
<1>4. Proceeds(Client, b)
  BY <1>1, <1>2 DEF Proceeds, Killable
<1> QED
  BY <1>2, <1>3, <1>4, BecomesGoes

LEMMA WriteResponseGoes ==
  ASSUME SocketInv, ExecWriteResponse
  PROVE  UNCHANGED files /\ \E b : Goes(b) /\ b.state # "EXEC_CGI"
<1> DEFINE b == [Client EXCEPT !.last = now]
           done == [b EXCEPT !.state = "READ_REQUEST", !.response = Nothing,
                             !.redirects = 0, !.cgiPid = -1, !.isClosed = @ \/ b.http.close]
           failed == [b EXCEPT !.state = "WRITE_REQUEST_ERROR",
                               !.response = Answer(b.http, "error")]
<1>1. Turn /\ cur > NumPorts /\ Client.state = "WRITE_RESPONSE"
  BY AtHand DEF ExecWriteResponse, OutTurn
<1>2. UNCHANGED <<files, jobs, addPollFds, delIndex>>
  BY DEF ExecWriteResponse
<1>3. Client \in BufferType
  BY <1>1, ClientHere
<1>4. b \in BufferType
  BY <1>3, TypesOfState DEF BufferType
<1>5. /\ b.state = Client.state /\ b.isClosed = Client.isClosed /\ b.clientFd = Client.clientFd
      /\ b.cgiFd = Client.cgiFd /\ b.cgiPid = Client.cgiPid
      /\ b.cgi = Client.cgi /\ b.http = Client.http
  BY <1>3 DEF BufferType
<1>6. /\ done.state = "READ_REQUEST" /\ done.clientFd = Client.clientFd
      /\ done.cgiFd = Client.cgiFd
      /\ failed.state = "WRITE_REQUEST_ERROR" /\ failed.isClosed = Client.isClosed
      /\ failed.clientFd = Client.clientFd
      /\ failed.cgiFd = Client.cgiFd /\ failed.cgiPid = Client.cgiPid
  BY <1>3 DEF BufferType
<1>7. \/ WriteSome(b)
      \/ Becomes(done, "IN") /\ UNCHANGED conns
      \/ Becomes(failed, "OUT") /\ UNCHANGED conns
  BY DEF ExecWriteResponse
<1> HIDE DEF b, done, failed
<1>8. Proceeds(Client, b) /\ Proceeds(Client, done) /\ Proceeds(Client, failed)
  BY <1>1, <1>2, <1>5, <1>6 DEF Proceeds, Killable
<1>9. CASE WriteSome(b)
  BY <1>1, <1>2, <1>4, <1>5, <1>8, <1>9, WriteSomeGoes
<1> QED
  BY <1>1, <1>2, <1>5, <1>6, <1>7, <1>8, <1>9, BecomesGoes

LEMMA WriteCgiGoes ==
  ASSUME SocketInv, ExecWriteCgi
  PROVE  /\ files' = files \/ files' = Close(files, Client.cgiFd)
         /\ \E b : Goes(b) /\ b.state # "EXEC_CGI"
<1> DEFINE b == [Client EXCEPT !.last = now]
           done == [b EXCEPT !.state = "READ_REQUEST", !.response = Nothing, !.cgiFd = -1,
                             !.isClosed = @ \/ b.http.close]
<1>1. Turn /\ cur > NumPorts /\ Client.state = "WRITE_CGI"
  BY AtHand DEF ExecWriteCgi, OutTurn
<1>2. UNCHANGED <<jobs, addPollFds, delIndex>>
  BY DEF ExecWriteCgi
<1>3. Client \in BufferType
  BY <1>1, ClientHere
<1>4. b \in BufferType
  BY <1>3, TypesOfState DEF BufferType
<1>5. /\ b.state = Client.state /\ b.isClosed = Client.isClosed /\ b.clientFd = Client.clientFd
      /\ b.cgiFd = Client.cgiFd /\ b.cgiPid = Client.cgiPid
      /\ b.cgi = Client.cgi /\ b.http = Client.http
  BY <1>3 DEF BufferType
<1>6. /\ done.state = "READ_REQUEST" /\ done.clientFd = Client.clientFd /\ done.cgiFd = -1
  BY <1>3 DEF BufferType
<1>7. \/ WriteSome(b) /\ UNCHANGED files
      \/ Becomes(done, "IN") /\ UNCHANGED conns /\ files' = Close(files, b.cgiFd)
      \/ Becomes(b, "OUT") /\ UNCHANGED <<files, conns>>
  BY DEF ExecWriteCgi
<1> HIDE DEF b, done
<1>8. Proceeds(Client, b) /\ Proceeds(Client, done)
  BY <1>1, <1>2, <1>5, <1>6 DEF Proceeds, Killable
<1>9. CASE WriteSome(b) /\ UNCHANGED files
  BY <1>1, <1>2, <1>4, <1>5, <1>8, <1>9, WriteSomeGoes
<1> QED
  BY <1>1, <1>2, <1>5, <1>6, <1>7, <1>8, <1>9, BecomesGoes

LEMMA NoHandlerGoes ==
  ASSUME SocketInv, NoHandler
  PROVE  UNCHANGED <<files, jobs, conns, pollFds>> /\ cur > NumPorts /\ Goes(Client) /\ Turn
<1>1. Turn /\ cur > NumPorts /\ UNCHANGED <<files, jobs, conns, pollFds, addPollFds, delIndex>>
  BY AtHand DEF NoHandler
<1>2. clients' = Put(clients, Here, Client)
  BY DEF NoHandler, Touch, Client
<1>3. Proceeds(Client, Client)
  BY <1>1 DEF Proceeds
<1> QED
  BY <1>1, <1>2, <1>3, PutRewrites, SameItAll DEF Goes

LEMMA WriteErrorGoes ==
  ASSUME SocketInv, ExecWriteError
  PROVE  /\ Turn /\ cur > NumPorts /\ Client.state = "WRITE_REQUEST_ERROR"
         /\ UNCHANGED <<jobs, addPollFds>> /\ SameOpen
         /\ \/ /\ UNCHANGED files
               /\ \E b : Goes(b) /\ b.state = "WRITE_REQUEST_ERROR" /\ b.isClosed = Client.isClosed
            \/ PushDelPollFd(cur, clients)
<1>1. /\ Turn /\ cur > NumPorts /\ Client.state = "WRITE_REQUEST_ERROR" /\ Client \in BufferType
      /\ UNCHANGED <<jobs, addPollFds>>
  BY AtHand DEF ExecWriteError, OutTurn
<1>2. CASE WriteSome(Client) /\ UNCHANGED <<files, delIndex>>
  <2>1. Proceeds(Client, Client)
    BY <1>1 DEF Proceeds
  <2>2. PICK b : Goes(b) /\ b.state = Client.state /\ b.isClosed = Client.isClosed
    BY <1>1, <1>2, <2>1, WriteSomeGoes
  <2>3. SameOpen
    BY <2>2 DEF Goes
  <2> QED
    BY <1>1, <1>2, <2>2, <2>3
<1>3. CASE PushDelPollFd(cur, clients) /\ UNCHANGED conns
  BY <1>1, <1>3, SameItAll
<1> QED
  BY <1>2, <1>3 DEF ExecWriteError

(* Two tables in which the same processes are made, run and waited for. *)
SameProcesses(jb) ==
  \A j \in Job : jb[j].st = jobs[j].st /\ jb[j].http = jobs[j].http

(* What parsing the peer's request, or what its script printed, makes of its
   buffer c. *)
Parsed(c, b) ==
  /\ b.clientFd = c.clientFd /\ b.cgiFd = c.cgiFd /\ b.cgiPid = c.cgiPid
  /\ b.isClosed = c.isClosed
  /\ \/ b.state \in {"READ_REQUEST", "EXEC_CORE_HANDLER", "WRITE_REQUEST_ERROR"}
     \/ b.state = "EXEC_CGI" /\ HasCgi(files', jobs', b)

(* A pipe is opened for the peer's request, and nobody watches it. *)
LEMMA MakeCgiOne ==
  ASSUME SocketInv, files[0].kind = "std",
         NEW jb \in [Job -> JobType], SameProcesses(jb),
         NEW http \in HttpType, http.kind \in {"get", "nocgi"}, http.conn \in Conn,
         NEW cl, NEW fd, cl[fd] \in BufferType, cl[fd].http = http, MakeCgi(jb, http, cl, fd)
  PROVE  /\ UNCHANGED addPollFds /\ SameWatched /\ SameLives
         /\ \E b : Rewrites(cl, fd, b) /\ Parsed(cl[fd], b) /\ b.state = "EXEC_CGI"
<1> DEFINE j == FreshJob(jb)
           r == LowestFree(files)
           w == LowestFree(Open(files, Obj("stdinR", j)))
           cgi == [r |-> r, w |-> w, job |-> j]
           b == [cl[fd] EXCEPT !.cgi = cgi, !.state = "EXEC_CGI"]
<1>1. j \in Job /\ jb[j].st = "none"
  <2>1. HasFreshJob(jb)
    BY DEF MakeCgi
  <2>2. { i \in Job : jb[i].st = "none" } \in SUBSET Nat
    BY NumbersAssumption
  <2>3. j \in { i \in Job : jb[i].st = "none" }
    BY <2>1, <2>2, MinIsMember DEF HasFreshJob, FreshJob
  <2> QED
    BY <2>3
<1>2. Obj("stdinR", j) \in Object /\ Obj("stdinW", j) \in Object /\ Obj("stdinR", j) # Free
  BY <1>1 DEF Obj, Object, Free
<1>3. r \in Fds /\ w \in Fds /\ r # w /\ files[r] = Free /\ files[w] = Free
  <2>1. CanPipe(files) /\ files \in [Fds -> Object]
    BY TypesOfState DEF MakeCgi
  <2> QED
    BY <1>2, <2>1, PipeEnds
<1>4. /\ files' = [files EXCEPT ![r] = Obj("stdinR", j), ![w] = Obj("stdinW", j)]
      /\ jobs' = [jb EXCEPT ![j].st = "made", ![j].http = http]
      /\ clients' = Put(cl, fd, b) /\ UNCHANGED addPollFds
  BY DEF MakeCgi
<1> HIDE DEF j, r, w
<1>5. /\ files'[r] = Obj("stdinR", j) /\ files'[w] = Obj("stdinW", j)
      /\ \A x \in Fds : x # r /\ x # w => files'[x] = files[x]
  BY <1>3, <1>4, TypesOfState
<1>6. SameWatched
  <2>1. 0 \in Fds /\ files[0] # Free
    BY PortsFacts DEF Handled, Free, Obj
  <2>2. files'[0] = files[0]
    BY <1>3, <1>5, <2>1
  <2> QED
    BY <1>3, <1>5, <2>2 DEF SameWatched, Obj, Free
<1>7. /\ jobs'[j].st = "made"
      /\ \A i \in Job : i # j => jobs'[i] = jb[i]
  <2>1. jb[j] \in JobType
    BY <1>1
  <2> QED
    BY <1>1, <1>4, <2>1 DEF JobType
<1>8. SameLives
  BY <1>1, <1>7 DEF SameLives, SameProcesses, Live
<1>9. /\ b.cgi = cgi /\ b.state = "EXEC_CGI" /\ b.http = http
      /\ b.clientFd = cl[fd].clientFd /\ b.cgiFd = cl[fd].cgiFd /\ b.cgiPid = cl[fd].cgiPid
      /\ b.isClosed = cl[fd].isClosed
  BY DEF BufferType
<1>10. Rewrites(cl, fd, b)
  BY <1>4, PutRewrites
<1>11. cgi # NoCgi /\ cgi.r = r /\ cgi.w = w /\ cgi.job = j
  BY <1>1, NumbersAssumption DEF NoCgi
<1> HIDE DEF b, cgi
<1>12. HasCgi(files', jobs', b)
  BY <1>5, <1>7, <1>9, <1>11 DEF HasCgi, AsksScript, Obj
<1> QED
  BY <1>4, <1>6, <1>8, <1>9, <1>10, <1>12 DEF Parsed

LEMMA ParseOne ==
  ASSUME SocketInv, NEW jb \in [Job -> JobType], SameProcesses(jb),
         NEW http \in HttpType, http.kind # "post",
         http.kind \in {"get", "nocgi"} => http.conn \in Conn /\ files[0].kind = "std",
         NEW cl, NEW pf, NEW i, NEW fd, pf[i].fd = fd, cl[fd] \in BufferType,
         ExecParseRequest(cl, pf, jb, i, http)
  PROVE  /\ UNCHANGED addPollFds /\ SameWatched /\ SameLives
         /\ \E b : /\ Rewrites(cl, fd, b) /\ Parsed(cl[fd], b)
                   /\ b.state = "READ_REQUEST" => http.kind = "unfinished"
                   /\ http.kind \in {"bad", "unfinished"} => UNCHANGED files /\ b.state # "EXEC_CGI"
<1> DEFINE c == [cl[fd] EXCEPT !.last = now]
           unfinished == [c EXCEPT !.state = "READ_REQUEST"]
           bad == [c EXCEPT !.state = "WRITE_REQUEST_ERROR", !.http = http,
                            !.response = Answer(http, "error")]
           static == [c EXCEPT !.state = "EXEC_CORE_HANDLER", !.http = http]
           asked == [c EXCEPT !.http = http]
<1>1. \/ /\ jobs' = jb /\ UNCHANGED <<files, addPollFds>>
         /\ \/ http.kind = "unfinished" /\ clients' = Put(cl, fd, unfinished)
            \/ clients' = Put(cl, fd, bad)
            \/ clients' = Put(cl, fd, static)
      \/ http.kind \in {"get", "nocgi", "post"} /\ MakeCgi(jb, http, Put(cl, fd, asked), fd)
  BY DEF ExecParseRequest
<1>2. /\ Parsed(cl[fd], unfinished) /\ unfinished.state = "READ_REQUEST"
      /\ Parsed(cl[fd], bad) /\ bad.state = "WRITE_REQUEST_ERROR"
      /\ Parsed(cl[fd], static) /\ static.state = "EXEC_CORE_HANDLER"
  BY DEF BufferType, Parsed
<1>3. asked \in BufferType /\ asked.http = http
      /\ asked.clientFd = cl[fd].clientFd /\ asked.cgiFd = cl[fd].cgiFd
      /\ asked.cgiPid = cl[fd].cgiPid /\ asked.isClosed = cl[fd].isClosed
  BY TypesOfState DEF BufferType
<1> HIDE DEF unfinished, bad, static, asked
<1>4. CASE /\ jobs' = jb /\ UNCHANGED <<files, addPollFds>>
           /\ \/ http.kind = "unfinished" /\ clients' = Put(cl, fd, unfinished)
              \/ clients' = Put(cl, fd, bad)
              \/ clients' = Put(cl, fd, static)
  <2>1. SameWatched /\ SameLives
    BY <1>4, SameItAll DEF SameLives, SameProcesses, Live
  <2>2. \E b : /\ clients' = Put(cl, fd, b) /\ Parsed(cl[fd], b)
               /\ b.state = "READ_REQUEST" => http.kind = "unfinished"
               /\ b.state # "EXEC_CGI"
    BY <1>2, <1>4
  <2> QED
    BY <1>4, <2>1, <2>2, PutRewrites
<1>5. CASE http.kind \in {"get", "nocgi", "post"} /\ MakeCgi(jb, http, Put(cl, fd, asked), fd)
  <2> DEFINE cl2 == Put(cl, fd, asked)
  <2>1. cl2[fd] = asked
    BY DEF Put
  <2>2. \A b : Rewrites(cl2, fd, b) => Rewrites(cl, fd, b)
    <3>1. DOMAIN cl2 = DOMAIN cl \cup {fd}
      BY DomainOf
    <3>2. \A x : x # fd => Buffer(cl2, x) = Buffer(cl, x)
      BY BufferOf
    <3> HIDE DEF cl2
    <3> QED
      BY <3>1, <3>2 DEF Rewrites
  <2>3. MakeCgi(jb, http, cl2, fd) /\ http.conn \in Conn /\ files[0].kind = "std"
    BY <1>5
  <2> HIDE DEF cl2
  <2>4. /\ UNCHANGED addPollFds /\ SameWatched /\ SameLives
        /\ \E b : Rewrites(cl2, fd, b) /\ Parsed(cl2[fd], b) /\ b.state = "EXEC_CGI"
    <3>1. http.kind \in {"get", "nocgi"}
      BY <1>5
    <3> QED
      BY <1>3, <2>1, <2>3, <3>1, MakeCgiOne
  <2>5. PICK b : Rewrites(cl2, fd, b) /\ Parsed(asked, b) /\ b.state = "EXEC_CGI"
    BY <2>1, <2>4
  <2>6. Rewrites(cl, fd, b) /\ Parsed(cl[fd], b)
    BY <1>3, <2>2, <2>5 DEF Parsed
  <2> QED
    BY <1>5, <2>4, <2>5, <2>6
<1> QED
  BY <1>1, <1>4, <1>5

(* What the peer sent is read, or what a script printed, by a buffer that
   took its number over. *)
LEMMA ReadRequestGoes ==
  ASSUME OnePeer, SocketInv, ExecReadRequest, files[Here].kind = "conn" => files[0].kind = "std"
  PROVE  /\ SameWatched
         /\ \E b : /\ Goes(b)
                   /\ files[Here].kind # "conn" => UNCHANGED files /\ b.state # "EXEC_CGI"
<1> DEFINE cl == Touch(clients, Here)
           pf == SetEvents(pollFds, cur, "IN")
           j == files[Here].id
           failed == [Client EXCEPT !.state = "WRITE_REQUEST_ERROR"]
<1>1. /\ Turn /\ cur \in NumPorts + 1 .. Len(pollFds) /\ cur > NumPorts
      /\ Client \in BufferType /\ Client.state = "READ_REQUEST"
      /\ Here \in Handled /\ Here \in Fds
  BY AtHand DEF ExecReadRequest, InTurn
<1>2. cl[Here] = Client
  BY DEF Touch, Put, Client
<1>3. pf[cur].fd = Here
  <2>1. SameEntries(pollFds, pf)
    BY <1>1, EventsAtHand
  <2>2. cur \in 1..Len(pollFds)
    BY <1>1, PortsFacts
  <2> QED
    BY <2>1, <2>2 DEF SameEntries, Here
<1>4. \A b : Rewrites(cl, Here, b) => Rewrites(clients, Here, b)
  <2>1. DOMAIN cl = DOMAIN clients \cup {Here}
    BY DomainOf
  <2>2. \A x : Buffer(cl, x) = Buffer(clients, x)
    BY BufferOf
  <2> HIDE DEF cl
  <2> QED
    BY <2>1, <2>2 DEF Rewrites
<1>5. UNCHANGED delIndex /\ SameOpen
  <2>1. conns' = conns \/ (files[Here].kind = "conn" /\ \E u : conns' = [conns EXCEPT ![j].unread = u])
    BY DEF ExecReadRequest
  <2>2. files[Here].kind = "conn" => j \in Conn /\ conns[j] \in ConnType
    BY <1>1, TypesOfState DEF Object, ConnsOK
  <2>3. ASSUME files[Here].kind = "conn", NEW u, conns' = [conns EXCEPT ![j].unread = u]
        PROVE  SameOpen
    BY <2>2, <2>3, TypesOfState DEF SameOpen, ConnsOK, ConnType
  <2> QED
    BY <2>1, <2>3, SameItAll DEF ExecReadRequest
<1>6. \/ /\ files[Here].kind = "conn"
         /\ \E k \in 1..Len(conns[j].unread) :
              ExecParseRequest(cl, pf, jobs, cur,
                IF conns[j].unread[k] = 0 THEN Unfinished ELSE Http(j, conns[j].unread[k]))
      \/ /\ files[Here].kind = "out"
         /\ ExecParseRequest(cl, pf, [jobs EXCEPT ![j].read = TRUE], cur, Unreadable)
      \/ ExecParseRequest(cl, pf, jobs, cur, Unfinished)
      \/ clients' = Put(clients, Here, failed) /\ UNCHANGED <<files, jobs, addPollFds>>
  BY DEF ExecReadRequest
<1> HIDE DEF cl, pf
<1>7. ASSUME NEW jb \in [Job -> JobType], SameProcesses(jb), NEW http \in HttpType,
             http.kind # "post",
             http.kind \in {"get", "nocgi"} => http.conn \in Conn /\ files[0].kind = "std",
             files[Here].kind # "conn" => http.kind \in {"bad", "unfinished"},
             ExecParseRequest(cl, pf, jb, cur, http)
      PROVE  /\ SameWatched
             /\ \E b : /\ Goes(b)
                       /\ files[Here].kind # "conn" => UNCHANGED files /\ b.state # "EXEC_CGI"
  <2>1. /\ UNCHANGED addPollFds /\ SameWatched /\ SameLives
        /\ \E b : /\ Rewrites(cl, Here, b) /\ Parsed(cl[Here], b)
                  /\ b.state = "READ_REQUEST" => http.kind = "unfinished"
                  /\ http.kind \in {"bad", "unfinished"} => UNCHANGED files /\ b.state # "EXEC_CGI"
    BY <1>1, <1>2, <1>3, <1>7, ParseOne
  <2>2. PICK b : /\ Rewrites(clients, Here, b) /\ Parsed(Client, b)
                 /\ http.kind \in {"bad", "unfinished"} => UNCHANGED files /\ b.state # "EXEC_CGI"
    BY <1>2, <1>4, <2>1
  <2>3. Proceeds(Client, b)
    BY <1>1, <2>2 DEF Parsed, Proceeds, Killable
  <2>4. Goes(b)
    BY <1>5, <2>1, <2>2, <2>3 DEF Goes
  <2> QED
    BY <1>7, <2>1, <2>2, <2>4
<1>8. SameProcesses(jobs)
  BY DEF SameProcesses
<1>9. CASE /\ files[Here].kind = "conn"
           /\ \E k \in 1..Len(conns[j].unread) :
                ExecParseRequest(cl, pf, jobs, cur,
                  IF conns[j].unread[k] = 0 THEN Unfinished ELSE Http(j, conns[j].unread[k]))
  <2>1. j \in Conn
    BY <1>1, <1>9, TypesOfState DEF Object
  <2> HIDE DEF j
  <2>2. PICK k \in 1..Len(conns[j].unread) :
          ExecParseRequest(cl, pf, jobs, cur,
            IF conns[j].unread[k] = 0 THEN Unfinished ELSE Http(j, conns[j].unread[k]))
    BY <1>9
  <2> DEFINE http == IF conns[j].unread[k] = 0 THEN Unfinished ELSE Http(j, conns[j].unread[k])
  <2>3. http \in HttpType
    BY <2>1, ReadHttpType, TypesOfState
  <2>4. http.kind # "post" /\ (http.kind \in {"get", "nocgi"} => http.conn \in Conn)
    <3>1. CASE conns[j].unread[k] = 0
      BY <3>1 DEF Unfinished, NoHttp
    <3>2. CASE conns[j].unread[k] # 0
      <4>1. conns[j] \in ConnType /\ conns[j].unread \in Seq(0..Len(conns[j].asked))
        BY <2>1, TypesOfState DEF ConnsOK
      <4>2. conns[j].unread[k] \in 1..Len(conns[j].asked)
        <5>1. conns[j].unread[k] \in 0..Len(conns[j].asked)
          BY <4>1, ElementOfSeq
        <5>2. Len(conns[j].asked) \in Nat
          BY <4>1, LenProperties DEF ConnType
        <5> QED
          BY <3>2, <5>1, <5>2
      <4>3. conns[j].asked[conns[j].unread[k]] \in Request
        BY <4>1, <4>2, ElementOfSeq DEF ConnType
      <4>4. http = Http(j, conns[j].unread[k])
        BY <3>2
      <4> HIDE DEF http
      <4> QED
        BY <2>1, <4>3, <4>4 DEF Http, OnePeer
    <3> QED
      BY <3>1, <3>2
  <2>5. ExecParseRequest(cl, pf, jobs, cur, http)
    BY <2>2
  <2> HIDE DEF http
  <2> QED
    BY <1>7, <1>8, <1>9, <2>3, <2>4, <2>5, TypesOfState
<1>10. CASE /\ files[Here].kind = "out"
            /\ ExecParseRequest(cl, pf, [jobs EXCEPT ![j].read = TRUE], cur, Unreadable)
  <2>1. j \in Job /\ jobs[j] \in JobType
    BY <1>1, <1>10, TypesOfState DEF Object
  <2> HIDE DEF j
  <2> DEFINE jb == [jobs EXCEPT ![j].read = TRUE]
  <2>2. jb \in [Job -> JobType] /\ SameProcesses(jb)
    BY <2>1, TypesOfState DEF SameProcesses, JobType
  <2>3. Unreadable.kind = "bad"
    BY DEF Unreadable, NoHttp
  <2>4. ExecParseRequest(cl, pf, jb, cur, Unreadable)
    BY <1>10
  <2> HIDE DEF jb
  <2> QED
    BY <1>7, <2>2, <2>3, <2>4, BaseTypes
<1>11. CASE ExecParseRequest(cl, pf, jobs, cur, Unfinished)
  <2>1. Unfinished.kind = "unfinished"
    BY DEF Unfinished, NoHttp
  <2> QED
    BY <1>7, <1>8, <1>11, <2>1, BaseTypes, TypesOfState
<1>12. CASE clients' = Put(clients, Here, failed) /\ UNCHANGED <<files, jobs, addPollFds>>
  <2>1. /\ failed.state = "WRITE_REQUEST_ERROR" /\ failed.isClosed = Client.isClosed
        /\ failed.clientFd = Client.clientFd
        /\ failed.cgiFd = Client.cgiFd /\ failed.cgiPid = Client.cgiPid
    BY <1>1 DEF BufferType
  <2> HIDE DEF failed
  <2>2. Proceeds(Client, failed)
    BY <1>1, <2>1 DEF Proceeds, Killable
  <2>3. Goes(failed)
    BY <1>5, <1>12, <2>2, PutRewrites, SameItAll DEF Goes
  <2> QED
    BY <1>12, <2>1, <2>3, SameItAll
<1> QED
  BY <1>6, <1>9, <1>10, <1>11, <1>12

(* The peer's turn, when no script runs for it. *)
LEMMA GoesAlone ==
  ASSUME SocketInv, NEW F \in Fds, Alone(F), cur = First, Here = F, Len(pollFds) = First,
         HandlerTurn, SameWatched, NEW b, Goes(b)
  PROVE  Alone(F)'
<1>1. PlainTurn /\ SameLives /\ Rewrites(clients, F, b)
  BY DEF PlainTurn, Goes
<1>2. b \in BufferType
  <2>1. GoodClients(clients') /\ F \in DOMAIN clients' /\ Buffer(clients', F) = b
    BY <1>1 DEF HandlerTurn, Rewrites
  <2> QED
    BY <2>1, BufferGood
<1>3. IsClient(F, Client) /\ ~Client.isClosed
  <2>1. pc = "handle" /\ Buffer(clients, F) = Client
    BY DEF HandlerTurn, Turn, Client
  <2>2. ~Closing
    BY <2>1, Slots12 DEF Closing
  <2> QED
    BY <2>1, <2>2 DEF Alone
<1>4. Proceeds(Client, b)
  BY DEF Goes
<1>5. F # -1
  BY PortsFacts
<1>6. IsClient(F, b)'
  <2>1. b.clientFd = F /\ b.cgiFd \notin {0, F} /\ Killable(b) /\ (b.isClosed => b.state = "READ_REQUEST")
    BY <1>3, <1>4, <1>5 DEF IsClient, Proceeds
  <2>2. b.state \in ClientState /\ (b.state = "EXEC_CGI" => HasCgi(files', jobs', b))
    BY <1>3, <1>4 DEF IsClient, Proceeds, ClientState, HasCgi, AsksScript
  <2> QED
    BY <2>1, <2>2 DEF IsClient
<1> QED
  BY <1>1, <1>2, <1>6, AloneTurn

(* A turn after the peer has left. *)
LEMMA GoesOver ==
  ASSUME SocketInv, Over, NEW b, Goes(b), b.state # "EXEC_CGI",
         \A x \in Fds : files'[x].kind = "conn" => files[x].kind = "conn"
  PROVE  Over'
<1>1. Client.state \notin GoneState
  BY DEF Over, Client, Buffer, Zeroed, GoneState
<1>2. b.state \notin GoneState
  BY <1>1 DEF Goes, Proceeds, GoneState
<1>3. Rewrites(clients, Here, b) /\ SameOpen /\ \A j \in Job : Live(j)' = Live(j)
  BY DEF Goes, SameLives
<1> QED
  BY <1>2, <1>3, OverTurn

(* The peer's entry is marked, and its connection closed. *)
LEMMA DropOver ==
  ASSUME SocketInv, NEW F \in Fds, AllOpen, NoneLive,
         \A x \in Fds : files[x].kind = "conn" => x = F,
         \A x : x # F => Buffer(clients, x).state \notin GoneState,
         files' = Close(files, F), clients' = Forget(clients, F), UNCHANGED jobs, SameOpen
  PROVE  Over'
<1>1. AllOpen' /\ NoneLive'
  BY DEF AllOpen, SameOpen, NoneLive, Live
<1>2. \A x \in Fds : files'[x].kind # "conn"
  <2>1. \A x \in Fds : files'[x] = IF x = F THEN Free ELSE files[x]
    BY TypesOfState DEF Close
  <2> QED
    BY <2>1 DEF Free, Obj
<1>3. \A x : Buffer(clients', x).state \notin GoneState
  <2>1. \A x : Buffer(Forget(clients, F), x) = IF x = F THEN Zeroed ELSE Buffer(clients, x)
    BY BufferOf
  <2>2. Zeroed.state \notin GoneState
    BY DEF Zeroed, GoneState
  <2> QED
    BY <2>1, <2>2
<1>4. \A x \in DOMAIN clients' : clients'[x].state \notin GoneState
  BY <1>3 DEF Buffer
<1> QED
  BY <1>1, <1>2, <1>4 DEF Over, GoneState

LEMMA AloneDrop ==
  ASSUME SocketInv, NEW F \in Fds, Accepted(F), NoneLive, Watchable({F}), Blank({F}),
         files' = Close(files, F), clients' = Forget(clients, F), UNCHANGED jobs, SameOpen
  PROVE  Over'
<1>1. AllOpen /\ \A x \in Fds : files[x].kind = "conn" => x = F
  BY DEF Accepted, Watchable
<1>2. \A x : x # F => Buffer(clients, x).state \notin GoneState
  <2>1. \A x : x \notin {F} => Buffer(clients, x) = Zeroed
    BY BlankOf DEF Blank
  <2> QED
    BY <2>1 DEF Zeroed, GoneState
<1> QED
  BY <1>1, <1>2, DropOver

(* The peer's script is started. *)
LEMMA CgiStarts ==
  ASSUME SocketInv, Reported, NEW F \in Fds, Alone(F), cur = First, Here = F, Len(pollFds) = First,
         HandlerTurn, ExecCgi
  PROVE  Reported' /\ Stage'
<1> DEFINE cgi == Client.cgi
<1>0. PICK s, j : s = LowestFree(files) /\ j = cgi.job
  OBVIOUS
<1> DEFINE new == NewBuffer(s, "WAIT_CGI_CHILD")
           p0 == [new EXCEPT !.clientFd = F, !.cgiPid = j]
           b0 == [Client EXCEPT !.cgiPid = j, !.cgiFd = s, !.state = "WAIT_CGI", !.last = now]
<1>1. /\ Accepted(F) /\ NoneLive /\ Only({F}) /\ Listed(F) /\ IsClient(F, Client)
      /\ Client \in BufferType /\ Client = Buffer(clients, F)
      /\ Client.state = "EXEC_CGI" /\ "OUT" \in pollFds[cur].revents /\ pc = "handle"
      /\ cgi # NoCgi /\ CanPipe(files)
  BY AtHand DEF Alone, Client, ExecCgi, OutTurn, Turn
<1>2. /\ Client.http.conn \in Conn /\ files[cgi.r].kind = "stdinR" /\ files[cgi.w].kind = "stdinW"
      /\ jobs[j].st = "made" /\ j \in Job /\ cgi.r \in Fds /\ cgi.w \in Fds
      /\ ~Client.isClosed /\ AsksScript(Client)
  <2>1. HasCgi(files, jobs, Client) /\ ~Client.isClosed
    BY <1>1 DEF IsClient
  <2>2. cgi \in [r : Handled, w : Handled, job : Job]
    BY <1>1 DEF BufferType, CgiType
  <2> QED
    BY <2>1, <2>2, <1>0, PortsFacts DEF HasCgi
<1>3. s \in Fds /\ files[s] = Free /\ s \notin Range(Ports)
  <2>1. s \in Fds /\ files[s] = Free
    BY <1>0, <1>1, LowestFreeIsFree DEF CanPipe
  <2> QED
    BY <2>1, FreeIsHandled, TypesOfState DEF Handled
<1>4. s # F /\ s # 0 /\ s # cgi.r /\ s # cgi.w /\ F # cgi.r /\ F # cgi.w /\ cgi.r # 0 /\ cgi.w # 0
  BY <1>1, <1>2, <1>3 DEF Accepted, Free, Obj
<1>5. s \notin DOMAIN clients /\ F \in DOMAIN clients /\ clients[F] = Client
  BY <1>1, <1>3, <1>4 DEF Only, Known, Buffer
<1>6. /\ files' = CgiFiles(cgi, j)
      /\ jobs' = [jobs EXCEPT ![j].st = "run", ![j].http = Client.http]
      /\ addPollFds' = Append(addPollFds, CreateClientEntry(s, "WAIT_CGI_CHILD"))
      /\ clients' = CgiBuffers(clients, F, s, j)
      /\ UNCHANGED <<conns, delIndex>>
  BY <1>0, <1>2, ZenonT(60) DEF ExecCgi
<1> HIDE DEF cgi
<1>7. clients' = [[Put(clients, s, new) EXCEPT ![s].clientFd = F, ![s].cgiPid = j]
                     EXCEPT ![F].cgiPid = j, ![F].cgiFd = s, ![F].state = "WAIT_CGI", ![F].last = now]
  BY <1>5, <1>6 DEF CgiBuffers, CreateClientBuffer, Insert
<1>8. /\ DOMAIN clients' = DOMAIN clients \cup {s} /\ clients'[s] = p0 /\ clients'[F] = b0
      /\ \A x \in DOMAIN clients : x # F => clients'[x] = clients[x]
  <2> DEFINE put == Put(clients, s, new)
  <2>1. /\ DOMAIN put = DOMAIN clients \cup {s} /\ put[s] = new
        /\ \A x \in DOMAIN clients : put[x] = clients[x]
    BY <1>5 DEF Put
  <2> HIDE DEF put, new
  <2>2. clients' = [[put EXCEPT ![s] = p0] EXCEPT ![F].cgiPid = j, ![F].cgiFd = s, ![F].state = "WAIT_CGI", ![F].last = now]
    BY <1>7, <2>1 DEF put
  <2> DEFINE piped == [put EXCEPT ![s] = p0]
  <2>3. DOMAIN piped = DOMAIN put /\ piped[s] = p0 /\ \A x \in DOMAIN put : x # s => piped[x] = put[x]
    BY <2>1
  <2>4. clients' = [piped EXCEPT ![F].cgiPid = j, ![F].cgiFd = s, ![F].state = "WAIT_CGI", ![F].last = now]
    BY <2>2
  <2> HIDE DEF piped, p0
  <2>5. piped[F] = Client
    BY <1>4, <1>5, <2>1, <2>3
  <2>6. clients' = [piped EXCEPT ![F] = b0]
    BY <2>4, <2>5
  <2> HIDE DEF b0
  <2> QED
    BY <1>4, <1>5, <2>1, <2>3, <2>6
<1>9. PICK b, p : b = b0 /\ p = p0
  OBVIOUS
<1>10. /\ b.cgiPid = j /\ b.cgiFd = s /\ b.state = "WAIT_CGI" /\ b.last = now
       /\ b.clientFd = F /\ ~b.isClosed /\ AsksScript(b)
  BY <1>1, <1>2, <1>9 DEF BufferType, IsClient, AsksScript
<1>11. /\ p.clientFd = F /\ p.cgiPid = j /\ p.state = "WAIT_CGI_CHILD" /\ p.last = now /\ p.out = 0
       /\ p.cgiFd = -1 /\ ~p.isClosed
  BY <1>9 DEF NewBuffer, Zeroed
<1> HIDE DEF b0, p0
<1>12. addPollFds = <<>> /\ delIndex = <<>>
  BY <1>1, Slots12 DEF Listed
<1>13. /\ Len(addPollFds') = 1 /\ addPollFds'[1].fd = s /\ DOMAIN addPollFds' = {1}
       /\ addPollFds'[1].revents = {}
  BY <1>6, <1>12 DEF CreateClientEntry, Entry
<1>14. Reported'
  BY <1>13, ReportedTurn
<1>15. /\ Len(pollFds') = First /\ First' = First /\ pollFds'[First].fd = F
       /\ "HUP" \notin pollFds'[First].revents /\ pc' = "handle" /\ cur' > First /\ now' = now
  <2>1. /\ Len(pollFds') = Len(pollFds) /\ First \in 1..Len(pollFds)
        /\ \A i \in 1..Len(pollFds) : pollFds'[i].fd = pollFds[i].fd /\ pollFds'[i].revents = pollFds[i].revents
    BY Slots12 DEF HandlerTurn, SameEntries
  <2>2. "HUP" \notin pollFds[First].revents
    <3>1. First \in DOMAIN pollFds
      BY <2>1, LenProperties, TypesOfState
    <3> QED
      BY <1>1, <3>1 DEF Reported
  <2>3. cur + 1 \in 1..Len(pollFds) + 1
    BY Slots12
  <2>4. cur' \in cur + 1 .. Len(pollFds) + 1
    BY <2>3, NextTurnRange DEF HandlerTurn, EndTurn
  <2>5. cur' > First
    BY <2>4, Slots12
  <2>6. First' = First
    BY DEF First, NumPorts
  <2> QED
    BY <2>1, <2>2, <2>5, <2>6 DEF HandlerTurn, EndTurn, Turn, Here
<1>16. \A x \in Fds : files'[x] = IF x = s THEN Obj("out", j)
                                  ELSE IF x \in {cgi.r, cgi.w} THEN Free ELSE files[x]
  <2> DEFINE f == Open(files, Obj("out", j))
             g == Close(f, cgi.r)
  <2>1. f = [files EXCEPT ![s] = Obj("out", j)]
    BY <1>0 DEF Open
  <2>2. DOMAIN f = Fds /\ \A x \in Fds : f[x] = IF x = s THEN Obj("out", j) ELSE files[x]
    BY <2>1, TypesOfState
  <2> HIDE DEF f
  <2>3. DOMAIN g = Fds /\ \A x \in Fds : g[x] = IF x = cgi.r THEN Free ELSE f[x]
    BY <1>2, <2>2 DEF Close
  <2> HIDE DEF g
  <2>4. \A x \in Fds : Close(g, cgi.w)[x] = IF x = cgi.w THEN Free ELSE g[x]
    BY <1>2, <2>3 DEF Close
  <2>5. files' = Close(g, cgi.w)
    BY <1>6 DEF CgiFiles, g, f
  <2> QED
    BY <1>4, <2>2, <2>3, <2>4, <2>5
<1>17. /\ files'[F] = files[F] /\ files'[0] = files[0] /\ files'[s] = Obj("out", j)
  BY <1>3, <1>4, <1>16, PortsFacts
<1>18. Accepted(F)'
  BY <1>1, <1>6, <1>17 DEF Accepted, AllOpen
<1>19. Watchable({F, s})'
  BY <1>1, <1>16 DEF Only, Watchable, Free, Obj
<1>20. Blank({F, s})' /\ Known({F, s})'
  BY <1>1, <1>5, <1>8 DEF Only, Blank, Known
<1>21. /\ jobs'[j].st = "run" /\ jobs'[j].http = Client.http
       /\ \A i \in Job \ {j} : jobs'[i] = jobs[i]
  <2>1. jobs[j] \in JobType
    BY <1>2, TypesOfState
  <2> QED
    BY <1>2, <1>6, <2>1, TypesOfState DEF JobType
<1>22. Live(j)' /\ \A i \in Job \ {j} : ~Live(i)'
  BY <1>1, <1>21 DEF Live, NoneLive
<1>23. Buffer(clients', F) = b /\ Buffer(clients', s) = p
  BY <1>5, <1>8, <1>9 DEF Buffer
<1>24. Awaited(s, j, b, p)'
  BY <1>10, <1>11, <1>13, <1>15, <1>22 DEF Awaited
<1>25. Piped(F, s, j)'
  BY <1>2, <1>6, <1>10, <1>11, <1>12, <1>15, <1>17, <1>18, <1>19, <1>20, <1>21, <1>22, <1>23, <1>24
  DEF Piped, Only
<1> QED
  BY <1>2, <1>3, <1>14, <1>25 DEF Stage

(* Nothing but the descriptor cl.cgiFd names is closed by the handler, so
   what is watched stays. *)
LEMMA CloseUnwatched ==
  ASSUME SocketInv, NEW fd, fd = -1 \/ (fd \in Fds /\ files[fd].kind \notin {"conn", "out"}), fd # 0,
         files' = Close(files, fd)
  PROVE  SameWatched
<1>1. 0 \in Fds /\ -1 \notin Fds
  BY PortsFacts
<1>2. CASE fd \notin Fds
  <2>1. files' = files
    BY <1>2 DEF Close
  <2> QED
    BY <2>1, SameItAll
<1>3. CASE fd \in Fds
  <2>1. files' = [files EXCEPT ![fd] = Free]
    BY <1>3 DEF Close
  <2>2. \A x \in Fds : files'[x] = IF x = fd THEN Free ELSE files[x]
    BY <2>1, TypesOfState
  <2> QED
    BY <1>1, <1>3, <2>2 DEF SameWatched, Free, Obj
<1> QED
  BY <1>2, <1>3

(* The peer's turn without a script, whatever it is in. *)
LEMMA AloneHandled ==
  ASSUME OnePeer, SocketInv, Reported, NEW F \in Fds, Alone(F), cur = First, Here = F, Len(pollFds) = First,
         HandlerTurn, Handle, ~ServerDies
  PROVE  Reported' /\ Stage'
<1>1. /\ Accepted(F) /\ NoneLive /\ Only({F}) /\ Listed(F) /\ Turn /\ cur > NumPorts
      /\ Client = Buffer(clients, F) /\ Client \in BufferType /\ IsClient(F, Client)
      /\ Client.state \in ClientState
  BY AtHand, Slots12 DEF Alone, Client, IsClient, HandlerTurn
<1>2. addPollFds = <<>> /\ delIndex = <<>>
  BY <1>1, Slots12 DEF Listed
<1>3. ASSUME UNCHANGED addPollFds PROVE Reported'
  BY <1>2, <1>3, ReportedTurn
<1>4. ASSUME SameWatched, NEW b, Goes(b) PROVE Reported' /\ Stage'
  BY <1>3, <1>4, GoesAlone DEF Goes, Stage
<1>5. CASE ExecReadRequest
  <2>1. files[Here].kind = "conn" => files[0].kind = "std"
    BY <1>1 DEF Accepted
  <2> QED
    BY <1>4, <1>5, <2>1, ReadRequestGoes
<1>6. CASE ExecCoreHandler
  BY <1>4, <1>6, CoreHandlerGoes, SameItAll
<1>7. CASE ExecWriteResponse
  BY <1>4, <1>7, WriteResponseGoes, SameItAll
<1>8. CASE ExecCgiRefused
  BY <1>4, <1>8, CgiRefusedGoes, SameItAll
<1>9. CASE ExecCgi
  BY <1>9, CgiStarts
<1>10. CASE ExecWriteError
  <2>1. CASE UNCHANGED files /\ \E b : Goes(b)
    BY <1>4, <2>1, SameItAll
  <2>2. CASE PushDelPollFd(cur, clients)
    <3>1. Over'
      BY <1>1, <1>10, <2>2, WriteErrorGoes, AloneDrop DEF PushDelPollFd, Here, Only
    <3> QED
      BY <1>3, <1>10, <3>1, WriteErrorGoes DEF Stage
  <2> QED
    BY <1>10, <2>1, <2>2, WriteErrorGoes
<1>11. CASE ExecWriteCgi
  <2>1. files' = files \/ files' = Close(files, Client.cgiFd)
    BY <1>11, WriteCgiGoes
  <2>2. Client.cgiFd \in Handled \cup {-1} /\ Client.cgiFd # 0 /\ Client.cgiFd # F
    BY <1>1 DEF BufferType, IsClient
  <2>3. Client.cgiFd = -1 \/ (Client.cgiFd \in Fds /\ files[Client.cgiFd].kind \notin {"conn", "out"})
    BY <1>1, <2>2, PortsFacts DEF Only, Watchable
  <2>4. SameWatched
    BY <2>1, <2>2, <2>3, CloseUnwatched, SameItAll
  <2> QED
    BY <1>4, <1>11, <2>4, WriteCgiGoes
<1>12. CASE NoHandler
  BY <1>4, <1>12, NoHandlerGoes, SameItAll
<1>13. ~AcceptConnection
  BY <1>1, Slots12 DEF AcceptConnection
<1>14. ~ExecWriteCGIBody /\ ~ExecWaitCgiChild /\ ~ExecReadCgi
  BY <1>1 DEF ExecWriteCGIBody, ExecWaitCgiChild, ExecReadCgi, OutTurn, InTurn, ClientState
<1> QED
  BY <1>5, <1>6, <1>7, <1>8, <1>9, <1>10, <1>11, <1>12, <1>13, <1>14 DEF Handle

(* A turn after the peer has left. *)
LEMMA OverHandled ==
  ASSUME OnePeer, SocketInv, Reported, Over, HandlerTurn, Handle, ~ServerDies, cur > NumPorts
  PROVE  Reported' /\ Stage'
<1>1. /\ Turn /\ Client = Buffer(clients, Here) /\ Client \in BufferType
      /\ Client.state \notin GoneState
  <2>1. Turn /\ Client = Buffer(clients, Here) /\ Client \in BufferType
    BY ClientHere DEF HandlerTurn
  <2> QED
    BY <2>1 DEF Over, Buffer, Zeroed, GoneState
<1>2. /\ Here \in Fds /\ files[Here].kind # "conn" /\ \A x \in Fds : files[x].kind # "conn"
  BY <1>1, ClientHere DEF Over
<1>3. ASSUME UNCHANGED addPollFds PROVE Reported'
  <2>1. \A i \in DOMAIN addPollFds' : addPollFds'[i].revents = {}
    BY <1>3 DEF Reported
  <2> QED
    BY <2>1, ReportedTurn
<1>4. ASSUME \A x \in Fds : files'[x].kind = "conn" => files[x].kind = "conn",
             \E b : Goes(b) /\ b.state # "EXEC_CGI"
      PROVE  Reported' /\ Stage'
  BY <1>3, <1>4, GoesOver DEF Goes, Stage
<1>5. CASE ExecReadRequest
  BY <1>2, <1>4, <1>5, ReadRequestGoes
<1>6. CASE ExecCoreHandler
  BY <1>4, <1>6, CoreHandlerGoes
<1>7. CASE ExecWriteResponse
  BY <1>4, <1>7, WriteResponseGoes
<1>8. CASE ExecWriteError
  <2>1. CASE UNCHANGED files /\ \E b : Goes(b) /\ b.state = "WRITE_REQUEST_ERROR"
    BY <1>4, <2>1
  <2>2. CASE PushDelPollFd(cur, clients)
    <3>1. Over'
      <4>1. files' = Close(files, Here) /\ clients' = Forget(clients, Here)
        BY <2>2 DEF PushDelPollFd, Here
      <4>2. UNCHANGED jobs /\ SameOpen
        BY <1>8, WriteErrorGoes
      <4>3. \A x : Buffer(clients, x).state \notin GoneState
        BY DEF Over, Buffer, Zeroed, GoneState
      <4> QED
        BY <1>2, <4>1, <4>2, <4>3, DropOver DEF Over
    <3> QED
      BY <1>3, <1>8, <3>1, WriteErrorGoes DEF Stage
  <2> QED
    BY <1>8, <2>1, <2>2, WriteErrorGoes
<1>9. CASE ExecWriteCgi
  <2>1. files' = files \/ files' = Close(files, Client.cgiFd)
    BY <1>9, WriteCgiGoes
  <2>2. \A x \in Fds : files'[x].kind # "conn"
    BY <1>2, <2>1, TypesOfState DEF Close, Free, Obj
  <2> QED
    BY <1>4, <1>9, <2>2, WriteCgiGoes
<1>10. CASE NoHandler
  <2>1. Client.state # "EXEC_CGI"
    BY <1>1 DEF GoneState
  <2> QED
    BY <1>4, <1>10, <2>1, NoHandlerGoes
<1>11. ~AcceptConnection
  BY <1>1, AtHand, Slots12 DEF AcceptConnection
<1>12. /\ ~ExecCgiRefused /\ ~ExecCgi /\ ~ExecWriteCGIBody /\ ~ExecWaitCgiChild /\ ~ExecReadCgi
  BY <1>1 DEF ExecCgiRefused, ExecCgi, ExecWriteCGIBody, ExecWaitCgiChild, ExecReadCgi, OutTurn, InTurn, GoneState
<1> QED
  BY <1>5, <1>6, <1>7, <1>8, <1>9, <1>10, <1>11, <1>12 DEF Handle

(* The peer is accepted, or cannot be. *)
LEMMA AcceptOne ==
  ASSUME OnePeer, SocketInv, Reported, Stage, HandlerTurn, AcceptConnection
  PROVE  Reported' /\ Stage'
<1>1. /\ Turn /\ pc = "handle" /\ cur \in 1..NumPorts /\ Here = Ports[cur] /\ Here \in Nat
      /\ "IN" \in pollFds[cur].revents
  BY AtHand, PortsFacts, TypesOfState DEF AcceptConnection, Turn
<1>2. \E c \in Conn : Waits(c, Here)
  <2>1. cur \in cur..NumPorts
    BY <1>1, PortsFacts
  <2> QED
    BY <1>1, <2>1 DEF SocketInv, BacklogOK
<1>3. Nobody
  <2>1. ~AllOpen
    BY <1>2 DEF AllOpen, Waits
  <2> QED
    BY <1>1, <2>1 DEF Stage, Over, Alone, Dropping, Piped, Accepted
<1>4. /\ NoneOpen /\ NoneLive /\ Only({}) /\ files[0].kind = "std"
      /\ Len(pollFds) = NumPorts /\ addPollFds = <<>> /\ delIndex = <<>>
  BY <1>3 DEF Nobody
<1>5. pc' = "handle" /\ UNCHANGED <<jobs, pollFds, delIndex>>
  BY <1>1 DEF AcceptConnection, EndTurn
<1>6. NoneLive'
  BY <1>4, <1>5 DEF NoneLive, Live
<1>7. CASE ~HasFree(files)
  <2>1. UNCHANGED <<files, conns, addPollFds, clients>>
    BY <1>7 DEF AcceptConnection
  <2>2. Nobody'
    BY <1>4, <1>5, <1>6, <2>1 DEF Nobody, NoneOpen, Only, Watchable, Blank, Known, NumPorts
  <2>3. Reported'
    BY <1>4, <2>1, ReportedTurn
  <2> QED
    BY <2>2, <2>3 DEF Stage
<1>8. CASE HasFree(files)
  <2>1. PICK c, fd : c = Min({ d \in Conn : Waits(d, Here) }) /\ fd = LowestFree(files)
    OBVIOUS
  <2>2. c \in Conn
    <3>1. { d \in Conn : Waits(d, Here) } \in SUBSET Nat
      BY NumbersAssumption
    <3>2. c \in { d \in Conn : Waits(d, Here) }
      BY <1>2, <2>1, <3>1, MinIsMember
    <3> QED
      BY <3>2
  <2>3. fd \in Fds /\ files[fd] = Free /\ fd \notin Range(Ports)
    <3>1. fd \in Fds /\ files[fd] = Free
      BY <1>8, <2>1, LowestFreeIsFree
    <3> QED
      BY <3>1, FreeIsHandled, TypesOfState DEF Handled
  <2>4. /\ files' = Open(files, Obj("conn", c)) /\ conns' = [conns EXCEPT ![c].st = "open"]
        /\ addPollFds' = Append(addPollFds, CreateClientEntry(fd, "READ_REQUEST"))
        /\ clients' = CreateClientBuffer(clients, fd, "READ_REQUEST")
    BY <1>8, <2>1 DEF AcceptConnection
  <2>5. fd # 0 /\ fd \notin DOMAIN clients
    BY <1>4, <2>3 DEF Free, Obj, Only, Known
  <2>6. \A x \in Fds : files'[x] = IF x = fd THEN Obj("conn", c) ELSE files[x]
    <3>1. files' = [files EXCEPT ![fd] = Obj("conn", c)]
      BY <2>1, <2>4 DEF Open
    <3> QED
      BY <3>1, TypesOfState
  <2>7. AllOpen'
    <3>1. conns'[c].st = "open"
      BY <2>2, <2>4, TypesOfState DEF ConnsOK, ConnType
    <3> QED
      BY <2>2, <3>1 DEF AllOpen, OnePeer
  <2>8. Accepted(fd)' /\ Watchable({fd})'
    <3>1. 0 \in Fds
      BY PortsFacts
    <3> QED
      BY <1>4, <2>3, <2>5, <2>6, <2>7, <3>1 DEF Accepted, Only, Watchable, Obj
  <2>9. PICK b : b = NewBuffer(fd, "READ_REQUEST")
    OBVIOUS
  <2>10. /\ b.state = "READ_REQUEST" /\ b.clientFd = fd /\ b.cgiFd = -1 /\ b.cgiPid = -1 /\ ~b.isClosed
    BY <2>9 DEF NewBuffer, Zeroed
  <2>11. clients' = Put(clients, fd, b)
    BY <2>4, <2>5, <2>9 DEF CreateClientBuffer, Insert
  <2>12. Rewrites(clients, fd, b)
    BY <2>11, PutRewrites
  <2>13. Blank({fd})' /\ Known({fd})'
    <3>1. \A x : Buffer(clients, x) = Zeroed
      <4>1. \A x \in DOMAIN clients \ {} : clients[x] = Zeroed
        BY <1>4 DEF Only, Blank
      <4>2. \A x : x \notin {} => Buffer(clients, x) = Zeroed
        BY <4>1 DEF Buffer
      <4> QED
        BY <4>2
    <3>2. \A x : x \notin {fd} => Buffer(clients', x) = Zeroed
      BY <2>12, <3>1 DEF Rewrites
    <3>3. \A x \in DOMAIN clients' \ {fd} : clients'[x] = Zeroed
      BY <3>2, BlankOf
    <3> QED
      BY <1>4, <2>12, <3>3 DEF Rewrites, Only, Known, Blank
  <2>14. IsClient(fd, b)'
    <3>1. fd # -1 /\ ~(-1 > 0) /\ -1 # 0
      BY <2>3, PortsFacts
    <3> QED
      BY <2>10, <3>1 DEF IsClient, Killable, ClientState
  <2>15. /\ Len(addPollFds') = 1 /\ addPollFds'[1].fd = fd /\ DOMAIN addPollFds' = {1}
         /\ addPollFds'[1].revents = {}
    BY <1>4, <2>4 DEF CreateClientEntry, Entry
  <2>16. Buffer(clients', fd) = b
    BY <2>12 DEF Rewrites
  <2>17. Listed(fd)'
    BY <1>4, <1>5, <2>10, <2>15, <2>16 DEF Listed, NumPorts
  <2>18. Alone(fd)'
    BY <1>5, <1>6, <2>8, <2>10, <2>13, <2>14, <2>16, <2>17 DEF Alone, Only
  <2>19. Reported'
    BY <2>15, ReportedTurn
  <2> QED
    BY <2>3, <2>18, <2>19 DEF Stage
<1> QED
  BY <1>7, <1>8

=============================================================================

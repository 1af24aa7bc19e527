----------------------- MODULE SocketInterfaceStatic -----------------------
(***************************************************************************)
(* Proofs about the event loop while every request is answered without a   *)
(* script: by a file, or by an error page when it cannot be parsed.  Peers *)
(* may send in pieces, stop sending or reset their connections, and there  *)
(* may be any number of them, of ports and of descriptors.                 *)
(***************************************************************************)
EXTENDS SocketInterfaceProofs

(* Nobody asks for a script. *)
OnlyFiles == \A r \in Request : r.kind \in {"static", "bad"}

-----------------------------------------------------------------------------
(* The invariant *)

(* No script is ever made, so deleteClient has none to kill. *)
NoScripts ==
  /\ \A j \in Job : jobs[j].st = "none"
  /\ \A fd \in Fds : files[fd].kind \in {"free", "std", "lsn", "conn"}
  /\ pc \notin {"reap", "drop"}

IsConn(fd) == files[fd].kind = "conn"

(* An accepted connection has one descriptor at most. *)
OneDescriptor ==
  /\ \A fd \in Fds : IsConn(fd) => conns[files[fd].id].st = "open"
  /\ \A f, g \in Fds : IsConn(f) /\ files[f] = files[g] => f = g

Slots == NumPorts + 1 .. Len(pollFds)

(* Each entry is its connection's only one.  The connection is closed as soon
   as the entry is marked, and its number is not handed out again before the
   entry is erased. *)
OneEntry ==
  /\ \A i \in Slots : IF i \in Marked THEN files[pollFds[i].fd] = Free ELSE IsConn(pollFds[i].fd)
  /\ \A i, j \in Slots : IsConn(pollFds[i].fd) /\ pollFds[i].fd = pollFds[j].fd => i = j
  /\ \A i \in DOMAIN addPollFds : IsConn(addPollFds[i].fd)
  /\ \A i, j \in DOMAIN addPollFds : addPollFds[i].fd = addPollFds[j].fd => i = j
  /\ \A i \in Slots, j \in DOMAIN addPollFds : pollFds[i].fd # addPollFds[j].fd
  /\ pc = "poll" => delIndex = <<>>
  /\ pc = "handle" => \A i \in Marked : i < cur

(* What connection cn, number c, has asked and got. *)
Asks(c, cn) ==
  /\ Len(cn.asked) \in {Len(cn.got), Len(cn.got) + 1}
  /\ \A i \in DOMAIN cn.asked : cn.asked[i].kind \in {"static", "bad"}
  /\ \A i \in DOMAIN cn.unread : cn.unread[i] # 0 =>
       /\ i = Len(cn.unread) /\ cn.unread[i] = Len(cn.asked)
       /\ Len(cn.asked) = Len(cn.got) + 1
  /\ \A i \in DOMAIN cn.got : cn.got[i].conn = c /\ cn.got[i].n = i

(* http is the request of cn that has been read and not yet answered. *)
Pending(c, cn, http) ==
  /\ Len(cn.asked) = Len(cn.got) + 1 /\ cn.unread = <<>>
  /\ http.conn = c /\ http.n = Len(cn.asked) /\ http.close = cn.asked[Len(cn.asked)].close

(* Its answer is being written, or has been. *)
Writing(c, cn, b) ==
  /\ b.response.left > 0 /\ b.response.to = b.http /\ Pending(c, cn, b.http)
  /\ b.state = "WRITE_REQUEST_ERROR" => b.response.what = "error"
Written(cn, b) ==
  /\ b.response.left = 0 /\ cn.got # <<>>
  /\ b.http.close => cn.asked[Len(cn.got)].close
  /\ b.state = "WRITE_REQUEST_ERROR" => Last(cn.got).what = "error"

(* How far buffer b has come with connection c. *)
Exchange(c, cn, b) ==
  /\ ~(b.cgiFd > 0)
  /\ b.state \in {"READ_REQUEST", "EXEC_CORE_HANDLER", "WRITE_RESPONSE", "WRITE_REQUEST_ERROR"}
  /\ ~cn.rst =>
       /\ b.state = "EXEC_CORE_HANDLER" => Pending(c, cn, b.http)
       /\ b.state \in {"WRITE_RESPONSE", "WRITE_REQUEST_ERROR"} =>
            Writing(c, cn, b) \/ Written(cn, b)

(* A buffer belongs to a connection, or is as if it had never been used. *)
Exchanges ==
  /\ \A c \in Conn : Asks(c, conns[c])
  /\ \A fd \in Fds :
       IF IsConn(fd) THEN Exchange(files[fd].id, conns[files[fd].id], Buffer(clients, fd))
                     ELSE Buffer(clients, fd) = Zeroed

Gone(cn) == cn.fin \/ cn.rst

(* The last answer was to a request with Connection: close. *)
MayClose(cn) == cn.got # <<>> /\ cn.asked[Len(cn.got)].close

(* Why entry e, number i, may be deleted or read from, when the loop is at
   entry k of part p: its peer is gone, has sent something, or wanted the
   connection closed, and then it is closed in this very pass. *)
Reason(p, k, i, e, cn, b) ==
  /\ "HUP" \in e.revents => Gone(cn)
  /\ p = "handle" /\ k <= i /\ "IN" \in e.revents => Gone(cn) \/ cn.unread # <<>>
  /\ b.isClosed => MayClose(cn) /\ ((p = "handle" /\ i < k) \/ (p = "scan" /\ k <= i))

Reasons ==
  /\ \A i \in Slots : IsConn(pollFds[i].fd) =>
       Reason(pc, cur, i, pollFds[i], conns[files[pollFds[i].fd].id], Buffer(clients, pollFds[i].fd))
  /\ \A i \in DOMAIN addPollFds :
       ~Buffer(clients, addPollFds[i].fd).isClosed /\ addPollFds[i].revents = {}

StaticInv == NoScripts /\ OneDescriptor /\ OneEntry /\ Exchanges /\ Reasons /\ ClosedForCause

-----------------------------------------------------------------------------
(* Buffers and connections *)

(* What a descriptor of a connection says of it. *)
LEMMA ConnOf ==
  ASSUME SocketInv, StaticInv, NEW fd \in Fds, IsConn(fd)
  PROVE  /\ files[fd].id \in Conn /\ files[fd] = Obj("conn", files[fd].id)
         /\ conns[files[fd].id] \in ConnType /\ conns[files[fd].id].st = "open"
         /\ ~IsClosed(files[fd].id)
         /\ \A g \in Fds : IsConn(g) /\ files[g].id = files[fd].id => g = fd
<1>1. \A g \in Fds : IsConn(g) => files[g].id \in Conn /\ files[g] = Obj("conn", files[g].id)
  BY TypesOfState DEF IsConn, Object, Obj
<1>2. conns[files[fd].id] \in ConnType
  BY <1>1, TypesOfState DEF ConnsOK
<1>3. ~IsClosed(files[fd].id)
  BY <1>1 DEF IsClosed, IsOpen
<1> QED
  BY <1>1, <1>2, <1>3 DEF StaticInv, OneDescriptor

(* The connection whose turn it is. *)
LEMMA ConnAtHand ==
  ASSUME SocketInv, StaticInv, Turn, cur > NumPorts
  PROVE  /\ cur \in Slots /\ cur \notin Marked /\ Here \in Fds /\ Here \in Handled /\ IsConn(Here)
         /\ files[Here].id \in Conn /\ conns[files[Here].id] \in ConnType
         /\ Asks(files[Here].id, conns[files[Here].id])
         /\ Exchange(files[Here].id, conns[files[Here].id], Client)
         /\ Reason("handle", cur, cur, pollFds[cur], conns[files[Here].id], Client)
         /\ ~Client.isClosed
<1>1. cur \in Slots /\ Here \in Fds /\ Here \in Handled /\ pc = "handle" /\ cur \in Nat
  BY AtHand, PortsFacts DEF Slots, Turn
<1>2. cur \notin Marked
  BY <1>1 DEF StaticInv, OneEntry
<1>3. IsConn(Here)
  BY <1>1, <1>2 DEF StaticInv, OneEntry, Here
<1>4. Reason("handle", cur, cur, pollFds[cur], conns[files[Here].id], Client)
  BY <1>1, <1>3 DEF StaticInv, Reasons, Here, Client
<1>5. ~Client.isClosed
  BY <1>1, <1>4 DEF Reason
<1> QED
  BY <1>1, <1>2, <1>3, <1>4, <1>5, ConnOf DEF StaticInv, Exchanges, Client

(* A connection is closed or not whatever becomes of the others. *)
LEMMA ClosedLater ==
  ASSUME SocketInv, StaticInv, now' \in Nat, now' >= now,
         \A c \in Conn : IsClosed(c)' =>
           IsClosed(c) /\ conns'[c].asked = conns[c].asked /\ conns'[c].got = conns[c].got
                       /\ (Gone(conns[c]) => Gone(conns'[c]))
  PROVE  ClosedForCause'
<1> SUFFICES ASSUME NEW c \in Conn, IsClosed(c)'
             PROVE  (\/ conns[c].fin \/ conns[c].rst \/ now > TIMEOUT + 1
                     \/ /\ conns[c].got # <<>>
                        /\ \/ Last(conns[c].got).what = "error"
                           \/ conns[c].asked[Len(conns[c].got)].close)'
  BY DEF ClosedForCause
<1>1. \/ conns[c].fin \/ conns[c].rst \/ now > TIMEOUT + 1
      \/ /\ conns[c].got # <<>>
         /\ \/ Last(conns[c].got).what = "error"
            \/ conns[c].asked[Len(conns[c].got)].close
  BY DEF StaticInv, ClosedForCause
<1>2. now > TIMEOUT + 1 => now' > TIMEOUT + 1
  <2>1. now \in Nat /\ now' \in Nat /\ TIMEOUT \in Nat
    BY TypesOfState, BoundsAssumption
  <2> QED
    BY <2>1
<1> QED
  BY <1>1, <1>2 DEF Gone

(* Entries keep their places and descriptors. *)
LEMMA SameSlots ==
  ASSUME SocketInv, SameEntries(pollFds, pollFds')
  PROVE  /\ Slots' = Slots
         /\ \A i \in Slots : pollFds'[i].fd = pollFds[i].fd /\ pollFds'[i].revents = pollFds[i].revents
         /\ Slots \subseteq 1..Len(pollFds)
         /\ \A i \in Slots : pollFds[i].fd \in Fds /\ pollFds[i].fd \in Handled
         /\ \A i \in DOMAIN addPollFds : addPollFds[i].fd \in Fds /\ addPollFds[i].fd \in Handled
<1>1. Slots \subseteq 1..Len(pollFds)
  BY PortsFacts, LenProperties, TypesOfState DEF Slots
<1>2. Slots' = Slots
  BY DEF Slots, SameEntries, NumPorts
<1>3. \A i \in Slots : pollFds[i].fd \in Handled
  BY DEF Slots, SocketInv, ListenersOK
<1>4. \A i \in DOMAIN addPollFds : addPollFds[i].fd \in Handled
  BY DEF SocketInv, ListenersOK
<1> QED
  BY <1>1, <1>2, <1>3, <1>4, PortsFacts DEF SameEntries

(* The loop goes on to a later entry. *)
LEMMA NextEntry ==
  ASSUME SocketInv, Turn, EndTurn
  PROVE  cur \in Nat /\ cur' \in Nat /\ cur < cur' /\ pc = "handle" /\ pc' = "handle" /\ now' = now
<1>1. cur \in 1..Len(pollFds) /\ Len(pollFds) \in Nat
  BY AtHand
<1>2. cur + 1 \in 1..Len(pollFds) + 1
  BY <1>1
<1>3. cur' \in cur + 1 .. Len(pollFds) + 1
  BY <1>2, NextTurnRange DEF EndTurn
<1> QED
  BY <1>1, <1>3 DEF Turn, EndTurn

(* A step that closes nothing, opens nothing and marks nothing. *)
LEMMA Frame ==
  ASSUME SocketInv, StaticInv, UNCHANGED <<files, jobs, addPollFds>>,
         now' \in Nat, now' >= now,
         Slots' = Slots, \A i \in Slots : pollFds'[i].fd = pollFds[i].fd, Marked' = Marked,
         pc' \notin {"reap", "drop"}, pc' = "poll" => delIndex' = <<>>,
         pc' = "handle" => \A i \in Marked : i < cur',
         \A c \in Conn : /\ conns'[c].st = "open" <=> conns[c].st = "open"
                         /\ IsClosed(c) => conns'[c] = conns[c],
         Exchanges', Reasons'
  PROVE  StaticInv'
<1>1. \A fd \in Fds : IsConn(fd)' = IsConn(fd) /\ (IsConn(fd) => files[fd].id \in Conn)
  BY ConnOf DEF IsConn
<1>2. NoScripts'
  BY DEF StaticInv, NoScripts
<1>3. OneDescriptor'
  BY <1>1 DEF StaticInv, OneDescriptor
<1>4. OneEntry'
  BY DEF StaticInv, OneEntry, IsConn
<1>5. \A c \in Conn : IsClosed(c)' => IsClosed(c) /\ conns'[c] = conns[c]
  BY DEF IsClosed
<1>6. ClosedForCause'
  BY <1>5, ClosedLater
<1> QED
  BY <1>2, <1>3, <1>4, <1>6 DEF StaticInv

(* A step that only moves the loop on. *)
LEMMA MoveOn ==
  ASSUME SocketInv, StaticInv, UNCHANGED <<files, conns, jobs, addPollFds, pollFds, now>>,
         \A fd : Buffer(clients', fd) = Buffer(clients, fd), Marked' = Marked,
         pc' \notin {"reap", "drop"}, pc' = "poll" => delIndex' = <<>>,
         pc' = "handle" => \A i \in Marked : i < cur',
         \A i \in Slots : IsConn(pollFds[i].fd) =>
           Reason(pc', cur', i, pollFds[i], conns[files[pollFds[i].fd].id],
                  Buffer(clients, pollFds[i].fd))
  PROVE  StaticInv'
<1>1. Exchanges'
  BY DEF StaticInv, Exchanges, IsConn
<1>2. Slots' = Slots
  BY DEF Slots, NumPorts
<1>3. Reasons'
  BY <1>2 DEF StaticInv, Reasons, IsConn
<1>4. now' \in Nat /\ now' >= now
  BY TypesOfState
<1> QED
  BY <1>1, <1>2, <1>3, <1>4, Frame

(* What a peer's step makes of its connection cn, number c. *)
PeerStep(c, cn, dn) ==
  /\ dn.st = "open" <=> cn.st = "open"
  /\ Asks(c, cn) => Asks(c, dn)
  /\ \A b : Exchange(c, cn, b) => Exchange(c, dn, b)
  /\ Gone(cn) => Gone(dn)
  /\ cn.unread # <<>> => dn.unread # <<>>
  /\ MayClose(cn) => MayClose(dn)

LEMMA PeersKeep ==
  ASSUME SocketInv, StaticInv,
         UNCHANGED <<pc, cur, pollFds, addPollFds, delIndex, clients, files, jobs>>,
         now' \in Nat, now' >= now,
         \A c \in Conn : /\ PeerStep(c, conns[c], conns'[c])
                         /\ IsClosed(c) => conns'[c] = conns[c]
  PROVE  StaticInv'
<1>1. \A fd \in Fds : IsConn(fd)' = IsConn(fd) /\ (IsConn(fd) => files[fd].id \in Conn)
  BY ConnOf DEF IsConn
<1>2. Exchanges'
  BY <1>1 DEF StaticInv, Exchanges, PeerStep
<1>3. Slots' = Slots /\ Marked' = Marked
  BY DEF Slots, NumPorts, Marked
<1>4. Reasons'
  <2>1. ASSUME NEW i \in Slots, IsConn(pollFds[i].fd)
        PROVE  Reason(pc, cur, i, pollFds[i], conns'[files[pollFds[i].fd].id],
                      Buffer(clients, pollFds[i].fd))
    <3>1. pollFds[i].fd \in Fds
      BY SameSlots, SameItself, TypesOfState
    <3>2. files[pollFds[i].fd].id \in Conn
      BY <1>1, <2>1, <3>1
    <3> QED
      BY <2>1, <3>2 DEF StaticInv, Reasons, Reason, PeerStep
  <2> QED
    BY <1>3, <2>1 DEF StaticInv, Reasons, IsConn
<1>5. \A c \in Conn : conns'[c].st = "open" <=> conns[c].st = "open"
  BY DEF PeerStep
<1>6. /\ pc \notin {"reap", "drop"}
      /\ pc = "poll" => delIndex = <<>>
      /\ pc = "handle" => \A i \in Marked : i < cur
  BY DEF StaticInv, NoScripts, OneEntry
<1> QED
  BY <1>2, <1>3, <1>4, <1>5, <1>6, Frame

(* A handler's turn with a connection that stays open. *)
LEMMA TurnKeeps ==
  ASSUME SocketInv, StaticInv, Turn, EndTurn, cur > NumPorts,
         UNCHANGED <<up, files, jobs, addPollFds, delIndex>>, SameEntries(pollFds, pollFds'),
         NEW b, \A fd : Buffer(clients', fd) = IF fd = Here THEN b ELSE Buffer(clients, fd),
         NEW cn, conns' = [conns EXCEPT ![files[Here].id] = cn],
         cn.st = "open", cn.fin = conns[files[Here].id].fin, cn.rst = conns[files[Here].id].rst,
         Asks(files[Here].id, cn), Exchange(files[Here].id, cn, b), b.isClosed => MayClose(cn)
  PROVE  StaticInv'
<1> DEFINE k == files[Here].id
<1>1. /\ cur \in Slots /\ cur \notin Marked /\ Here \in Fds /\ IsConn(Here) /\ k \in Conn
      /\ conns[k].st = "open" /\ ~IsClosed(k)
      /\ \A g \in Fds : IsConn(g) /\ files[g].id = k => g = Here
  BY ConnAtHand, ConnOf
<1>2. /\ conns'[k] = cn /\ DOMAIN conns' = Conn
      /\ \A c \in Conn : c # k => conns'[c] = conns[c]
  BY <1>1, TypesOfState DEF ConnsOK
<1> HIDE DEF k
<1>3. /\ cur \in Nat /\ cur' \in Nat /\ cur < cur' /\ pc = "handle" /\ pc' = "handle" /\ now' = now
  BY NextEntry
<1>4. \A fd \in Fds : IsConn(fd)' = IsConn(fd)
  BY DEF IsConn
<1>5. \A fd : Buffer(clients', fd) = IF fd = Here THEN b ELSE Buffer(clients, fd)
  OBVIOUS
<1>6. \A fd \in Fds : IsConn(fd) => files[fd].id \in Conn /\ (fd # Here => files[fd].id # k)
  BY <1>1, ConnOf
<1>7. \A i \in Marked : i < cur'
  <2>1. \A i \in Marked : i < cur /\ i \in Nat
    BY <1>3 DEF StaticInv, OneEntry, Marked, Range, SocketInv, TypeOK
  <2> QED
    BY <1>3, <2>1
<1>8. \A c \in Conn : /\ conns'[c].st = "open" <=> conns[c].st = "open"
                      /\ IsClosed(c) => conns'[c] = conns[c]
  BY <1>1, <1>2
<1>9. Exchanges'
  <2>1. \A c \in Conn : Asks(c, conns'[c])
    BY <1>2 DEF k, StaticInv, Exchanges
  <2>2. ASSUME NEW fd \in Fds
        PROVE  IF IsConn(fd)' THEN Exchange(files[fd].id, conns'[files[fd].id], Buffer(clients', fd))
                              ELSE Buffer(clients', fd) = Zeroed
    <3>1. CASE fd = Here
      BY <1>1, <1>2, <1>4, <1>5, <3>1 DEF k
    <3>2. CASE fd # Here
      BY <1>2, <1>4, <1>5, <1>6, <3>2 DEF StaticInv, Exchanges
    <3> QED
      BY <3>1, <3>2
  <2> QED
    BY <2>1, <2>2 DEF Exchanges
<1>10. Reasons'
  <2>1. ASSUME NEW i \in Slots, IsConn(pollFds[i].fd)
        PROVE  Reason("handle", cur', i, pollFds'[i], conns'[files[pollFds[i].fd].id],
                      Buffer(clients', pollFds[i].fd))
    <3>1. i \in Nat /\ pollFds[i].fd \in Fds
      BY SameSlots, PortsFacts DEF Slots
    <3>2. Reason("handle", cur, i, pollFds[i], conns[files[pollFds[i].fd].id],
                 Buffer(clients, pollFds[i].fd))
      BY <1>3, <2>1 DEF StaticInv, Reasons
    <3>3. pollFds'[i].revents = pollFds[i].revents
      BY SameSlots
    <3>4. CASE i = cur
      <4>1. pollFds[i].fd = Here
        BY <3>4 DEF Here
      <4>2. conns'[files[Here].id] = cn /\ Buffer(clients', Here) = b
        BY <1>2, <1>5 DEF k
      <4>3. Gone(cn) = Gone(conns[files[Here].id])
        BY DEF Gone
      <4>4. ~(cur' <= i) /\ i < cur'
        BY <1>3, <3>4
      <4> QED
        BY <3>2, <3>3, <4>1, <4>2, <4>3, <4>4 DEF Reason
    <3>5. CASE i # cur
      <4>1. pollFds[i].fd # Here
        BY <1>1, <2>1, <3>5 DEF Here, StaticInv, OneEntry
      <4>2. /\ conns'[files[pollFds[i].fd].id] = conns[files[pollFds[i].fd].id]
            /\ Buffer(clients', pollFds[i].fd) = Buffer(clients, pollFds[i].fd)
        BY <1>2, <1>5, <1>6, <2>1, <3>1, <4>1
      <4>3. (cur' <= i => cur <= i) /\ (i < cur => i < cur')
        BY <1>3, <3>1
      <4> QED
        BY <3>2, <3>3, <4>2, <4>3 DEF Reason
    <3> QED
      BY <3>4, <3>5
  <2>2. ASSUME NEW i \in DOMAIN addPollFds
        PROVE  ~Buffer(clients', addPollFds[i].fd).isClosed /\ addPollFds[i].revents = {}
    <3>1. addPollFds[i].fd # Here
      BY <1>1 DEF Here, StaticInv, OneEntry
    <3> QED
      BY <1>5, <3>1 DEF StaticInv, Reasons
  <2> QED
    BY <1>3, <1>4, <2>1, <2>2, SameSlots DEF Reasons
<1>11. now' \in Nat /\ now' >= now /\ Marked' = Marked
  BY <1>3, TypesOfState DEF Marked
<1> QED
  BY <1>3, <1>7, <1>8, <1>9, <1>10, <1>11, SameSlots, Frame

-----------------------------------------------------------------------------
(* Peers and the clock *)

LEMMA OnePeer ==
  ASSUME SocketInv, StaticInv, UNCHANGED <<server, files, jobs, now>>, NEW c \in Conn, NEW x,
         conns' = [conns EXCEPT ![c] = x], ~IsClosed(c), PeerStep(c, conns[c], x)
  PROVE  StaticInv'
<1>1. \A d \in Conn : PeerStep(d, conns[d], conns[d])
  BY DEF PeerStep
<1>2. conns'[c] = x /\ \A d \in Conn : d # c => conns'[d] = conns[d]
  BY TypesOfState DEF ConnsOK
<1>3. now' \in Nat /\ now' >= now
  BY TypesOfState
<1> QED
  BY <1>1, <1>2, <1>3, PeersKeep DEF server, vectors

LEMMA ConnectStatic ==
  ASSUME SocketInv, StaticInv, NEW c \in Conn, NEW port, Connect(c, port)
  PROVE  StaticInv'
<1> DEFINE x == [conns[c] EXCEPT !.st = "queued", !.port = port]
<1>1. conns[c] \in ConnType /\ conns[c].st = "new" /\ conns' = [conns EXCEPT ![c] = x]
  BY TypesOfState DEF ConnsOK, Connect
<1>2. /\ x.st = "queued" /\ x.asked = conns[c].asked /\ x.unread = conns[c].unread
      /\ x.got = conns[c].got /\ x.fin = conns[c].fin /\ x.rst = conns[c].rst
  BY <1>1 DEF ConnType
<1> HIDE DEF x
<1>3. PeerStep(c, conns[c], x)
  BY <1>1, <1>2 DEF PeerStep, Asks, Exchange, Writing, Written, Pending, Gone, MayClose
<1> QED
  BY <1>1, <1>3, OnePeer DEF Connect, IsClosed

LEMMA FinishStatic ==
  ASSUME SocketInv, StaticInv, NEW c \in Conn, Finish(c)
  PROVE  StaticInv'
<1> DEFINE x == [conns[c] EXCEPT !.fin = TRUE]
<1>1. conns[c] \in ConnType /\ conns' = [conns EXCEPT ![c] = x]
  BY TypesOfState DEF ConnsOK, Finish
<1>2. /\ x.st = conns[c].st /\ x.asked = conns[c].asked /\ x.unread = conns[c].unread
      /\ x.got = conns[c].got /\ x.fin /\ x.rst = conns[c].rst
  BY <1>1 DEF ConnType
<1> HIDE DEF x
<1>3. PeerStep(c, conns[c], x)
  BY <1>2 DEF PeerStep, Asks, Exchange, Writing, Written, Pending, Gone, MayClose
<1> QED
  BY <1>1, <1>3, OnePeer DEF Finish

LEMMA ResetStatic ==
  ASSUME SocketInv, StaticInv, NEW c \in Conn, Reset(c)
  PROVE  StaticInv'
<1> DEFINE x == [conns[c] EXCEPT !.rst = TRUE]
<1>1. conns[c] \in ConnType /\ conns' = [conns EXCEPT ![c] = x]
  BY TypesOfState DEF ConnsOK, Reset
<1>2. /\ x.st = conns[c].st /\ x.asked = conns[c].asked /\ x.unread = conns[c].unread
      /\ x.got = conns[c].got /\ x.fin = conns[c].fin /\ x.rst
  BY <1>1 DEF ConnType
<1> HIDE DEF x
<1>3. PeerStep(c, conns[c], x)
  BY <1>2 DEF PeerStep, Asks, Exchange, Gone, MayClose
<1> QED
  BY <1>1, <1>3, OnePeer DEF Reset

LEMMA SendPartStatic ==
  ASSUME SocketInv, StaticInv, NEW c \in Conn, SendPart(c)
  PROVE  StaticInv'
<1> DEFINE u == Append(conns[c].unread, 0)
           x == [conns[c] EXCEPT !.unread = u, !.half = TRUE]
<1>1. conns[c] \in ConnType /\ conns' = [conns EXCEPT ![c] = x]
  BY TypesOfState DEF ConnsOK, SendPart
<1>2. /\ conns[c].unread \in Seq(0..MaxRequests) /\ Len(conns[c].asked) = Len(conns[c].got)
      /\ conns[c].asked \in Seq(Request) /\ Len(conns[c].asked) \in Nat
  BY <1>1, LenProperties DEF ConnType, SendPart, Speaks
<1>3. /\ Len(u) = Len(conns[c].unread) + 1 /\ DOMAIN u = 1..Len(u) /\ u # <<>>
      /\ Len(conns[c].unread) \in Nat /\ DOMAIN conns[c].unread = 1..Len(conns[c].unread)
      /\ \A i \in 1..Len(u) : u[i] = IF i <= Len(conns[c].unread) THEN conns[c].unread[i] ELSE 0
  BY <1>2, AppendProperties, LenProperties
<1> HIDE DEF u
<1>4. /\ x.st = conns[c].st /\ x.asked = conns[c].asked /\ x.unread = u
      /\ x.got = conns[c].got /\ x.fin = conns[c].fin /\ x.rst = conns[c].rst
  BY <1>1 DEF ConnType
<1> HIDE DEF x
<1>5. Asks(c, conns[c]) => Asks(c, x)
  <2>1. ASSUME Asks(c, conns[c]), NEW i \in 1..Len(u)
        PROVE  u[i] = 0
    <3>1. i <= Len(conns[c].unread) => i \in DOMAIN conns[c].unread
      BY <1>3
    <3> QED
      BY <1>2, <1>3, <2>1, <3>1 DEF Asks
  <2> QED
    BY <1>3, <1>4, <2>1 DEF Asks
<1>6. ASSUME NEW b, Exchange(c, conns[c], b)
      PROVE  Exchange(c, x, b)
  BY <1>2, <1>4, <1>6 DEF Exchange, Pending, Writing, Written
<1> QED
  BY <1>1, <1>3, <1>4, <1>5, <1>6, OnePeer DEF SendPart, Speaks, PeerStep, Gone, MayClose

LEMMA SendStatic ==
  ASSUME OnlyFiles, SocketInv, StaticInv, NEW c \in Conn, NEW r \in Request, Send(c, r)
  PROVE  StaticInv'
<1> DEFINE n == Len(conns[c].asked)
           m == Len(conns[c].unread)
           a == Append(conns[c].asked, r)
           u == Append(conns[c].unread, n + 1)
           x == [conns[c] EXCEPT !.asked = a, !.unread = u, !.half = FALSE]
<1>1. conns[c] \in ConnType /\ conns' = [conns EXCEPT ![c] = x]
  BY TypesOfState DEF ConnsOK, Send
<1>2. /\ conns[c].asked \in Seq(Request) /\ n \in Nat /\ DOMAIN conns[c].asked = 1..n
      /\ Len(conns[c].asked) = Len(conns[c].got)
  BY <1>1, LenProperties DEF ConnType, Send, Speaks
<1>3. /\ Len(a) = n + 1 /\ DOMAIN a = 1..n + 1
      /\ \A i \in 1..n + 1 : a[i] = IF i <= n THEN conns[c].asked[i] ELSE r
  BY SMTT(60), <1>2, AppendProperties, LenProperties
<1>4. /\ conns[c].unread \in Seq(Int) /\ m \in Nat /\ DOMAIN conns[c].unread = 1..m
  <2>1. conns[c].unread \in Seq(0..MaxRequests) /\ 0..MaxRequests \subseteq Int
    BY <1>1, BoundsAssumption DEF ConnType
  <2>2. m \in Nat /\ conns[c].unread \in [1..m -> 0..MaxRequests]
    BY <2>1, LenProperties
  <2>3. conns[c].unread \in [1..m -> Int]
    BY <2>1, <2>2
  <2> QED
    BY <2>2, <2>3
<1>5. /\ Len(u) = m + 1 /\ DOMAIN u = 1..m + 1 /\ u # <<>>
      /\ \A i \in 1..m + 1 : u[i] = IF i <= m THEN conns[c].unread[i] ELSE n + 1
  BY SMTT(30), <1>2, <1>4, AppendProperties, LenProperties
<1>6. n = Len(conns[c].got)
  BY <1>2
<1> HIDE DEF a, u, n, m
<1>7. /\ x.st = conns[c].st /\ x.asked = a /\ x.unread = u
      /\ x.got = conns[c].got /\ x.fin = conns[c].fin /\ x.rst = conns[c].rst
  BY <1>1 DEF ConnType
<1> HIDE DEF x
<1>8. Asks(c, conns[c]) => Asks(c, x)
  <2> SUFFICES ASSUME Asks(c, conns[c])
               PROVE  Asks(c, x)
    OBVIOUS
  <2>1. ASSUME NEW i \in 1..n + 1
        PROVE  a[i].kind \in {"static", "bad"}
    <3>1. i <= n => i \in 1..n
      BY <1>2
    <3> QED
      BY <1>2, <1>3, <3>1 DEF Asks, OnlyFiles
  <2>2. ASSUME NEW i \in 1..m + 1, u[i] # 0
        PROVE  i = m + 1 /\ u[i] = n + 1
    <3>1. ASSUME i <= m
          PROVE  FALSE
      <4>1. i \in 1..m /\ conns[c].unread[i] # 0
        BY <1>4, <1>5, <2>2, <3>1
      <4>2. Len(conns[c].asked) = Len(conns[c].got) + 1
        BY <1>4, <4>1 DEF Asks
      <4> QED
        BY <1>2, <4>2 DEF n
    <3>2. i = m + 1
      BY <1>4, <3>1
    <3> QED
      BY <1>4, <1>5, <3>1, <3>2
  <2> QED
    BY <1>3, <1>5, <1>6, <1>7, <2>1, <2>2 DEF Asks
<1>9. ASSUME conns[c].got # <<>>
      PROVE  a[Len(conns[c].got)] = conns[c].asked[Len(conns[c].got)]
  <2>1. n \in 1..n
    <3>1. conns[c].got \in Seq([conn : Conn \cup {0}, n : 0..MaxRequests, what : {"nothing", "doc", "error"}])
      BY <1>1 DEF ConnType
    <3>2. Len(conns[c].got) # 0
      BY <1>9, <3>1, EmptySeq
    <3> QED
      BY <1>2, <1>6, <3>2 DEF n
  <2>2. n \in 1..n + 1 /\ n <= n
    BY <1>2, <2>1
  <2> QED
    BY <1>3, <1>6, <2>2
<1>10. ASSUME NEW b, Exchange(c, conns[c], b)
       PROVE  Exchange(c, x, b)
  <2>1. ~Pending(c, conns[c], b.http)
    BY <1>2 DEF Pending, n
  <2>2. Written(conns[c], b) => Written(x, b)
    BY <1>7, <1>9 DEF Written
  <2> QED
    BY <1>7, <1>10, <2>1, <2>2 DEF Exchange, Writing
<1>11. MayClose(conns[c]) => MayClose(x)
  BY <1>7, <1>9 DEF MayClose
<1> QED
  BY <1>1, <1>5, <1>7, <1>8, <1>10, <1>11, OnePeer DEF Send, Speaks, PeerStep, Gone

LEMMA OutsideStatic ==
  ASSUME SocketInv, StaticInv, Tick \/ ServerDies \/ UNCHANGED vars
  PROVE  StaticInv'
<1>1. now' \in Nat /\ now' >= now
  BY TypesOfState DEF Tick, ServerDies, Dies, kernel, vars
<1>2. \A c \in Conn : PeerStep(c, conns[c], conns[c])
  BY DEF PeerStep
<1> QED
  BY <1>1, <1>2, PeersKeep DEF Tick, ServerDies, Dies, server, kernel, vectors, vars

(* No script runs, so none moves. *)
LEMMA NoChild ==
  ASSUME StaticInv, NEW j \in Job
  PROVE  ~Child(j)
BY DEF StaticInv, NoScripts, Child, ChildWrite, ChildExit

-----------------------------------------------------------------------------
(* The handlers *)

LEMMA EntriesAtHand ==
  ASSUME SocketInv, Turn, cur > NumPorts
  PROVE  /\ SameEntries(pollFds, pollFds)
         /\ \A ev \in {"IN", "OUT", "none"} : SameEntries(pollFds, SetEvents(pollFds, cur, ev))
BY EventsAtHand, SameItself, TypesOfState

LEMMA ExecCoreHandlerStatic ==
  ASSUME SocketInv, StaticInv, ExecCoreHandler
  PROVE  StaticInv'
<1> USE DEF ExecCoreHandler, OutTurn, Becomes
<1>1. Turn /\ cur > NumPorts /\ Client \in BufferType /\ Client.state = "EXEC_CORE_HANDLER"
  BY AtHand
<1> DEFINE cn == conns[files[Here].id]
           b == [Client EXCEPT !.state = "WRITE_RESPONSE", !.last = now,
                               !.response = Answer(Client.http, "doc")]
<1>2. /\ b.state = "WRITE_RESPONSE" /\ b.http = Client.http /\ b.cgiFd = Client.cgiFd
      /\ b.isClosed = Client.isClosed
      /\ b.response.to = Client.http /\ b.response.left = Writes
  BY <1>1 DEF BufferType, Answer
<1>3. clients' = Put(clients, Here, b)
  OBVIOUS
<1> HIDE DEF b
<1>4. \A fd : Buffer(clients', fd) = IF fd = Here THEN b ELSE Buffer(clients, fd)
  BY <1>3, BufferOf
<1>5. Exchange(files[Here].id, cn, b)
  BY <1>1, <1>2, ConnAtHand, BoundsAssumption DEF Exchange, Writing
<1>6. cn.st = "open" /\ Asks(files[Here].id, cn) /\ ~b.isClosed
      /\ conns' = [conns EXCEPT ![files[Here].id] = cn]
  BY <1>1, <1>2, ConnAtHand, ConnOf, TypesOfState DEF ConnsOK
<1> QED
  BY <1>1, <1>4, <1>5, <1>6, EntriesAtHand, TurnKeeps

(* The peer gets some of its answer, or the last of it. *)
LEMMA WriteStatic ==
  ASSUME SocketInv, StaticInv, Turn, EndTurn, cur > NumPorts,
         UNCHANGED <<up, files, jobs, addPollFds, delIndex>>, SameEntries(pollFds, pollFds'),
         NEW b \in BufferType, WriteSome(b), ~conns[files[Here].id].rst, ~b.isClosed,
         b.state \in {"WRITE_RESPONSE", "WRITE_REQUEST_ERROR"},
         Exchange(files[Here].id, conns[files[Here].id], b)
  PROVE  StaticInv'
<1> DEFINE c == files[Here].id
           sent == [conn |-> b.response.to.conn, n |-> b.response.to.n, what |-> b.response.what]
           got == Append(conns[c].got, sent)
           cn == [conns[c] EXCEPT !.got = got]
<1>1. /\ c \in Conn /\ conns[c] \in ConnType /\ conns[c].st = "open" /\ Asks(c, conns[c])
      /\ files[Here].kind = "conn" /\ conns = [conns EXCEPT ![c] = conns[c]]
  BY ConnAtHand, ConnOf, TypesOfState DEF ConnsOK, IsConn
<1>2. PICK n \in 1..b.response.left :
        LET left == b.response.left - n
        IN /\ clients' = Put(clients, Here,
                [b EXCEPT !.response = IF left = 0 THEN Nothing ELSE [@ EXCEPT !.left = left]])
           /\ conns' = IF left = 0 /\ files[Here].kind = "conn"
                       THEN [conns EXCEPT ![c].got = Append(@, sent)]
                       ELSE conns
  BY DEF WriteSome
<1>3. /\ b.response \in ResponseType /\ b.response.left \in Nat /\ n \in Nat /\ n > 0
      /\ n <= b.response.left /\ b.response.left > 0
  BY BoundsAssumption DEF BufferType, ResponseType, WriteSome
<1>4. Writing(c, conns[c], b)
  BY <1>3 DEF Exchange, Written
<1>5. CASE b.response.left - n # 0
  <2> DEFINE r == [b.response EXCEPT !.left = b.response.left - n]
             d == [b EXCEPT !.response = r]
  <2>1. r.left = b.response.left - n /\ r.to = b.response.to /\ r.what = b.response.what
    BY <1>3 DEF ResponseType
  <2>2. clients' = Put(clients, Here, d) /\ conns' = conns
    BY <1>2, <1>5
  <2> HIDE DEF r
  <2>3. /\ d.response = r /\ d.state = b.state /\ d.http = b.http /\ d.cgiFd = b.cgiFd
        /\ d.isClosed = b.isClosed
    BY DEF BufferType
  <2> HIDE DEF d
  <2>4. r.left > 0
    BY <1>3, <1>5, <2>1
  <2>5. Exchange(c, conns[c], d)
    BY <1>4, <2>1, <2>3, <2>4 DEF Exchange, Writing
  <2>6. \A fd : Buffer(clients', fd) = IF fd = Here THEN d ELSE Buffer(clients, fd)
    BY <2>2, BufferOf
  <2> QED
    BY <1>1, <2>2, <2>3, <2>5, <2>6, TurnKeeps
<1>6. CASE b.response.left - n = 0
  <2> DEFINE d == [b EXCEPT !.response = Nothing]
  <2>1. clients' = Put(clients, Here, d) /\ conns' = [conns EXCEPT ![c] = cn]
    BY <1>1, <1>2, <1>6
  <2>2. /\ d.response = Nothing /\ d.state = b.state /\ d.http = b.http /\ d.cgiFd = b.cgiFd
        /\ d.isClosed = b.isClosed
    BY DEF BufferType
  <2> HIDE DEF d
  <2>3. /\ sent.conn = c /\ sent.n = Len(conns[c].asked) /\ sent.what = b.response.what
        /\ sent \in [conn : Conn \cup {0}, n : 0..MaxRequests, what : {"nothing", "doc", "error"}]
    BY <1>3, <1>4 DEF Writing, Pending, ResponseType, HttpType
  <2> HIDE DEF sent
  <2>4. /\ conns[c].got \in Seq([conn : Conn \cup {0}, n : 0..MaxRequests,
                                 what : {"nothing", "doc", "error"}])
        /\ conns[c].asked \in Seq(Request)
    BY <1>1 DEF ConnType
  <2>5. /\ Len(conns[c].got) \in Nat /\ Len(got) = Len(conns[c].got) + 1
        /\ DOMAIN conns[c].got = 1..Len(conns[c].got)
        /\ DOMAIN got = 1..Len(got) /\ got # <<>> /\ Last(got) = sent
        /\ \A i \in 1..Len(got) : got[i] = IF i <= Len(conns[c].got) THEN conns[c].got[i] ELSE sent
    <3>1. /\ Len(got) = Len(conns[c].got) + 1 /\ DOMAIN got = 1..Len(got)
          /\ \A i \in 1..Len(got) :
               got[i] = IF i <= Len(conns[c].got) THEN conns[c].got[i] ELSE sent
      <4> DEFINE A == [conn : Conn \cup {0}, n : 0..MaxRequests, what : {"nothing", "doc", "error"}]
      <4>1. conns[c].got \in Seq(A) /\ sent \in A
        BY <2>3, <2>4
      <4> HIDE DEF A
      <4> QED
        BY <4>1, AppendProperties, LenProperties
    <3>2. Len(conns[c].got) \in Nat /\ DOMAIN conns[c].got = 1..Len(conns[c].got)
      BY <2>4, LenProperties
    <3> HIDE DEF got
    <3>3. Len(got) \in 1..Len(got) /\ ~(Len(got) <= Len(conns[c].got))
      BY SMTT(30), <3>1, <3>2
    <3>4. got # <<>>
      BY <3>1, <3>3
    <3> QED
      BY <3>1, <3>2, <3>3, <3>4 DEF Last
  <2>6. Len(conns[c].asked) = Len(conns[c].got) + 1 /\ conns[c].unread = <<>>
    BY <1>4 DEF Writing, Pending
  <2> HIDE DEF got
  <2>7. /\ cn.got = got /\ cn.asked = conns[c].asked /\ cn.unread = conns[c].unread
        /\ cn.st = conns[c].st /\ cn.fin = conns[c].fin /\ cn.rst = conns[c].rst
    BY <1>1 DEF ConnType
  <2> HIDE DEF cn
  <2>8. Asks(c, cn)
    <3>1. ASSUME NEW i \in 1..Len(got)
          PROVE  got[i].conn = c /\ got[i].n = i
      <4>1. CASE i <= Len(conns[c].got)
        <5>1. /\ i \in 1..Len(conns[c].got) /\ i \in DOMAIN conns[c].got
              /\ got[i] = conns[c].got[i]
          BY <2>5, <4>1
        <5>2. \A j \in DOMAIN conns[c].got : conns[c].got[j].conn = c /\ conns[c].got[j].n = j
          BY <1>1 DEF Asks
        <5> QED BY <5>1, <5>2
      <4>2. CASE i = Len(conns[c].got) + 1
        <5>1. ~(i <= Len(conns[c].got))
          BY SMTT(60), <2>5, <4>2
        <5>2. got[i] = sent
          BY <2>5, <5>1
        <5> QED BY <2>3, <2>6, <4>2, <5>2
      <4>3. Len(got) = Len(conns[c].got) + 1 /\ Len(conns[c].got) \in Nat
        BY <2>5
      <4> QED
        BY <4>1, <4>2, <4>3
    <3>2. \A i \in DOMAIN cn.unread : FALSE
      BY <2>6, <2>7
    <3> QED
      BY <1>1, <2>5, <2>6, <2>7, <3>1, <3>2 DEF Asks
  <2>9. Written(cn, d)
    <3>1. d.response.left = 0
      BY <2>2 DEF Nothing
    <3>2. b.http.close = cn.asked[Len(cn.got)].close
      BY <1>4, <2>5, <2>6, <2>7 DEF Writing, Pending
    <3>3. b.state = "WRITE_REQUEST_ERROR" => Last(cn.got).what = "error"
      BY <1>4, <2>3, <2>5, <2>7 DEF Writing
    <3> QED
      BY <2>2, <2>5, <2>7, <3>1, <3>2, <3>3 DEF Written
  <2>10. Exchange(c, cn, d)
    BY <2>2, <2>9 DEF Exchange
  <2>11. \A fd : Buffer(clients', fd) = IF fd = Here THEN d ELSE Buffer(clients, fd)
    BY <2>1, BufferOf
  <2> QED
    BY <1>1, <2>1, <2>2, <2>7, <2>8, <2>10, <2>11, TurnKeeps
<1> QED
  BY <1>5, <1>6

LEMMA ExecWriteResponseStatic ==
  ASSUME SocketInv, StaticInv, ExecWriteResponse
  PROVE  StaticInv'
<1> USE DEF ExecWriteResponse, OutTurn
<1>1. Turn /\ cur > NumPorts /\ Client \in BufferType /\ Client.state = "WRITE_RESPONSE"
  BY AtHand
<1> DEFINE c == files[Here].id
           b == [Client EXCEPT !.last = now]
<1>2. /\ c \in Conn /\ conns[c].st = "open" /\ Asks(c, conns[c]) /\ files[Here].kind = "conn"
      /\ conns = [conns EXCEPT ![c] = conns[c]]
      /\ Exchange(c, conns[c], Client) /\ ~Client.isClosed
  BY <1>1, ConnAtHand, ConnOf, TypesOfState DEF ConnsOK, IsConn
<1>3. /\ b \in BufferType /\ b.state = "WRITE_RESPONSE" /\ b.http = Client.http
      /\ b.response = Client.response /\ b.cgiFd = Client.cgiFd /\ b.isClosed = Client.isClosed
  BY <1>1, TypesOfState DEF BufferType
<1>4. Exchange(c, conns[c], b)
  BY <1>1, <1>2, <1>3 DEF Exchange, Writing, Written
<1>5. IsWritable(files[Here]) => ~conns[c].rst
  BY <1>2 DEF IsWritable, IsBroken
<1>6. CASE IsWritable(files[Here]) /\ WriteSome(b) /\ UNCHANGED pollFds
  <2> HIDE DEF b
  <2> QED
    BY <1>1, <1>2, <1>3, <1>4, <1>5, <1>6, EntriesAtHand, WriteStatic
<1>7. CASE /\ IsWritable(files[Here]) /\ b.response.left = 0
           /\ Becomes([b EXCEPT !.state = "READ_REQUEST", !.response = Nothing, !.redirects = 0,
                               !.cgiPid = -1, !.isClosed = @ \/ b.http.close], "IN")
           /\ UNCHANGED conns
  <2> HIDE DEF b
  <2> DEFINE d == [b EXCEPT !.state = "READ_REQUEST", !.response = Nothing, !.redirects = 0,
                            !.cgiPid = -1, !.isClosed = @ \/ b.http.close]
  <2>1. d.state = "READ_REQUEST" /\ d.cgiFd = b.cgiFd /\ d.isClosed = b.http.close
    BY <1>2, <1>3 DEF BufferType, HttpType
  <2>2. \A fd : Buffer(clients', fd) = IF fd = Here THEN d ELSE Buffer(clients, fd)
    BY <1>7, BufferOf DEF Becomes
  <2> HIDE DEF d
  <2>3. Exchange(c, conns[c], d)
    BY <1>4, <2>1 DEF Exchange
  <2>4. Written(conns[c], b)
    BY <1>3, <1>4, <1>5, <1>7 DEF Exchange, Writing
  <2>5. d.isClosed => MayClose(conns[c])
    BY <2>1, <2>4 DEF Written, MayClose
  <2>6. SameEntries(pollFds, pollFds') /\ conns' = [conns EXCEPT ![c] = conns[c]]
    BY <1>1, <1>2, <1>7, EntriesAtHand DEF Becomes
  <2> QED
    BY <1>1, <1>2, <2>2, <2>3, <2>5, <2>6, TurnKeeps
<1>8. CASE /\ Fails(files[Here])
           /\ Becomes([b EXCEPT !.state = "WRITE_REQUEST_ERROR",
                               !.response = Answer(b.http, "error")], "OUT")
           /\ UNCHANGED conns
  <2> HIDE DEF b
  <2> DEFINE d == [b EXCEPT !.state = "WRITE_REQUEST_ERROR", !.response = Answer(b.http, "error")]
  <2>1. d.state = "WRITE_REQUEST_ERROR" /\ d.cgiFd = b.cgiFd /\ ~d.isClosed
    BY <1>2, <1>3 DEF BufferType
  <2>2. \A fd : Buffer(clients', fd) = IF fd = Here THEN d ELSE Buffer(clients, fd)
    BY <1>8, BufferOf DEF Becomes
  <2> HIDE DEF d
  <2>3. conns[c].rst
    BY <1>2, <1>8 DEF Fails, IsWritable, IsBroken
  <2>4. Exchange(c, conns[c], d)
    BY <1>4, <2>1, <2>3 DEF Exchange
  <2>5. SameEntries(pollFds, pollFds') /\ conns' = [conns EXCEPT ![c] = conns[c]]
    BY <1>1, <1>2, <1>8, EntriesAtHand DEF Becomes
  <2> QED
    BY <1>1, <1>2, <2>1, <2>2, <2>4, <2>5, TurnKeeps
<1> QED
  BY <1>6, <1>7, <1>8

(* What excuses the server for closing connection cn. *)
Cause(cn) ==
  \/ cn.fin \/ cn.rst \/ now > TIMEOUT + 1
  \/ cn.got # <<>> /\ (Last(cn.got).what = "error" \/ cn.asked[Len(cn.got)].close)

(* pushDelPollFd of the entry at hand, which is not marked yet. *)
LEMMA DropKeeps ==
  ASSUME SocketInv, StaticInv, cur \in Slots, cur \notin Marked,
         UNCHANGED <<conns, jobs, now, addPollFds>>, SameEntries(pollFds, pollFds'),
         PushDelPollFd(cur, clients), Cause(conns[files[Here].id]),
         cur' \in Nat, cur < cur', pc \in {"handle", "scan"}, pc' = pc,
         pc = "scan" => cur' = cur + 1
  PROVE  StaticInv'
<1> DEFINE c == files[Here].id
<1>1. /\ Here \in Fds /\ IsConn(Here) /\ c \in Conn /\ cur \in Nat
      /\ \A g \in Fds : IsConn(g) => files[g].id \in Conn /\ (g # Here => files[g].id # c)
      /\ \A g \in Fds : IsConn(g) => files[g] = Obj("conn", files[g].id)
  <2>1. Here \in Fds /\ cur \in Nat
    BY SameSlots, SameItself, TypesOfState, PortsFacts DEF Here, Slots
  <2>2. IsConn(Here)
    BY DEF StaticInv, OneEntry, Here
  <2> QED
    BY <2>1, <2>2, ConnOf
<1> HIDE DEF c
<1>2. files' \in [Fds -> Object] /\ \A fd \in Fds : files'[fd] = IF fd = Here THEN Free ELSE files[fd]
  BY <1>1, TypesOfState DEF PushDelPollFd, Close, Here, Object, Free, Obj
<1>3. \A fd \in Fds : IsConn(fd)' <=> IsConn(fd) /\ fd # Here
  BY <1>2 DEF IsConn, Free, Obj
<1>4. \A fd : Buffer(clients', fd) = IF fd = Here THEN Zeroed ELSE Buffer(clients, fd)
  BY BufferOf DEF PushDelPollFd, Here
<1>5. Marked' = Marked \cup {cur} /\ \A i \in Marked : i \in Nat
  <2>1. delIndex \in Seq(Nat) /\ delIndex' = Append(delIndex, cur)
    BY DEF SocketInv, TypeOK, PushDelPollFd
  <2>2. /\ DOMAIN delIndex = 1..Len(delIndex) /\ Len(delIndex) \in Nat
        /\ DOMAIN delIndex' = 1..Len(delIndex) + 1
        /\ \A i \in 1..Len(delIndex) : delIndex'[i] = delIndex[i]
        /\ delIndex'[Len(delIndex) + 1] = cur
    BY <1>1, <2>1, AppendProperties, LenProperties
  <2>3. \A i \in 1..Len(delIndex) + 1 : i \in 1..Len(delIndex) \/ i = Len(delIndex) + 1
    BY <2>2
  <2>4. \A i \in 1..Len(delIndex) : i \in 1..Len(delIndex) + 1
    BY <2>2
  <2>5. Len(delIndex) + 1 \in 1..Len(delIndex) + 1
    BY <2>2
  <2> QED
    BY <2>1, <2>2, <2>3, <2>4, <2>5 DEF Marked, Range
<1>6. NoScripts'
  BY <1>2 DEF StaticInv, NoScripts, Free, Obj
<1>7. OneDescriptor'
  BY <1>1, <1>2, <1>3 DEF StaticInv, OneDescriptor, IsConn
<1>8. OneEntry'
  <2>1. ASSUME NEW i \in Slots
        PROVE  IF i \in Marked' THEN files'[pollFds[i].fd] = Free ELSE IsConn(pollFds[i].fd)'
    <3>1. pollFds[i].fd \in Fds
      BY SameSlots
    <3>2. CASE i = cur
      BY <1>1, <1>2, <1>5, <3>2 DEF Here
    <3>3. CASE i # cur
      <4>1. IF i \in Marked THEN files[pollFds[i].fd] = Free ELSE IsConn(pollFds[i].fd)
        BY DEF StaticInv, OneEntry
      <4>2. IsConn(pollFds[i].fd) => pollFds[i].fd # Here
        BY <3>3 DEF StaticInv, OneEntry, Here
      <4> QED
        BY <1>2, <1>3, <1>5, <3>1, <3>3, <4>1, <4>2, SameSlots
    <3> QED
      BY <3>2, <3>3
  <2>2. \A i \in DOMAIN addPollFds : IsConn(addPollFds[i].fd)'
    BY <1>3, SameSlots DEF StaticInv, OneEntry, Here
  <2>3. pc = "handle" => \A i \in Marked' : i < cur'
    <3>1. pc = "handle" => \A i \in Marked : i < cur /\ i \in Nat
      BY <1>5 DEF StaticInv, OneEntry
    <3>2. pc = "handle" => \A i \in Marked : i < cur'
      BY <1>1, <3>1
    <3> QED
      BY <1>5, <3>2
  <2>4. \A i, j \in Slots : IsConn(pollFds[i].fd)' /\ pollFds[i].fd = pollFds[j].fd => i = j
    BY <1>3, SameSlots DEF StaticInv, OneEntry
  <2> QED
    BY <2>1, <2>2, <2>3, <2>4, SameSlots DEF StaticInv, OneEntry, IsConn
<1>9. Exchanges'
  <2>1. ASSUME NEW fd \in Fds
        PROVE  IF IsConn(fd)' THEN Exchange(files'[fd].id, conns[files'[fd].id], Buffer(clients', fd))
                              ELSE Buffer(clients', fd) = Zeroed
    BY <1>2, <1>3, <1>4 DEF StaticInv, Exchanges
  <2> QED
    BY <2>1 DEF StaticInv, Exchanges
<1>10. Reasons'
  <2>1. ASSUME NEW i \in Slots, IsConn(pollFds[i].fd)'
        PROVE  Reason(pc, cur', i, pollFds'[i], conns[files'[pollFds[i].fd].id],
                      Buffer(clients', pollFds[i].fd))
    <3>1. i \in Nat /\ pollFds[i].fd \in Fds
      BY SameSlots, PortsFacts DEF Slots
    <3>2. IsConn(pollFds[i].fd) /\ pollFds[i].fd # Here
      BY <1>3, <2>1, <3>1, SameSlots
    <3>3. i # cur
      BY <3>2 DEF Here
    <3>4. Reason(pc, cur, i, pollFds[i], conns[files[pollFds[i].fd].id],
                 Buffer(clients, pollFds[i].fd))
      BY <3>2 DEF StaticInv, Reasons
    <3>5. /\ cur' <= i => cur <= i
          /\ i < cur => i < cur'
          /\ pc = "scan" /\ cur <= i => cur' <= i
      BY <1>1, <3>1, <3>3
    <3>6. /\ pollFds'[i].revents = pollFds[i].revents
          /\ files'[pollFds[i].fd] = files[pollFds[i].fd]
          /\ Buffer(clients', pollFds[i].fd) = Buffer(clients, pollFds[i].fd)
      BY <1>2, <1>4, <3>1, <3>2, SameSlots
    <3> QED
      BY <3>4, <3>5, <3>6 DEF Reason
  <2>2. ASSUME NEW i \in DOMAIN addPollFds
        PROVE  ~Buffer(clients', addPollFds[i].fd).isClosed /\ addPollFds[i].revents = {}
    <3>1. addPollFds[i].fd # Here
      BY DEF Here, StaticInv, OneEntry
    <3> QED
      BY <1>4, <3>1 DEF StaticInv, Reasons
  <2> QED
    BY <2>1, <2>2, SameSlots DEF Reasons, IsConn
<1>11. ClosedForCause'
  <2> SUFFICES ASSUME NEW d \in Conn, IsClosed(d)'
               PROVE  Cause(conns[d])
    BY DEF ClosedForCause, Cause
  <2>1. CASE d = c
    BY <2>1 DEF c
  <2>2. CASE d # c
    <3>1. IsClosed(d)
      <4> SUFFICES ASSUME NEW fd \in Fds, files[fd] = Obj("conn", d)
                   PROVE  FALSE
        BY DEF IsClosed, IsOpen
      <4>1. fd # Here
        BY <2>2 DEF c, Obj
      <4> QED
        BY <1>2, <4>1 DEF IsClosed, IsOpen
    <3> QED
      BY <3>1 DEF StaticInv, ClosedForCause, Cause
  <2> QED
    BY <2>1, <2>2
<1> QED
  BY <1>6, <1>7, <1>8, <1>9, <1>10, <1>11 DEF StaticInv

LEMMA ExecWriteErrorStatic ==
  ASSUME SocketInv, StaticInv, ExecWriteError
  PROVE  StaticInv'
<1> USE DEF ExecWriteError, OutTurn
<1>1. Turn /\ cur > NumPorts /\ Client \in BufferType /\ Client.state = "WRITE_REQUEST_ERROR"
  BY AtHand
<1> DEFINE c == files[Here].id
<1>2. /\ c \in Conn /\ files[Here].kind = "conn" /\ Exchange(c, conns[c], Client)
      /\ ~Client.isClosed /\ cur \in Slots /\ cur \notin Marked
  BY <1>1, ConnAtHand, ConnOf DEF IsConn
<1>3. IsWritable(files[Here]) <=> ~conns[c].rst
  BY <1>2 DEF IsWritable, IsBroken
<1>4. CASE /\ IsWritable(files[Here]) /\ WriteSome(Client)
           /\ pollFds' = SetEvents(pollFds, cur, "OUT")
           /\ UNCHANGED <<files, delIndex>>
  BY <1>1, <1>2, <1>3, <1>4, EntriesAtHand, WriteStatic
<1>5. ASSUME NEW ev \in {"OUT", "none"}, pollFds' = SetEvents(pollFds, cur, ev),
             PushDelPollFd(cur, clients), UNCHANGED conns, Cause(conns[c])
      PROVE  StaticInv'
  BY <1>1, <1>2, <1>5, EntriesAtHand, NextEntry, DropKeeps
<1>6. CASE IsWritable(files[Here]) /\ Client.response.left = 0
  <2>1. Written(conns[c], Client)
    BY <1>1, <1>2, <1>3, <1>6 DEF Exchange, Writing
  <2>2. Cause(conns[c])
    BY <1>1, <2>1 DEF Written, Cause
  <2>3. ~WriteSome(Client) /\ ~Fails(files[Here])
    BY <1>6 DEF WriteSome, Fails
  <2> QED
    BY <1>5, <2>2, <2>3
<1>7. CASE Fails(files[Here])
  <2>1. Cause(conns[c])
    BY <1>3, <1>7 DEF Fails, Cause
  <2>2. ~IsWritable(files[Here])
    BY <1>7 DEF Fails
  <2> QED
    BY <1>5, <2>1, <2>2
<1> QED
  BY <1>4, <1>6, <1>7

(* What was read of connection cn, number c: part of a request, or the end of
   the one that is not answered yet. *)
HasRead(c, cn, http) ==
  \/ http.kind = "unfinished"
  \/ http.kind \in {"static", "bad"} /\ Pending(c, cn, http)

LEMMA ParseStatic ==
  ASSUME SocketInv, StaticInv, Turn, EndTurn, cur > NumPorts, UNCHANGED <<up, delIndex>>,
         NEW http \in HttpType, NEW cn,
         ExecParseRequest(Touch(clients, Here), SetEvents(pollFds, cur, "IN"), jobs, cur, http),
         conns' = [conns EXCEPT ![files[Here].id] = cn],
         cn.st = "open", cn.fin = conns[files[Here].id].fin, cn.rst = conns[files[Here].id].rst,
         Asks(files[Here].id, cn), HasRead(files[Here].id, cn, http)
  PROVE  StaticInv'
<1> DEFINE pf == SetEvents(pollFds, cur, "IN")
           cl == Touch(clients, Here)
           b == [Client EXCEPT !.last = now]
<1>1. /\ cur \in 1..Len(pollFds) /\ cur \in NumPorts + 1 .. Len(pollFds)
      /\ Client \in BufferType /\ ~Client.isClosed /\ ~(Client.cgiFd > 0)
  BY AtHand, ConnAtHand DEF Exchange
<1>2. SameEntries(pollFds, pf) /\ pf[cur].fd = Here
  <2>1. SameEntries(pollFds, pf)
    BY EntriesAtHand
  <2> HIDE DEF pf
  <2> QED
    BY <1>1, <2>1 DEF SameEntries, Here
<1>3. \A ev \in {"IN", "OUT"} : SameEntries(pollFds, SetEvents(pf, cur, ev))
  <2> HIDE DEF pf
  <2> QED
    BY <1>1, <1>2, SetEventsSame, TypesOfState
<1>4. cl[Here] = Client
  BY DEF Touch, Put, Client
<1>5. ASSUME NEW d, clients' = Put(cl, Here, d)
      PROVE  \A fd : Buffer(clients', fd) = IF fd = Here THEN d ELSE Buffer(clients, fd)
  BY <1>5, BufferOf
<1>6. /\ b \in BufferType /\ ~b.isClosed /\ ~(b.cgiFd > 0)
  BY <1>1, TypesOfState DEF BufferType
<1> HIDE DEF pf, cl
<1>7. /\ UNCHANGED <<files, jobs, addPollFds>>
      /\ \/ /\ clients' = Put(cl, Here, [b EXCEPT !.state = "READ_REQUEST"])
            /\ pollFds' = SetEvents(pf, cur, "IN")
         \/ /\ http.kind = "bad"
            /\ clients' = Put(cl, Here, [b EXCEPT !.state = "WRITE_REQUEST_ERROR", !.http = http,
                                                  !.response = Answer(http, "error")])
            /\ pollFds' = SetEvents(pf, cur, "OUT")
         \/ /\ http.kind = "static"
            /\ clients' = Put(cl, Here, [b EXCEPT !.state = "EXEC_CORE_HANDLER", !.http = http])
            /\ pollFds' = SetEvents(pf, cur, "OUT")
  BY <1>2, <1>4 DEF ExecParseRequest, HasRead, cl, pf
<1> HIDE DEF b
<1>8. CASE /\ clients' = Put(cl, Here, [b EXCEPT !.state = "READ_REQUEST"])
           /\ pollFds' = SetEvents(pf, cur, "IN")
  <2> DEFINE d == [b EXCEPT !.state = "READ_REQUEST"]
  <2>1. d.state = "READ_REQUEST" /\ d.cgiFd = b.cgiFd /\ d.isClosed = b.isClosed
    BY <1>6 DEF BufferType
  <2>2. \A fd : Buffer(clients', fd) = IF fd = Here THEN d ELSE Buffer(clients, fd)
    BY <1>5, <1>8
  <2> HIDE DEF d
  <2>3. Exchange(files[Here].id, cn, d)
    BY <1>6, <2>1 DEF Exchange
  <2> QED
    BY ZenonT(60), <1>3, <1>6, <1>7, <1>8, <2>1, <2>2, <2>3, TurnKeeps
<1>9. CASE /\ http.kind = "bad"
           /\ clients' = Put(cl, Here, [b EXCEPT !.state = "WRITE_REQUEST_ERROR", !.http = http,
                                                 !.response = Answer(http, "error")])
           /\ pollFds' = SetEvents(pf, cur, "OUT")
  <2> DEFINE d == [b EXCEPT !.state = "WRITE_REQUEST_ERROR", !.http = http,
                            !.response = Answer(http, "error")]
  <2>1. /\ d.state = "WRITE_REQUEST_ERROR" /\ d.cgiFd = b.cgiFd /\ d.isClosed = b.isClosed
        /\ d.http = http /\ d.response = Answer(http, "error")
    BY <1>6 DEF BufferType
  <2>2. \A fd : Buffer(clients', fd) = IF fd = Here THEN d ELSE Buffer(clients, fd)
    BY <1>5, <1>9
  <2> HIDE DEF d
  <2>3. Writing(files[Here].id, cn, d)
    BY <1>9, <2>1, BoundsAssumption DEF Writing, HasRead, Answer
  <2>4. Exchange(files[Here].id, cn, d)
    BY <1>6, <2>1, <2>3 DEF Exchange
  <2> QED
    BY ZenonT(60), <1>3, <1>6, <1>7, <1>9, <2>1, <2>2, <2>4, TurnKeeps
<1>10. CASE /\ http.kind = "static"
            /\ clients' = Put(cl, Here, [b EXCEPT !.state = "EXEC_CORE_HANDLER", !.http = http])
            /\ pollFds' = SetEvents(pf, cur, "OUT")
  <2> DEFINE d == [b EXCEPT !.state = "EXEC_CORE_HANDLER", !.http = http]
  <2>1. /\ d.state = "EXEC_CORE_HANDLER" /\ d.cgiFd = b.cgiFd /\ d.isClosed = b.isClosed
        /\ d.http = http
    BY <1>6 DEF BufferType
  <2>2. \A fd : Buffer(clients', fd) = IF fd = Here THEN d ELSE Buffer(clients, fd)
    BY <1>5, <1>10
  <2> HIDE DEF d
  <2>3. Exchange(files[Here].id, cn, d)
    BY <1>6, <1>10, <2>1 DEF Exchange, HasRead
  <2> QED
    BY ZenonT(60), <1>3, <1>6, <1>7, <1>10, <2>1, <2>2, <2>3, TurnKeeps
<1> QED
  BY <1>7, <1>8, <1>9, <1>10

(* What is left of connection c, and what was read, when the first k segments
   are taken. *)
LEMMA ReadStatic ==
  ASSUME SocketInv, NEW c \in Conn, Asks(c, conns[c]), NEW k \in 1..Len(conns[c].unread),
         NEW cn, cn = [conns[c] EXCEPT !.unread = SubSeq(@, k + 1, Len(@))]
  PROVE  /\ Asks(c, cn)
         /\ HasRead(c, cn, IF conns[c].unread[k] = 0 THEN Unfinished ELSE Http(c, conns[c].unread[k]))
         /\ cn.st = conns[c].st /\ cn.fin = conns[c].fin /\ cn.rst = conns[c].rst
<1> DEFINE u == conns[c].unread
           v == SubSeq(u, k + 1, Len(u))
           n == u[k]
<1>1. conns[c] \in ConnType
  BY TypesOfState DEF ConnsOK
<1>2. /\ u \in Seq(0..MaxRequests) /\ Len(u) \in Nat /\ k \in 1..Len(u) /\ DOMAIN u = 1..Len(u)
      /\ conns[c].asked \in Seq(Request) /\ DOMAIN conns[c].asked = 1..Len(conns[c].asked)
      /\ Len(conns[c].asked) \in Nat
  BY <1>1, LenProperties DEF ConnType
<1> HIDE DEF u
<1>3. /\ v \in Seq(0..MaxRequests) /\ Len(v) = Len(u) - k /\ DOMAIN v = 1..Len(u) - k
      /\ \A i \in 1..Len(u) - k : v[i] = u[k + i]
  <2>0. \A x \in k + 1 .. Len(u) : x \in 1..Len(u)
    BY <1>2
  <2>1. \A x \in k + 1 .. Len(u) : u[x] \in 0..MaxRequests
    BY <1>2, <2>0, ElementOfSeq
  <2>2. v \in Seq(0..MaxRequests) /\ Len(v) = Len(u) - k /\ \A i \in 1..Len(u) - k : v[i] = u[k + i]
    BY SMTT(60), <1>2, <2>1, SubSeqProperties
  <2> HIDE DEF v
  <2> QED
    BY <2>2, LenProperties
<1>4. cn = [conns[c] EXCEPT !.unread = v]
  BY DEF u
<1> HIDE DEF v
<1>5. /\ cn.st = conns[c].st /\ cn.fin = conns[c].fin /\ cn.rst = conns[c].rst
      /\ cn.asked = conns[c].asked /\ cn.got = conns[c].got /\ cn.unread = v
  BY <1>1, <1>4 DEF ConnType
<1>6. Asks(c, cn)
  <2>1. ASSUME NEW i \in 1..Len(u) - k, v[i] # 0
        PROVE  /\ i = Len(v) /\ v[i] = Len(cn.asked) /\ Len(cn.asked) = Len(cn.got) + 1
    <3> DEFINE j == k + i
    <3>1. j \in DOMAIN u /\ v[i] = u[j]
      BY <1>2, <1>3
    <3>2. u[j] # 0 => j = Len(u) /\ u[j] = Len(conns[c].asked)
                       /\ Len(conns[c].asked) = Len(conns[c].got) + 1
      <4> HIDE DEF j
      <4> QED
        BY <3>1 DEF Asks, u
    <3> QED
      BY <1>2, <1>3, <1>5, <2>1, <3>1, <3>2
  <2> QED
    BY <1>3, <1>5, <2>1 DEF Asks
<1>7. CASE n = 0
  BY <1>5, <1>6, <1>7 DEF HasRead, Unfinished, NoHttp, u
<1>8. CASE n # 0
  <2>1. k = Len(u) /\ n = Len(conns[c].asked) /\ Len(conns[c].asked) = Len(conns[c].got) + 1
    BY <1>2, <1>8 DEF Asks, u
  <2>2. v = <<>>
    BY <1>2, <1>3, <2>1, EmptySeq
  <2>3. n \in DOMAIN conns[c].asked
    <3>1. Len(conns[c].asked) # 0
      BY <1>8, <2>1
    <3>2. Len(conns[c].asked) \in 1..Len(conns[c].asked)
      BY <1>2, <3>1
    <3> QED
      BY <1>2, <2>1, <3>2
  <2>4. conns[c].asked[n].kind \in {"static", "bad"}
    BY <2>3 DEF Asks
  <2>5. /\ Http(c, n).conn = c /\ Http(c, n).n = n /\ Http(c, n).kind = conns[c].asked[n].kind
        /\ Http(c, n).close = conns[c].asked[n].close
    BY DEF Http
  <2> HIDE DEF n
  <2>6. HasRead(c, cn, Http(c, n))
    BY <1>5, <2>1, <2>2, <2>4, <2>5 DEF HasRead, Pending
  <2> QED
    BY <1>5, <1>6, <1>8, <2>6 DEF n, u
<1> QED
  BY <1>7, <1>8

LEMMA ExecReadRequestStatic ==
  ASSUME SocketInv, StaticInv, ExecReadRequest
  PROVE  StaticInv'
<1> DEFINE c == files[Here].id
           cl == Touch(clients, Here)
           pf == SetEvents(pollFds, cur, "IN")
<1>1. /\ Turn /\ EndTurn /\ cur > NumPorts /\ UNCHANGED <<up, delIndex>>
      /\ "IN" \in pollFds[cur].revents /\ Client \in BufferType
  BY AtHand DEF ExecReadRequest, InTurn
<1>2. /\ c \in Conn /\ files[Here].kind = "conn" /\ conns[c].st = "open"
      /\ Asks(c, conns[c]) /\ conns = [conns EXCEPT ![c] = conns[c]]
      /\ Exchange(c, conns[c], Client) /\ ~Client.isClosed
      /\ Gone(conns[c]) \/ conns[c].unread # <<>>
  <2>1. Reason("handle", cur, cur, pollFds[cur], conns[c], Client) /\ cur \in Nat
    BY <1>1, ConnAtHand, PortsFacts DEF Slots
  <2>2. Gone(conns[c]) \/ conns[c].unread # <<>>
    BY <1>1, <2>1 DEF Reason
  <2> QED
    BY <1>1, <2>2, ConnAtHand, ConnOf, TypesOfState DEF ConnsOK, IsConn
<1>3. CASE /\ ~conns[c].rst
           /\ \E k \in 1..Len(conns[c].unread) :
                /\ conns' = [conns EXCEPT ![c].unread = SubSeq(@, k + 1, Len(@))]
                /\ ExecParseRequest(cl, pf, jobs, cur,
                                    IF conns[c].unread[k] = 0 THEN Unfinished
                                    ELSE Http(c, conns[c].unread[k]))
  <2> HIDE DEF c
  <2>1. PICK k \in 1..Len(conns[c].unread) :
          /\ conns' = [conns EXCEPT ![c].unread = SubSeq(@, k + 1, Len(@))]
          /\ ExecParseRequest(cl, pf, jobs, cur,
                              IF conns[c].unread[k] = 0 THEN Unfinished
                              ELSE Http(c, conns[c].unread[k]))
    BY <1>3
  <2> DEFINE cn == [conns[c] EXCEPT !.unread = SubSeq(@, k + 1, Len(@))]
             http == IF conns[c].unread[k] = 0 THEN Unfinished ELSE Http(c, conns[c].unread[k])
  <2>2. http \in HttpType
    BY <1>2, ReadHttpType, TypesOfState
  <2>3. conns' = [conns EXCEPT ![c] = cn]
    BY <2>1
  <2>4. ExecParseRequest(cl, pf, jobs, cur, http)
    BY <2>1
  <2>5. /\ Asks(c, cn) /\ HasRead(c, cn, http)
        /\ cn.st = conns[c].st /\ cn.fin = conns[c].fin /\ cn.rst = conns[c].rst
    BY SMTT(60), <1>2, ReadStatic
  <2> HIDE DEF cn, http
  <2> QED
    BY <1>1, <1>2, <2>2, <2>3, <2>4, <2>5, ParseStatic DEF c
<1>4. CASE ExecParseRequest(cl, pf, jobs, cur, Unfinished) /\ UNCHANGED conns
  <2>1. HasRead(c, conns[c], Unfinished)
    BY DEF HasRead, Unfinished, NoHttp
  <2> QED
    BY <1>1, <1>2, <1>4, <2>1, BaseTypes, ParseStatic
<1>5. CASE /\ conns[c].rst
           /\ clients' = Put(clients, Here, [Client EXCEPT !.state = "WRITE_REQUEST_ERROR"])
           /\ UNCHANGED <<files, conns, jobs, pollFds, addPollFds>>
  <2> DEFINE d == [Client EXCEPT !.state = "WRITE_REQUEST_ERROR"]
  <2>1. /\ d.state = "WRITE_REQUEST_ERROR" /\ d.cgiFd = Client.cgiFd
        /\ d.isClosed = Client.isClosed
    BY <1>1 DEF BufferType
  <2>2. \A fd : Buffer(clients', fd) = IF fd = Here THEN d ELSE Buffer(clients, fd)
    BY <1>5, BufferOf
  <2> HIDE DEF d
  <2>3. Exchange(c, conns[c], d)
    BY <1>2, <1>5, <2>1 DEF Exchange
  <2> QED
    BY <1>1, <1>2, <1>5, <2>1, <2>2, <2>3, EntriesAtHand, TurnKeeps
<1> QED
  BY <1>2, <1>3, <1>4, <1>5 DEF ExecReadRequest, Gone

(* A turn that does nothing. *)
LEMMA TurnOn ==
  ASSUME SocketInv, StaticInv, Turn, EndTurn,
         UNCHANGED <<files, conns, jobs, pollFds, addPollFds, delIndex>>,
         \A fd : Buffer(clients', fd) = Buffer(clients, fd)
  PROVE  StaticInv'
<1>1. /\ cur \in Nat /\ cur' \in Nat /\ cur < cur' /\ pc = "handle" /\ pc' = "handle" /\ now' = now
  BY NextEntry
<1>2. \A i \in Marked : i < cur'
  <2>1. \A i \in Marked : i < cur /\ i \in Nat
    BY <1>1 DEF StaticInv, OneEntry, Marked, Range, SocketInv, TypeOK
  <2> QED
    BY <1>1, <2>1
<1>3. ASSUME NEW i \in Slots, IsConn(pollFds[i].fd)
      PROVE  Reason(pc', cur', i, pollFds[i], conns[files[pollFds[i].fd].id],
                    Buffer(clients, pollFds[i].fd))
  <2>1. i \in Nat
    BY PortsFacts DEF Slots
  <2>2. (cur' <= i => cur <= i) /\ (i < cur => i < cur')
    BY <1>1, <2>1
  <2>3. Reason("handle", cur, i, pollFds[i], conns[files[pollFds[i].fd].id],
               Buffer(clients, pollFds[i].fd))
    BY <1>1, <1>3 DEF StaticInv, Reasons
  <2> QED
    BY <1>1, <2>2, <2>3 DEF Reason
<1> QED
  BY <1>1, <1>2, <1>3, MoveOn DEF Marked

LEMMA NoHandlerStatic ==
  ASSUME SocketInv, StaticInv, NoHandler
  PROVE  StaticInv'
BY BufferOf, TurnOn DEF NoHandler

(* No buffer is in a state of a script's. *)
LEMMA NoCgiHandler ==
  ASSUME SocketInv, StaticInv,
         \/ ExecCgiRefused \/ ExecCgi \/ ExecWriteCGIBody
         \/ ExecWaitCgiChild \/ ExecReadCgi \/ ExecWriteCgi
  PROVE  FALSE
<1>1. /\ Turn /\ cur > NumPorts
      /\ Client.state \in {"EXEC_CGI", "WRITE_CGI_BODY", "WAIT_CGI_CHILD", "READ_CGI", "WRITE_CGI"}
  BY AtHand DEF ExecCgiRefused, ExecCgi, ExecWriteCGIBody, ExecWaitCgiChild, ExecReadCgi,
     ExecWriteCgi, OutTurn, InTurn
<1> QED
  BY <1>1, ConnAtHand DEF Exchange

-----------------------------------------------------------------------------
(* deleteClient *)

LEMMA EndHandleStatic ==
  ASSUME SocketInv, StaticInv, EndHandle
  PROVE  StaticInv'
<1>1. /\ UNCHANGED <<files, conns, jobs, addPollFds, pollFds, now, clients, delIndex>>
      /\ pc = "handle" /\ pc' = "scan" /\ cur' = 1
  BY DEF EndHandle, kernel, vectors
<1>2. ASSUME NEW i \in Slots, IsConn(pollFds[i].fd)
      PROVE  Reason("scan", 1, i, pollFds[i], conns[files[pollFds[i].fd].id],
                    Buffer(clients, pollFds[i].fd))
  <2>1. 1 <= i
    BY PortsFacts DEF Slots
  <2> QED
    BY <1>1, <1>2, <2>1 DEF StaticInv, Reasons, Reason
<1> QED
  BY <1>1, <1>2, MoveOn DEF Marked

(* The scan goes on to the next entry with nothing to delete at this one. *)
LEMMA ScanOn ==
  ASSUME SocketInv, StaticInv, InScan("scan"), pc' = "scan", cur' = cur + 1,
         UNCHANGED <<files, conns, jobs, addPollFds, pollFds, now>>, Marked' = Marked,
         \A fd : Buffer(clients', fd) = Buffer(clients, fd),
         IsConn(Here) => ~Client.isClosed
  PROVE  StaticInv'
<1>1. pc = "scan" /\ cur \in Nat
  BY AtScan DEF InScan
<1>2. ASSUME NEW i \in Slots, IsConn(pollFds[i].fd)
      PROVE  Reason("scan", cur + 1, i, pollFds[i], conns[files[pollFds[i].fd].id],
                    Buffer(clients, pollFds[i].fd))
  <2>1. Reason("scan", cur, i, pollFds[i], conns[files[pollFds[i].fd].id],
               Buffer(clients, pollFds[i].fd))
    BY <1>1, <1>2 DEF StaticInv, Reasons
  <2>2. i \in Nat
    BY PortsFacts DEF Slots
  <2>3. i = cur => ~Buffer(clients, pollFds[i].fd).isClosed
    BY <1>2 DEF Here, Client
  <2>4. i # cur /\ cur <= i => cur + 1 <= i
    BY <1>1, <2>2
  <2> QED
    BY <2>1, <2>3, <2>4 DEF Reason
<1> QED
  BY <1>2, MoveOn

LEMMA ScanKeepStatic ==
  ASSUME SocketInv, StaticInv, ScanKeep
  PROVE  StaticInv'
<1>1. /\ InScan("scan") /\ pc' = "scan" /\ cur' = cur + 1 /\ ~Client.isClosed
      /\ UNCHANGED <<files, conns, jobs, addPollFds, pollFds, now, delIndex>>
  BY DEF ScanKeep, InScan, kernel, vectors, MustGo
<1>2. \A fd : Buffer(clients', fd) = Buffer(clients, fd)
  BY BufferOf DEF ScanKeep
<1> QED
  BY <1>1, <1>2, ScanOn DEF Marked

(* There is no script to kill. *)
LEMMA NoCgiSlots ==
  ASSUME SocketInv, StaticInv, InScan("scan")
  PROVE  CgiSlots(cur, Client) = {}
<1>1. ~(Client.cgiFd > 0)
  <2>1. cur \in 1..Len(pollFds)
    BY AtScan
  <2>2. Here \in Fds
    <3>1. pollFds[cur] \in EntryType
      BY <2>1, ElementOfSeq, TypesOfState
    <3> QED
      BY <3>1 DEF Here, EntryType
  <2>3. CASE IsConn(Here)
    BY <2>2, <2>3 DEF StaticInv, Exchanges, Exchange, Client
  <2>4. CASE ~IsConn(Here)
    BY <2>2, <2>4 DEF StaticInv, Exchanges, Client, Zeroed
  <2> QED
    BY <2>3, <2>4
<1> QED
  BY <1>1 DEF CgiSlots

LEMMA ScanDropStatic ==
  ASSUME SocketInv, StaticInv, ScanDrop
  PROVE  StaticInv'
<1>1. /\ InScan("scan") /\ MustGo(pollFds[cur], Client) /\ PushDelPollFd(cur, clients)
      /\ pc = "scan" /\ pc' = "scan" /\ cur' = cur + 1
      /\ UNCHANGED <<conns, jobs, now, pollFds, addPollFds>>
  BY DEF ScanDrop, InScan, StaticInv, NoScripts
<1>2. /\ cur \in Slots /\ cur \in Nat /\ cur' \in Nat /\ cur < cur'
      /\ Here \in Fds /\ Client \in BufferType
  <2>1. cur \in 1..Len(pollFds) /\ Len(pollFds) \in Nat /\ NumPorts \in Nat /\ ~(cur <= NumPorts)
        /\ Client \in BufferType
    BY <1>1, AtScan
  <2>2. cur \in Slots
    BY <2>1 DEF Slots
  <2> QED
    BY <1>1, <2>1, <2>2, SameSlots, SameItself, TypesOfState DEF Here
<1>3. CASE cur \in Marked
  <2>1. files[Here] = Free
    BY <1>2, <1>3 DEF StaticInv, OneEntry, Here
  <2>2. ~IsConn(Here) /\ Client = Zeroed
    BY <1>2, <2>1 DEF StaticInv, Exchanges, IsConn, Free, Obj, Client
  <2>3. files' = files
    BY <1>1, <1>2, <2>1, TypesOfState DEF PushDelPollFd, Close, Here
  <2>4. \A fd : Buffer(clients', fd) = Buffer(clients, fd)
    BY <1>1, <2>2, BufferOf DEF PushDelPollFd, Here, Client
  <2>5. Marked' = Marked
    <3>1. delIndex \in Seq(Nat) /\ delIndex' = Append(delIndex, cur)
      BY <1>1 DEF SocketInv, TypeOK, PushDelPollFd
    <3>2. /\ DOMAIN delIndex = 1..Len(delIndex) /\ Len(delIndex) \in Nat
          /\ DOMAIN delIndex' = 1..Len(delIndex) + 1
          /\ \A i \in 1..Len(delIndex) : delIndex'[i] = delIndex[i]
          /\ delIndex'[Len(delIndex) + 1] = cur
      BY <1>2, <3>1, AppendProperties, LenProperties
    <3>3. \A i \in 1..Len(delIndex) + 1 : i \in 1..Len(delIndex) \/ i = Len(delIndex) + 1
      BY <3>2
    <3>4. \A i \in 1..Len(delIndex) : i \in 1..Len(delIndex) + 1
      BY <3>2
    <3> QED
      BY <1>3, <3>1, <3>2, <3>3, <3>4 DEF Marked, Range
  <2> QED
    BY <1>1, <2>2, <2>3, <2>4, <2>5, ScanOn
<1>4. CASE cur \notin Marked
  <2> DEFINE cn == conns[files[Here].id]
  <2>1. IsConn(Here)
    BY <1>2, <1>4 DEF StaticInv, OneEntry, Here
  <2>2. Reason("scan", cur, cur, pollFds[cur], cn, Client)
    BY <1>1, <1>2, <2>1 DEF StaticInv, Reasons, Here, Client
  <2>3. ASSUME "HUP" \in pollFds[cur].revents
        PROVE  Cause(cn)
    BY <2>2, <2>3 DEF Reason, Gone, Cause
  <2>4. ASSUME Client.isClosed
        PROVE  Cause(cn)
    BY <2>2, <2>4 DEF Reason, MayClose, Cause
  <2>5. ASSUME isTimeout(Client.last)
        PROVE  Cause(cn)
    <3>1. Client.last \in Nat /\ now \in Nat /\ TIMEOUT \in Nat
      BY <1>2, TypesOfState, BoundsAssumption DEF BufferType
    <3>2. now > TIMEOUT + 1
      BY <2>5, <3>1 DEF isTimeout
    <3> QED
      BY <3>2 DEF Cause
  <2>6. Cause(cn)
    BY <1>1, <2>3, <2>4, <2>5 DEF MustGo
  <2> QED
    BY <1>1, <1>2, <1>4, <2>6, SameItself, TypesOfState, DropKeeps
<1> QED
  BY <1>3, <1>4

LEMMA SortIndexesStatic ==
  ASSUME SocketInv, StaticInv, SortIndexes
  PROVE  StaticInv'
<1>1. /\ UNCHANGED <<files, conns, jobs, addPollFds, pollFds, now, clients>>
      /\ pc = "scan" /\ cur > Len(pollFds) /\ pc' = "erase"
  BY DEF SortIndexes, kernel
<1>2. Marked' = Marked
  <2>1. delIndex' \in SortedUnique(Marked)
    BY DEF SortIndexes
  <2>2. Range(delIndex') = Marked
    BY <2>1 DEF SortedUnique, Range
  <2> QED
    BY <2>2 DEF Marked
<1>3. ASSUME NEW i \in Slots, IsConn(pollFds[i].fd)
      PROVE  Reason("erase", cur', i, pollFds[i], conns[files[pollFds[i].fd].id],
                    Buffer(clients, pollFds[i].fd))
  <2>1. Reason("scan", cur, i, pollFds[i], conns[files[pollFds[i].fd].id],
               Buffer(clients, pollFds[i].fd))
    BY <1>1, <1>3 DEF StaticInv, Reasons
  <2>2. ~(cur <= i)
    <3>1. cur \in Nat /\ Len(pollFds) \in Nat
      BY LenProperties DEF SocketInv, TypeOK
    <3> QED
      BY <1>1, <3>1, PortsFacts DEF Slots
  <2> QED
    BY <2>1, <2>2 DEF Reason
<1> QED
  BY <1>1, <1>2, <1>3, MoveOn

(* The erase loop finds the marked entry's connection closed already. *)
LEMMA EraseStatic ==
  ASSUME SocketInv, StaticInv, Erase
  PROVE  StaticInv'
<1> DEFINE k == Head(delIndex)
           Old(i) == IF i < k THEN i ELSE i + 1
<1>1. /\ delIndex \in Seq(Nat) /\ delIndex # <<>> /\ 1 \in DOMAIN delIndex /\ k = delIndex[1]
      /\ DOMAIN delIndex = 1..Len(delIndex) /\ Len(delIndex) \in Nat /\ Len(delIndex) >= 1
  <2>1. delIndex \in Seq(Nat) /\ delIndex # <<>>
    BY DEF SocketInv, TypeOK, Erase
  <2> QED
    BY <2>1, LenProperties
<1>2. /\ files' = Close(files, pollFds[k].fd) /\ pollFds' = RemoveAt(pollFds, k)
      /\ delIndex' = Tail(delIndex) /\ pc = "erase" /\ pc' = "erase"
      /\ UNCHANGED <<conns, jobs, now, cur, addPollFds, clients>>
  BY DEF Erase
<1>3. k \in Marked /\ k \in Slots
  BY <1>1 DEF Marked, Range, SocketInv, VectorsOK, Slots
<1>4. Marked' = Marked \ {k} /\ \A i \in Marked : i = k \/ i < k
  <2>1. \A i, j \in DOMAIN delIndex : i < j => delIndex[i] > delIndex[j]
    BY <1>2 DEF SocketInv, Proved!IInv, Proved!EraseInRange, Proved!IsDescending
  <2>2. \A i \in DOMAIN delIndex : delIndex[i] \in Nat /\ (i = 1 \/ delIndex[i] < k)
    <3>1. \A i \in DOMAIN delIndex : delIndex[i] \in Nat /\ (i = 1 \/ 1 < i)
      BY <1>1
    <3> HIDE DEF k
    <3> QED
      BY <1>1, <2>1, <3>1
  <2>3. \A i \in Marked : i = k \/ i < k
    BY <2>2 DEF Marked, Range
  <2>4. /\ DOMAIN delIndex' = 1..Len(delIndex) - 1
        /\ \A i \in 1..Len(delIndex) - 1 : delIndex'[i] = delIndex[i + 1]
    BY <1>1, <1>2, HeadTailProperties, LenProperties
  <2> HIDE DEF k
  <2>5. ASSUME NEW x \in Marked, x # k
        PROVE  x \in Marked'
    <3>1. PICK i \in 1..Len(delIndex) : delIndex[i] = x
      BY <1>1, <2>5 DEF Marked, Range
    <3>2. i # 1
      BY <1>1, <2>5, <3>1
    <3>3. i - 1 \in 1..Len(delIndex) - 1 /\ (i - 1) + 1 = i
      BY <1>1, <3>1, <3>2
    <3>4. delIndex'[i - 1] = x
      BY <2>4, <3>1, <3>3
    <3> QED
      BY <2>4, <3>3, <3>4 DEF Marked, Range
  <2>6. ASSUME NEW x \in Marked'
        PROVE  x \in Marked /\ x # k
    <3>1. PICK i \in 1..Len(delIndex) - 1 : delIndex'[i] = x
      BY <2>4 DEF Marked, Range
    <3>2. i + 1 \in DOMAIN delIndex /\ i + 1 # 1
      BY <1>1, <3>1
    <3>3. x = delIndex[i + 1] /\ x < k /\ x \in Nat
      BY <2>2, <2>4, <3>1, <3>2
    <3> QED
      BY <1>1, <3>2, <3>3 DEF Marked, Range
  <2> QED
    BY <2>3, <2>5, <2>6
<1> HIDE DEF k
<1>5. /\ pollFds \in Seq(EntryType) /\ Len(pollFds) \in Nat /\ NumPorts \in Nat
      /\ k \in Nat /\ NumPorts < k /\ k <= Len(pollFds) /\ k \in 1..Len(pollFds)
  BY <1>3, PortsFacts, LenProperties, TypesOfState DEF Slots
<1>6. /\ Len(pollFds') = Len(pollFds) - 1
      /\ \A i \in 1..Len(pollFds) - 1 :
           pollFds'[i] = IF i < k THEN pollFds[i] ELSE pollFds[i + 1]
  BY <1>2, <1>5, RemoveAtProperties
<1>7. Slots' = NumPorts + 1 .. Len(pollFds) - 1
  BY <1>6 DEF Slots, NumPorts
<1>8. \A i \in Slots' : i \in 1..Len(pollFds) - 1 /\ i \in Nat /\ Old(i) \in Slots /\ Old(i) # k
  <2>1. \A i \in NumPorts + 1 .. Len(pollFds) - 1 :
          /\ i \in 1..Len(pollFds) - 1 /\ i \in Nat /\ Old(i) # k
          /\ Old(i) \in NumPorts + 1 .. Len(pollFds)
    BY <1>5
  <2> QED
    BY <1>7, <2>1 DEF Slots
<1>9. \A i \in Slots' : pollFds'[i] = pollFds[Old(i)]
  BY <1>6, <1>8
<1>10. \A i, j \in Slots' : Old(i) = Old(j) => i = j
  BY <1>5, <1>8
<1>11. \A i \in Slots' : i \in Marked' <=> Old(i) \in Marked
  <2>1. \A i \in Marked : i \in Nat
    BY DEF Marked, Range, SocketInv, TypeOK
  <2> QED
    BY <1>4, <1>5, <1>8, <2>1
<1> HIDE DEF Old
<1>12. files' = files
  <2>1. files[pollFds[k].fd] = Free
    BY <1>3 DEF StaticInv, OneEntry
  <2> QED
    BY <1>2, <2>1, TypesOfState DEF Close
<1>13. NoScripts' /\ OneDescriptor'
  BY <1>2, <1>12 DEF StaticInv, NoScripts, OneDescriptor, IsConn
<1>14. OneEntry'
  <2>1. ASSUME NEW i \in Slots'
        PROVE  IF i \in Marked' THEN files[pollFds'[i].fd] = Free
                                ELSE files[pollFds'[i].fd].kind = "conn"
    BY <1>8, <1>9, <1>11 DEF StaticInv, OneEntry, IsConn
  <2>2. \A i, j \in Slots' : files[pollFds'[i].fd].kind = "conn" /\ pollFds'[i].fd = pollFds'[j].fd => i = j
    BY <1>8, <1>9, <1>10 DEF StaticInv, OneEntry, IsConn
  <2>3. \A i \in Slots', j \in DOMAIN addPollFds : pollFds'[i].fd # addPollFds[j].fd
    BY <1>8, <1>9 DEF StaticInv, OneEntry
  <2> QED
    BY <1>2, <1>12, <2>1, <2>2, <2>3 DEF StaticInv, OneEntry, IsConn
<1>15. Exchanges'
  BY <1>2, <1>12 DEF StaticInv, Exchanges, IsConn
<1>16. Reasons'
  <2>1. ASSUME NEW i \in Slots', files[pollFds'[i].fd].kind = "conn"
        PROVE  Reason("erase", cur, i, pollFds'[i], conns[files[pollFds'[i].fd].id],
                      Buffer(clients, pollFds'[i].fd))
    <3> DEFINE o == Old(i)
    <3>1. o \in Slots /\ pollFds'[i] = pollFds[o]
      BY <1>8, <1>9
    <3> HIDE DEF o
    <3>2. Reason("erase", cur, o, pollFds[o], conns[files[pollFds[o].fd].id],
                 Buffer(clients, pollFds[o].fd))
      BY <1>2, <2>1, <3>1 DEF StaticInv, Reasons, IsConn
    <3> QED
      BY <3>1, <3>2 DEF Reason
  <2> QED
    BY <1>2, <1>12, <2>1 DEF StaticInv, Reasons, IsConn
<1>17. ClosedForCause'
  BY <1>2, <1>12 DEF StaticInv, ClosedForCause, IsClosed
<1> QED
  BY <1>13, <1>14, <1>15, <1>16, <1>17 DEF StaticInv

LEMMA AddPendingStatic ==
  ASSUME SocketInv, StaticInv, AddPending
  PROVE  StaticInv'
<1> DEFINE l == Len(pollFds)
           m == Len(addPollFds)
           cleared == [i \in DOMAIN pollFds |-> [pollFds[i] EXCEPT !.revents = {}]]
<1>1. /\ pc = "erase" /\ pc' = "poll" /\ cur' = 1 /\ delIndex = <<>> /\ addPollFds' = <<>>
      /\ pollFds' = cleared \o addPollFds
      /\ UNCHANGED <<files, conns, jobs, now, delIndex, clients>>
  BY DEF AddPending, kernel
<1>2. /\ pollFds \in Seq(EntryType) /\ addPollFds \in Seq(EntryType)
      /\ l \in Nat /\ m \in Nat /\ NumPorts \in Nat /\ NumPorts <= l
      /\ DOMAIN pollFds = 1..l /\ DOMAIN addPollFds = 1..m
  <2>1. NumPorts <= l
    BY PortsFacts DEF SocketInv, VectorsOK, TypeOK
  <2> QED
    BY <2>1, PortsFacts, LenProperties, TypesOfState
<1>3. \A i \in 1..l : /\ [pollFds[i] EXCEPT !.revents = {}] \in EntryType
                      /\ [pollFds[i] EXCEPT !.revents = {}].fd = pollFds[i].fd
                      /\ [pollFds[i] EXCEPT !.revents = {}].revents = {}
  <2>1. \A i \in 1..l : pollFds[i] \in EntryType
    BY <1>2, ElementOfSeq
  <2> QED
    BY <2>1 DEF EntryType
<1>4. /\ cleared \in Seq(EntryType) /\ Len(cleared) = l
      /\ \A i \in 1..l : cleared[i].fd = pollFds[i].fd /\ cleared[i].revents = {}
  <2>1. cleared \in [1..l -> EntryType]
    BY <1>2, <1>3
  <2>2. cleared \in Seq(EntryType) /\ Len(cleared) = l
    BY <1>2, <2>1, LenProperties
  <2> QED
    BY <1>2, <1>3, <2>2
<1> HIDE DEF cleared, l, m
<1>5. /\ Len(pollFds') = l + m
      /\ \A i \in 1..l + m : pollFds'[i] = IF i <= l THEN cleared[i] ELSE addPollFds[i - l]
  <2>1. /\ Len(cleared \o addPollFds) = Len(cleared) + Len(addPollFds)
        /\ \A i \in 1..Len(cleared) + Len(addPollFds) :
             (cleared \o addPollFds)[i] =
               IF i <= Len(cleared) THEN cleared[i] ELSE addPollFds[i - Len(cleared)]
    BY <1>2, <1>4, ConcatProperties
  <2> QED
    BY <1>1, <1>4, <2>1 DEF m
<1>6. Marked = {} /\ Marked' = {} /\ Slots' = NumPorts + 1 .. l + m /\ Slots = NumPorts + 1 .. l
  BY <1>1, <1>5 DEF Marked, Range, Slots, NumPorts, l
<1>7. \A i \in Slots' : /\ i \in 1..l + m /\ i \in Nat
                        /\ i <= l => i \in Slots /\ i \in 1..l
                        /\ ~(i <= l) => i - l \in 1..m
  <2>1. \A i \in NumPorts + 1 .. l + m : /\ i \in 1..l + m /\ i \in Nat
                                         /\ i <= l => i \in NumPorts + 1 .. l /\ i \in 1..l
                                         /\ ~(i <= l) => i - l \in 1..m
    BY <1>2
  <2> QED
    BY <1>6, <2>1
<1>8. \A i \in Slots' :
        \/ i \in Slots /\ pollFds'[i].fd = pollFds[i].fd /\ pollFds'[i].revents = {} /\ i <= l
        \/ ~(i <= l) /\ i - l \in 1..m /\ pollFds'[i] = addPollFds[i - l]
  BY <1>4, <1>5, <1>7
<1>9. NoScripts' /\ OneDescriptor'
  BY <1>1 DEF StaticInv, NoScripts, OneDescriptor, IsConn
<1>10. ASSUME NEW i \in Slots'
       PROVE  /\ files[pollFds'[i].fd].kind = "conn" /\ pollFds'[i].revents = {}
              /\ ~Buffer(clients, pollFds'[i].fd).isClosed
  <2>1. CASE i \in Slots /\ pollFds'[i].fd = pollFds[i].fd /\ pollFds'[i].revents = {}
    <3>1. IsConn(pollFds[i].fd)
      BY <1>6, <2>1 DEF StaticInv, OneEntry
    <3>2. Reason("erase", cur, i, pollFds[i], conns[files[pollFds[i].fd].id],
                 Buffer(clients, pollFds[i].fd))
      BY <1>1, <2>1, <3>1 DEF StaticInv, Reasons
    <3> QED
      BY <2>1, <3>1, <3>2 DEF Reason, IsConn
  <2>2. CASE i - l \in 1..m /\ pollFds'[i] = addPollFds[i - l]
    <3> DEFINE j == i - l
    <3>1. j \in DOMAIN addPollFds /\ pollFds'[i] = addPollFds[j]
      BY <1>2, <2>2
    <3> HIDE DEF j
    <3> QED
      BY <3>1 DEF StaticInv, OneEntry, Reasons, IsConn
  <2> QED
    BY <1>8, <2>1, <2>2
<1>11. ASSUME NEW i \in Slots', NEW j \in Slots', pollFds'[i].fd = pollFds'[j].fd
       PROVE  i = j
  <2>1. CASE i <= l /\ j <= l
    <3>1. /\ i \in Slots /\ j \in Slots /\ IsConn(pollFds[i].fd)
          /\ pollFds'[i].fd = pollFds[i].fd /\ pollFds'[j].fd = pollFds[j].fd
      BY <1>8, <1>10, <2>1 DEF IsConn
    <3> QED
      BY <1>11, <3>1 DEF StaticInv, OneEntry
  <2>2. ASSUME NEW x \in Slots', NEW y \in Slots', x <= l, ~(y <= l)
        PROVE  pollFds'[x].fd # pollFds'[y].fd
    <3> DEFINE o == y - l
    <3>1. /\ x \in Slots /\ pollFds'[x].fd = pollFds[x].fd
          /\ o \in DOMAIN addPollFds /\ pollFds'[y] = addPollFds[o]
      BY <1>2, <1>8, <2>2
    <3> HIDE DEF o
    <3> QED
      BY <3>1 DEF StaticInv, OneEntry
  <2>3. CASE ~(i <= l) /\ ~(j <= l)
    <3> DEFINE o == i - l
               p == j - l
    <3>1. /\ o \in DOMAIN addPollFds /\ pollFds'[i] = addPollFds[o]
          /\ p \in DOMAIN addPollFds /\ pollFds'[j] = addPollFds[p]
      BY <1>2, <1>8, <2>3
    <3>2. o = p => i = j
      BY <1>2, <1>7
    <3> HIDE DEF o, p
    <3> QED
      BY <1>11, <3>1, <3>2 DEF StaticInv, OneEntry
  <2> QED
    BY <1>11, <2>1, <2>2, <2>3
<1>12. DOMAIN addPollFds' = {}
  BY <1>1
<1>13. OneEntry'
  BY <1>1, <1>6, <1>10, <1>11, <1>12 DEF OneEntry, IsConn
<1>14. Exchanges'
  BY <1>1 DEF StaticInv, Exchanges, IsConn
<1>15. Reasons'
  BY <1>1, <1>10, <1>12 DEF Reasons, Reason
<1>16. ClosedForCause'
  BY <1>1 DEF StaticInv, ClosedForCause, IsClosed
<1> QED
  BY <1>9, <1>13, <1>14, <1>15, <1>16 DEF StaticInv

-----------------------------------------------------------------------------
(* poll() and accept() *)

LEMMA PollStatic ==
  ASSUME SocketInv, StaticInv, Poll
  PROVE  StaticInv'
<1>1. /\ pollFds \in Seq(EntryType) /\ Len(pollFds) \in Nat /\ NumPorts \in Nat
      /\ NumPorts + numClients = Len(pollFds) /\ DOMAIN pollFds = 1..Len(pollFds)
  BY PortsFacts, LenProperties DEF SocketInv, VectorsOK, TypeOK
<1>2. /\ pollFds' = [i \in 1..Len(pollFds) |-> [pollFds[i] EXCEPT !.revents = Reports(pollFds[i])]]
      /\ pc = "poll" /\ pc' = "handle"
      /\ UNCHANGED <<files, conns, jobs, now, addPollFds, delIndex, clients>>
  BY <1>1 DEF Poll, kernel, vectors
<1>3. ASSUME NEW i \in 1..Len(pollFds)
      PROVE  /\ pollFds[i] \in EntryType
             /\ pollFds'[i].fd = pollFds[i].fd
             /\ pollFds'[i].revents = Reports(pollFds[i])
  <2>1. pollFds[i] \in EntryType
    BY <1>1, ElementOfSeq
  <2>2. pollFds'[i] = [pollFds[i] EXCEPT !.revents = Reports(pollFds[i])]
    BY <1>2
  <2> QED
    BY <2>1, <2>2 DEF EntryType
<1>4. Len(pollFds') = Len(pollFds) /\ Slots' = Slots
  <2>1. DOMAIN pollFds' = 1..Len(pollFds)
    BY <1>2
  <2>2. Len(pollFds') = Len(pollFds)
    BY <1>1, <2>1
  <2> QED
    BY <2>2 DEF Slots, NumPorts
<1>5. \A i \in Slots : i \in 1..Len(pollFds)
  BY <1>1 DEF Slots
<1>6. Marked = {} /\ Marked' = {}
  BY <1>2 DEF StaticInv, OneEntry, Marked, Range
<1>7. Exchanges'
  BY <1>2 DEF StaticInv, Exchanges, IsConn
<1>8. Reasons'
  <2>1. ASSUME NEW i \in Slots, IsConn(pollFds[i].fd)
        PROVE  Reason("handle", cur', i, pollFds'[i], conns[files[pollFds[i].fd].id],
                      Buffer(clients, pollFds[i].fd))
    <3> DEFINE cn == conns[files[pollFds[i].fd].id]
               e == pollFds[i]
    <3>1. /\ e.fd \in Fds /\ e.events \in {"IN", "OUT", "none"}
          /\ pollFds'[i].revents = Reports(e)
      BY <1>3, <1>5 DEF EntryType
    <3>2. ~Buffer(clients, e.fd).isClosed
      BY <1>2, <2>1 DEF StaticInv, Reasons, Reason
    <3>3. /\ "HUP" \in Reports(e) => Gone(cn)
          /\ "IN" \in Reports(e) => Gone(cn) \/ cn.unread # <<>>
      BY <2>1, <3>1 DEF Reports, IsConn, Gone
    <3> QED
      BY <3>1, <3>2, <3>3 DEF Reason
  <2> QED
    BY <1>2, <1>3, <1>4, <1>5, <2>1 DEF StaticInv, Reasons, IsConn
<1>9. now' \in Nat /\ now' >= now
  BY <1>2, TypesOfState
<1> QED
  BY <1>2, <1>3, <1>4, <1>5, <1>6, <1>7, <1>8, <1>9, Frame

LEMMA AcceptConnectionStatic ==
  ASSUME SocketInv, StaticInv, AcceptConnection
  PROVE  StaticInv'
<1>1. /\ Turn /\ EndTurn /\ cur <= NumPorts /\ "IN" \in pollFds[cur].revents
      /\ UNCHANGED <<jobs, pollFds, delIndex>>
  BY DEF AcceptConnection
<1>2. CASE UNCHANGED <<files, conns, addPollFds, clients>>
  BY <1>1, <1>2, TurnOn
<1>3. CASE HasFree(files)
  <2> DEFINE waiting == { d \in Conn : Waits(d, Here) }
             c == Min(waiting)
             fd == LowestFree(files)
             e == CreateClientEntry(fd, "READ_REQUEST")
             cn == [conns[c] EXCEPT !.st = "open"]
             nb == Buffer(clients', fd)
  <2>1. c \in Conn /\ Waits(c, Here)
    <3>1. cur \in cur..NumPorts /\ Here = Ports[cur]
      BY <1>1, AtHand, PortsFacts
    <3>2. \E d \in Conn : Waits(d, Here)
      BY <1>1, <3>1 DEF SocketInv, BacklogOK, Turn
    <3>3. waiting \in SUBSET Nat /\ waiting # {}
      BY <3>2, NumbersAssumption
    <3> HIDE DEF waiting
    <3>4. c \in waiting
      BY <3>3, MinIsMember
    <3> QED
      BY <3>4 DEF waiting
  <2>2. fd \in Fds /\ files[fd] = Free
    BY <1>3, LowestFreeIsFree
  <2>3. /\ files' = [files EXCEPT ![fd] = Obj("conn", c)]
        /\ conns' = [conns EXCEPT ![c].st = "open"]
        /\ addPollFds' = Append(addPollFds, e)
        /\ clients' = CreateClientBuffer(clients, fd, "READ_REQUEST")
    BY <1>3 DEF AcceptConnection, Open
  <2>4. e.fd = fd /\ e.revents = {} /\ e \in EntryType
    BY <2>2 DEF CreateClientEntry, Entry, EntryType
  <2> HIDE DEF waiting, c, fd, e
  <2>5. conns[c] \in ConnType /\ conns[c].st = "queued" /\ conns' = [conns EXCEPT ![c] = cn]
    BY <2>1, <2>3, TypesOfState DEF ConnsOK, Waits
  <2>6. /\ cn.st = "open" /\ cn.asked = conns[c].asked /\ cn.unread = conns[c].unread
        /\ cn.got = conns[c].got
    BY <2>5 DEF ConnType
  <2> HIDE DEF cn
  <2>7. conns'[c] = cn /\ \A d \in Conn : d # c => conns'[d] = conns[d]
    BY <2>1, <2>5, TypesOfState DEF ConnsOK
  <2>8. /\ files' \in [Fds -> Object] /\ files'[fd] = Obj("conn", c)
        /\ \A x \in Fds : x # fd => files'[x] = files[x]
    BY <2>1, <2>2, <2>3, TypesOfState DEF Obj, Object
  <2>9. ~IsConn(fd) /\ \A x \in Fds : IsConn(x)' <=> IsConn(x) \/ x = fd
    BY <2>2, <2>8 DEF IsConn, Obj, Free
  <2>10. \A x \in Fds : IsConn(x) => files[x].id \in Conn /\ files[x].id # c
    BY <2>5, ConnOf
  <2>11. /\ nb.state = "READ_REQUEST" /\ ~nb.isClosed /\ ~(nb.cgiFd > 0)
         /\ \A x : x # fd => Buffer(clients', x) = Buffer(clients, x)
    <3>1. Buffer(clients, fd) = Zeroed
      BY <2>2, <2>9 DEF StaticInv, Exchanges
    <3>2. nb = Zeroed \/ nb = NewBuffer(fd, "READ_REQUEST")
      BY <2>3, <3>1 DEF CreateClientBuffer, Insert, Buffer, Put
    <3>3. \A x : x # fd => Buffer(clients', x) = Buffer(clients, x)
      BY <2>3 DEF CreateClientBuffer, Insert, Buffer, Put
    <3> HIDE DEF nb
    <3>4. CASE nb = Zeroed
      BY <3>3, <3>4 DEF Zeroed
    <3>5. CASE nb = NewBuffer(fd, "READ_REQUEST")
      <4>1. /\ NewBuffer(fd, "READ_REQUEST").state = "READ_REQUEST"
            /\ ~NewBuffer(fd, "READ_REQUEST").isClosed
            /\ NewBuffer(fd, "READ_REQUEST").cgiFd = -1
        BY ZeroedGood DEF NewBuffer, BufferType, Zeroed
      <4>2. ~(-1 > 0)
        OBVIOUS
      <4> QED
        BY <3>3, <3>5, <4>1, <4>2
    <3> QED
      BY <3>2, <3>4, <3>5
  <2> HIDE DEF nb
  <2>12. /\ pc = "handle" /\ pc' = "handle" /\ now' = now /\ cur \in Nat /\ cur' \in Nat /\ cur < cur'
    BY <1>1, NextEntry
  <2>13. Marked = {} /\ Marked' = Marked
    <3>1. \A i \in Marked : i \in NumPorts + 1 .. Len(pollFds) /\ i < cur
      BY <2>12 DEF SocketInv, VectorsOK, Marked, Range, StaticInv, OneEntry
    <3>2. \A i \in NumPorts + 1 .. Len(pollFds) : ~(i < cur)
      BY <1>1, <2>12, PortsFacts
    <3> QED
      BY <1>1, <3>1, <3>2 DEF Marked
  <2>14. \A i \in Slots : /\ pollFds[i].fd \in Fds /\ pollFds[i].fd # fd
                          /\ IsConn(pollFds[i].fd) /\ i \in Nat
    <3>1. \A i \in Slots : pollFds[i].fd \in Fds
      <4>1. Slots \subseteq DOMAIN pollFds
        BY PortsFacts, LenProperties, TypesOfState DEF Slots
      <4> QED
        BY <4>1, PortsFacts DEF SocketInv, ListenersOK, Slots
    <3>2. \A i \in Slots : IsConn(pollFds[i].fd)
      BY <2>13 DEF StaticInv, OneEntry
    <3>3. \A i \in Slots : i \in Nat
      BY PortsFacts DEF Slots
    <3> QED
      BY <2>9, <3>1, <3>2, <3>3
  <2>15. \A i \in DOMAIN addPollFds :
           addPollFds[i].fd \in Fds /\ addPollFds[i].fd # fd /\ IsConn(addPollFds[i].fd)
    <3>1. \A i \in DOMAIN addPollFds : addPollFds[i].fd \in Handled
      BY DEF SocketInv, ListenersOK
    <3>2. \A i \in DOMAIN addPollFds : IsConn(addPollFds[i].fd)
      BY DEF StaticInv, OneEntry
    <3> QED
      BY <2>9, <3>1, <3>2, PortsFacts
  <2>16. /\ DOMAIN addPollFds \subseteq DOMAIN addPollFds'
         /\ \A i \in DOMAIN addPollFds' :
              \/ i \in DOMAIN addPollFds /\ addPollFds'[i] = addPollFds[i]
              \/ i = Len(addPollFds) + 1 /\ addPollFds'[i] = e
         /\ Len(addPollFds) + 1 \notin DOMAIN addPollFds
    <3>1. addPollFds \in Seq(EntryType) /\ Len(addPollFds) \in Nat
          /\ DOMAIN addPollFds = 1..Len(addPollFds)
      BY TypesOfState, LenProperties
    <3>2. /\ DOMAIN addPollFds' = 1..Len(addPollFds) + 1
          /\ \A i \in 1..Len(addPollFds) : addPollFds'[i] = addPollFds[i]
          /\ addPollFds'[Len(addPollFds) + 1] = e
      BY <2>3, <2>4, <3>1, AppendProperties, LenProperties
    <3> QED
      BY <3>1, <3>2
  <2>17. NoScripts'
    BY <1>1, <2>8, <2>12 DEF StaticInv, NoScripts, Obj
  <2>18. OneDescriptor'
    <3>1. \A x \in Fds : IsConn(x)' => conns'[files'[x].id].st = "open"
      BY <2>6, <2>7, <2>8, <2>9, <2>10 DEF StaticInv, OneDescriptor, Obj
    <3>2. \A x \in Fds : IsConn(x) => files'[x] = files[x] /\ files'[x] # files'[fd]
      BY <2>8, <2>9, <2>10 DEF Obj
    <3>3. \A x, y \in Fds : IsConn(x)' /\ files'[x] = files'[y] => x = y
      BY <2>8, <2>9, <3>2 DEF StaticInv, OneDescriptor, IsConn
    <3> QED
      BY <3>1, <3>3 DEF OneDescriptor
  <2>19. Slots' = Slots
    BY <1>1 DEF Slots, NumPorts
  <2>20. OneEntry'
    <3>1. \A i \in Slots : files'[pollFds[i].fd].kind = "conn"
      BY <2>8, <2>14 DEF IsConn
    <3>2. \A i \in DOMAIN addPollFds' : files'[addPollFds'[i].fd].kind = "conn"
      BY <2>4, <2>8, <2>15, <2>16 DEF IsConn, Obj
    <3>3. \A i, j \in DOMAIN addPollFds' : addPollFds'[i].fd = addPollFds'[j].fd => i = j
      BY <2>4, <2>15, <2>16 DEF StaticInv, OneEntry
    <3>4. \A i \in Slots, j \in DOMAIN addPollFds' : pollFds[i].fd # addPollFds'[j].fd
      BY <2>4, <2>14, <2>16 DEF StaticInv, OneEntry
    <3>5. \A i, j \in Slots : pollFds[i].fd = pollFds[j].fd => i = j
      BY <2>14 DEF StaticInv, OneEntry
    <3> QED
      BY <1>1, <2>12, <2>13, <2>19, <3>1, <3>2, <3>3, <3>4, <3>5 DEF OneEntry, IsConn
  <2>21. Exchanges'
    <3>1. ASSUME NEW d \in Conn
          PROVE  Asks(d, conns'[d])
      <4>1. Asks(d, conns[d])
        BY DEF StaticInv, Exchanges
      <4>2. CASE d = c
        <5>1. /\ conns'[d].asked = conns[d].asked /\ conns'[d].unread = conns[d].unread
              /\ conns'[d].got = conns[d].got
          BY <2>6, <2>7, <4>2
        <5> QED BY <4>1, <5>1 DEF Asks
      <4> QED
        BY <2>7, <4>1, <4>2
    <3>2. ASSUME NEW x \in Fds
          PROVE  IF IsConn(x)' THEN Exchange(files'[x].id, conns'[files'[x].id], Buffer(clients', x))
                               ELSE Buffer(clients', x) = Zeroed
      <4>1. CASE x = fd
        BY <2>9, <2>11, <4>1 DEF Exchange, nb
      <4>2. CASE x # fd
        BY <2>7, <2>8, <2>9, <2>10, <2>11, <4>2 DEF StaticInv, Exchanges
      <4> QED
        BY <4>1, <4>2
    <3> QED
      BY <3>1, <3>2 DEF Exchanges
  <2>22. Reasons'
    <3>1. ASSUME NEW i \in Slots
          PROVE  Reason("handle", cur', i, pollFds[i], conns'[files'[pollFds[i].fd].id],
                        Buffer(clients', pollFds[i].fd))
      <4>1. (cur' <= i => cur <= i) /\ (i < cur => i < cur')
        BY <2>12, <2>14
      <4>2. Reason("handle", cur, i, pollFds[i], conns[files[pollFds[i].fd].id],
                   Buffer(clients, pollFds[i].fd))
        BY <2>12, <2>14 DEF StaticInv, Reasons
      <4>3. /\ conns'[files'[pollFds[i].fd].id] = conns[files[pollFds[i].fd].id]
            /\ Buffer(clients', pollFds[i].fd) = Buffer(clients, pollFds[i].fd)
        BY <2>7, <2>8, <2>10, <2>11, <2>14
      <4> QED
        BY <4>1, <4>2, <4>3 DEF Reason
    <3>2. \A i \in DOMAIN addPollFds' :
            ~Buffer(clients', addPollFds'[i].fd).isClosed /\ addPollFds'[i].revents = {}
      BY <2>4, <2>11, <2>15, <2>16 DEF StaticInv, Reasons, nb
    <3> QED
      BY <1>1, <2>12, <2>19, <3>1, <3>2 DEF Reasons
  <2>23. ClosedForCause'
    <3>1. ASSUME NEW d \in Conn, IsClosed(d)'
          PROVE  IsClosed(d) /\ conns'[d] = conns[d]
      <4>1. d # c
        BY <2>2, <2>8, <3>1 DEF IsClosed, IsOpen
      <4>2. \A x \in Fds : files[x] # Obj("conn", d)
        <5>1. files[fd] # Obj("conn", d)
          BY <2>2 DEF Free, Obj
        <5> QED
          BY <2>8, <3>1, <5>1 DEF IsClosed, IsOpen
      <4> QED
        BY <2>7, <3>1, <4>1, <4>2 DEF IsClosed, IsOpen
    <3>2. now' \in Nat /\ now' >= now
      BY <2>12, TypesOfState
    <3> QED
      BY <3>1, <3>2, ClosedLater
  <2> QED
    BY <2>17, <2>18, <2>20, <2>21, <2>22, <2>23 DEF StaticInv
<1> QED
  BY <1>2, <1>3 DEF AcceptConnection

-----------------------------------------------------------------------------
(* Every step *)

LEMMA InitStatic == Init => StaticInv
<1> SUFFICES ASSUME Init
             PROVE  StaticInv
  OBVIOUS
<1>1. /\ \A fd \in Fds : files[fd].kind \in {"free", "std", "lsn"}
      /\ \A c \in Conn : conns[c] = NewConn
  BY DEF Init, Obj, Free
<1>2. NumPorts \in Nat /\ DOMAIN pollFds = 1..NumPorts /\ Len(pollFds) = NumPorts
  <2>1. NumPorts \in Nat /\ pollFds = [i \in 1..NumPorts |-> Entry(Ports[i], "IN")]
    BY PortsFacts DEF Init
  <2> QED
    BY <2>1
<1>3. Slots = {} /\ DOMAIN addPollFds = {}
  BY <1>2 DEF Slots, Init
<1>4. \A fd : Buffer(clients, fd) = Zeroed
  BY DEF Init, Buffer
<1>5. \A c \in Conn : Asks(c, NewConn)
  BY DEF Asks, NewConn
<1>6. \A fd \in Fds : ~IsConn(fd)
  BY <1>1 DEF IsConn
<1>7. pc = "poll" /\ delIndex = <<>> /\ \A j \in Job : jobs[j].st = "none"
  BY DEF Init, NoJob
<1>8. NoScripts
  BY <1>1, <1>7 DEF NoScripts
<1>9. OneDescriptor /\ OneEntry
  BY <1>3, <1>6, <1>7 DEF OneDescriptor, OneEntry
<1>10. Exchanges
  BY <1>1, <1>4, <1>5, <1>6 DEF Exchanges
<1>11. Reasons
  BY <1>3 DEF Reasons
<1>12. ClosedForCause
  BY <1>1 DEF ClosedForCause, IsClosed, NewConn
<1> QED
  BY <1>8, <1>9, <1>10, <1>11, <1>12 DEF StaticInv

(* No script is killed or waited for. *)
LEMMA NoKill ==
  ASSUME SocketInv, StaticInv
  PROVE  ~ScanKill /\ ~ScanReap
<1>1. ~ScanKill
  BY NoCgiSlots DEF ScanKill
<1>2. ~ScanReap
  BY DEF ScanReap, InScan, StaticInv, NoScripts
<1> QED
  BY <1>1, <1>2

LEMMA NextStatic ==
  ASSUME OnlyFiles, SocketInv, StaticInv, [Next]_vars
  PROVE  StaticInv'
<1>1. CASE Poll
  BY <1>1, PollStatic
<1>2. CASE Handle
  BY <1>2, AcceptConnectionStatic, ExecReadRequestStatic, ExecCoreHandlerStatic,
     ExecWriteResponseStatic, ExecWriteErrorStatic, NoCgiHandler, NoHandlerStatic, OutsideStatic
  DEF Handle
<1>3. CASE DeleteClient
  BY <1>3, NoKill, EndHandleStatic, ScanKeepStatic, ScanDropStatic, SortIndexesStatic, EraseStatic
  DEF DeleteClient
<1>4. CASE AddPending
  BY <1>4, AddPendingStatic
<1>5. ASSUME NEW c \in Conn, Peer(c)
      PROVE  StaticInv'
  BY <1>5, ConnectStatic, SendStatic, SendPartStatic, FinishStatic, ResetStatic DEF Peer
<1>6. ASSUME NEW j \in Job, Child(j)
      PROVE  StaticInv'
  BY <1>6, NoChild
<1>7. CASE Tick \/ UNCHANGED vars
  BY <1>7, OutsideStatic
<1> QED
  BY <1>1, <1>2, <1>3, <1>4, <1>5, <1>6, <1>7 DEF Next, Server

-----------------------------------------------------------------------------
(* What peers are owed *)

THEOREM StaticInvHolds ==
  ASSUME OnlyFiles
  PROVE  Spec => []StaticInv
<1>1. Init => StaticInv
  BY InitStatic
<1>2. SocketInv /\ StaticInv /\ [Next]_vars => StaticInv'
  BY NextStatic
<1> QED
  BY <1>1, <1>2, SocketInvHolds, PTL DEF Spec

(* While no request needs a script, each peer receives only answers to its
   own requests, each once, in the order it asked: a number that is handed
   out again never leads to the buffer of the connection that had it. *)
THEOREM OwnAnswersOnly ==
  ASSUME OnlyFiles
  PROVE  Spec => []AnswersMatch
<1>1. StaticInv => AnswersMatch
  BY DEF StaticInv, Exchanges, Asks, AnswersMatch
<1> QED
  BY <1>1, StaticInvHolds, PTL

(* While no request needs a script, a connection is closed only for a reason
   its peer knows of: it left, it sent what cannot be parsed, or it asked for
   the connection to be closed after the answer it got last. *)
THEOREM NeverCutOff ==
  ASSUME OnlyFiles
  PROVE  Spec => []ClosedForCause
<1>1. StaticInv => ClosedForCause
  BY DEF StaticInv
<1> QED
  BY <1>1, StaticInvHolds, PTL

(* While no request needs a script, the server at rest holds nothing but its
   listening sockets: every connection it accepted has been closed. *)
THEOREM NothingKept ==
  ASSUME OnlyFiles
  PROVE  Spec => []NothingLeaks
<1>1. SocketInv /\ StaticInv => NothingLeaks
  <2> SUFFICES ASSUME SocketInv, StaticInv, AtRest, NEW fd \in Fds
               PROVE  files[fd].kind \in {"free", "std", "lsn"}
    BY DEF NothingLeaks
  <2>1. ~IsConn(fd)
    BY ConnOf DEF AtRest
  <2> QED
    BY <2>1 DEF StaticInv, NoScripts, IsConn
<1> QED
  BY <1>1, SocketInvHolds, StaticInvHolds, PTL

-----------------------------------------------------------------------------
(* What ends the process *)

(* It runs, and no peer has reset its connection. *)
Unbroken == up /\ \A c \in Conn : ~conns[c].rst

LEMMA NothingElseBreaks ==
  ASSUME SocketInv, StaticInv, [Next]_vars, \A c \in Conn : ~Reset(c), ~ServerDies
  PROVE  up' = up /\ \A c \in Conn : conns'[c].rst = conns[c].rst
<1>1. \A c \in Conn : conns[c] \in ConnType
  BY TypesOfState DEF ConnsOK
<1> DEFINE kept(k, cn) == conns' = [conns EXCEPT ![k] = cn] /\ cn.rst = conns[k].rst
<1>2. ASSUME NEW k \in Conn, NEW cn, kept(k, cn)
      PROVE  \A c \in Conn : conns'[c].rst = conns[c].rst
  BY <1>2, TypesOfState DEF ConnsOK
<1> HIDE DEF kept
<1>3. CASE UNCHANGED conns /\ UNCHANGED up
  BY <1>3
<1>4. CASE AcceptConnection
  <2> DEFINE c == Min({ d \in Conn : Waits(d, Here) })
  <2>1. conns' = conns \/ conns' = [conns EXCEPT ![c].st = "open"]
    BY <1>4 DEF AcceptConnection
  <2> HIDE DEF c
  <2>2. \A d \in Conn : conns'[d].rst = conns[d].rst
    <3>1. \A d \in Conn : [conns[d] EXCEPT !.st = "open"].rst = conns[d].rst
      BY <1>1 DEF ConnType
    <3>2. CASE c \in Conn
      BY <2>1, <3>1, <3>2, TypesOfState DEF ConnsOK
    <3>3. CASE c \notin Conn
      BY <2>1, <3>3, TypesOfState DEF ConnsOK
    <3> QED
      BY <3>2, <3>3
  <2> QED
    BY <1>4, <2>2 DEF AcceptConnection
<1>5. ASSUME NEW k \in Conn
      PROVE  /\ \A x, y : [conns[k] EXCEPT !.st = x, !.port = y].rst = conns[k].rst
             /\ \A x, y : [conns[k] EXCEPT !.asked = x, !.unread = y, !.half = FALSE].rst = conns[k].rst
             /\ \A x : [conns[k] EXCEPT !.unread = x, !.half = TRUE].rst = conns[k].rst
             /\ \A x : [conns[k] EXCEPT !.unread = x].rst = conns[k].rst
             /\ \A x : [conns[k] EXCEPT !.got = x].rst = conns[k].rst
             /\ [conns[k] EXCEPT !.fin = TRUE].rst = conns[k].rst
  BY <1>1 DEF ConnType
<1>6. ASSUME NEW k \in Conn, Peer(k)
      PROVE  up' = up /\ \A c \in Conn : conns'[c].rst = conns[c].rst
  <2>1. up' = up
    BY <1>6 DEF Peer, Connect, Send, SendPart, Finish, Reset, server
  <2>2. \E cn : kept(k, cn)
    <3>1. ASSUME NEW p, Connect(k, p)
          PROVE  kept(k, [conns[k] EXCEPT !.st = "queued", !.port = p])
      <4>1. conns' = [conns EXCEPT ![k] = [conns[k] EXCEPT !.st = "queued", !.port = p]]
        BY <3>1, TypesOfState DEF ConnsOK, Connect
      <4> QED
        BY <1>5, <4>1 DEF kept
    <3>2. ASSUME NEW r, Send(k, r)
          PROVE  kept(k, [conns[k] EXCEPT !.asked = Append(@, r),
                            !.unread = Append(@, Len(conns[k].asked) + 1), !.half = FALSE])
      <4>1. conns' = [conns EXCEPT ![k] = [conns[k] EXCEPT !.asked = Append(@, r),
                              !.unread = Append(@, Len(conns[k].asked) + 1), !.half = FALSE]]
        BY <3>2, TypesOfState DEF ConnsOK, Send
      <4> QED
        BY <1>5, <4>1 DEF kept
    <3>3. CASE SendPart(k)
      <4>1. kept(k, [conns[k] EXCEPT !.unread = Append(@, 0), !.half = TRUE])
        BY <1>5, <3>3 DEF SendPart, kept
      <4> QED
        BY <4>1
    <3>4. CASE Finish(k)
      <4>1. kept(k, [conns[k] EXCEPT !.fin = TRUE])
        BY <1>5, <3>4 DEF Finish, kept
      <4> QED
        BY <4>1
    <3> QED
      BY <1>6, <3>1, <3>2, <3>3, <3>4 DEF Peer
  <2> QED
    BY <1>2, <2>1, <2>2
<1>7. CASE ExecReadRequest
  <2> DEFINE j == files[Here].id
  <2>1. \/ UNCHANGED conns
        \/ IsConn(Here) /\ \E k : conns' = [conns EXCEPT ![j].unread = SubSeq(@, k + 1, Len(@))]
    BY <1>7 DEF ExecReadRequest, IsConn
  <2>2. j \in Conn
    BY <1>7, ConnAtHand DEF ExecReadRequest, InTurn
  <2>3. ASSUME NEW k, conns' = [conns EXCEPT ![j].unread = SubSeq(@, k + 1, Len(@))]
        PROVE  kept(j, [conns[j] EXCEPT !.unread = SubSeq(@, k + 1, Len(@))])
    BY <1>5, <2>2, <2>3 DEF kept
  <2>4. \A c \in Conn : conns'[c].rst = conns[c].rst
    BY <1>2, <2>1, <2>2, <2>3
  <2> QED
    BY <1>7, <2>4 DEF ExecReadRequest
<1>8. CASE ExecWriteResponse \/ ExecWriteError
  <2> DEFINE j == files[Here].id
  <2>1. UNCHANGED conns \/ \E b : WriteSome(b)
    BY <1>8 DEF ExecWriteResponse, ExecWriteError
  <2>2. j \in Conn
    BY <1>8, AtHand, ConnAtHand DEF ExecWriteResponse, ExecWriteError, OutTurn
  <2>3. ASSUME NEW b, WriteSome(b)
        PROVE  UNCHANGED conns \/ \E x : conns' = [conns EXCEPT ![j].got = Append(@, x)]
    BY <2>3 DEF WriteSome
  <2>4. ASSUME NEW x, conns' = [conns EXCEPT ![j].got = Append(@, x)]
        PROVE  kept(j, [conns[j] EXCEPT !.got = Append(@, x)])
    BY <1>5, <2>2, <2>4 DEF kept
  <2>5. \A c \in Conn : conns'[c].rst = conns[c].rst
    BY <1>2, <2>1, <2>2, <2>3, <2>4
  <2> QED
    BY <1>8, <2>5 DEF ExecWriteResponse, ExecWriteError
<1>9. CASE ExecCoreHandler \/ NoHandler
  BY <1>9 DEF ExecCoreHandler, NoHandler
<1>10. CASE Poll \/ DeleteClient \/ AddPending \/ Tick \/ UNCHANGED vars
  BY <1>10, NoKill DEF Poll, DeleteClient, EndHandle, ScanKeep, ScanDrop, SortIndexes, Erase, AddPending,
     Tick, kernel, server, vars
<1> QED
  BY <1>4, <1>6, <1>7, <1>8, <1>9, <1>10, NoChild, NoCgiHandler DEF Next, Server, Handle

(* While no request needs a script, only a peer that resets its connection
   can end the process (by SIGPIPE): none that finishes, falls silent, sends
   in pieces or sends what cannot be parsed does. *)
THEOREM OnlyResetsKill ==
  ASSUME OnlyFiles, "rst" \notin Fault
  PROVE  Spec => []StaysUp
<1>1. Init => Unbroken
  BY DEF Init, NewConn, Unbroken
<1>2. SocketInv /\ StaticInv /\ Unbroken /\ [Next]_vars => Unbroken'
  <2> SUFFICES ASSUME SocketInv, StaticInv, Unbroken, [Next]_vars
               PROVE  Unbroken'
    OBVIOUS
  <2>1. \A c \in Conn : ~Reset(c)
    BY DEF Reset
  <2>2. ASSUME ServerDies
        PROVE  FALSE
    <3>1. Turn /\ cur > NumPorts
      BY <2>2, AtHand DEF ServerDies, OutTurn, InTurn
    <3>2. IsConn(Here) /\ files[Here].id \in Conn /\ Client.state # "READ_CGI"
      BY <3>1, ConnAtHand DEF Exchange
    <3>3. ~IsBroken(files[Here])
      BY <3>2 DEF IsBroken, IsConn, Unbroken
    <3> QED
      BY <2>2, <3>2, <3>3 DEF ServerDies, InTurn
  <2> QED
    BY <2>1, <2>2, NothingElseBreaks DEF Unbroken
<1>3. Unbroken => StaysUp
  BY DEF Unbroken, StaysUp
<1> QED
  BY <1>1, <1>2, <1>3, SocketInvHolds, StaticInvHolds, PTL DEF Spec

=============================================================================

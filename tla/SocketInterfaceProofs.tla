----------------------- MODULE SocketInterfaceProofs -----------------------
(***************************************************************************)
(* Proofs about the event loop, for every number of ports, peers, scripts  *)
(* and descriptors and for every workload: its invariant, and that each    *)
(* handler keeps it (one lemma per handler says that it takes the same     *)
(* kind of turn, and two lemmas say what every such turn preserves), as do *)
(* the rest of the pass, the peers, the scripts and the clock.             *)
(***************************************************************************)
EXTENDS SocketInterfaceProperties, SequenceLemmas, WellFoundedInduction

-----------------------------------------------------------------------------
(* Minima and descriptors *)

(* Min finds a least number wherever there is a number. *)
LEMMA MinIsMember ==
  ASSUME NEW S \in SUBSET Nat, S # {}
  PROVE  Min(S) \in S /\ \A y \in S : Min(S) <= y
<1>1. PICK x \in S : \A y \in S : ~(<<y, x>> \in OpToRel(<, Nat))
  BY NatLessThanWellFounded, WFMin
<1>2. ASSUME NEW y \in S
      PROVE  x <= y
  <2>1. ~(<<y, x>> \in OpToRel(<, Nat))
    BY <1>1
  <2>2. <<y, x>> \in Nat \X Nat
    OBVIOUS
  <2>3. ~(y < x)
    BY <2>1, <2>2 DEF OpToRel
  <2> QED
    BY <2>3
<1> QED
  BY <1>1, <1>2 DEF Min

LEMMA LowestFreeIsFree ==
  ASSUME NEW f, HasFree(f)
  PROVE  LowestFree(f) \in Fds /\ f[LowestFree(f)] = Free
<1>1. FreeFds(f) \in SUBSET Nat
  BY MaxFdAssumption DEF FreeFds, Fds
<1>2. LowestFree(f) \in FreeFds(f)
  BY <1>1, MinIsMember DEF LowestFree, HasFree
<1> QED
  BY <1>2 DEF FreeFds

(* The two ends of a pipe get two different free numbers. *)
LEMMA PipeEnds ==
  ASSUME NEW f \in [Fds -> Object], NEW obj \in Object, obj # Free, CanPipe(f),
         NEW r, r = LowestFree(f), NEW w, w = LowestFree(Open(f, obj))
  PROVE  /\ r \in Fds /\ w \in Fds /\ r # w
         /\ f[r] = Free /\ f[w] = Free
<1>1. r \in Fds /\ f[r] = Free
  BY LowestFreeIsFree DEF CanPipe
<1>2. PICK x \in FreeFds(f) : x # r
  BY DEF CanPipe, HasFree
<1>3. /\ Open(f, obj) = [f EXCEPT ![r] = obj]
      /\ x \in Fds /\ f[x] = Free
  BY <1>2 DEF Open, FreeFds
<1>4. x \in FreeFds(Open(f, obj))
  BY <1>2, <1>3 DEF FreeFds
<1>5. w \in Fds /\ Open(f, obj)[w] = Free
  BY <1>4, LowestFreeIsFree DEF HasFree
<1>6. w # r
  BY <1>1, <1>3, <1>5
<1> QED
  BY <1>1, <1>3, <1>5, <1>6

LEMMA CloseType ==
  ASSUME NEW f \in [Fds -> Object], NEW fd
  PROVE  Close(f, fd) \in [Fds -> Object]
BY DEF Close, Free, Obj, Object

LEMMA FreshJobIsFresh ==
  ASSUME NEW jb, HasFreshJob(jb)
  PROVE  FreshJob(jb) \in Job
<1> DEFINE S == { j \in Job : jb[j].st = "none" }
<1>1. S \in SUBSET Nat /\ S # {}
  BY NumbersAssumption DEF HasFreshJob
<1> HIDE DEF S
<1>2. Min(S) \in S
  BY <1>1, MinIsMember
<1> QED
  BY <1>2 DEF FreshJob, S

LEMMA PortsFacts ==
  /\ NumPorts \in Nat
  /\ DOMAIN Ports = 1..NumPorts
  /\ \A i \in 1..NumPorts : Ports[i] \in Fds /\ Ports[i] \in Range(Ports) /\ Ports[i] > 2
  /\ \A p \in Range(Ports) : p \in Fds /\ p > 2
  /\ 0 \in Handled /\ Handled \subseteq Fds /\ Fds \subseteq Nat
  /\ \A i, j \in 1..NumPorts : Ports[i] = Ports[j] => i = j
<1>1. /\ NumPorts \in Nat /\ DOMAIN Ports = 1..NumPorts
      /\ \A i \in 1..NumPorts : Ports[i] \in 3..MaxFd
  BY PortsAssumption, LenProperties, ElementOfSeq DEF NumPorts
<1>2. \A n \in 3..MaxFd : n \in Fds /\ n > 2
  BY MaxFdAssumption DEF Fds
<1>3. \A i \in 1..NumPorts : Ports[i] \in Range(Ports)
  BY <1>1 DEF Range
<1>4. \A p \in Range(Ports) : p \in Fds /\ p > 2
  BY <1>1, <1>2 DEF Range
<1>5. 0 \in Handled /\ Handled \subseteq Fds /\ Fds \subseteq Nat
  BY <1>4, MaxFdAssumption DEF Handled, Fds
<1>6. \A i, j \in 1..NumPorts : Ports[i] = Ports[j] => i = j
  BY <1>1, PortsAssumption DEF IsInjective
<1> QED
  BY <1>1, <1>2, <1>3, <1>4, <1>5, <1>6

-----------------------------------------------------------------------------
(* Buffers *)

(* A listening socket's buffer is the one that operator[] makes. *)
GoodClients(cl) ==
  /\ cl \in [DOMAIN cl -> BufferType]
  /\ \A p \in DOMAIN cl \cap Range(Ports) : cl[p] = Zeroed

LEMMA BaseTypes ==
  /\ NoHttp \in HttpType /\ Unfinished \in HttpType /\ Unreadable \in HttpType
  /\ Nothing \in ResponseType /\ NoCgi \in CgiType
  /\ \A http \in HttpType : \A what \in {"doc", "error"} : Answer(http, what) \in ResponseType
<1>1. NoHttp \in HttpType
  BY BoundsAssumption DEF NoHttp, HttpType
<1>2. Unfinished \in HttpType /\ Unreadable \in HttpType
  BY <1>1 DEF Unfinished, Unreadable, HttpType
<1>3. Nothing \in ResponseType
  BY <1>1, BoundsAssumption DEF Nothing, ResponseType
<1>4. \A http \in HttpType : \A what \in {"doc", "error"} : Answer(http, what) \in ResponseType
  BY BoundsAssumption DEF Answer, ResponseType
<1> QED
  BY <1>1, <1>2, <1>3, <1>4 DEF CgiType

LEMMA ZeroedGood == Zeroed \in BufferType
BY BaseTypes, PortsFacts, BoundsAssumption DEF Zeroed, BufferType, State

LEMMA NewBufferGood ==
  ASSUME NEW fd \in Handled, NEW st \in State, now \in 1..MaxNow
  PROVE  NewBuffer(fd, st) \in BufferType
<1>1. now \in 0..MaxNow
  BY BoundsAssumption
<1> QED
  BY <1>1, ZeroedGood DEF NewBuffer, BufferType

LEMMA BufferGood ==
  ASSUME NEW cl, GoodClients(cl), NEW fd
  PROVE  /\ Buffer(cl, fd) \in BufferType
         /\ fd \in Range(Ports) => Buffer(cl, fd) = Zeroed
BY ZeroedGood DEF Buffer, GoodClients

LEMMA PutGood ==
  ASSUME NEW cl, GoodClients(cl), NEW fd, fd \notin Range(Ports), NEW b \in BufferType
  PROVE  GoodClients(Put(cl, fd, b))
BY DEF Put, GoodClients

LEMMA TouchGood ==
  ASSUME NEW cl, GoodClients(cl), NEW fd
  PROVE  GoodClients(Touch(cl, fd)) /\ fd \in DOMAIN Touch(cl, fd)
BY BufferGood DEF Touch, Put, GoodClients

LEMMA ChangeGood ==
  ASSUME NEW cl, GoodClients(cl), NEW fd, fd \notin Range(Ports), NEW b \in BufferType
  PROVE  GoodClients([cl EXCEPT ![fd] = b])
BY DEF GoodClients

LEMMA CreateClientGood ==
  ASSUME NEW cl, GoodClients(cl), NEW fd \in Handled, NEW st \in State, now \in 1..MaxNow
  PROVE  /\ GoodClients(CreateClientBuffer(cl, fd, st))
         /\ DOMAIN CreateClientBuffer(cl, fd, st) = DOMAIN cl \cup {fd}
<1>1. fd \notin Range(Ports)
  BY DEF Handled
<1> QED
  BY <1>1, NewBufferGood, PutGood DEF CreateClientBuffer, Insert, Put

LEMMA ForgetGood ==
  ASSUME NEW cl, GoodClients(cl), NEW fd
  PROVE  GoodClients(Forget(cl, fd))
BY DEF Forget, GoodClients, Restrict

-----------------------------------------------------------------------------
(* The invariant *)

(* PollSetProofs, read of the event loop's vectors as Bookkeeping reads
   PollSet. *)
Proved ==
  INSTANCE PollSetProofs WITH
    Fd <- Fds,
    pollFds <- FdsOf(pollFds),
    addPollFds <- FdsOf(addPollFds),
    pc <- IF pc \in {"reap", "drop"} THEN "scan" ELSE pc

(* The vectors and their counter, as PollSet's invariant has them. *)
VectorsOK ==
  /\ Len(pollFds) = NumPorts + numClients
  /\ \A i \in 1..NumPorts : pollFds[i].fd = Ports[i]
  /\ \A i \in DOMAIN delIndex : delIndex[i] \in NumPorts + 1 .. Len(pollFds)

(* Listening sockets stay open, are never asked about anything but new
   connections, and are no client's: no entry queued or behind the first
   NumPorts names one. *)
ListenersOK ==
  /\ \A p \in Range(Ports) : files[p] = Obj("lsn", 0)
  /\ \A i \in 1..NumPorts : pollFds[i].events = "IN" /\ pollFds[i].revents \subseteq {"IN"}
  /\ \A i \in NumPorts + 1 .. Len(pollFds) : pollFds[i].fd \in Handled
  /\ \A i \in DOMAIN addPollFds : addPollFds[i].fd \in Handled

(* A connection that poll() reported is still in the backlog when accept()
   gets there. *)
BacklogOK ==
  pc = "handle" =>
    \A i \in cur..NumPorts : "IN" \in pollFds[i].revents =>
      \E c \in Conn : Waits(c, Ports[i])

(* Only clients are deleted, and a script's entry only when there is one. *)
CursorOK ==
  /\ pc \in {"reap", "drop"} => cur \in NumPorts + 1 .. Len(pollFds)
  /\ pc = "reap" => CgiSlots(cur, Client) # {}
  /\ pc \in {"poll", "erase"} => cur = 1

SocketInv ==
  /\ TypeOK /\ GoodClients(clients)
  /\ Proved!IInv
  /\ VectorsOK /\ ListenersOK /\ BacklogOK /\ CursorOK
  /\ WatchedDescriptors

(* What a handler leaves of _pollFds: it changes nothing but the events of
   clients' entries. *)
SameEntries(pf, pg) ==
  /\ pg \in Seq(EntryType) /\ Len(pg) = Len(pf)
  /\ \A i \in 1..Len(pf) : /\ pg[i].fd = pf[i].fd /\ pg[i].revents = pf[i].revents
                           /\ i <= NumPorts => pg[i] = pf[i]

LEMMA SetEventsSame ==
  ASSUME NEW pf \in Seq(EntryType), NEW pg, SameEntries(pf, pg),
         NEW i \in NumPorts + 1 .. Len(pf), NEW ev \in {"IN", "OUT", "none"}
  PROVE  SameEntries(pf, SetEvents(pg, i, ev))
<1>1. NumPorts \in Nat /\ Len(pf) \in Nat /\ i \in 1..Len(pg) /\ i > NumPorts
  BY PortsFacts, LenProperties DEF SameEntries
<1>2. pg[i] \in EntryType
  BY <1>1, ElementOfSeq DEF SameEntries
<1>3. SetEvents(pg, i, ev) = [pg EXCEPT ![i] = [pg[i] EXCEPT !.events = ev]]
  BY DEF SetEvents
<1>4. /\ [pg[i] EXCEPT !.events = ev] \in EntryType
      /\ [pg[i] EXCEPT !.events = ev].fd = pg[i].fd
      /\ [pg[i] EXCEPT !.events = ev].revents = pg[i].revents
  BY <1>2 DEF EntryType
<1> DEFINE e == [pg[i] EXCEPT !.events = ev]
<1> HIDE DEF e
<1>5. /\ [pg EXCEPT ![i] = e] \in Seq(EntryType)
      /\ Len([pg EXCEPT ![i] = e]) = Len(pg)
      /\ \A k \in 1..Len(pg) : [pg EXCEPT ![i] = e][k] = IF k = i THEN e ELSE pg[k]
  BY <1>1, <1>4, ExceptSeq DEF SameEntries, e
<1> QED
  BY <1>1, <1>3, <1>4, <1>5 DEF SameEntries, e

LEMMA SameItself ==
  ASSUME NEW pf \in Seq(EntryType)
  PROVE  SameEntries(pf, pf)
BY DEF SameEntries

(* What a handler makes of the descriptor table f: g keeps the listening
   sockets, and what is watched in it was so in f or is new. *)
FilesOK(f, g, new) ==
  /\ g \in [Fds -> Object]
  /\ \A p \in Range(Ports) : g[p] = f[p]
  /\ \A fd \in Fds : g[fd].kind \in {"conn", "out"} => f[fd].kind \in {"conn", "out"} \/ fd \in new

LEMMA FilesItself ==
  ASSUME NEW f \in [Fds -> Object], NEW new
  PROVE  FilesOK(f, f, new)
BY DEF FilesOK

LEMMA FilesClose ==
  ASSUME NEW f, NEW g, NEW new, FilesOK(f, g, new), NEW fd, fd \notin Range(Ports)
  PROVE  FilesOK(f, Close(g, fd), new)
<1>1. Close(g, fd) \in [Fds -> Object]
  BY CloseType DEF FilesOK
<1>2. \A x \in Fds : Close(g, fd)[x] = IF x = fd THEN Free ELSE g[x]
  BY DEF Close, FilesOK
<1>3. Free.kind = "free"
  BY DEF Free, Obj
<1> QED
  BY <1>1, <1>2, <1>3, PortsFacts DEF FilesOK

LEMMA FilesOpen ==
  ASSUME NEW f, NEW g, NEW new, FilesOK(f, g, new), NEW fd \in Handled, NEW obj \in Object,
         fd \in new \/ obj.kind \notin {"conn", "out"}
  PROVE  FilesOK(f, [g EXCEPT ![fd] = obj], new)
<1>1. fd \in Fds /\ fd \notin Range(Ports)
  BY PortsFacts DEF Handled
<1> QED
  BY <1>1, PortsFacts DEF FilesOK

(* A free number is no listening socket's. *)
LEMMA FreeIsHandled ==
  ASSUME \A p \in Range(Ports) : files[p] = Obj("lsn", 0), NEW fd \in Fds, files[fd] = Free
  PROVE  fd \in Handled
BY DEF Handled, Free, Obj

-----------------------------------------------------------------------------
(* The vectors, reduced to their descriptors *)

LEMMA FdsOfType ==
  ASSUME NEW s \in Seq(EntryType)
  PROVE  /\ FdsOf(s) \in Seq(Fds) /\ Len(FdsOf(s)) = Len(s)
         /\ \A i \in 1..Len(s) : FdsOf(s)[i] = s[i].fd
<1>1. Len(s) \in Nat /\ DOMAIN s = 1..Len(s)
  BY LenProperties
<1>2. \A i \in 1..Len(s) : s[i].fd \in Fds
  <2>1. \A i \in 1..Len(s) : s[i] \in EntryType
    BY ElementOfSeq
  <2>2. \A e \in EntryType : e.fd \in Fds
    BY DEF EntryType
  <2> QED
    BY <2>1, <2>2
<1>3. FdsOf(s) \in [1..Len(s) -> Fds]
  BY <1>1, <1>2 DEF FdsOf
<1> QED
  BY <1>1, <1>3, LenProperties DEF FdsOf

LEMMA FdsOfAppend ==
  ASSUME NEW s \in Seq(EntryType), NEW e \in EntryType
  PROVE  FdsOf(Append(s, e)) = Append(FdsOf(s), e.fd)
<1>1. Append(s, e) \in Seq(EntryType) /\ Len(Append(s, e)) = Len(s) + 1
  BY AppendProperties
<1>2. e.fd \in Fds /\ Len(s) \in Nat
  BY LenProperties DEF EntryType
<1>3. /\ Append(FdsOf(s), e.fd) \in Seq(Fds) /\ Len(Append(FdsOf(s), e.fd)) = Len(s) + 1
      /\ FdsOf(Append(s, e)) \in Seq(Fds) /\ Len(FdsOf(Append(s, e))) = Len(s) + 1
  <2>1. FdsOf(s) \in Seq(Fds) /\ Len(FdsOf(s)) = Len(s)
    BY FdsOfType
  <2>2. FdsOf(Append(s, e)) \in Seq(Fds) /\ Len(FdsOf(Append(s, e))) = Len(Append(s, e))
    BY <1>1, FdsOfType
  <2> QED
    BY <1>1, <1>2, <2>1, <2>2, AppendProperties
<1>4. ASSUME NEW i \in 1..Len(s) + 1
      PROVE  FdsOf(Append(s, e))[i] = Append(FdsOf(s), e.fd)[i]
  <2>1. FdsOf(Append(s, e))[i] = Append(s, e)[i].fd
    BY <1>1, FdsOfType
  <2>2. Append(s, e)[i] = IF i = Len(s) + 1 THEN e ELSE s[i]
    BY <1>2, AppendProperties
  <2>3. Append(FdsOf(s), e.fd)[i] = IF i = Len(s) + 1 THEN e.fd ELSE FdsOf(s)[i]
    BY <1>2, FdsOfType, AppendProperties
  <2> QED
    BY <1>2, <2>1, <2>2, <2>3, FdsOfType
<1> QED
  BY <1>3, <1>4, SeqEqual

LEMMA FdsOfRemoveAt ==
  ASSUME NEW s \in Seq(EntryType), NEW k \in 1..Len(s)
  PROVE  FdsOf(RemoveAt(s, k)) = RemoveAt(FdsOf(s), k)
<1>1. /\ RemoveAt(s, k) \in Seq(EntryType) /\ Len(RemoveAt(s, k)) = Len(s) - 1
      /\ \A i \in 1..Len(s) - 1 : RemoveAt(s, k)[i] = IF i < k THEN s[i] ELSE s[i + 1]
  BY RemoveAtProperties
<1>2. FdsOf(s) \in Seq(Fds) /\ k \in 1..Len(FdsOf(s)) /\ Len(FdsOf(s)) = Len(s)
  BY FdsOfType
<1>3. /\ RemoveAt(FdsOf(s), k) \in Seq(Fds) /\ Len(RemoveAt(FdsOf(s), k)) = Len(s) - 1
      /\ \A i \in 1..Len(s) - 1 :
           RemoveAt(FdsOf(s), k)[i] = IF i < k THEN FdsOf(s)[i] ELSE FdsOf(s)[i + 1]
  BY <1>2, RemoveAtProperties
<1>4. FdsOf(RemoveAt(s, k)) \in Seq(Fds) /\ Len(FdsOf(RemoveAt(s, k))) = Len(s) - 1
  BY <1>1, FdsOfType
<1>5. ASSUME NEW i \in 1..Len(s) - 1
      PROVE  FdsOf(RemoveAt(s, k))[i] = RemoveAt(FdsOf(s), k)[i]
  <2>1. i \in 1..Len(s) /\ i + 1 \in 1..Len(s)
    BY LenProperties
  <2>2. FdsOf(RemoveAt(s, k))[i] = RemoveAt(s, k)[i].fd
    BY <1>1, FdsOfType
  <2>3. RemoveAt(s, k)[i] = IF i < k THEN s[i] ELSE s[i + 1]
    BY <1>1
  <2>4. RemoveAt(FdsOf(s), k)[i] = IF i < k THEN FdsOf(s)[i] ELSE FdsOf(s)[i + 1]
    BY <1>3
  <2>5. FdsOf(s)[i] = s[i].fd /\ FdsOf(s)[i + 1] = s[i + 1].fd
    BY <2>1, FdsOfType
  <2> QED
    BY <2>2, <2>3, <2>4, <2>5
<1> QED
  BY <1>3, <1>4, <1>5, SeqEqual

LEMMA FdsOfConcat ==
  ASSUME NEW s \in Seq(EntryType), NEW t \in Seq(EntryType)
  PROVE  FdsOf(s \o t) = FdsOf(s) \o FdsOf(t)
<1>1. /\ s \o t \in Seq(EntryType) /\ Len(s \o t) = Len(s) + Len(t)
      /\ \A i \in 1..Len(s) + Len(t) : (s \o t)[i] = IF i <= Len(s) THEN s[i] ELSE t[i - Len(s)]
  BY ConcatProperties
<1>2. /\ FdsOf(s) \in Seq(Fds) /\ FdsOf(t) \in Seq(Fds)
      /\ Len(FdsOf(s)) = Len(s) /\ Len(FdsOf(t)) = Len(t)
  BY FdsOfType
<1>3. /\ FdsOf(s) \o FdsOf(t) \in Seq(Fds) /\ Len(FdsOf(s) \o FdsOf(t)) = Len(s) + Len(t)
      /\ \A i \in 1..Len(s) + Len(t) :
           (FdsOf(s) \o FdsOf(t))[i] = IF i <= Len(s) THEN FdsOf(s)[i] ELSE FdsOf(t)[i - Len(s)]
  <2> DEFINE u == FdsOf(s)
             v == FdsOf(t)
  <2> HIDE DEF u, v
  <2>1. u \in Seq(Fds) /\ v \in Seq(Fds) /\ Len(u) = Len(s) /\ Len(v) = Len(t)
    BY <1>2 DEF u, v
  <2>2. /\ u \o v \in Seq(Fds) /\ Len(u \o v) = Len(u) + Len(v)
        /\ \A i \in 1..Len(u) + Len(v) : (u \o v)[i] = IF i <= Len(u) THEN u[i] ELSE v[i - Len(u)]
    BY <2>1, ConcatProperties
  <2> QED
    BY <2>1, <2>2 DEF u, v
<1>4. FdsOf(s \o t) \in Seq(Fds) /\ Len(FdsOf(s \o t)) = Len(s) + Len(t)
  BY <1>1, FdsOfType
<1>5. ASSUME NEW i \in 1..Len(s) + Len(t)
      PROVE  FdsOf(s \o t)[i] = (FdsOf(s) \o FdsOf(t))[i]
  <2>1. Len(s) \in Nat /\ Len(t) \in Nat
    BY LenProperties
  <2>2. FdsOf(s \o t)[i] = (s \o t)[i].fd
    BY <1>1, FdsOfType
  <2>3. CASE i <= Len(s)
    BY <2>1, <2>2, <2>3, <1>1, <1>3, FdsOfType
  <2>4. CASE ~(i <= Len(s))
    <3> DEFINE n == i - Len(s)
    <3>1. n \in 1..Len(t)
      BY <2>1, <2>4
    <3>2. (s \o t)[i] = t[n] /\ (FdsOf(s) \o FdsOf(t))[i] = FdsOf(t)[n]
      BY <2>4, <1>1, <1>3
    <3> HIDE DEF n
    <3> QED
      BY <2>2, <3>1, <3>2, FdsOfType
  <2> QED
    BY <2>3, <2>4
<1> QED
  BY <1>3, <1>4, <1>5, SeqEqual

LEMMA FdsOfSame ==
  ASSUME NEW pf \in Seq(EntryType), NEW pg, SameEntries(pf, pg)
  PROVE  FdsOf(pg) = FdsOf(pf)
<1>1. /\ FdsOf(pf) \in Seq(Fds) /\ Len(FdsOf(pf)) = Len(pf)
      /\ FdsOf(pg) \in Seq(Fds) /\ Len(FdsOf(pg)) = Len(pf)
      /\ \A i \in 1..Len(pf) : FdsOf(pf)[i] = pf[i].fd /\ FdsOf(pg)[i] = pg[i].fd
  BY FdsOfType DEF SameEntries
<1> QED
  BY <1>1, SeqEqual DEF SameEntries

-----------------------------------------------------------------------------
(* Bookkeeping as PollSetProofs knows it *)

(* The two instances of PollSet, KeepsBookkeeping's and the one its proofs
   come with, take the same steps. *)
LEMMA SameSteps ==
  [Bookkeeping!Next]_Bookkeeping!vars => [Proved!Next]_Proved!vars
<1> SUFFICES ASSUME Bookkeeping!Next
             PROVE  Proved!Next
  BY DEF Bookkeeping!vars, Proved!vars
<1>0. Bookkeeping!NumPorts = Proved!NumPorts
  BY DEF Bookkeeping!NumPorts, Proved!NumPorts
<1>1. CASE Bookkeeping!Poll
  BY <1>1 DEF Bookkeeping!Poll, Proved!Poll, Proved!Next
<1>2. ASSUME NEW fd \in Fds, Bookkeeping!CreateClient(fd)
      PROVE  Proved!Next
  BY <1>2 DEF Bookkeeping!CreateClient, Proved!CreateClient, Proved!Next
<1>3. ASSUME NEW k \in 1..Len(FdsOf(pollFds)), Bookkeeping!PushDelPollFd(k)
      PROVE  Proved!Next
  BY <1>0, <1>3 DEF Bookkeeping!PushDelPollFd, Proved!PushDelPollFd, Proved!Next
<1>4. CASE Bookkeeping!EndHandle
  BY <1>4 DEF Bookkeeping!EndHandle, Proved!EndHandle, Proved!Next
<1>5. CASE Bookkeeping!SortIndexes
  BY <1>5
  DEF Bookkeeping!SortIndexes, Proved!SortIndexes, Proved!Next,
      Bookkeeping!Marked, Proved!Marked, Bookkeeping!SortedUnique, Proved!SortedUnique,
      Bookkeeping!IsDescending, Proved!IsDescending,
      Bookkeeping!Cardinality, Proved!Cardinality
<1>6. CASE Bookkeeping!Erase
  BY <1>6 DEF Bookkeeping!Erase, Proved!Erase, Proved!Next, Bookkeeping!RemoveAt, Proved!RemoveAt
<1>7. CASE Bookkeeping!AddPending
  BY <1>7 DEF Bookkeeping!AddPending, Proved!AddPending, Proved!Next
<1> QED
  BY <1>1, <1>2, <1>3, <1>4, <1>5, <1>6, <1>7 DEF Bookkeeping!Next

LEMMA StepKeepsProved ==
  ASSUME Proved!IInv, [Bookkeeping!Next]_Bookkeeping!vars
  PROVE  Proved!IInv'
<1>1. Ports \in Seq(Fds)
  <2>1. Ports \in [1..NumPorts -> Fds] /\ NumPorts \in Nat
    <3>1. Ports \in [DOMAIN Ports -> 3..MaxFd]
      BY PortsAssumption, LenProperties
    <3> QED
      BY <3>1, PortsFacts
  <2> QED
    BY <2>1
<1>2. [Proved!Next]_Proved!vars
  BY SameSteps
<1> QED
  BY <1>1, <1>2, Proved!NextIInv

(* PollSet's invariant, in the words of the event loop. *)
LEMMA ProvedVectors == Proved!IInv /\ TypeOK => VectorsOK
<1> SUFFICES ASSUME Proved!IInv, TypeOK
             PROVE  VectorsOK
  OBVIOUS
<1>0. pollFds \in Seq(EntryType)
  BY DEF TypeOK
<1>1. Proved!NumPorts = NumPorts
  BY DEF Proved!NumPorts, NumPorts
<1>2. /\ Len(FdsOf(pollFds)) = Len(pollFds)
      /\ \A i \in 1..Len(pollFds) : FdsOf(pollFds)[i] = pollFds[i].fd
  BY <1>0, FdsOfType
<1>3. NumPorts + numClients = Len(pollFds)
  BY <1>1, <1>2 DEF Proved!IInv, Proved!CountExact
<1>4. \A i \in 1..NumPorts : pollFds[i].fd = Ports[i]
  <2>1. NumPorts <= Len(pollFds) /\ \A i \in 1..NumPorts : FdsOf(pollFds)[i] = Ports[i]
    BY <1>1, <1>2 DEF Proved!IInv, Proved!ListenersFirst
  <2>2. \A i \in 1..NumPorts : i \in 1..Len(pollFds)
    BY <1>0, <2>1, PortsFacts, LenProperties
  <2> QED
    BY <1>2, <2>1, <2>2
<1>5. \A i \in DOMAIN delIndex : delIndex[i] \in NumPorts + 1 .. Len(pollFds)
  BY <1>1, <1>2 DEF Proved!IInv, Proved!EraseInRange, Proved!Marked
<1> QED
  BY <1>3, <1>4, <1>5 DEF VectorsOK

LEMMA ProvedVectorsNext == Proved!IInv' /\ TypeOK' => VectorsOK'
BY ProvedVectors, PTL

-----------------------------------------------------------------------------
(* Handlers *)

ConnsOK(cs) ==
  /\ cs \in [Conn -> ConnType]
  /\ \A c \in Conn : /\ Len(cs[c].asked) <= MaxRequests
                     /\ cs[c].unread \in Seq(0..Len(cs[c].asked))

(* A handler queues nothing, or one entry of a client, or the index at hand. *)
QueuesNothing(new) == new = {} /\ UNCHANGED <<addPollFds, delIndex>>
QueuesEntry(new) ==
  /\ \E e \in EntryType : addPollFds' = Append(addPollFds, e) /\ new = {e.fd}
  /\ UNCHANGED delIndex
QueuesIndex(new) ==
  /\ new = {} /\ cur > NumPorts
  /\ delIndex' = Append(delIndex, cur) /\ UNCHANGED addPollFds

(* What every handler's turn is, whatever it handles. *)
HandlerTurn ==
  /\ Turn /\ EndTurn /\ UNCHANGED up
  /\ SameEntries(pollFds, pollFds')
  /\ GoodClients(clients')
  /\ jobs' \in [Job -> JobType]
  /\ ConnsOK(conns')
  /\ \A c \in Conn : conns[c].st = "queued" =>
       \/ conns'[c].st = "queued" /\ conns'[c].port = conns[c].port
       \/ cur <= NumPorts /\ conns[c].port = Here
  /\ \E new \in SUBSET Handled :
       /\ FilesOK(files, files', new)
       /\ QueuesNothing(new) \/ QueuesEntry(new) \/ QueuesIndex(new)

(* The entry at hand. *)
LEMMA AtHand ==
  ASSUME SocketInv, Turn
  PROVE  /\ cur \in 1..Len(pollFds) /\ Len(pollFds) \in Nat
         /\ pollFds[cur] \in EntryType
         /\ cur <= NumPorts => Here = Ports[cur]
         /\ "OUT" \in pollFds[cur].revents => cur > NumPorts
         /\ cur > NumPorts => /\ Here \in Handled /\ Here \notin Range(Ports) /\ Here \in Fds
                              /\ cur \in NumPorts + 1 .. Len(pollFds)
         /\ Client \in BufferType
<1> USE DEF SocketInv
<1>1. /\ pollFds \in Seq(EntryType) /\ cur \in 1..Len(pollFds) + 1 /\ numClients \in Nat
      /\ Len(pollFds) \in Nat /\ NumPorts \in Nat
  BY PortsFacts, LenProperties DEF TypeOK
<1>2. cur \in 1..Len(pollFds)
  BY <1>1 DEF VectorsOK, Turn
<1>3. pollFds[cur] \in EntryType
  BY <1>1, <1>2, ElementOfSeq
<1>4. cur <= NumPorts => Here = Ports[cur]
  BY <1>1, <1>2 DEF VectorsOK, Here
<1>5. cur <= NumPorts => pollFds[cur].revents \subseteq {"IN"}
  BY <1>1, <1>2 DEF ListenersOK
<1>6. "OUT" \in pollFds[cur].revents => cur > NumPorts
  BY <1>1, <1>2, <1>5
<1>7. cur > NumPorts => Here \in Handled /\ cur \in NumPorts + 1 .. Len(pollFds)
  BY <1>1, <1>2 DEF ListenersOK, Here
<1>8. Client \in BufferType
  BY BufferGood DEF Client
<1> QED
  BY <1>1, <1>2, <1>3, <1>4, <1>6, <1>7, <1>8 DEF Handled

LEMMA NextTurnRange ==
  ASSUME SocketInv, NEW pf, NEW k \in 1..Len(pollFds) + 1
  PROVE  NextTurn(pf, k) \in k..Len(pollFds) + 1
<1> DEFINE ready == { n \in k..NumPorts + numClients : pf[n].revents \cap {"IN", "OUT"} # {} }
<1>1. NumPorts + numClients = Len(pollFds) /\ Len(pollFds) \in Nat
  BY LenProperties DEF SocketInv, VectorsOK, TypeOK
<1>2. ready \in SUBSET Nat
  BY <1>1
<1>3. CASE ready = {}
  BY <1>1, <1>3 DEF NextTurn
<1>4. CASE ready # {}
  <2> HIDE DEF ready
  <2>1. Min(ready) \in ready
    BY <1>2, <1>4, MinIsMember
  <2>2. NextTurn(pf, k) = Min(ready)
    BY <1>4 DEF NextTurn, ready
  <2> QED
    BY <1>1, <2>1, <2>2 DEF ready
<1> QED
  BY <1>3, <1>4

LEMMA HandlerTurnMaps ==
  ASSUME SocketInv, HandlerTurn
  PROVE  [Bookkeeping!Next]_Bookkeeping!vars
<1>1. pc = "handle" /\ pc' = "handle" /\ UNCHANGED numClients
  BY DEF HandlerTurn, Turn, EndTurn
<1>2. /\ pollFds \in Seq(EntryType) /\ addPollFds \in Seq(EntryType)
      /\ Len(pollFds) = NumPorts + numClients
  BY DEF SocketInv, TypeOK, VectorsOK
<1>3. FdsOf(pollFds') = FdsOf(pollFds) /\ Len(FdsOf(pollFds)) = Len(pollFds)
  BY <1>2, FdsOfSame, FdsOfType DEF HandlerTurn
<1>4. PICK new \in SUBSET Handled : QueuesNothing(new) \/ QueuesEntry(new) \/ QueuesIndex(new)
  BY DEF HandlerTurn
<1>5. CASE QueuesNothing(new)
  BY <1>1, <1>3, <1>5 DEF QueuesNothing, Bookkeeping!vars
<1>6. CASE QueuesEntry(new)
  <2>1. PICK e \in EntryType : addPollFds' = Append(addPollFds, e)
    BY <1>6 DEF QueuesEntry
  <2>2. FdsOf(addPollFds') = Append(FdsOf(addPollFds), e.fd) /\ e.fd \in Fds
    BY <1>2, <2>1, FdsOfAppend DEF EntryType
  <2>3. Bookkeeping!CreateClient(e.fd)
    BY <1>1, <1>3, <1>6, <2>2 DEF QueuesEntry, Bookkeeping!CreateClient
  <2> QED
    BY <2>2, <2>3 DEF Bookkeeping!Next
<1>7. CASE QueuesIndex(new)
  <2>1. cur \in NumPorts + 1 .. NumPorts + numClients /\ cur \in 1..Len(FdsOf(pollFds))
    BY <1>2, <1>3, <1>7, AtHand DEF QueuesIndex, HandlerTurn
  <2>2. Bookkeeping!NumPorts = NumPorts
    BY DEF Bookkeeping!NumPorts, NumPorts
  <2>3. Bookkeeping!PushDelPollFd(cur)
    BY <1>1, <1>3, <1>7, <2>1, <2>2 DEF QueuesIndex, Bookkeeping!PushDelPollFd
  <2> QED
    BY <2>1, <2>3 DEF Bookkeeping!Next
<1> QED
  BY <1>4, <1>5, <1>6, <1>7

LEMMA HandlerTurnKeeps ==
  ASSUME SocketInv, HandlerTurn
  PROVE  SocketInv'
<1> USE DEF SocketInv
<1>1. /\ pc = "handle" /\ pc' = "handle" /\ UNCHANGED <<numClients, now, up>>
      /\ cur' = NextTurn(pollFds, cur + 1)
  BY DEF HandlerTurn, Turn, EndTurn
<1>2. /\ pollFds \in Seq(EntryType) /\ Len(pollFds) \in Nat /\ NumPorts \in Nat
      /\ cur \in 1..Len(pollFds) /\ cur + 1 \in 1..Len(pollFds) + 1
      /\ Len(pollFds) = NumPorts + numClients
  BY AtHand, PortsFacts DEF TypeOK, HandlerTurn, VectorsOK
<1>3. cur' \in cur + 1 .. Len(pollFds) + 1
  BY <1>1, <1>2, NextTurnRange
<1>4. SameEntries(pollFds, pollFds')
  BY DEF HandlerTurn
<1>5. PICK new \in SUBSET Handled :
        /\ FilesOK(files, files', new)
        /\ QueuesNothing(new) \/ QueuesEntry(new) \/ QueuesIndex(new)
  BY DEF HandlerTurn
<1>6. addPollFds' \in Seq(EntryType) /\ delIndex' \in Seq(Nat)
  <2>1. CASE QueuesNothing(new)
    BY <2>1 DEF QueuesNothing, TypeOK
  <2>2. CASE QueuesEntry(new)
    BY <2>2, AppendProperties DEF QueuesEntry, TypeOK
  <2>3. CASE QueuesIndex(new)
    BY <1>2, <2>3, AppendProperties DEF QueuesIndex, TypeOK
  <2> QED
    BY <1>5, <2>1, <2>2, <2>3
<1>7. TypeOK'
  <2>1. files' \in [Fds -> Object] /\ pollFds' \in Seq(EntryType) /\ Len(pollFds') = Len(pollFds)
    BY <1>4, <1>5 DEF FilesOK, SameEntries
  <2>2. clients' \in [DOMAIN clients' -> BufferType]
    BY DEF HandlerTurn, GoodClients
  <2>3. cur' \in 1..Len(pollFds') + 1
    BY <1>2, <1>3, <2>1
  <2> QED
    BY <1>1, <1>6, <2>1, <2>2, <2>3 DEF TypeOK, HandlerTurn, ConnsOK
<1>8. Proved!IInv'
  BY HandlerTurnMaps, StepKeepsProved
<1>9. VectorsOK'
  BY <1>7, <1>8, ProvedVectorsNext
<1>10. ListenersOK'
  <2>1. \A p \in Range(Ports) : files'[p] = Obj("lsn", 0)
    BY <1>5 DEF FilesOK, ListenersOK
  <2>2. \A i \in 1..NumPorts : pollFds'[i].events = "IN" /\ pollFds'[i].revents \subseteq {"IN"}
    BY <1>2, <1>4 DEF SameEntries, ListenersOK, TypeOK
  <2>3. \A i \in NumPorts + 1 .. Len(pollFds') : pollFds'[i].fd \in Handled
    BY <1>2, <1>4 DEF SameEntries, ListenersOK
  <2>4. ASSUME NEW i \in DOMAIN addPollFds'
        PROVE  addPollFds'[i].fd \in Handled
    <3>1. CASE QueuesNothing(new) \/ QueuesIndex(new)
      BY <3>1 DEF QueuesNothing, QueuesIndex, ListenersOK
    <3>2. CASE QueuesEntry(new)
      <4>1. PICK e \in EntryType : addPollFds' = Append(addPollFds, e) /\ new = {e.fd}
        BY <3>2 DEF QueuesEntry
      <4>2. addPollFds'[i] = e \/ (i \in DOMAIN addPollFds /\ addPollFds'[i] = addPollFds[i])
        BY SMTT(30), <4>1, AppendProperties, LenProperties DEF TypeOK
      <4> QED
        BY <4>1, <4>2 DEF ListenersOK
    <3> QED
      BY <1>5, <3>1, <3>2
  <2> QED
    BY <2>1, <2>2, <2>3, <2>4 DEF ListenersOK, NumPorts
<1>11. BacklogOK'
  <2> SUFFICES ASSUME NEW i \in cur'..NumPorts, "IN" \in pollFds'[i].revents
               PROVE  \E c \in Conn : Waits(c, Ports[i])'
    BY DEF BacklogOK, NumPorts
  <2>0. NumPorts <= Len(pollFds)
    BY <1>2 DEF TypeOK
  <2>1. i \in cur..NumPorts /\ i > cur /\ i \in 1..Len(pollFds) /\ i \in 1..NumPorts /\ cur \in 1..NumPorts
    <3> HIDE DEF SocketInv
    <3> QED BY SMTT(30), <1>2, <1>3, <2>0
  <2>2. "IN" \in pollFds[i].revents
    BY <1>4, <2>1 DEF SameEntries
  <2>3. PICK c \in Conn : Waits(c, Ports[i])
    BY <1>1, <2>1, <2>2 DEF BacklogOK
  <2>4. Here = Ports[cur] /\ Ports[cur] # Ports[i]
    BY <1>2, <2>1, PortsFacts, AtHand DEF HandlerTurn
  <2>5. Waits(c, Ports[i])'
    BY <2>3, <2>4 DEF Waits, HandlerTurn
  <2> QED
    BY <2>5
<1>12. CursorOK'
  BY <1>1 DEF CursorOK
<1>13. WatchedDescriptors'
  <2> SUFFICES ASSUME NEW fd \in Fds, files'[fd].kind \in {"conn", "out"}
               PROVE  \/ \E i \in DOMAIN pollFds' : pollFds'[i].fd = fd
                      \/ \E i \in DOMAIN addPollFds' : addPollFds'[i].fd = fd
    BY DEF WatchedDescriptors
  <2>1. CASE fd \in new
    <3>1. QueuesEntry(new)
      BY <1>5, <2>1 DEF QueuesNothing, QueuesIndex
    <3>2. PICK e \in EntryType : addPollFds' = Append(addPollFds, e) /\ e.fd = fd
      BY <2>1, <3>1 DEF QueuesEntry
    <3>3. addPollFds'[Len(addPollFds) + 1] = e /\ Len(addPollFds) + 1 \in DOMAIN addPollFds'
      BY <3>2, AppendProperties, LenProperties DEF TypeOK
    <3> QED
      BY <3>2, <3>3
  <2>2. CASE files[fd].kind \in {"conn", "out"}
    <3>1. CASE \E i \in DOMAIN pollFds : pollFds[i].fd = fd
      BY <1>2, <1>4, <3>1, LenProperties DEF SameEntries
    <3>2. CASE \E i \in DOMAIN addPollFds : addPollFds[i].fd = fd
      <4>1. PICK i \in DOMAIN addPollFds : addPollFds[i].fd = fd
        BY <3>2
      <4>2. i \in DOMAIN addPollFds' /\ addPollFds'[i] = addPollFds[i]
        <5>1. addPollFds' = addPollFds \/ \E e \in EntryType : addPollFds' = Append(addPollFds, e)
          BY <1>5 DEF QueuesNothing, QueuesEntry, QueuesIndex
        <5> QED
          BY SMTT(30), <4>1, <5>1, AppendProperties, LenProperties DEF TypeOK
      <4> QED
        BY <4>1, <4>2
    <3> QED
      BY <2>2, <3>1, <3>2 DEF WatchedDescriptors
  <2> QED
    BY <1>5, <2>1, <2>2 DEF FilesOK
<1>14. GoodClients(clients')
  BY DEF HandlerTurn
<1> QED
  BY <1>7, <1>8, <1>9, <1>10, <1>11, <1>12, <1>13, <1>14 DEF GoodClients

LEMMA TypesOfState ==
  ASSUME SocketInv
  PROVE  /\ files \in [Fds -> Object] /\ jobs \in [Job -> JobType] /\ ConnsOK(conns)
         /\ now \in 1..MaxNow /\ now \in 0..MaxNow /\ GoodClients(clients)
         /\ pollFds \in Seq(EntryType) /\ addPollFds \in Seq(EntryType)
         /\ \A p \in Range(Ports) : files[p] = Obj("lsn", 0)
BY BoundsAssumption DEF SocketInv, TypeOK, ConnsOK, ListenersOK

(* The entry accept() or pipe() leads to. *)
LEMMA CreateClientEntryType ==
  ASSUME NEW fd \in Handled, NEW st
  PROVE  CreateClientEntry(fd, st) \in EntryType /\ CreateClientEntry(fd, st).fd = fd
BY PortsFacts DEF CreateClientEntry, Entry, EntryType

(* A turn that queues nothing and leaves the descriptor table and the peers
   alone, or hands a peer an answer. *)
LEMMA QuietTurn ==
  ASSUME SocketInv, Turn, EndTurn, UNCHANGED <<up, files, addPollFds, delIndex>>,
         SameEntries(pollFds, pollFds'), GoodClients(clients'), jobs' \in [Job -> JobType],
         ConnsOK(conns'),
         \A c \in Conn : conns'[c].st = conns[c].st /\ conns'[c].port = conns[c].port
  PROVE  HandlerTurn
<1>1. FilesOK(files, files', {})
  BY FilesItself, TypesOfState
<1>2. QueuesNothing({}) /\ {} \in SUBSET Handled
  BY DEF QueuesNothing
<1> QED
  BY <1>1, <1>2 DEF HandlerTurn

LEMMA EventsAtHand ==
  ASSUME SocketInv, Turn, cur > NumPorts, NEW ev \in {"IN", "OUT", "none"}
  PROVE  SameEntries(pollFds, SetEvents(pollFds, cur, ev))
BY AtHand, TypesOfState, SameItself, SetEventsSame

LEMMA BecomesTurn ==
  ASSUME SocketInv, Turn, cur > NumPorts, NEW b \in BufferType,
         NEW ev \in {"IN", "OUT", "none"}, Becomes(b, ev)
  PROVE  GoodClients(clients') /\ SameEntries(pollFds, pollFds')
BY AtHand, TypesOfState, PutGood, EventsAtHand DEF Becomes

(* What the peer is handed when an answer is complete. *)
LEMMA ConnsGot ==
  ASSUME NEW cs, ConnsOK(cs), NEW c \in Conn,
         NEW a \in [conn : Conn \cup {0}, n : 0..MaxRequests, what : {"nothing", "doc", "error"}]
  PROVE  ConnsOK([cs EXCEPT ![c].got = Append(@, a)])
<1> DEFINE new == [cs[c] EXCEPT !.got = Append(@, a)]
<1>1. cs[c] \in ConnType
  BY DEF ConnsOK
<1>2. cs[c].got \in Seq([conn : Conn \cup {0}, n : 0..MaxRequests, what : {"nothing", "doc", "error"}])
  BY <1>1 DEF ConnType
<1>3. Append(cs[c].got, a) \in Seq([conn : Conn \cup {0}, n : 0..MaxRequests, what : {"nothing", "doc", "error"}])
  BY <1>2, AppendProperties
<1>4. new \in ConnType /\ new.asked = cs[c].asked /\ new.unread = cs[c].unread
  BY <1>1, <1>3 DEF ConnType
<1>5. [cs EXCEPT ![c].got = Append(@, a)] = [cs EXCEPT ![c] = new]
  OBVIOUS
<1> HIDE DEF new
<1> QED
  BY <1>4, <1>5 DEF ConnsOK

LEMMA WriteSomeTurn ==
  ASSUME SocketInv, Turn, cur > NumPorts, NEW b \in BufferType, WriteSome(b)
  PROVE  /\ GoodClients(clients') /\ ConnsOK(conns')
         /\ \A c \in Conn : conns'[c].st = conns[c].st /\ conns'[c].port = conns[c].port
<1> DEFINE sent == [conn |-> b.response.to.conn, n |-> b.response.to.n, what |-> b.response.what]
<1>1. PICK n \in 1..b.response.left :
        LET left == b.response.left - n
        IN /\ clients' = Put(clients, Here,
                [b EXCEPT !.response = IF left = 0 THEN Nothing ELSE [@ EXCEPT !.left = left]])
           /\ conns' = IF left = 0 /\ files[Here].kind = "conn"
                       THEN [conns EXCEPT ![files[Here].id].got = Append(@, sent)]
                       ELSE conns
  BY DEF WriteSome
<1>2. b.response \in ResponseType /\ b.response.left \in 0..Writes
  BY DEF BufferType, ResponseType
<1>3. [b.response EXCEPT !.left = b.response.left - n] \in ResponseType
  BY <1>2, BoundsAssumption DEF ResponseType
<1>4. ASSUME NEW r \in ResponseType
      PROVE  [b EXCEPT !.response = r] \in BufferType
  BY DEF BufferType
<1>5. GoodClients(clients')
  <2>1. \E r \in ResponseType : clients' = Put(clients, Here, [b EXCEPT !.response = r])
    BY <1>1, <1>3, BaseTypes
  <2> QED
    BY <1>4, <2>1, AtHand, TypesOfState, PutGood
<1>6. sent \in [conn : Conn \cup {0}, n : 0..MaxRequests, what : {"nothing", "doc", "error"}]
  BY <1>2 DEF ResponseType, HttpType
<1>7. files[Here].kind = "conn" => files[Here].id \in Conn
  BY AtHand, TypesOfState DEF Object
<1> HIDE DEF sent
<1>8. conns' = conns \/ \E c \in Conn : conns' = [conns EXCEPT ![c].got = Append(@, sent)]
  BY <1>1, <1>7 DEF sent
<1>9. ConnsOK(conns')
  BY <1>6, <1>8, ConnsGot, TypesOfState
<1>10. \A c \in Conn : conns[c] \in ConnType
  BY TypesOfState DEF ConnsOK
<1>11. \A c \in Conn : conns'[c].st = conns[c].st /\ conns'[c].port = conns[c].port
  <2>1. \A c \in Conn : conns'[c] = conns[c] \/ \E g : conns'[c] = [conns[c] EXCEPT !.got = g]
    BY <1>8, TypesOfState DEF ConnsOK
  <2> SUFFICES ASSUME NEW c \in Conn
               PROVE  conns'[c].st = conns[c].st /\ conns'[c].port = conns[c].port
    OBVIOUS
  <2>2. CASE conns'[c] = conns[c]
    BY <2>2
  <2>3. CASE \E g : conns'[c] = [conns[c] EXCEPT !.got = g]
    <3>1. PICK g : conns'[c] = [conns[c] EXCEPT !.got = g]
      BY <2>3
    <3>2. conns[c] \in ConnType
      BY <1>10
    <3>3. /\ [conns[c] EXCEPT !.got = g].st = conns[c].st
          /\ [conns[c] EXCEPT !.got = g].port = conns[c].port
      BY <3>2 DEF ConnType
    <3> QED
      BY <3>1, <3>3
  <2> QED
    BY <2>1, <2>2, <2>3
<1> QED
  BY <1>5, <1>9, <1>11

LEMMA SameKernel ==
  ASSUME SocketInv
  PROVE  /\ UNCHANGED jobs => jobs' \in [Job -> JobType]
         /\ UNCHANGED conns => /\ ConnsOK(conns')
                               /\ \A c \in Conn : /\ conns'[c].st = conns[c].st
                                                  /\ conns'[c].port = conns[c].port
         /\ UNCHANGED pollFds => SameEntries(pollFds, pollFds')
         /\ UNCHANGED clients => GoodClients(clients')
BY TypesOfState, SameItself DEF ConnsOK

LEMMA NoHandlerTurn ==
  ASSUME SocketInv, NoHandler
  PROVE  HandlerTurn
<1>1. GoodClients(clients')
  BY TypesOfState, TouchGood DEF NoHandler
<1> QED
  BY <1>1, SameKernel, QuietTurn DEF NoHandler

LEMMA ExecCoreHandlerTurn ==
  ASSUME SocketInv, ExecCoreHandler
  PROVE  HandlerTurn
<1> USE DEF ExecCoreHandler, OutTurn
<1>1. Turn /\ cur > NumPorts /\ Client \in BufferType
  BY AtHand
<1> DEFINE b == [Client EXCEPT !.state = "WRITE_RESPONSE", !.last = now,
                               !.response = Answer(Client.http, "doc")]
<1>2. b \in BufferType
  <2>1. Answer(Client.http, "doc") \in ResponseType
    BY <1>1, BaseTypes DEF BufferType
  <2> QED
    BY <1>1, <2>1, TypesOfState DEF BufferType, State
<1>3. Becomes(b, "OUT")
  OBVIOUS
<1> HIDE DEF b
<1> QED
  BY <1>1, <1>2, <1>3, BecomesTurn, SameKernel, QuietTurn

LEMMA ExecCgiRefusedTurn ==
  ASSUME SocketInv, ExecCgiRefused
  PROVE  HandlerTurn
<1> USE DEF ExecCgiRefused, OutTurn
<1>1. Turn /\ cur > NumPorts /\ Client \in BufferType
  BY AtHand
<1> DEFINE b == [Client EXCEPT !.state = "WRITE_REQUEST_ERROR", !.last = now,
                               !.response = Answer(Client.http, "error")]
<1>2. b \in BufferType
  <2>1. Answer(Client.http, "error") \in ResponseType
    BY <1>1, BaseTypes DEF BufferType
  <2> QED
    BY <1>1, <2>1, TypesOfState DEF BufferType, State
<1>3. Becomes(b, "OUT")
  OBVIOUS
<1> HIDE DEF b
<1> QED
  BY <1>1, <1>2, <1>3, BecomesTurn, SameKernel, QuietTurn

LEMMA ExecWriteResponseTurn ==
  ASSUME SocketInv, ExecWriteResponse
  PROVE  HandlerTurn
<1> USE DEF ExecWriteResponse, OutTurn
<1>1. Turn /\ cur > NumPorts /\ Client \in BufferType
  BY AtHand
<1> DEFINE b == [Client EXCEPT !.last = now]
<1>2. b \in BufferType /\ b.http \in HttpType
  BY <1>1, TypesOfState DEF BufferType
<1>3. CASE WriteSome(b) /\ UNCHANGED pollFds
  <2> HIDE DEF b
  <2> QED
    BY <1>1, <1>2, <1>3, WriteSomeTurn, SameKernel, QuietTurn
<1>4. CASE /\ Becomes([b EXCEPT !.state = "READ_REQUEST", !.response = Nothing, !.redirects = 0,
                               !.cgiPid = -1, !.isClosed = @ \/ b.http.close], "IN")
           /\ UNCHANGED conns
  <2> HIDE DEF b
  <2>1. [b EXCEPT !.state = "READ_REQUEST", !.response = Nothing, !.redirects = 0,
                  !.cgiPid = -1, !.isClosed = @ \/ b.http.close] \in BufferType
    <3>1. (b.isClosed \/ b.http.close) \in BOOLEAN /\ 0 \in Nat
      BY <1>2 DEF BufferType, HttpType
    <3> QED
      BY <1>2, <3>1, BaseTypes DEF BufferType, State
  <2> QED
    BY <1>1, <1>4, <2>1, BecomesTurn, SameKernel, QuietTurn
<1>5. CASE /\ Becomes([b EXCEPT !.state = "WRITE_REQUEST_ERROR",
                               !.response = Answer(b.http, "error")], "OUT")
           /\ UNCHANGED conns
  <2> HIDE DEF b
  <2>1. Answer(b.http, "error") \in ResponseType
    BY <1>2, BaseTypes
  <2>2. [b EXCEPT !.state = "WRITE_REQUEST_ERROR", !.response = Answer(b.http, "error")]
          \in BufferType
    BY <1>2, <2>1 DEF BufferType, State
  <2> QED
    BY <1>1, <1>5, <2>2, BecomesTurn, SameKernel, QuietTurn
<1> QED
  BY <1>3, <1>4, <1>5

LEMMA ExecWriteCgiTurn ==
  ASSUME SocketInv, ExecWriteCgi
  PROVE  HandlerTurn
<1> USE DEF ExecWriteCgi, OutTurn
<1>1. Turn /\ cur > NumPorts /\ Client \in BufferType
  BY AtHand
<1> DEFINE b == [Client EXCEPT !.last = now]
<1>2. b \in BufferType /\ b.http \in HttpType /\ b.cgiFd \in Handled \cup {-1}
  BY <1>1, TypesOfState DEF BufferType
<1>3. CASE WriteSome(b) /\ UNCHANGED <<files, pollFds>>
  <2> HIDE DEF b
  <2> QED
    BY <1>1, <1>2, <1>3, WriteSomeTurn, SameKernel, QuietTurn
<1>4. CASE /\ files' = Close(files, b.cgiFd)
           /\ Becomes([b EXCEPT !.state = "READ_REQUEST", !.response = Nothing, !.cgiFd = -1,
                                !.isClosed = @ \/ b.http.close], "IN")
           /\ UNCHANGED conns
  <2> HIDE DEF b
  <2>1. [b EXCEPT !.state = "READ_REQUEST", !.response = Nothing, !.cgiFd = -1,
                  !.isClosed = @ \/ b.http.close] \in BufferType
    BY ZenonT(60), <1>2, BaseTypes DEF BufferType, HttpType, State
  <2>2. b.cgiFd \notin Range(Ports)
    BY <1>2, PortsFacts DEF Handled
  <2>3. FilesOK(files, files', {})
    BY <1>4, <2>2, FilesClose, FilesItself, TypesOfState
  <2>4. QueuesNothing({}) /\ {} \in SUBSET Handled
    BY DEF QueuesNothing
  <2> QED
    BY <1>1, <1>4, <2>1, <2>3, <2>4, BecomesTurn, SameKernel DEF HandlerTurn
<1>5. CASE Becomes(b, "OUT") /\ UNCHANGED <<files, conns>>
  <2> HIDE DEF b
  <2> QED
    BY <1>1, <1>2, <1>5, BecomesTurn, SameKernel, QuietTurn
<1> QED
  BY <1>3, <1>4, <1>5

LEMMA ExecWriteErrorTurn ==
  ASSUME SocketInv, ExecWriteError
  PROVE  HandlerTurn
<1> USE DEF ExecWriteError, OutTurn
<1>1. Turn /\ cur > NumPorts /\ Client \in BufferType
  BY AtHand
<1>2. CASE /\ WriteSome(Client)
           /\ pollFds' = SetEvents(pollFds, cur, "OUT")
           /\ UNCHANGED <<files, delIndex>>
  BY <1>1, <1>2, WriteSomeTurn, EventsAtHand, SameKernel, QuietTurn
<1>3. ASSUME NEW ev \in {"OUT", "none"}, pollFds' = SetEvents(pollFds, cur, ev),
             PushDelPollFd(cur, clients), UNCHANGED conns
      PROVE  HandlerTurn
  <2>1. Here \notin Range(Ports) /\ files' = Close(files, Here) /\ clients' = Forget(clients, Here)
    BY <1>1, <1>3, AtHand DEF PushDelPollFd, Here
  <2>2. FilesOK(files, files', {})
    BY <2>1, FilesClose, FilesItself, TypesOfState
  <2>3. QueuesIndex({}) /\ {} \in SUBSET Handled
    BY <1>1, <1>3 DEF QueuesIndex, PushDelPollFd
  <2>4. GoodClients(clients')
    BY <2>1, ForgetGood, TypesOfState
  <2> QED
    BY <1>1, <1>3, <2>2, <2>3, <2>4, EventsAtHand, SameKernel DEF HandlerTurn
<1> QED
  BY <1>2, <1>3

(* What is left of x after n of it were written. *)
LEMMA LessLeft ==
  ASSUME NEW w \in Nat, NEW x \in 0..w, NEW n \in 1..x
  PROVE  x - n \in 0..w
OBVIOUS

LEMMA ExecWriteCGIBodyTurn ==
  ASSUME SocketInv, ExecWriteCGIBody
  PROVE  HandlerTurn
<1> USE DEF ExecWriteCGIBody, OutTurn
<1>1. Turn /\ cur > NumPorts /\ Client \in BufferType
  BY AtHand
<1> DEFINE b == [Client EXCEPT !.last = now]
           cl == Put(clients, Here, b)
<1>2. b \in BufferType /\ b.body \in 0..Writes /\ b.clientFd \in Handled
  BY <1>1, TypesOfState DEF BufferType
<1>3. CASE /\ \E n \in 1..b.body : clients' = Put(clients, Here, [b EXCEPT !.body = @ - n])
           /\ UNCHANGED pollFds
  <2> HIDE DEF b
  <2>1. PICK n \in 1..b.body : clients' = Put(clients, Here, [b EXCEPT !.body = @ - n])
    BY <1>3
  <2>2. b.body - n \in 0..Writes
    <3>1. Writes \in Nat /\ n \in 1..b.body
      BY <2>1, BoundsAssumption
    <3> QED
      BY <1>2, <3>1, LessLeft
  <2>3. [b EXCEPT !.body = @ - n] \in BufferType
    BY <1>2, <2>2 DEF BufferType
  <2>4. GoodClients(clients')
    BY <1>1, <2>1, <2>3, AtHand, PutGood, TypesOfState
  <2> QED
    BY <1>3, <2>4, SameKernel, QuietTurn
<1>4. CASE /\ pollFds' = SetEvents(pollFds, cur, "none")
           /\ clients' = Put(cl, b.clientFd, [Buffer(cl, b.clientFd) EXCEPT !.state = "EXEC_CGI"])
  <2>1. GoodClients(cl)
    BY <1>1, <1>2, AtHand, PutGood, TypesOfState
  <2> HIDE DEF b, cl
  <2>2. Buffer(cl, b.clientFd) \in BufferType
    BY <2>1, BufferGood
  <2>3. [Buffer(cl, b.clientFd) EXCEPT !.state = "EXEC_CGI"] \in BufferType
    BY <2>2 DEF BufferType, State
  <2>4. GoodClients(clients')
    BY <1>2, <1>4, <2>1, <2>3, PutGood DEF Handled
  <2> QED
    BY <1>1, <1>4, <2>4, EventsAtHand, SameKernel, QuietTurn
<1>5. CASE Becomes(b, "OUT")
  <2> HIDE DEF b
  <2> QED
    BY <1>1, <1>2, <1>5, BecomesTurn, SameKernel, QuietTurn
<1> QED
  BY <1>3, <1>4, <1>5

LEMMA JobChanges ==
  ASSUME NEW jb \in [Job -> JobType], NEW j \in Job,
         NEW st \in {"none", "made", "run", "done", "reaped"}, NEW http \in HttpType
  PROVE  /\ [jb EXCEPT ![j].st = st] \in [Job -> JobType]
         /\ [jb EXCEPT ![j].read = TRUE] \in [Job -> JobType]
         /\ [jb EXCEPT ![j].st = st, ![j].http = http] \in [Job -> JobType]
<1>1. jb[j] \in JobType
  OBVIOUS
<1>2. /\ [jb[j] EXCEPT !.st = st] \in JobType
      /\ [jb[j] EXCEPT !.read = TRUE] \in JobType
      /\ [jb[j] EXCEPT !.st = st, !.http = http] \in JobType
  BY <1>1 DEF JobType
<1>3. \A x \in JobType : [jb EXCEPT ![j] = x] \in [Job -> JobType]
  OBVIOUS
<1>4. /\ [jb EXCEPT ![j].st = st] = [jb EXCEPT ![j] = [jb[j] EXCEPT !.st = st]]
      /\ [jb EXCEPT ![j].read = TRUE] = [jb EXCEPT ![j] = [jb[j] EXCEPT !.read = TRUE]]
      /\ [jb EXCEPT ![j].st = st, ![j].http = http]
           = [jb EXCEPT ![j] = [jb[j] EXCEPT !.st = st, !.http = http]]
  OBVIOUS
<1> QED
  BY <1>2, <1>3, <1>4

LEMMA ExecWaitCgiChildTurn ==
  ASSUME SocketInv, ExecWaitCgiChild
  PROVE  HandlerTurn
<1> USE DEF ExecWaitCgiChild, InTurn
<1>1. Turn /\ cur > NumPorts /\ Client \in BufferType /\ Here \notin Range(Ports)
  BY AtHand
<1> DEFINE k == Client.clientFd
<1>2. k \notin Range(Ports)
  BY <1>1 DEF BufferType, Handled
<1>9. CASE UNCHANGED <<clients, pollFds, jobs>>
  BY <1>9, SameKernel, QuietTurn
<1> SUFFICES ASSUME NEW j \in Ended(Client.cgiPid),
                    /\ jobs' = [jobs EXCEPT ![j].st = "reaped"]
                    /\ \/ /\ jobs[j].ok
                          /\ Becomes([Client EXCEPT !.state = "READ_CGI"], "IN")
                       \/ /\ ~jobs[j].ok /\ k \in DOMAIN clients
                          /\ LET told == [clients EXCEPT ![k].state = "WRITE_REQUEST_ERROR",
                                                         ![k].response = Answer(jobs[j].http, "error")]
                             IN clients' = [told EXCEPT ![Here].state = "WAIT_CGI"]
                          /\ UNCHANGED pollFds
                       \/ /\ ~jobs[j].ok /\ k \notin DOMAIN clients
                          /\ UNCHANGED <<clients, pollFds>>
             PROVE  HandlerTurn
  BY <1>9
<1>10. j \in Job
  BY DEF Ended, Named
<1>3. jobs' \in [Job -> JobType]
  <2>2. jobs \in [Job -> JobType] /\ NoHttp \in HttpType
    BY TypesOfState, BaseTypes
  <2>3. [jobs EXCEPT ![j].st = "reaped"] \in [Job -> JobType]
    BY <1>10, <2>2, JobChanges
  <2> QED
    BY <2>3
<1>4. GoodClients(clients') /\ SameEntries(pollFds, pollFds')
  <2>1. CASE Becomes([Client EXCEPT !.state = "READ_CGI"], "IN")
    <3>1. [Client EXCEPT !.state = "READ_CGI"] \in BufferType
      BY <1>1 DEF BufferType, State
    <3> QED
      BY <1>1, <2>1, <3>1, BecomesTurn
  <2>2. CASE /\ k \in DOMAIN clients
             /\ LET told == [clients EXCEPT ![k].state = "WRITE_REQUEST_ERROR",
                                            ![k].response = Answer(jobs[j].http, "error")]
                IN clients' = [told EXCEPT ![Here].state = "WAIT_CGI"]
             /\ UNCHANGED pollFds
    <3> DEFINE r == Answer(jobs[j].http, "error")
               kb == [clients[k] EXCEPT !.state = "WRITE_REQUEST_ERROR", !.response = r]
               told == [clients EXCEPT ![k] = kb]
    <3>1. r \in ResponseType
      BY <1>10, TypesOfState, BaseTypes DEF JobType
    <3>2. clients[k] \in BufferType
      BY <2>2, TypesOfState DEF GoodClients
    <3>3. clients' = [told EXCEPT ![Here].state = "WAIT_CGI"]
      BY <2>2
    <3> HIDE DEF r, k
    <3>4. kb \in BufferType
      BY <3>1, <3>2 DEF BufferType, State
    <3> HIDE DEF kb
    <3>5. GoodClients(told)
      BY <1>2, <3>4, ChangeGood, TypesOfState
    <3> HIDE DEF told
    <3>6. CASE Here \in DOMAIN told
      <4>1. told[Here] \in BufferType
        BY <3>5, <3>6 DEF GoodClients
      <4>2. [told[Here] EXCEPT !.state = "WAIT_CGI"] \in BufferType
        BY <4>1 DEF BufferType, State
      <4>3. clients' = [told EXCEPT ![Here] = [told[Here] EXCEPT !.state = "WAIT_CGI"]]
        BY <3>3
      <4> QED
        <5> DEFINE hb == [told[Here] EXCEPT !.state = "WAIT_CGI"]
        <5>1. hb \in BufferType /\ clients' = [told EXCEPT ![Here] = hb]
          BY <4>2, <4>3
        <5> HIDE DEF hb
        <5>2. GoodClients(clients')
          BY <1>1, <3>5, <5>1, ChangeGood
        <5> QED
          BY <2>2, <5>2, SameItself, TypesOfState
    <3>7. CASE Here \notin DOMAIN told
      <4>1. clients' = told
        BY <3>3, <3>5, <3>7 DEF GoodClients
      <4> QED
        BY <2>2, <3>5, <4>1, SameItself, TypesOfState
    <3> QED
      BY <3>6, <3>7
  <2>3. CASE UNCHANGED <<clients, pollFds>>
    BY <2>3, SameKernel
  <2> QED
    BY <2>1, <2>2, <2>3
<1> QED
  BY <1>3, <1>4, SameKernel, QuietTurn

(* A buffer that is there is changed; one that is not stays away. *)
LEMMA ChangeIfThere ==
  ASSUME NEW cl, GoodClients(cl), NEW fd, fd \notin Range(Ports),
         NEW b, fd \in DOMAIN cl => b \in BufferType
  PROVE  GoodClients([cl EXCEPT ![fd] = b])
BY DEF GoodClients

LEMMA AcceptConnectionTurn ==
  ASSUME SocketInv, AcceptConnection
  PROVE  HandlerTurn
<1> USE DEF AcceptConnection
<1>1. Turn /\ cur <= NumPorts /\ cur \in 1..Len(pollFds) /\ "IN" \in pollFds[cur].revents
      /\ Here = Ports[cur] /\ cur \in 1..NumPorts
  BY AtHand, PortsFacts
<1>2. CASE UNCHANGED <<files, conns, addPollFds, clients>>
  BY <1>2, SameKernel, QuietTurn
<1>3. CASE HasFree(files)
  <2> DEFINE waiting == { d \in Conn : Waits(d, Here) }
             c == Min(waiting)
             fd == LowestFree(files)
             new == [conns[c] EXCEPT !.st = "open"]
  <2>1. c \in Conn /\ Waits(c, Here)
    <3>1. cur \in cur..NumPorts
      BY <1>1, PortsFacts
    <3>2. \E d \in Conn : Waits(d, Here)
      BY <1>1, <3>1 DEF SocketInv, BacklogOK, Turn
    <3>3. waiting \in SUBSET Nat /\ waiting # {}
      BY <3>2, NumbersAssumption
    <3> HIDE DEF waiting
    <3>4. c \in waiting
      BY <3>3, MinIsMember
    <3> QED
      BY <3>4 DEF waiting
  <2>2. fd \in Handled
    BY <1>3, LowestFreeIsFree, FreeIsHandled, TypesOfState
  <2>3. /\ files' = [files EXCEPT ![fd] = Obj("conn", c)]
        /\ conns' = [conns EXCEPT ![c].st = "open"]
        /\ addPollFds' = Append(addPollFds, CreateClientEntry(fd, "READ_REQUEST"))
        /\ clients' = CreateClientBuffer(clients, fd, "READ_REQUEST")
    BY <1>3 DEF Open
  <2> HIDE DEF c, fd
  <2>4. Obj("conn", c) \in Object
    BY <2>1 DEF Obj, Object
  <2>5. FilesOK(files, files', {fd})
    BY <2>2, <2>3, <2>4, FilesItself, FilesOpen, TypesOfState
  <2>6. QueuesEntry({fd}) /\ {fd} \in SUBSET Handled
    BY <2>2, <2>3, CreateClientEntryType DEF QueuesEntry
  <2>7. GoodClients(clients')
    BY <2>2, <2>3, TypesOfState, CreateClientGood DEF State
  <2>8. conns[c] \in ConnType /\ conns' = [conns EXCEPT ![c] = new]
    BY <2>1, <2>3, TypesOfState DEF ConnsOK
  <2>9. /\ new \in ConnType /\ new.asked = conns[c].asked /\ new.unread = conns[c].unread
        /\ new.port = conns[c].port
    BY <2>8 DEF ConnType
  <2> HIDE DEF new
  <2>10. ConnsOK(conns')
    BY <2>1, <2>8, <2>9, TypesOfState DEF ConnsOK
  <2>11. ASSUME NEW d \in Conn, conns[d].st = "queued"
         PROVE  \/ conns'[d].st = "queued" /\ conns'[d].port = conns[d].port
                \/ cur <= NumPorts /\ conns[d].port = Here
    <3>1. d # c => conns'[d] = conns[d]
      BY <2>8, TypesOfState DEF ConnsOK
    <3> QED
      BY <1>1, <2>1, <2>11, <3>1 DEF Waits
  <2> QED
    BY <1>1, <2>5, <2>6, <2>7, <2>10, <2>11, SameKernel DEF HandlerTurn
<1> QED
  BY <1>2, <1>3

LEMMA CgiBuffersGood ==
  ASSUME NEW cl, GoodClients(cl), NEW k \in Handled, NEW fd \in Handled, NEW j \in Job,
         now \in 1..MaxNow
  PROVE  GoodClients(CgiBuffers(cl, k, fd, j))
<1> DEFINE added == CreateClientBuffer(cl, fd, "WAIT_CGI_CHILD")
           fb == [added[fd] EXCEPT !.clientFd = k, !.cgiPid = j]
           piped == [added EXCEPT ![fd] = fb]
           kb == [piped[k] EXCEPT !.cgiPid = j, !.cgiFd = fd, !.state = "WAIT_CGI", !.last = now]
<1>0. fd \notin Range(Ports) /\ k \notin Range(Ports) /\ now \in 0..MaxNow
  BY BoundsAssumption DEF Handled
<1>1. CgiBuffers(cl, k, fd, j) = [piped EXCEPT ![k] = kb]
  BY DEF CgiBuffers
<1>2. GoodClients(added) /\ fd \in DOMAIN added
  <2>1. "WAIT_CGI_CHILD" \in State
    BY DEF State
  <2>2. /\ GoodClients(CreateClientBuffer(cl, fd, "WAIT_CGI_CHILD"))
        /\ DOMAIN CreateClientBuffer(cl, fd, "WAIT_CGI_CHILD") = DOMAIN cl \cup {fd}
    BY <2>1, CreateClientGood
  <2> QED
    BY <2>2
<1> HIDE DEF added
<1>3. fb \in BufferType
  <2>1. added[fd] \in BufferType
    BY <1>2 DEF GoodClients
  <2> QED
    BY <2>1 DEF BufferType
<1> HIDE DEF fb
<1>4. GoodClients(piped)
  BY <1>0, <1>2, <1>3, ChangeIfThere
<1> HIDE DEF piped
<1>5. k \in DOMAIN piped => kb \in BufferType
  <2> SUFFICES ASSUME k \in DOMAIN piped
               PROVE  kb \in BufferType
    OBVIOUS
  <2>1. piped[k] \in BufferType
    BY <1>4 DEF GoodClients
  <2> QED
    BY <1>0, <2>1 DEF BufferType, State
<1> HIDE DEF kb
<1>6. GoodClients([piped EXCEPT ![k] = kb])
  BY <1>0, <1>4, <1>5, ChangeIfThere
<1> QED
  BY <1>1, <1>6

LEMMA ExecCgiTurn ==
  ASSUME SocketInv, ExecCgi
  PROVE  HandlerTurn
<1> USE DEF ExecCgi, OutTurn
<1>1. Turn /\ cur > NumPorts /\ Client \in BufferType /\ Here \in Handled
  BY AtHand
<1> DEFINE cgi == Client.cgi
           j == IF jobs[cgi.job].st = "made" THEN cgi.job ELSE FreshJob(jobs)
           fd == LowestFree(files)
<1>2. cgi.r \in Handled /\ cgi.w \in Handled /\ cgi.job \in Job /\ Client.http \in HttpType
  BY <1>1 DEF BufferType, CgiType
<1>3. j \in Job
  BY <1>2, FreshJobIsFresh
<1>4. fd \in Handled
  BY LowestFreeIsFree, FreeIsHandled, TypesOfState DEF CanPipe
<1>5. /\ files' = Close(Close([files EXCEPT ![fd] = Obj("out", j)], cgi.r), cgi.w)
      /\ jobs' = [jobs EXCEPT ![j].st = "run", ![j].http = Client.http]
      /\ addPollFds' = Append(addPollFds, CreateClientEntry(fd, "WAIT_CGI_CHILD"))
      /\ clients' = CgiBuffers(clients, Here, fd, j)
      /\ pollFds' = SetEvents(pollFds, cur, "OUT")
  BY DEF CgiFiles, Open
<1> HIDE DEF cgi, j, fd
<1>6. Obj("out", j) \in Object
  BY <1>3 DEF Obj, Object
<1>7. cgi.r \notin Range(Ports) /\ cgi.w \notin Range(Ports)
  BY <1>2 DEF Handled
<1>8. FilesOK(files, files', {fd})
  <2> DEFINE opened == [files EXCEPT ![fd] = Obj("out", j)]
  <2>1. FilesOK(files, opened, {fd})
    BY <1>4, <1>6, FilesItself, FilesOpen, TypesOfState
  <2> HIDE DEF opened
  <2>2. FilesOK(files, Close(opened, cgi.r), {fd})
    BY <1>7, <2>1, FilesClose
  <2>3. FilesOK(files, Close(Close(opened, cgi.r), cgi.w), {fd})
    BY <1>7, <2>2, FilesClose
  <2> QED
    BY <1>5, <2>3 DEF opened
<1>9. QueuesEntry({fd}) /\ {fd} \in SUBSET Handled
  BY <1>4, <1>5, CreateClientEntryType DEF QueuesEntry
<1>10. GoodClients(clients')
  <2>1. GoodClients(CgiBuffers(clients, Here, fd, j))
    BY <1>1, <1>3, <1>4, CgiBuffersGood, TypesOfState
  <2> QED
    BY <1>5, <2>1
<1>11. jobs' \in [Job -> JobType]
  <2>1. [jobs EXCEPT ![j].st = "run", ![j].http = Client.http] \in [Job -> JobType]
    BY <1>2, <1>3, JobChanges, TypesOfState
  <2> QED
    BY <1>5, <2>1
<1> QED
  BY <1>1, <1>5, <1>8, <1>9, <1>10, <1>11, EventsAtHand, SameKernel DEF HandlerTurn

-----------------------------------------------------------------------------
(* Requests, from peers and from scripts *)

(* What parsing a request does to all but the connections. *)
Parses ==
  /\ SameEntries(pollFds, pollFds')
  /\ GoodClients(clients')
  /\ jobs' \in [Job -> JobType]
  /\ \E new \in SUBSET Handled :
       FilesOK(files, files', new) /\ (QueuesNothing(new) \/ QueuesEntry(new))

LEMMA ParsesQuietly ==
  ASSUME SocketInv, SameEntries(pollFds, pollFds'), GoodClients(clients'),
         jobs' \in [Job -> JobType], UNCHANGED <<files, addPollFds, delIndex>>
  PROVE  Parses
<1>1. FilesOK(files, files', {}) /\ QueuesNothing({}) /\ {} \in SUBSET Handled
  BY FilesItself, TypesOfState DEF QueuesNothing
<1> QED
  BY <1>1 DEF Parses

(* A pipe is opened for a script: nobody watches it, or, for a POST, its
   writing end is watched. *)
LEMMA MakeCgiParses ==
  ASSUME SocketInv, NEW jb \in [Job -> JobType], NEW http \in HttpType, NEW cl, GoodClients(cl),
         NEW fd \in Handled, fd \in DOMAIN cl, MakeCgi(jb, http, cl, fd),
         SameEntries(pollFds, pollFds'), UNCHANGED delIndex
  PROVE  Parses
<1> DEFINE j == FreshJob(jb)
           r == LowestFree(files)
           w == LowestFree(Open(files, Obj("stdinR", j)))
           made == Put(cl, fd, [cl[fd] EXCEPT !.cgi = [r |-> r, w |-> w, job |-> j]])
           added == CreateClientBuffer(made, w, "WRITE_CGI_BODY")
<1>1. j \in Job
  BY FreshJobIsFresh DEF MakeCgi
<1>2. Obj("stdinR", j) \in Object /\ Obj("stdinW", j) \in Object /\ Obj("stdinR", j) # Free
  BY <1>1 DEF Obj, Object, Free
<1>3. r \in Handled /\ w \in Handled
  <2>1. CanPipe(files) /\ files \in [Fds -> Object]
    BY TypesOfState DEF MakeCgi
  <2>2. r \in Fds /\ w \in Fds /\ files[r] = Free /\ files[w] = Free
    BY <1>2, <2>1, PipeEnds
  <2> QED
    BY <2>2, FreeIsHandled, TypesOfState
<1>4. /\ files' = [files EXCEPT ![r] = Obj("stdinR", j), ![w] = Obj("stdinW", j)]
      /\ jobs' = [jb EXCEPT ![j].st = "made", ![j].http = http]
      /\ \/ /\ clients' = Put(cl, fd, [cl[fd] EXCEPT !.cgi = [r |-> r, w |-> w, job |-> j],
                                                     !.state = "EXEC_CGI"])
            /\ UNCHANGED addPollFds
         \/ /\ addPollFds' = Append(addPollFds, CreateClientEntry(w, "WRITE_CGI_BODY"))
            /\ \E size \in 0..Writes :
                 clients' = [added EXCEPT ![w].clientFd = added[fd].clientFd,
                                          ![w].body = size, ![fd].state = "WAIT_CGI"]
  BY DEF MakeCgi
<1> HIDE DEF j, r, w
<1>5. jobs' \in [Job -> JobType]
  <2>1. [jb EXCEPT ![j].st = "made", ![j].http = http] \in [Job -> JobType]
    BY <1>1, JobChanges
  <2> QED
    BY <1>4, <2>1
<1>6. FilesOK(files, files', {}) /\ FilesOK(files, files', {w})
  <2> DEFINE f == [files EXCEPT ![r] = Obj("stdinR", j)]
             g == [f EXCEPT ![w] = Obj("stdinW", j)]
  <2>1. Obj("stdinR", j).kind \notin {"conn", "out"} /\ Obj("stdinW", j).kind \notin {"conn", "out"}
    BY DEF Obj
  <2>2. \A new : FilesOK(files, f, new)
    BY <1>2, <1>3, <2>1, FilesItself, FilesOpen, TypesOfState
  <2> HIDE DEF f
  <2>3. \A new : FilesOK(files, g, new)
    BY <1>2, <1>3, <2>1, <2>2, FilesOpen
  <2> QED
    BY <1>4, <2>3 DEF f
<1>7. fd \notin Range(Ports) /\ w \notin Range(Ports) /\ cl[fd] \in BufferType
  BY <1>3 DEF Handled, GoodClients
<1>8. [r |-> r, w |-> w, job |-> j] \in CgiType
  BY <1>1, <1>3 DEF CgiType
<1>9. GoodClients(made) /\ fd \in DOMAIN made
  <2>1. [cl[fd] EXCEPT !.cgi = [r |-> r, w |-> w, job |-> j]] \in BufferType
    BY <1>7, <1>8 DEF BufferType
  <2>2. \A b \in BufferType : GoodClients(Put(cl, fd, b)) /\ fd \in DOMAIN Put(cl, fd, b)
    BY <1>7, PutGood DEF Put
  <2> QED
    BY <2>1, <2>2
<1>10. CASE /\ clients' = Put(cl, fd, [cl[fd] EXCEPT !.cgi = [r |-> r, w |-> w, job |-> j],
                                                     !.state = "EXEC_CGI"])
            /\ UNCHANGED addPollFds
  <2>1. [cl[fd] EXCEPT !.cgi = [r |-> r, w |-> w, job |-> j], !.state = "EXEC_CGI"] \in BufferType
    BY <1>7, <1>8 DEF BufferType, State
  <2>2. \A b \in BufferType : GoodClients(Put(cl, fd, b))
    BY <1>7, PutGood
  <2>3. GoodClients(clients')
    BY <1>10, <2>1, <2>2
  <2>4. QueuesNothing({}) /\ {} \in SUBSET Handled
    BY <1>10 DEF QueuesNothing
  <2> QED
    BY <1>5, <1>6, <2>3, <2>4 DEF Parses
<1>11. CASE /\ addPollFds' = Append(addPollFds, CreateClientEntry(w, "WRITE_CGI_BODY"))
            /\ \E size \in 0..Writes :
                 clients' = [added EXCEPT ![w].clientFd = added[fd].clientFd,
                                          ![w].body = size, ![fd].state = "WAIT_CGI"]
  <2> PICK size \in 0..Writes :
             clients' = [added EXCEPT ![w].clientFd = added[fd].clientFd,
                                      ![w].body = size, ![fd].state = "WAIT_CGI"]
    BY <1>11
  <2> HIDE DEF made
  <2>1. GoodClients(added) /\ DOMAIN added = DOMAIN made \cup {w}
    <3>1. "WRITE_CGI_BODY" \in State
      BY DEF State
    <3>2. /\ GoodClients(CreateClientBuffer(made, w, "WRITE_CGI_BODY"))
          /\ DOMAIN CreateClientBuffer(made, w, "WRITE_CGI_BODY") = DOMAIN made \cup {w}
      BY <1>3, <1>9, <3>1, CreateClientGood, TypesOfState
    <3> QED
      BY <3>2
  <2> HIDE DEF added
  <2>2. added[w] \in BufferType /\ added[fd] \in BufferType
    BY <1>9, <2>1 DEF GoodClients
  <2> DEFINE wb == [added[w] EXCEPT !.clientFd = added[fd].clientFd, !.body = size]
             filled == [added EXCEPT ![w].clientFd = added[fd].clientFd, ![w].body = size]
  <2>3. wb \in BufferType
    <3>2. added[fd].clientFd \in Handled
      BY <2>2 DEF BufferType
    <3> QED
      BY <2>2, <3>2 DEF BufferType
  <2>4. filled = [added EXCEPT ![w] = wb]
    OBVIOUS
  <2> HIDE DEF wb, filled
  <2>5. GoodClients([added EXCEPT ![w] = wb])
    BY <1>7, <2>1, <2>3, ChangeIfThere
  <2>6. GoodClients(filled) /\ fd \in DOMAIN filled
    BY <1>9, <2>1, <2>4, <2>5
  <2> DEFINE fb == [filled[fd] EXCEPT !.state = "WAIT_CGI"]
  <2>7. fb \in BufferType
    <3>1. filled[fd] \in BufferType
      BY <2>6 DEF GoodClients
    <3> QED
      BY <3>1 DEF BufferType, State
  <2>8. clients' = [filled EXCEPT ![fd] = fb]
    BY DEF filled
  <2> HIDE DEF fb
  <2>9. GoodClients([filled EXCEPT ![fd] = fb])
    BY <1>7, <2>6, <2>7, ChangeIfThere
  <2>10. GoodClients(clients')
    BY <2>8, <2>9
  <2>11. QueuesEntry({w}) /\ {w} \in SUBSET Handled
    BY <1>3, <1>11, CreateClientEntryType DEF QueuesEntry
  <2> QED
    BY <1>5, <1>6, <2>10, <2>11 DEF Parses
<1> QED
  BY <1>4, <1>10, <1>11

LEMMA ExecParseRequestParses ==
  ASSUME SocketInv, UNCHANGED delIndex,
         NEW cl, GoodClients(cl), NEW pf, SameEntries(pollFds, pf),
         NEW i \in NumPorts + 1 .. Len(pollFds), pf[i].fd \in DOMAIN cl,
         NEW jb \in [Job -> JobType], NEW http \in HttpType,
         ExecParseRequest(cl, pf, jb, i, http)
  PROVE  Parses
<1> DEFINE fd == pf[i].fd
           b == [cl[fd] EXCEPT !.last = now]
<1>1. fd \in Handled /\ fd \notin Range(Ports)
  <2>1. i \in 1..Len(pollFds) /\ pollFds[i].fd \in Handled
    BY PortsFacts DEF SocketInv, ListenersOK
  <2> QED
    BY <2>1 DEF SameEntries, Handled
<1>2. cl[fd] \in BufferType
  BY DEF GoodClients
<1>3. \A ev \in {"IN", "OUT", "none"} : SameEntries(pollFds, SetEvents(pf, i, ev))
  BY SetEventsSame, TypesOfState
<1>4. b \in BufferType
  BY <1>2, TypesOfState DEF BufferType
<1>5. \/ /\ clients' = Put(cl, fd, [b EXCEPT !.state = "READ_REQUEST"])
         /\ pollFds' = SetEvents(pf, i, "IN")
         /\ jobs' = jb /\ UNCHANGED <<files, addPollFds>>
      \/ /\ clients' = Put(cl, fd, [b EXCEPT !.state = "WRITE_REQUEST_ERROR", !.http = http,
                                             !.response = Answer(http, "error")])
         /\ pollFds' = SetEvents(pf, i, "OUT")
         /\ jobs' = jb /\ UNCHANGED <<files, addPollFds>>
      \/ /\ clients' = Put(cl, fd, [b EXCEPT !.state = "EXEC_CORE_HANDLER", !.http = http])
         /\ pollFds' = SetEvents(pf, i, "OUT")
         /\ jobs' = jb /\ UNCHANGED <<files, addPollFds>>
      \/ /\ MakeCgi(jb, http, Put(cl, fd, [b EXCEPT !.http = http]), fd)
         /\ pollFds' = SetEvents(pf, i, "OUT")
  BY DEF ExecParseRequest
<1> HIDE DEF b, fd
<1>6. \A x \in BufferType : GoodClients(Put(cl, fd, x)) /\ fd \in DOMAIN Put(cl, fd, x)
  BY <1>1, PutGood DEF Put
<1>7. CASE /\ clients' = Put(cl, fd, [b EXCEPT !.state = "READ_REQUEST"])
           /\ pollFds' = SetEvents(pf, i, "IN")
           /\ jobs' = jb /\ UNCHANGED <<files, addPollFds>>
  <2>1. [b EXCEPT !.state = "READ_REQUEST"] \in BufferType
    BY <1>4 DEF BufferType, State
  <2>2. GoodClients(clients') /\ SameEntries(pollFds, pollFds')
    BY <1>3, <1>6, <1>7, <2>1
  <2> QED
    BY <1>7, <2>2, ParsesQuietly
<1>8. CASE /\ clients' = Put(cl, fd, [b EXCEPT !.state = "WRITE_REQUEST_ERROR", !.http = http,
                                               !.response = Answer(http, "error")])
           /\ pollFds' = SetEvents(pf, i, "OUT")
           /\ jobs' = jb /\ UNCHANGED <<files, addPollFds>>
  <2>1. Answer(http, "error") \in ResponseType
    BY BaseTypes
  <2>2. [b EXCEPT !.state = "WRITE_REQUEST_ERROR", !.http = http,
                  !.response = Answer(http, "error")] \in BufferType
    BY <1>4, <2>1 DEF BufferType, State
  <2>3. GoodClients(clients') /\ SameEntries(pollFds, pollFds')
    BY <1>3, <1>6, <1>8, <2>2
  <2> QED
    BY <1>8, <2>3, ParsesQuietly
<1>9. CASE /\ clients' = Put(cl, fd, [b EXCEPT !.state = "EXEC_CORE_HANDLER", !.http = http])
           /\ pollFds' = SetEvents(pf, i, "OUT")
           /\ jobs' = jb /\ UNCHANGED <<files, addPollFds>>
  <2>1. [b EXCEPT !.state = "EXEC_CORE_HANDLER", !.http = http] \in BufferType
    BY <1>4 DEF BufferType, State
  <2>2. GoodClients(clients') /\ SameEntries(pollFds, pollFds')
    BY <1>3, <1>6, <1>9, <2>1
  <2> QED
    BY <1>9, <2>2, ParsesQuietly
<1>10. CASE /\ MakeCgi(jb, http, Put(cl, fd, [b EXCEPT !.http = http]), fd)
            /\ pollFds' = SetEvents(pf, i, "OUT")
  <2> DEFINE c == Put(cl, fd, [b EXCEPT !.http = http])
  <2>1. [b EXCEPT !.http = http] \in BufferType
    BY <1>4 DEF BufferType
  <2>2. GoodClients(c) /\ fd \in DOMAIN c
    BY <1>6, <2>1
  <2>3. SameEntries(pollFds, pollFds') /\ MakeCgi(jb, http, c, fd)
    BY <1>3, <1>10
  <2> HIDE DEF c
  <2> QED
    BY <1>1, <2>2, <2>3, MakeCgiParses
<1> QED
  BY <1>5, <1>7, <1>8, <1>9, <1>10

(* A turn that parses a request and at most takes bytes from a connection. *)
LEMMA ParsesTurn ==
  ASSUME SocketInv, Turn, EndTurn, UNCHANGED <<up, delIndex>>, Parses, ConnsOK(conns'),
         \A c \in Conn : conns'[c].st = conns[c].st /\ conns'[c].port = conns[c].port
  PROVE  HandlerTurn
BY DEF Parses, HandlerTurn

(* The first k segments of connection c are read. *)
LEMMA ConnsRead ==
  ASSUME ConnsOK(conns), NEW c \in Conn, NEW k \in 1..Len(conns[c].unread),
         conns' = [conns EXCEPT ![c].unread = SubSeq(@, k + 1, Len(@))]
  PROVE  /\ ConnsOK(conns')
         /\ \A d \in Conn : conns'[d].st = conns[d].st /\ conns'[d].port = conns[d].port
<1> DEFINE u == conns[c].unread
           v == SubSeq(u, k + 1, Len(u))
           new == [conns[c] EXCEPT !.unread = v]
<1>1. conns[c] \in ConnType /\ u \in Seq(0..Len(conns[c].asked)) /\ u \in Seq(0..MaxRequests)
  BY DEF ConnsOK, ConnType
<1>2. ASSUME NEW S, u \in Seq(S)
      PROVE  v \in Seq(S)
  <2>1. Len(u) \in Nat
    BY <1>2, LenProperties
  <2>2. \A x \in k + 1 .. Len(u) : u[x] \in S
    BY <1>2, <2>1, ElementOfSeq
  <2> QED
    BY <1>2, <2>1, <2>2, SubSeqProperties
<1>3. v \in Seq(0..Len(conns[c].asked)) /\ v \in Seq(0..MaxRequests)
  BY <1>1, <1>2
<1> HIDE DEF u, v
<1>4. /\ new \in ConnType /\ new.asked = conns[c].asked /\ new.unread = v
      /\ new.st = conns[c].st /\ new.port = conns[c].port
  BY <1>1, <1>3 DEF ConnType
<1>5. conns' = [conns EXCEPT ![c] = new]
  BY DEF u, v
<1> HIDE DEF new
<1> QED
  BY <1>3, <1>4, <1>5 DEF ConnsOK

(* What was read of connection j is a request asked on it, or part of one. *)
LEMMA ReadHttpType ==
  ASSUME ConnsOK(conns), NEW j \in Conn, NEW k \in 1..Len(conns[j].unread)
  PROVE  (IF conns[j].unread[k] = 0 THEN Unfinished ELSE Http(j, conns[j].unread[k])) \in HttpType
<1> DEFINE n == conns[j].unread[k]
<1>1. /\ conns[j] \in ConnType /\ conns[j].unread \in Seq(0..Len(conns[j].asked))
      /\ Len(conns[j].asked) <= MaxRequests
  BY DEF ConnsOK
<1>2. conns[j].asked \in Seq(Request) /\ Len(conns[j].asked) \in Nat
  BY <1>1, LenProperties DEF ConnType
<1>3. n \in 0..Len(conns[j].asked)
  BY <1>1, ElementOfSeq
<1> HIDE DEF n
<1>4. CASE n = 0
  BY <1>4, BaseTypes DEF n
<1>5. CASE n # 0
  <2>1. n \in 1..Len(conns[j].asked) /\ n \in 0..MaxRequests
    BY <1>1, <1>2, <1>3, <1>5, BoundsAssumption
  <2>2. conns[j].asked[n] \in Request
    BY <1>2, <2>1, ElementOfSeq
  <2>3. /\ conns[j].asked[n].kind \in {"static", "bad", "get", "post", "nocgi"}
        /\ conns[j].asked[n].close \in BOOLEAN
    BY <2>2, RequestAssumption
  <2>4. Http(j, n) \in HttpType
    BY <2>1, <2>3 DEF Http, HttpType
  <2> QED
    BY <1>5, <2>4 DEF n
<1> QED
  BY <1>4, <1>5

LEMMA ExecReadRequestTurn ==
  ASSUME SocketInv, ExecReadRequest
  PROVE  HandlerTurn
<1> DEFINE cl == Touch(clients, Here)
           pf == SetEvents(pollFds, cur, "IN")
           j == files[Here].id
<1>1. /\ Turn /\ EndTurn /\ UNCHANGED <<up, delIndex>>
      /\ cur \in NumPorts + 1 .. Len(pollFds) /\ cur > NumPorts /\ Client \in BufferType
      /\ Here \notin Range(Ports) /\ Here \in Fds
  BY AtHand DEF ExecReadRequest, InTurn
<1>2. GoodClients(cl) /\ Here \in DOMAIN cl
  BY TouchGood, TypesOfState
<1>3. SameEntries(pollFds, pf)
  BY <1>1, EventsAtHand
<1>4. pf[cur].fd \in DOMAIN cl
  <2>1. cur \in 1..Len(pollFds)
    BY <1>1, PortsFacts
  <2> QED
    BY <1>2, <1>3, <2>1 DEF SameEntries, Here
<1>5. \/ /\ files[Here].kind = "conn"
         /\ \E k \in 1..Len(conns[j].unread) :
              LET n == conns[j].unread[k]
              IN /\ conns' = [conns EXCEPT ![j].unread = SubSeq(@, k + 1, Len(@))]
                 /\ ExecParseRequest(cl, pf, jobs, cur, IF n = 0 THEN Unfinished ELSE Http(j, n))
      \/ /\ files[Here].kind = "out"
         /\ ExecParseRequest(cl, pf, [jobs EXCEPT ![j].read = TRUE], cur, Unreadable)
         /\ UNCHANGED conns
      \/ ExecParseRequest(cl, pf, jobs, cur, Unfinished) /\ UNCHANGED conns
      \/ /\ clients' = Put(clients, Here, [Client EXCEPT !.state = "WRITE_REQUEST_ERROR"])
         /\ UNCHANGED <<files, conns, jobs, pollFds, addPollFds>>
  BY DEF ExecReadRequest
<1> HIDE DEF cl, pf
<1>6. ASSUME NEW jb \in [Job -> JobType], NEW http \in HttpType,
             ExecParseRequest(cl, pf, jb, cur, http)
      PROVE  Parses
  BY <1>1, <1>2, <1>3, <1>4, <1>6, ExecParseRequestParses
<1>7. CASE /\ files[Here].kind = "conn"
           /\ \E k \in 1..Len(conns[j].unread) :
                LET n == conns[j].unread[k]
                IN /\ conns' = [conns EXCEPT ![j].unread = SubSeq(@, k + 1, Len(@))]
                   /\ ExecParseRequest(cl, pf, jobs, cur, IF n = 0 THEN Unfinished ELSE Http(j, n))
  <2>1. j \in Conn
    BY <1>1, <1>7, TypesOfState DEF Object
  <2> HIDE DEF j
  <2>2. PICK k \in 1..Len(conns[j].unread) :
          /\ conns' = [conns EXCEPT ![j].unread = SubSeq(@, k + 1, Len(@))]
          /\ ExecParseRequest(cl, pf, jobs, cur,
                              IF conns[j].unread[k] = 0 THEN Unfinished
                              ELSE Http(j, conns[j].unread[k]))
    BY <1>7
  <2>3. /\ ConnsOK(conns')
        /\ \A d \in Conn : conns'[d].st = conns[d].st /\ conns'[d].port = conns[d].port
    <3>1. k \in 1..Len(conns[j].unread) /\ ConnsOK(conns)
      BY TypesOfState
    <3>2. conns' = [conns EXCEPT ![j].unread = SubSeq(@, k + 1, Len(@))]
      BY <2>2
    <3> QED
      BY <2>1, <3>1, <3>2, ConnsRead
  <2> DEFINE n == conns[j].unread[k]
             http == IF n = 0 THEN Unfinished ELSE Http(j, n)
  <2>4. http \in HttpType
    BY <2>1, ReadHttpType, TypesOfState
  <2>5. ExecParseRequest(cl, pf, jobs, cur, http)
    BY <2>2
  <2> HIDE DEF http
  <2>6. Parses
    BY <1>6, <2>4, <2>5, TypesOfState
  <2> QED
    BY <1>1, <2>3, <2>6, ParsesTurn
<1>8. CASE /\ files[Here].kind = "out"
           /\ ExecParseRequest(cl, pf, [jobs EXCEPT ![j].read = TRUE], cur, Unreadable)
           /\ UNCHANGED conns
  <2>1. j \in Job
    BY <1>1, <1>8, TypesOfState DEF Object
  <2> HIDE DEF j
  <2>2. [jobs EXCEPT ![j].read = TRUE] \in [Job -> JobType]
    BY <2>1, JobChanges, TypesOfState, BaseTypes
  <2>3. Parses
    BY <1>6, <1>8, <2>2, BaseTypes
  <2> QED
    BY <1>1, <1>8, <2>3, SameKernel, ParsesTurn
<1>9. CASE ExecParseRequest(cl, pf, jobs, cur, Unfinished) /\ UNCHANGED conns
  <2>1. Parses
    BY <1>6, <1>9, BaseTypes, TypesOfState
  <2> QED
    BY <1>1, <1>9, <2>1, SameKernel, ParsesTurn
<1>10. CASE /\ clients' = Put(clients, Here, [Client EXCEPT !.state = "WRITE_REQUEST_ERROR"])
            /\ UNCHANGED <<files, conns, jobs, pollFds, addPollFds>>
  <2>1. [Client EXCEPT !.state = "WRITE_REQUEST_ERROR"] \in BufferType
    BY <1>1 DEF BufferType, State
  <2>2. GoodClients(clients')
    BY <1>1, <1>10, <2>1, PutGood, TypesOfState
  <2> QED
    BY <1>1, <1>10, <2>2, SameKernel, QuietTurn
<1> QED
  BY <1>5, <1>7, <1>8, <1>9, <1>10

(* The answer of a script goes to the client of its pipe, or is parsed as
   that client's next request. *)
LEMMA ParseCgiResponseParses ==
  ASSUME SocketInv, UNCHANGED delIndex, Client.out \in Job,
         NEW cl, GoodClients(cl), NEW pf, SameEntries(pollFds, pf),
         NEW k \in DOMAIN cl, k \notin Range(Ports),
         ParseCgiResponse(cl, pf, k)
  PROVE  Parses
<1> DEFINE job == jobs[Client.out]
           b == cl[k]
           next(kind) == [job.http EXCEPT !.kind = kind, !.close = FALSE]
           slot == { i \in 1..NumPorts + numClients : pf[i].fd = b.clientFd }
           refused == [b EXCEPT !.redirects = @ + 1, !.state = "WRITE_REQUEST_ERROR",
                                !.response = Answer(job.http, "error")]
           done == [b EXCEPT !.state = "WRITE_CGI", !.response = Answer(job.http, "doc")]
           reset == Put(cl, k, Redirected(b))
<1>1. job \in JobType /\ job.http \in HttpType
  BY TypesOfState DEF JobType
<1>2. b \in BufferType /\ b.http \in HttpType /\ b.redirects \in Nat
      /\ b.clientFd \in Handled
  BY DEF GoodClients, BufferType
<1>3. \/ clients' = Put(cl, k, done) /\ pollFds' = pf /\ UNCHANGED <<files, jobs, addPollFds>>
      \/ clients' = Put(cl, k, refused) /\ pollFds' = pf /\ UNCHANGED <<files, jobs, addPollFds>>
      \/ clients' = reset /\ pollFds' = pf /\ UNCHANGED <<files, jobs, addPollFds>>
      \/ /\ slot # {}
         /\ \E kind \in RedirectKinds(b.http.kind, job.out) :
              ExecParseRequest(Touch(reset, b.clientFd), SetEvents(pf, Min(slot), "OUT"),
                               jobs, Min(slot), next(kind))
  BY DEF ParseCgiResponse
<1>4. ASSUME NEW kind \in RedirectKinds(b.http.kind, job.out)
      PROVE  next(kind) \in HttpType
  <2>1. kind \in {"bad", "static", "get", "post"}
    BY <1>4 DEF RedirectKinds
  <2> QED
    BY <1>1, <2>1 DEF HttpType
<1>5. Answer(job.http, "doc") \in ResponseType /\ Answer(job.http, "error") \in ResponseType
  BY <1>1, BaseTypes
<1> HIDE DEF job, b
<1>6. done \in BufferType
  BY <1>2, <1>5 DEF BufferType, State
<1>12. b.redirects + 1 \in Nat
  BY <1>2
<1>7. refused \in BufferType
  BY <1>2, <1>5, <1>12 DEF BufferType, State
<1>8. Redirected(b) \in BufferType
  <2>1. [b.http EXCEPT !.close = FALSE] \in HttpType
    BY <1>2 DEF HttpType
  <2> QED
    BY <1>2, <1>12, <2>1, BaseTypes DEF Redirected, BufferType
<1>9. \A x \in BufferType : GoodClients(Put(cl, k, x))
  BY PutGood
<1>10. ASSUME NEW x \in BufferType, clients' = Put(cl, k, x), pollFds' = pf,
              UNCHANGED <<files, jobs, addPollFds>>
       PROVE  Parses
  BY <1>9, <1>10, ParsesQuietly, TypesOfState
<1>11. CASE /\ slot # {}
            /\ \E kind \in RedirectKinds(b.http.kind, job.out) :
                 ExecParseRequest(Touch(reset, b.clientFd), SetEvents(pf, Min(slot), "OUT"),
                                  jobs, Min(slot), next(kind))
  <2> PICK kind \in RedirectKinds(b.http.kind, job.out) :
             ExecParseRequest(Touch(reset, b.clientFd), SetEvents(pf, Min(slot), "OUT"),
                              jobs, Min(slot), next(kind))
    BY <1>11
  <2> DEFINE i == Min(slot)
             c == Touch(reset, b.clientFd)
             pg == SetEvents(pf, i, "OUT")
  <2>1. i \in slot
    <3>1. slot \in SUBSET Nat
      BY PortsFacts DEF SocketInv, TypeOK
    <3> HIDE DEF slot
    <3> QED
      BY <1>11, <3>1, MinIsMember
  <2>2. i \in 1..Len(pollFds) /\ pf[i].fd = b.clientFd
    BY <2>1 DEF SocketInv, VectorsOK
  <2> HIDE DEF i, slot
  <2>3. i \in NumPorts + 1 .. Len(pollFds)
    <3>1. pollFds[i].fd = b.clientFd
      BY <2>2 DEF SameEntries
    <3>2. ASSUME i <= NumPorts
          PROVE  FALSE
      <4>1. i \in 1..NumPorts
        BY <2>2, <3>2, PortsFacts
      <4>2. b.clientFd \in Range(Ports)
        BY <3>1, <4>1, PortsFacts DEF SocketInv, VectorsOK
      <4> QED
        BY <1>2, <4>2 DEF Handled
    <3> QED
      BY <2>2, <3>2, PortsFacts
  <2>4. GoodClients(c) /\ b.clientFd \in DOMAIN c
    <3>1. GoodClients(reset)
      BY <1>8, <1>9
    <3> HIDE DEF reset
    <3> QED
      BY <3>1, TouchGood
  <2>5. SameEntries(pollFds, pg)
    BY <2>3, SetEventsSame, TypesOfState
  <2>6. pg[i].fd \in DOMAIN c
    <3>1. pg[i].fd = pf[i].fd
      BY <2>2, <2>5 DEF SameEntries
    <3> QED
      BY <2>2, <2>4, <3>1
  <2>7. ExecParseRequest(c, pg, jobs, i, next(kind))
    BY DEF i, slot
  <2>8. next(kind) \in HttpType
    BY <1>4
  <2> HIDE DEF c, pg, next
  <2> QED
    BY <2>8, <2>3, <2>4, <2>5, <2>6, <2>7, ExecParseRequestParses, TypesOfState
<1> HIDE DEF done, refused
<1> QED
  BY <1>3, <1>6, <1>7, <1>8, <1>10, <1>11

LEMMA ExecReadCgiTurn ==
  ASSUME SocketInv, ExecReadCgi
  PROVE  HandlerTurn
<1> DEFINE obj == files[Here]
           k == Client.clientFd
<1>1. /\ Turn /\ EndTurn /\ UNCHANGED <<conns, up, delIndex>>
      /\ cur > NumPorts /\ Client \in BufferType /\ Here \notin Range(Ports) /\ Here \in Fds
  BY AtHand DEF ExecReadCgi, InTurn
<1>2. k \notin Range(Ports)
  BY <1>1 DEF BufferType, Handled
<1>3. ASSUME NEW x \in BufferType, k \in DOMAIN clients
      PROVE  LET cl == Put(clients, Here, x)
             IN GoodClients([cl EXCEPT ![k].last = now]) /\ k \in DOMAIN [cl EXCEPT ![k].last = now]
  <2> DEFINE cl == Put(clients, Here, x)
             kb == [cl[k] EXCEPT !.last = now]
  <2>1. GoodClients(cl) /\ k \in DOMAIN cl
    <3>1. GoodClients(cl)
      BY <1>1, PutGood, TypesOfState
    <3> QED
      BY <1>3, <3>1 DEF Put
  <2> HIDE DEF cl, k
  <2>2. kb \in BufferType
    <3>1. cl[k] \in BufferType
      BY <2>1 DEF GoodClients
    <3> QED
      BY <3>1, TypesOfState DEF BufferType
  <2> HIDE DEF kb
  <2>3. GoodClients([cl EXCEPT ![k] = kb]) /\ k \in DOMAIN [cl EXCEPT ![k] = kb]
    <3>1. GoodClients([cl EXCEPT ![k] = kb])
      BY <1>2, <2>1, <2>2, ChangeIfThere
    <3> QED
      BY <2>1, <3>1
  <2> QED
    BY <2>3 DEF cl, kb
<1>4. CASE /\ HasOutput(obj) /\ k \in DOMAIN clients
           /\ jobs' = [jobs EXCEPT ![obj.id].read = TRUE]
           /\ LET cl == Put(clients, Here, [Client EXCEPT !.out = obj.id])
              IN clients' = [cl EXCEPT ![k].last = now]
           /\ pollFds' = SetEvents(pollFds, cur, "IN")
           /\ UNCHANGED <<files, addPollFds>>
  <2>1. obj.id \in Job
    BY <1>1, <1>4, TypesOfState DEF HasOutput, Object
  <2>2. [Client EXCEPT !.out = obj.id] \in BufferType
    BY <1>1, <2>1 DEF BufferType
  <2>3. GoodClients(clients')
    BY <1>3, <1>4, <2>2
  <2> HIDE DEF obj
  <2>4. jobs' \in [Job -> JobType]
    <3>1. [jobs EXCEPT ![obj.id].read = TRUE] \in [Job -> JobType]
      BY <2>1, JobChanges, TypesOfState, BaseTypes
    <3> QED
      BY <1>4, <3>1
  <2>5. SameEntries(pollFds, pollFds')
    BY <1>1, <1>4, EventsAtHand
  <2> QED
    BY <1>1, <1>4, <2>3, <2>4, <2>5, SameKernel, QuietTurn
<1>5. CASE /\ k \in DOMAIN clients /\ Client.out # 0
           /\ LET cl == Put(clients, Here, [Client EXCEPT !.state = "WAIT_CGI"])
              IN ParseCgiResponse([cl EXCEPT ![k].last = now], SetEvents(pollFds, cur, "none"), k)
  <2> DEFINE cl == Put(clients, Here, [Client EXCEPT !.state = "WAIT_CGI"])
             c == [cl EXCEPT ![k].last = now]
             pf == SetEvents(pollFds, cur, "none")
  <2>1. [Client EXCEPT !.state = "WAIT_CGI"] \in BufferType /\ Client.out \in Job
    BY <1>1, <1>5 DEF BufferType, State
  <2>2. GoodClients(c) /\ k \in DOMAIN c
    BY <1>3, <1>5, <2>1
  <2>3. SameEntries(pollFds, pf)
    BY <1>1, EventsAtHand
  <2>4. ParseCgiResponse(c, pf, k)
    BY <1>5
  <2> HIDE DEF c, pf, k
  <2>5. Parses
    BY <1>1, <1>2, <2>1, <2>2, <2>3, <2>4, ParseCgiResponseParses
  <2> QED
    BY <1>1, <2>5, SameKernel, ParsesTurn
<1>6. CASE UNCHANGED <<files, jobs, pollFds, addPollFds, clients>>
  BY <1>1, <1>6, SameKernel, QuietTurn
<1> QED
  BY <1>4, <1>5, <1>6 DEF ExecReadCgi

(* Every handler takes such a turn, but where the process ends in it. *)
LEMMA HandleTurn ==
  ASSUME SocketInv, Handle, ~ServerDies
  PROVE  HandlerTurn
BY AcceptConnectionTurn, ExecReadRequestTurn, ExecCoreHandlerTurn, ExecWriteResponseTurn,
   ExecCgiRefusedTurn, ExecCgiTurn, ExecWriteErrorTurn, ExecWriteCGIBodyTurn,
   ExecWaitCgiChildTurn, ExecReadCgiTurn, ExecWriteCgiTurn, NoHandlerTurn
DEF Handle

(* What the operations on the table of buffers leave of each of them. *)
LEMMA BufferOf ==
  /\ \A cl, fd, b, x : Buffer(Put(cl, fd, b), x) = IF x = fd THEN b ELSE Buffer(cl, x)
  /\ \A cl, fd, x : Buffer(Touch(cl, fd), x) = Buffer(cl, x)
  /\ \A cl, fd, x : Buffer(Forget(cl, fd), x) = IF x = fd THEN Zeroed ELSE Buffer(cl, x)
<1>1. \A cl, fd, b, x : Buffer(Put(cl, fd, b), x) = IF x = fd THEN b ELSE Buffer(cl, x)
  BY DEF Buffer, Put
<1>2. \A cl, fd, x : Buffer(Touch(cl, fd), x) = Buffer(cl, x)
  BY <1>1 DEF Touch
<1>3. \A cl, fd, x : Buffer(Forget(cl, fd), x) = IF x = fd THEN Zeroed ELSE Buffer(cl, x)
  BY DEF Buffer, Forget, Restrict
<1> QED
  BY <1>1, <1>2, <1>3

-----------------------------------------------------------------------------
(* What moves besides the handlers and deleteClient *)

(* Peers, scripts, the clock, and a process that ends leave the loop's own
   state alone. *)
LEMMA OutsideKeeps ==
  ASSUME SocketInv, UNCHANGED <<pc, cur, pollFds, vectors, clients, files>>, up' \in BOOLEAN,
         jobs' \in [Job -> JobType], ConnsOK(conns'), now' \in 1..MaxNow,
         \A c \in Conn : conns[c].st = "queued" =>
           conns'[c].st = "queued" /\ conns'[c].port = conns[c].port
  PROVE  SocketInv' /\ UNCHANGED Bookkeeping!vars
<1> USE DEF SocketInv, vectors
<1>1. UNCHANGED Bookkeeping!vars
  BY DEF Bookkeeping!vars
<1>2. Proved!IInv'
  BY <1>1, StepKeepsProved
<1>3. TypeOK'
  BY DEF TypeOK, ConnsOK
<1>4. VectorsOK' /\ ListenersOK' /\ WatchedDescriptors' /\ GoodClients(clients)'
  BY <1>2, <1>3, ProvedVectorsNext DEF ListenersOK, WatchedDescriptors, NumPorts, GoodClients
<1>5. BacklogOK'
  BY DEF BacklogOK, Waits, NumPorts
<1>6. CursorOK'
  BY DEF CursorOK, CgiSlots, Client, Here, Buffer, NumPorts
<1> QED
  BY <1>1, <1>2, <1>3, <1>4, <1>5, <1>6

LEMMA ConnectKeeps ==
  ASSUME SocketInv, NEW c \in Conn, NEW port \in Range(Ports), Connect(c, port)
  PROVE  SocketInv' /\ UNCHANGED Bookkeeping!vars
<1> DEFINE x == [conns[c] EXCEPT !.st = "queued", !.port = port]
<1>1. ConnsOK(conns) /\ conns[c] \in ConnType /\ conns[c].st = "new"
  BY TypesOfState DEF ConnsOK, Connect
<1>2. x \in ConnType /\ x.asked = conns[c].asked /\ x.unread = conns[c].unread
  BY <1>1 DEF ConnType
<1>3. conns' = [conns EXCEPT ![c] = x]
  BY DEF Connect
<1> HIDE DEF x
<1>4. ConnsOK(conns')
  BY <1>1, <1>2, <1>3 DEF ConnsOK
<1>5. \A d \in Conn : conns[d].st = "queued" => conns'[d] = conns[d]
  BY <1>1, <1>3 DEF ConnsOK
<1> QED
  BY <1>4, <1>5, OutsideKeeps, TypesOfState DEF Connect, server, EnvTurn

LEMMA SendKeeps ==
  ASSUME SocketInv, NEW c \in Conn, NEW r \in Request, Send(c, r)
  PROVE  SocketInv' /\ UNCHANGED Bookkeeping!vars
<1> DEFINE n == Len(conns[c].asked)
           asked == Append(conns[c].asked, r)
           unread == Append(conns[c].unread, n + 1)
           x == [conns[c] EXCEPT !.asked = asked, !.unread = unread, !.half = FALSE]
<1>1. ConnsOK(conns) /\ conns[c] \in ConnType /\ n < MaxRequests /\ n \in Nat
  <2>1. ConnsOK(conns) /\ conns[c] \in ConnType /\ n < MaxRequests
    BY TypesOfState DEF ConnsOK, Send, Speaks
  <2>2. conns[c].asked \in Seq(Request)
    BY <2>1 DEF ConnType
  <2> QED
    BY <2>1, <2>2, LenProperties
<1>2. /\ conns[c].asked \in Seq(Request) /\ conns[c].unread \in Seq(0..n)
      /\ conns[c].unread \in Seq(0..MaxRequests)
  BY <1>1 DEF ConnType, ConnsOK
<1>3. asked \in Seq(Request) /\ Len(asked) = n + 1
  BY <1>2, AppendProperties
<1>4. unread \in Seq(0..n + 1) /\ unread \in Seq(0..MaxRequests)
  <2>1. conns[c].unread \in Seq(0..n + 1)
    <3>1. 0..n \subseteq 0..n + 1
      BY <1>1
    <3>2. conns[c].unread \in [1..Len(conns[c].unread) -> 0..n] /\ Len(conns[c].unread) \in Nat
      BY <1>2, LenProperties
    <3>3. conns[c].unread \in [1..Len(conns[c].unread) -> 0..n + 1]
      BY <3>1, <3>2
    <3> QED
      BY <3>2, <3>3
  <2>2. n + 1 \in 0..n + 1 /\ n + 1 \in 0..MaxRequests
    BY <1>1, BoundsAssumption
  <2> QED
    BY <1>2, <2>1, <2>2, AppendProperties
<1>5. conns' = [conns EXCEPT ![c] = x]
  BY DEF Send
<1>6. n + 1 <= MaxRequests
  BY <1>1, BoundsAssumption
<1> HIDE DEF asked, unread, n
<1>7. x \in ConnType /\ x.asked = asked /\ x.unread = unread
      /\ x.st = conns[c].st /\ x.port = conns[c].port
  BY <1>1, <1>3, <1>4 DEF ConnType
<1> HIDE DEF x
<1>8. ConnsOK(conns')
  BY <1>1, <1>3, <1>4, <1>5, <1>6, <1>7 DEF ConnsOK
<1>9. \A d \in Conn : conns'[d].st = conns[d].st /\ conns'[d].port = conns[d].port
  BY <1>1, <1>5, <1>7 DEF ConnsOK
<1> QED
  BY <1>8, <1>9, OutsideKeeps, TypesOfState DEF Send, server, Speaks, EnvTurn

LEMMA SendPartKeeps ==
  ASSUME SocketInv, NEW c \in Conn, SendPart(c)
  PROVE  SocketInv' /\ UNCHANGED Bookkeeping!vars
<1> DEFINE n == Len(conns[c].asked)
           unread == Append(conns[c].unread, 0)
           x == [conns[c] EXCEPT !.unread = unread, !.half = TRUE]
<1>1. ConnsOK(conns) /\ conns[c] \in ConnType
  BY TypesOfState DEF ConnsOK
<1>2. /\ conns[c].asked \in Seq(Request) /\ n \in Nat /\ n <= MaxRequests
      /\ conns[c].unread \in Seq(0..n) /\ conns[c].unread \in Seq(0..MaxRequests)
  <2>1. conns[c].asked \in Seq(Request)
    BY <1>1 DEF ConnType
  <2> QED
    BY <1>1, <2>1, LenProperties DEF ConnType, ConnsOK
<1>3. unread \in Seq(0..n) /\ unread \in Seq(0..MaxRequests)
  <2>1. 0 \in 0..n /\ 0 \in 0..MaxRequests
    BY <1>2, BoundsAssumption
  <2> QED
    BY <1>2, <2>1, AppendProperties
<1>4. conns' = [conns EXCEPT ![c] = x]
  BY DEF SendPart
<1> HIDE DEF unread
<1>5. x \in ConnType /\ x.asked = conns[c].asked /\ x.unread = unread
      /\ x.st = conns[c].st /\ x.port = conns[c].port
  BY <1>1, <1>3 DEF ConnType
<1> HIDE DEF x
<1>6. ConnsOK(conns')
  BY <1>1, <1>2, <1>3, <1>4, <1>5 DEF ConnsOK
<1>7. \A d \in Conn : conns'[d].st = conns[d].st /\ conns'[d].port = conns[d].port
  BY <1>1, <1>4, <1>5 DEF ConnsOK
<1> QED
  BY <1>6, <1>7, OutsideKeeps, TypesOfState DEF SendPart, server, Speaks, EnvTurn

LEMMA FinishResetKeeps ==
  ASSUME SocketInv, NEW c \in Conn, Finish(c) \/ Reset(c)
  PROVE  SocketInv' /\ UNCHANGED Bookkeeping!vars
<1>1. ConnsOK(conns) /\ conns[c] \in ConnType
  BY TypesOfState DEF ConnsOK
<1>2. \/ conns' = [conns EXCEPT ![c] = [conns[c] EXCEPT !.fin = TRUE]]
      \/ conns' = [conns EXCEPT ![c] = [conns[c] EXCEPT !.rst = TRUE]]
  BY DEF Finish, Reset
<1>3. PICK x \in ConnType :
        /\ conns' = [conns EXCEPT ![c] = x]
        /\ x.asked = conns[c].asked /\ x.unread = conns[c].unread
        /\ x.st = conns[c].st /\ x.port = conns[c].port
  <2>1. /\ [conns[c] EXCEPT !.fin = TRUE] \in ConnType
        /\ [conns[c] EXCEPT !.fin = TRUE].asked = conns[c].asked
        /\ [conns[c] EXCEPT !.fin = TRUE].unread = conns[c].unread
        /\ [conns[c] EXCEPT !.fin = TRUE].st = conns[c].st
        /\ [conns[c] EXCEPT !.fin = TRUE].port = conns[c].port
    BY <1>1 DEF ConnType
  <2>2. /\ [conns[c] EXCEPT !.rst = TRUE] \in ConnType
        /\ [conns[c] EXCEPT !.rst = TRUE].asked = conns[c].asked
        /\ [conns[c] EXCEPT !.rst = TRUE].unread = conns[c].unread
        /\ [conns[c] EXCEPT !.rst = TRUE].st = conns[c].st
        /\ [conns[c] EXCEPT !.rst = TRUE].port = conns[c].port
    BY <1>1 DEF ConnType
  <2> QED
    BY <1>2, <2>1, <2>2
<1>4. ConnsOK(conns')
  BY <1>1, <1>3 DEF ConnsOK
<1>5. \A d \in Conn : conns'[d].st = conns[d].st /\ conns'[d].port = conns[d].port
  BY <1>1, <1>3 DEF ConnsOK
<1> QED
  BY <1>4, <1>5, OutsideKeeps, TypesOfState DEF Finish, Reset, server, EnvTurn

LEMMA ChildKeeps ==
  ASSUME SocketInv, NEW j \in Job, Child(j)
  PROVE  SocketInv' /\ UNCHANGED Bookkeeping!vars
<1>1. jobs \in [Job -> JobType] /\ jobs[j] \in JobType
  BY TypesOfState
<1>2. \/ \E o \in Output : jobs' = [jobs EXCEPT ![j] = [jobs[j] EXCEPT !.out = o]]
      \/ \E ok \in Success : jobs' = [jobs EXCEPT ![j] = [jobs[j] EXCEPT !.st = "done", !.ok = ok]]
  BY DEF Child, ChildWrite, ChildExit
<1>3. \E x \in JobType : jobs' = [jobs EXCEPT ![j] = x]
  <2>1. \A o \in Output : [jobs[j] EXCEPT !.out = o] \in JobType
    BY <1>1, ScriptAssumption DEF JobType
  <2>2. \A ok \in Success : [jobs[j] EXCEPT !.st = "done", !.ok = ok] \in JobType
    BY <1>1, ScriptAssumption DEF JobType
  <2> QED
    BY <1>2, <2>1, <2>2
<1>4. jobs' \in [Job -> JobType]
  BY <1>1, <1>3
<1> QED
  BY <1>4, OutsideKeeps, SameKernel, TypesOfState
  DEF Child, ChildWrite, ChildExit, server, SocketInv, TypeOK

LEMMA TickKeeps ==
  ASSUME SocketInv, Tick
  PROVE  SocketInv' /\ UNCHANGED Bookkeeping!vars
<1>1. now' \in 1..MaxNow
  BY TypesOfState, BoundsAssumption DEF Tick
<1> QED
  BY <1>1, OutsideKeeps, SameKernel, TypesOfState DEF Tick, server, SocketInv, TypeOK

LEMMA ServerDiesKeeps ==
  ASSUME SocketInv, ServerDies
  PROVE  SocketInv' /\ UNCHANGED Bookkeeping!vars
BY OutsideKeeps, SameKernel, TypesOfState DEF ServerDies, Dies, kernel

-----------------------------------------------------------------------------
(* deleteClient *)

(* What the steps of deleteClient up to its erase loop have in common. *)
LEMMA PassKeeps ==
  ASSUME SocketInv, UNCHANGED <<conns, now, up, pollFds, addPollFds, numClients>>,
         jobs' \in [Job -> JobType], GoodClients(clients'), FilesOK(files, files', {}),
         cur' \in 1..Len(pollFds) + 1, delIndex' \in Seq(Nat),
         pc' \in {"scan", "reap", "drop", "erase"}, CursorOK',
         [Bookkeeping!Next]_Bookkeeping!vars
  PROVE  SocketInv'
<1> USE DEF SocketInv
<1>1. Proved!IInv'
  BY StepKeepsProved
<1>2. TypeOK'
  BY DEF TypeOK, FilesOK, GoodClients
<1>3. VectorsOK'
  BY <1>1, <1>2, ProvedVectorsNext
<1>4. ListenersOK'
  BY DEF ListenersOK, FilesOK, NumPorts
<1>5. BacklogOK'
  BY DEF BacklogOK
<1>6. WatchedDescriptors'
  BY DEF WatchedDescriptors, FilesOK
<1> QED
  BY <1>1, <1>2, <1>3, <1>4, <1>5, <1>6 DEF GoodClients

LEMMA EndHandleKeeps ==
  ASSUME SocketInv, EndHandle
  PROVE  SocketInv' /\ [Bookkeeping!Next]_Bookkeeping!vars
<1> USE DEF EndHandle, vectors, kernel
<1>1. Bookkeeping!EndHandle
  BY DEF Bookkeeping!EndHandle
<1>2. CursorOK'
  BY DEF CursorOK
<1>3. 1 \in 1..Len(pollFds) + 1 /\ delIndex \in Seq(Nat)
  BY LenProperties DEF SocketInv, TypeOK
<1>4. FilesOK(files, files', {})
  BY FilesItself, TypesOfState
<1> QED
  BY <1>1, <1>2, <1>3, <1>4, TypesOfState, PassKeeps DEF Bookkeeping!Next

(* The entry the scan is at, and its client. *)
LEMMA AtScan ==
  ASSUME SocketInv, NEW part, InScan(part)
  PROVE  /\ cur \in 1..Len(pollFds) /\ Len(pollFds) \in Nat /\ NumPorts \in Nat
         /\ cur + 1 \in 1..Len(pollFds) + 1
         /\ delIndex \in Seq(Nat)
         /\ Client \in BufferType
         /\ cur <= NumPorts => Client = Zeroed /\ ~MustGo(pollFds[cur], Client)
<1> USE DEF SocketInv
<1>1. /\ cur \in 1..Len(pollFds) /\ Len(pollFds) \in Nat /\ NumPorts \in Nat
      /\ delIndex \in Seq(Nat)
  BY PortsFacts, LenProperties DEF InScan, TypeOK
<1>2. Client \in BufferType
  BY BufferGood DEF Client
<1>3. ASSUME cur <= NumPorts
      PROVE  Client = Zeroed /\ ~MustGo(pollFds[cur], Client)
  <2>1. Here = Ports[cur] /\ cur \in 1..NumPorts
    BY <1>1, <1>3 DEF VectorsOK, Here
  <2>2. Client = Zeroed
    BY <2>1, PortsFacts, BufferGood DEF Client
  <2>3. "HUP" \notin pollFds[cur].revents
    BY <2>1 DEF ListenersOK
  <2> QED
    BY <2>2, <2>3 DEF MustGo, Zeroed, isTimeout
<1> QED
  BY <1>1, <1>2, <1>3

LEMMA ScanKeepKeeps ==
  ASSUME SocketInv, ScanKeep
  PROVE  SocketInv' /\ [Bookkeeping!Next]_Bookkeeping!vars
<1> USE DEF ScanKeep, vectors, kernel
<1>1. UNCHANGED Bookkeeping!vars
  BY DEF Bookkeeping!vars
<1>2. CursorOK'
  BY DEF CursorOK, InScan
<1>3. GoodClients(clients')
  BY TypesOfState, TouchGood
<1>4. FilesOK(files, files', {})
  BY FilesItself, TypesOfState
<1> QED
  BY <1>1, <1>2, <1>3, <1>4, TypesOfState, AtScan, PassKeeps DEF InScan

LEMMA ScanKillKeeps ==
  ASSUME SocketInv, ScanKill
  PROVE  SocketInv' /\ [Bookkeeping!Next]_Bookkeeping!vars
<1>1. cur \in NumPorts + 1 .. Len(pollFds) /\ cur \in 1..Len(pollFds) + 1
  <2>1. InScan("scan") /\ MustGo(pollFds[cur], Client)
    BY DEF ScanKill
  <2>2. cur \in 1..Len(pollFds) /\ Len(pollFds) \in Nat /\ NumPorts \in Nat /\ ~(cur <= NumPorts)
    BY <2>1, AtScan
  <2>3. cur \in NumPorts + 1 .. Len(pollFds)
    BY <2>2
  <2>4. cur \in 1..Len(pollFds) + 1
    BY <2>2
  <2> QED
    BY <2>3, <2>4
<1> USE DEF ScanKill, vectors, kernel
<1>2. UNCHANGED Bookkeeping!vars
  BY DEF Bookkeeping!vars, InScan
<1>3. Client' = Client
  BY DEF Client, Here, Touch, Put, Buffer
<1>4. CursorOK'
  BY <1>1, <1>3 DEF CursorOK, CgiSlots, NumPorts
<1>5. GoodClients(clients')
  BY TypesOfState, TouchGood
<1>6. jobs' \in [Job -> JobType]
  <2>1. \A j \in Job : [jobs[j] EXCEPT !.st = "done", !.ok = FALSE] \in JobType
    BY TypesOfState DEF JobType
  <2> QED
    BY <2>1, TypesOfState
<1>7. FilesOK(files, files', {})
  BY FilesItself, TypesOfState
<1>8. delIndex \in Seq(Nat)
  BY DEF SocketInv, TypeOK
<1> QED
  BY <1>1, <1>2, <1>4, <1>5, <1>6, <1>7, <1>8, PassKeeps

(* pushDelPollFd of a client's entry. *)
LEMMA MarkMaps ==
  ASSUME SocketInv, NEW k \in NumPorts + 1 .. Len(pollFds), NEW cl, GoodClients(cl),
         PushDelPollFd(k, cl), UNCHANGED <<pollFds, addPollFds, numClients>>,
         pc \in {"scan", "reap", "drop"}, pc' \in {"scan", "reap", "drop"}
  PROVE  /\ [Bookkeeping!Next]_Bookkeeping!vars
         /\ FilesOK(files, files', {}) /\ GoodClients(clients') /\ delIndex' \in Seq(Nat)
<1>1. /\ pollFds \in Seq(EntryType) /\ Len(pollFds) \in Nat /\ NumPorts \in Nat
      /\ delIndex \in Seq(Nat)
  BY PortsFacts, LenProperties DEF SocketInv, TypeOK
<1>2. Len(FdsOf(pollFds)) = Len(pollFds)
  BY <1>1, FdsOfType
<1>3. Bookkeeping!NumPorts = NumPorts
  BY DEF Bookkeeping!NumPorts, NumPorts
<1>4. Bookkeeping!PushDelPollFd(k)
  BY <1>2, <1>3 DEF PushDelPollFd, Bookkeeping!PushDelPollFd
<1>5. k \in 1..Len(FdsOf(pollFds))
  BY <1>1, <1>2
<1>6. FilesOK(files, files', {})
  <2>1. pollFds[k].fd \notin Range(Ports)
    BY DEF SocketInv, ListenersOK, Handled
  <2> QED
    BY <2>1, FilesClose, FilesItself, TypesOfState DEF PushDelPollFd
<1>7. GoodClients(clients')
  BY ForgetGood DEF PushDelPollFd
<1>8. delIndex' \in Seq(Nat)
  BY <1>1, AppendProperties DEF PushDelPollFd
<1> QED
  BY <1>4, <1>5, <1>6, <1>7, <1>8 DEF Bookkeeping!Next

LEMMA ScanReapKeeps ==
  ASSUME SocketInv, ScanReap
  PROVE  SocketInv' /\ [Bookkeeping!Next]_Bookkeeping!vars
<1> DEFINE slots == CgiSlots(cur, Client)
           cl == Touch(clients, cur - 1)
<1>1. /\ slots # {} /\ cur \in NumPorts + 1 .. Len(pollFds)
      /\ cur \in Nat /\ Len(pollFds) \in Nat /\ NumPorts \in Nat
  BY AtScan DEF SocketInv, CursorOK, ScanReap, InScan
<1>2. Min(slots) \in slots
  <2>1. slots \in SUBSET Nat
    BY <1>1 DEF CgiSlots
  <2> HIDE DEF slots
  <2> QED
    BY <1>1, <2>1, MinIsMember
<1>3. Min(slots) \in NumPorts + 1 .. Len(pollFds)
  <2> DEFINE m == Min(slots)
  <2>1. m \in cur..Len(pollFds)
    BY <1>2 DEF CgiSlots
  <2> HIDE DEF m
  <2> QED
    BY <1>1, <2>1 DEF m
<1>4. GoodClients(cl)
  BY TypesOfState, TouchGood
<1>5. PushDelPollFd(Min(slots), cl) /\ UNCHANGED <<conns, now, up, cur, pollFds, addPollFds, numClients>>
      /\ pc = "reap" /\ pc' = "drop"
  BY DEF ScanReap, InScan
<1>6. jobs' \in [Job -> JobType]
  <2>1. jobs' = jobs \/ \E j \in Job : jobs' = [jobs EXCEPT ![j].st = "reaped"]
    BY DEF ScanReap, Ended, Named
  <2>2. \A j \in Job : [jobs EXCEPT ![j].st = "reaped"] \in [Job -> JobType]
    <3>1. NoHttp \in HttpType /\ "reaped" \in {"none", "made", "run", "done", "reaped"}
      BY BaseTypes
    <3> QED
      BY <3>1, JobChanges, TypesOfState
  <2> QED
    BY <2>1, <2>2, TypesOfState
<1>7. CursorOK'
  BY <1>1, <1>5 DEF CursorOK, NumPorts
<1> HIDE DEF slots, cl
<1>8. /\ [Bookkeeping!Next]_Bookkeeping!vars
      /\ FilesOK(files, files', {}) /\ GoodClients(clients') /\ delIndex' \in Seq(Nat)
  BY <1>3, <1>4, <1>5, MarkMaps
<1> QED
  BY <1>1, <1>5, <1>6, <1>7, <1>8, PassKeeps DEF SocketInv, TypeOK

LEMMA ScanDropKeeps ==
  ASSUME SocketInv, ScanDrop
  PROVE  SocketInv' /\ [Bookkeeping!Next]_Bookkeeping!vars
<1>1. /\ PushDelPollFd(cur, clients) /\ UNCHANGED <<conns, jobs, now, up, pollFds, addPollFds, numClients>>
      /\ pc \in {"scan", "drop"} /\ pc' = "scan" /\ cur' = cur + 1
  BY DEF ScanDrop, InScan
<1>2. cur \in NumPorts + 1 .. Len(pollFds) /\ cur + 1 \in 1..Len(pollFds) + 1
  <2>1. CASE InScan("drop")
    <3>1. cur \in NumPorts + 1 .. Len(pollFds)
      BY <2>1 DEF InScan, SocketInv, CursorOK
    <3> QED
      BY <2>1, <3>1, AtScan
  <2>2. CASE InScan("scan") /\ MustGo(pollFds[cur], Client)
    <3>1. /\ cur \in 1..Len(pollFds) /\ Len(pollFds) \in Nat /\ NumPorts \in Nat
          /\ ~(cur <= NumPorts)
      BY <2>2, AtScan
    <3> QED
      BY <3>1
  <2> QED
    BY <2>1, <2>2 DEF ScanDrop
<1>3. CursorOK'
  BY <1>1 DEF CursorOK
<1>4. /\ [Bookkeeping!Next]_Bookkeeping!vars
      /\ FilesOK(files, files', {}) /\ GoodClients(clients') /\ delIndex' \in Seq(Nat)
  BY <1>1, <1>2, MarkMaps, TypesOfState
<1> QED
  BY <1>1, <1>2, <1>3, <1>4, PassKeeps, TypesOfState

LEMMA SortIndexesKeeps ==
  ASSUME SocketInv, SortIndexes
  PROVE  SocketInv' /\ [Bookkeeping!Next]_Bookkeeping!vars
<1> USE DEF SortIndexes, kernel
<1>1. Bookkeeping!Marked = Marked
  BY DEF Bookkeeping!Marked, Marked, Range
<1>2. Bookkeeping!SortIndexes
  BY <1>1
  DEF Bookkeeping!SortIndexes, Bookkeeping!SortedUnique, SortedUnique,
      Bookkeeping!IsDescending, IsDescending, Bookkeeping!Cardinality, Cardinality
<1>3. [Bookkeeping!Next]_Bookkeeping!vars
  BY <1>2 DEF Bookkeeping!Next
<1>4. Proved!IInv'
  BY <1>3, StepKeepsProved DEF SocketInv
<1>5. delIndex' \in Seq(Nat)
  BY <1>4 DEF Proved!IInv, Proved!TypeOK
<1>6. CursorOK'
  BY DEF CursorOK
<1>7. FilesOK(files, files', {})
  BY FilesItself, TypesOfState
<1>8. 1 \in 1..Len(pollFds) + 1
  BY LenProperties DEF SocketInv, TypeOK
<1> QED
  BY <1>3, <1>5, <1>6, <1>7, <1>8, TypesOfState, PassKeeps

LEMMA EraseKeeps ==
  ASSUME SocketInv, Erase
  PROVE  SocketInv' /\ [Bookkeeping!Next]_Bookkeeping!vars
<1> USE DEF SocketInv
<1> DEFINE k == Head(delIndex)
<1>1. /\ pollFds \in Seq(EntryType) /\ Len(pollFds) \in Nat /\ NumPorts \in Nat
      /\ delIndex \in Seq(Nat) /\ delIndex # <<>>
      /\ k \in NumPorts + 1 .. Len(pollFds)
  <2>1. delIndex \in Seq(Nat) /\ delIndex # <<>>
    BY DEF Erase, TypeOK
  <2>2. 1 \in DOMAIN delIndex /\ k = delIndex[1]
    BY <2>1
  <2>3. k \in NumPorts + 1 .. Len(pollFds)
    BY <2>2 DEF VectorsOK
  <2> HIDE DEF k
  <2> QED
    BY <2>1, <2>3, PortsFacts, LenProperties DEF TypeOK
<1>2. k \in 1..Len(pollFds)
  <2> HIDE DEF k
  <2> QED
    BY <1>1
<1>3. /\ files' = Close(files, pollFds[k].fd)
      /\ pollFds' = RemoveAt(pollFds, k)
      /\ delIndex' = Tail(delIndex)
      /\ numClients' = numClients - 1
      /\ pc = "erase" /\ pc' = "erase"
      /\ UNCHANGED <<conns, jobs, now, up, cur, addPollFds, clients>>
  BY DEF Erase
<1>4. Bookkeeping!Erase
  <2>1. FdsOf(pollFds') = RemoveAt(FdsOf(pollFds), k)
    <3> HIDE DEF k
    <3> QED
      BY <1>1, <1>2, <1>3, FdsOfRemoveAt
  <2> QED
    BY <1>1, <1>3, <2>1 DEF Bookkeeping!Erase, Bookkeeping!RemoveAt, RemoveAt
<1> HIDE DEF k
<1>5. [Bookkeeping!Next]_Bookkeeping!vars
  BY <1>4 DEF Bookkeeping!Next
<1>6. Proved!IInv'
  BY <1>5, StepKeepsProved
<1>7. /\ pollFds' \in Seq(EntryType) /\ Len(pollFds') = Len(pollFds) - 1
      /\ \A i \in 1..Len(pollFds) - 1 :
           pollFds'[i] = IF i < k THEN pollFds[i] ELSE pollFds[i + 1]
  BY <1>1, <1>2, <1>3, RemoveAtProperties
<1>8. pollFds[k].fd \in Handled /\ pollFds[k].fd \notin Range(Ports)
  BY <1>1 DEF ListenersOK, Handled
<1>9. FilesOK(files, files', {})
  BY <1>3, <1>8, FilesClose, FilesItself, TypesOfState
<1>10. TypeOK'
  <2>1. delIndex' \in Seq(Nat) /\ numClients' \in Nat
    BY <1>6 DEF Proved!IInv, Proved!TypeOK
  <2>2. cur' \in 1..Len(pollFds') + 1
    BY <1>1, <1>3, <1>7, PortsFacts DEF CursorOK
  <2> QED
    BY <1>3, <1>7, <1>9, <2>1, <2>2 DEF TypeOK, FilesOK
<1>11. VectorsOK'
  BY <1>6, <1>10, ProvedVectorsNext
<1>12. ListenersOK'
  <2>1. \A p \in Range(Ports) : files'[p] = Obj("lsn", 0)
    BY <1>9 DEF ListenersOK, FilesOK
  <2>2. ASSUME NEW i \in 1..NumPorts
        PROVE  pollFds'[i].events = "IN" /\ pollFds'[i].revents \subseteq {"IN"}
    BY <1>1, <1>7 DEF ListenersOK
  <2>3. ASSUME NEW i \in NumPorts + 1 .. Len(pollFds')
        PROVE  pollFds'[i].fd \in Handled
    <3>1. i \in 1..Len(pollFds) - 1 /\ i \in NumPorts + 1 .. Len(pollFds) /\ i + 1 \in NumPorts + 1 .. Len(pollFds)
      BY <1>1, <1>7
    <3> QED
      BY <1>7, <3>1 DEF ListenersOK
  <2> QED
    BY <1>3, <2>1, <2>2, <2>3 DEF ListenersOK, NumPorts
<1>13. BacklogOK' /\ CursorOK'
  BY <1>3 DEF BacklogOK, CursorOK
<1>14. WatchedDescriptors'
  <2> SUFFICES ASSUME NEW fd \in Fds, files'[fd].kind \in {"conn", "out"}
               PROVE  \/ \E i \in DOMAIN pollFds' : pollFds'[i].fd = fd
                      \/ \E i \in DOMAIN addPollFds' : addPollFds'[i].fd = fd
    BY DEF WatchedDescriptors
  <2>1. files[fd].kind \in {"conn", "out"} /\ fd # pollFds[k].fd
    <3>1. fd # pollFds[k].fd
      <4>1. Close(files, pollFds[k].fd)[pollFds[k].fd].kind = "free"
        BY <1>8, PortsFacts, TypesOfState DEF Close, Free, Obj
      <4> QED
        BY <1>3, <4>1
    <3> QED
      BY <1>9, <3>1 DEF FilesOK
  <2>2. CASE \E i \in DOMAIN pollFds : pollFds[i].fd = fd
    <3>1. PICK i \in 1..Len(pollFds) : pollFds[i].fd = fd
      BY <1>1, <2>2, LenProperties
    <3>2. i # k
      BY <2>1, <3>1
    <3>3. DOMAIN pollFds' = 1..Len(pollFds) - 1
      BY <1>7, LenProperties
    <3>4. CASE i < k
      <4>1. i \in 1..Len(pollFds) - 1
        BY <1>1, <3>1, <3>4
      <4>2. pollFds'[i] = pollFds[i]
        BY <1>7, <3>4, <4>1
      <4> QED
        BY <3>1, <3>3, <4>1, <4>2
    <3>5. CASE i > k
      <4>1. i - 1 \in 1..Len(pollFds) - 1 /\ ~(i - 1 < k) /\ (i - 1) + 1 = i
        BY <1>1, <3>1, <3>5
      <4> DEFINE j == i - 1
      <4>2. j \in 1..Len(pollFds) - 1 /\ ~(j < k) /\ j + 1 = i
        BY <4>1
      <4> HIDE DEF j
      <4>3. pollFds'[j].fd = fd
        BY <1>7, <3>1, <4>2
      <4> QED
        BY <3>3, <4>2, <4>3
    <3> QED
      BY <1>1, <3>1, <3>2, <3>4, <3>5
  <2>3. CASE \E i \in DOMAIN addPollFds : addPollFds[i].fd = fd
    BY <1>3, <2>3
  <2> QED
    BY <2>1, <2>2, <2>3 DEF WatchedDescriptors
<1> QED
  BY <1>3, <1>5, <1>6, <1>10, <1>11, <1>12, <1>13, <1>14 DEF GoodClients

LEMMA AddPendingKeeps ==
  ASSUME SocketInv, AddPending
  PROVE  SocketInv' /\ [Bookkeeping!Next]_Bookkeeping!vars
<1> USE DEF SocketInv
<1> DEFINE cleared == [i \in DOMAIN pollFds |-> [pollFds[i] EXCEPT !.revents = {}]]
<1>1. /\ pollFds \in Seq(EntryType) /\ addPollFds \in Seq(EntryType)
      /\ Len(pollFds) \in Nat /\ Len(addPollFds) \in Nat /\ NumPorts \in Nat
      /\ DOMAIN pollFds = 1..Len(pollFds) /\ DOMAIN addPollFds = 1..Len(addPollFds)
      /\ NumPorts <= Len(pollFds)
  <2>1. NumPorts <= Len(pollFds)
    BY PortsFacts DEF VectorsOK, TypeOK
  <2> QED
    BY <2>1, PortsFacts, LenProperties DEF TypeOK
<1>2. ASSUME NEW i \in 1..Len(pollFds)
      PROVE  /\ [pollFds[i] EXCEPT !.revents = {}] \in EntryType
             /\ [pollFds[i] EXCEPT !.revents = {}].fd = pollFds[i].fd
             /\ [pollFds[i] EXCEPT !.revents = {}].events = pollFds[i].events
             /\ [pollFds[i] EXCEPT !.revents = {}].revents = {}
  <2>1. pollFds[i] \in EntryType
    BY <1>1, ElementOfSeq
  <2> QED
    BY <2>1 DEF EntryType
<1>3. /\ cleared \in Seq(EntryType) /\ Len(cleared) = Len(pollFds)
      /\ \A i \in 1..Len(pollFds) : /\ cleared[i].fd = pollFds[i].fd
                                    /\ cleared[i].events = pollFds[i].events
                                    /\ cleared[i].revents = {}
  <2>1. cleared \in [1..Len(pollFds) -> EntryType]
    BY <1>1, <1>2
  <2>2. cleared \in Seq(EntryType) /\ Len(cleared) = Len(pollFds)
    BY <1>1, <2>1, LenProperties
  <2> QED
    BY <1>1, <1>2, <2>2
<1>4. /\ pollFds' = cleared \o addPollFds
      /\ numClients' = numClients + Len(addPollFds)
      /\ addPollFds' = <<>> /\ cur' = 1
      /\ pc = "erase" /\ pc' = "poll" /\ delIndex = <<>>
      /\ UNCHANGED <<files, conns, jobs, now, up, delIndex, clients>>
  BY DEF AddPending, kernel
<1> HIDE DEF cleared
<1>5. /\ pollFds' \in Seq(EntryType) /\ Len(pollFds') = Len(pollFds) + Len(addPollFds)
      /\ \A i \in 1..Len(pollFds) + Len(addPollFds) :
           pollFds'[i] = IF i <= Len(pollFds) THEN cleared[i] ELSE addPollFds[i - Len(pollFds)]
  <2>1. /\ cleared \o addPollFds \in Seq(EntryType)
        /\ Len(cleared \o addPollFds) = Len(cleared) + Len(addPollFds)
        /\ \A i \in 1..Len(cleared) + Len(addPollFds) :
             (cleared \o addPollFds)[i] =
               IF i <= Len(cleared) THEN cleared[i] ELSE addPollFds[i - Len(cleared)]
    BY <1>1, <1>3, ConcatProperties
  <2> QED
    BY <1>3, <1>4, <2>1
<1>6. /\ FdsOf(pollFds') = FdsOf(pollFds) \o FdsOf(addPollFds)
      /\ Len(FdsOf(addPollFds)) = Len(addPollFds) /\ FdsOf(addPollFds') = <<>>
  <2>1. FdsOf(cleared) = FdsOf(pollFds)
    <3>1. /\ FdsOf(cleared) \in Seq(Fds) /\ Len(FdsOf(cleared)) = Len(pollFds)
          /\ FdsOf(pollFds) \in Seq(Fds) /\ Len(FdsOf(pollFds)) = Len(pollFds)
          /\ \A i \in 1..Len(pollFds) : FdsOf(cleared)[i] = FdsOf(pollFds)[i]
      BY <1>1, <1>3, FdsOfType
    <3> QED
      BY <3>1, SeqEqual
  <2>2. FdsOf(pollFds') = FdsOf(cleared) \o FdsOf(addPollFds)
    BY <1>1, <1>3, <1>4, FdsOfConcat
  <2>3. FdsOf(addPollFds') = <<>>
    <3>1. <<>> \in Seq(EntryType) /\ Len(<<>>) = 0
      OBVIOUS
    <3>2. FdsOf(<<>>) \in Seq(Fds) /\ Len(FdsOf(<<>>)) = 0
      BY <3>1, FdsOfType
    <3> QED
      BY <1>4, <3>2, EmptySeq
  <2> QED
    BY <1>1, <2>1, <2>2, <2>3, FdsOfType
<1>7. Bookkeeping!AddPending
  BY <1>4, <1>6 DEF Bookkeeping!AddPending
<1>8. [Bookkeeping!Next]_Bookkeeping!vars
  BY <1>7 DEF Bookkeeping!Next
<1>9. Proved!IInv'
  BY <1>8, StepKeepsProved
<1>10. TypeOK'
  <2>1. cur' \in 1..Len(pollFds') + 1 /\ numClients' \in Nat
    BY <1>1, <1>4, <1>5 DEF TypeOK
  <2>2. addPollFds' \in Seq(EntryType)
    BY <1>4
  <2> QED
    BY <1>4, <1>5, <2>1, <2>2 DEF TypeOK
<1>11. VectorsOK'
  BY <1>9, <1>10, ProvedVectorsNext
<1>12. ListenersOK'
  <2>1. ASSUME NEW i \in 1..NumPorts
        PROVE  pollFds'[i].events = "IN" /\ pollFds'[i].revents \subseteq {"IN"}
    <3>1. i \in 1..Len(pollFds) /\ i \in 1..Len(pollFds) + Len(addPollFds) /\ i <= Len(pollFds)
      BY <1>1
    <3>2. pollFds'[i] = cleared[i]
      BY <1>5, <3>1
    <3> QED
      BY <1>3, <3>1, <3>2 DEF ListenersOK
  <2>2. ASSUME NEW i \in NumPorts + 1 .. Len(pollFds')
        PROVE  pollFds'[i].fd \in Handled
    <3>1. i \in 1..Len(pollFds) + Len(addPollFds)
      BY <1>1, <1>5
    <3>2. CASE i <= Len(pollFds)
      BY SMTT(30), <1>1, <1>3, <1>5, <3>1, <3>2 DEF ListenersOK
    <3>3. CASE ~(i <= Len(pollFds))
      <4> DEFINE n == i - Len(pollFds)
      <4>1. n \in 1..Len(addPollFds) /\ pollFds'[i] = addPollFds[n]
        BY <1>1, <1>5, <3>1, <3>3
      <4> HIDE DEF n
      <4> QED
        BY <1>1, <4>1 DEF ListenersOK
    <3> QED
      BY <3>2, <3>3
  <2>3. \A i \in DOMAIN addPollFds' : addPollFds'[i].fd \in Handled
    BY <1>4
  <2> QED
    BY <1>4, <2>1, <2>2, <2>3 DEF ListenersOK, NumPorts
<1>13. BacklogOK' /\ CursorOK'
  BY <1>4 DEF BacklogOK, CursorOK
<1>14. WatchedDescriptors'
  <2> SUFFICES ASSUME NEW fd \in Fds, files[fd].kind \in {"conn", "out"}
               PROVE  \E i \in DOMAIN pollFds' : pollFds'[i].fd = fd
    BY <1>4 DEF WatchedDescriptors
  <2>0. DOMAIN pollFds' = 1..Len(pollFds) + Len(addPollFds)
    BY <1>5, LenProperties
  <2>1. CASE \E i \in DOMAIN pollFds : pollFds[i].fd = fd
    <3>1. PICK i \in 1..Len(pollFds) : pollFds[i].fd = fd
      BY <1>1, <2>1
    <3>2. i \in 1..Len(pollFds) + Len(addPollFds) /\ i <= Len(pollFds)
      BY <1>1
    <3>3. pollFds'[i] = cleared[i]
      BY <1>5, <3>2
    <3> QED
      BY <1>3, <2>0, <3>1, <3>2, <3>3
  <2>2. CASE \E i \in DOMAIN addPollFds : addPollFds[i].fd = fd
    <3>1. PICK n \in 1..Len(addPollFds) : addPollFds[n].fd = fd
      BY <1>1, <2>2
    <3> DEFINE i == Len(pollFds) + n
    <3>2. i \in 1..Len(pollFds) + Len(addPollFds) /\ ~(i <= Len(pollFds)) /\ i - Len(pollFds) = n
      BY <1>1
    <3> HIDE DEF i
    <3>3. pollFds'[i].fd = fd
      BY <1>5, <3>1, <3>2
    <3> QED
      BY <2>0, <3>2, <3>3
  <2> QED
    BY <2>1, <2>2 DEF WatchedDescriptors
<1> QED
  BY <1>4, <1>8, <1>9, <1>10, <1>11, <1>12, <1>13, <1>14 DEF GoodClients

LEMMA ReportsType ==
  ASSUME NEW e
  PROVE  Reports(e) \subseteq {"IN", "OUT", "HUP", "NVAL"}
BY DEF Reports

LEMMA PollKeeps ==
  ASSUME SocketInv, Poll
  PROVE  SocketInv' /\ [Bookkeeping!Next]_Bookkeeping!vars
<1> USE DEF SocketInv
<1>1. /\ pollFds \in Seq(EntryType) /\ Len(pollFds) \in Nat /\ NumPorts \in Nat
      /\ NumPorts + numClients = Len(pollFds) /\ DOMAIN pollFds = 1..Len(pollFds)
      /\ NumPorts <= Len(pollFds)
  <2>1. NumPorts <= Len(pollFds)
    BY PortsFacts DEF VectorsOK, TypeOK
  <2> QED
    BY <2>1, PortsFacts, LenProperties DEF TypeOK, VectorsOK
<1>2. /\ pollFds' = [i \in 1..Len(pollFds) |-> [pollFds[i] EXCEPT !.revents = Reports(pollFds[i])]]
      /\ cur' = NextTurn(pollFds', 1)
      /\ pc = "poll" /\ pc' = "handle"
      /\ UNCHANGED <<files, conns, jobs, now, up, addPollFds, delIndex, numClients, clients>>
  BY <1>1 DEF Poll, kernel, vectors
<1>3. ASSUME NEW i \in 1..Len(pollFds)
      PROVE  /\ pollFds'[i] \in EntryType
             /\ pollFds'[i].fd = pollFds[i].fd
             /\ pollFds'[i].events = pollFds[i].events
             /\ pollFds'[i].revents = Reports(pollFds[i])
  <2>1. pollFds[i] \in EntryType
    BY <1>1, ElementOfSeq
  <2>2. pollFds'[i] = [pollFds[i] EXCEPT !.revents = Reports(pollFds[i])]
    BY <1>2
  <2> QED
    BY <2>1, <2>2, ReportsType DEF EntryType
<1>4. pollFds' \in Seq(EntryType) /\ Len(pollFds') = Len(pollFds)
  <2>1. pollFds' \in [1..Len(pollFds) -> EntryType]
    BY <1>2, <1>3
  <2> QED
    BY <1>1, <2>1, LenProperties
<1>5. FdsOf(pollFds') = FdsOf(pollFds)
  <2>1. /\ FdsOf(pollFds') \in Seq(Fds) /\ Len(FdsOf(pollFds')) = Len(pollFds)
        /\ FdsOf(pollFds) \in Seq(Fds) /\ Len(FdsOf(pollFds)) = Len(pollFds)
        /\ \A i \in 1..Len(pollFds) : FdsOf(pollFds')[i] = FdsOf(pollFds)[i]
    BY <1>1, <1>3, <1>4, FdsOfType
  <2> QED
    BY <2>1, SeqEqual
<1>6. [Bookkeeping!Next]_Bookkeeping!vars
  BY <1>2, <1>5 DEF Bookkeeping!Poll, Bookkeeping!Next
<1>7. Proved!IInv'
  BY <1>6, StepKeepsProved
<1>8. cur' \in 1..Len(pollFds) + 1
  BY <1>1, <1>2, NextTurnRange
<1>9. TypeOK'
  BY <1>2, <1>4, <1>8 DEF TypeOK
<1>10. VectorsOK'
  BY <1>7, <1>9, ProvedVectorsNext
<1>11. ASSUME NEW i \in 1..NumPorts
       PROVE  /\ i \in 1..Len(pollFds)
              /\ Reports(pollFds[i]) \subseteq {"IN"}
              /\ "IN" \in Reports(pollFds[i]) => \E c \in Conn : Waits(c, Ports[i])
  <2>1. i \in 1..Len(pollFds)
    BY <1>1
  <2>2. pollFds[i].fd = Ports[i] /\ pollFds[i].events = "IN"
    BY DEF VectorsOK, ListenersOK
  <2>3. Ports[i] \in Fds /\ files[Ports[i]] = Obj("lsn", 0)
    BY PortsFacts DEF ListenersOK
  <2>4. Reports(pollFds[i]) = IF \E c \in Conn : Waits(c, Ports[i]) THEN {"IN"} ELSE {}
    BY <2>2, <2>3 DEF Reports, Obj
  <2> QED
    BY <2>1, <2>4
<1>12. ListenersOK'
  <2>1. \A i \in 1..NumPorts : pollFds'[i].events = "IN" /\ pollFds'[i].revents \subseteq {"IN"}
    BY <1>3, <1>11 DEF ListenersOK
  <2>2. \A i \in NumPorts + 1 .. Len(pollFds) : pollFds'[i].fd \in Handled
    <3>1. \A i \in NumPorts + 1 .. Len(pollFds) : i \in 1..Len(pollFds)
      BY <1>1
    <3> QED
      BY <1>3, <3>1 DEF ListenersOK
  <2> QED
    BY <1>2, <1>4, <2>1, <2>2 DEF ListenersOK, NumPorts
<1>13. BacklogOK'
  <2> SUFFICES ASSUME NEW i \in cur'..NumPorts, "IN" \in pollFds'[i].revents
               PROVE  \E c \in Conn : Waits(c, Ports[i])'
    BY DEF BacklogOK, NumPorts
  <2>1. i \in 1..NumPorts
    BY <1>1, <1>8
  <2>2. "IN" \in Reports(pollFds[i])
    BY <1>3, <1>11, <2>1
  <2> QED
    BY <1>2, <1>11, <2>1, <2>2 DEF Waits
<1>14. CursorOK'
  BY <1>2 DEF CursorOK
<1>15. WatchedDescriptors'
  <2>1. DOMAIN pollFds' = 1..Len(pollFds)
    BY <1>2
  <2> QED
    BY SMTT(30), <1>1, <1>2, <1>3, <2>1 DEF WatchedDescriptors
<1> QED
  BY <1>2, <1>6, <1>7, <1>9, <1>10, <1>12, <1>13, <1>14, <1>15 DEF GoodClients

-----------------------------------------------------------------------------
(* All steps *)

LEMMA InitSocketInv == Init => SocketInv /\ Bookkeeping!Init
<1> SUFFICES ASSUME Init
             PROVE  SocketInv /\ Bookkeeping!Init
  OBVIOUS
<1> USE DEF Init
<1>1. /\ NumPorts \in Nat /\ pollFds = [i \in 1..NumPorts |-> Entry(Ports[i], "IN")]
      /\ \A i \in 1..NumPorts : pollFds[i] \in EntryType /\ pollFds[i] = Entry(Ports[i], "IN")
  BY PortsFacts DEF Entry, EntryType
<1>2. pollFds \in Seq(EntryType) /\ Len(pollFds) = NumPorts
  <2>1. pollFds \in [1..NumPorts -> EntryType]
    BY <1>1
  <2> QED
    BY <1>1, <2>1, LenProperties
<1>3. FdsOf(pollFds) = Ports /\ FdsOf(addPollFds) = <<>>
  <2>1. Ports \in Seq(Fds)
    <3>1. Ports \in [DOMAIN Ports -> 3..MaxFd]
      BY PortsAssumption, LenProperties
    <3>2. Ports \in [1..NumPorts -> Fds]
      BY <3>1, PortsFacts
    <3> QED
      BY <1>1, <3>2
  <2>2. /\ FdsOf(pollFds) \in Seq(Fds) /\ Len(FdsOf(pollFds)) = NumPorts
        /\ \A i \in 1..NumPorts : FdsOf(pollFds)[i] = pollFds[i].fd
    BY <1>2, FdsOfType
  <2>3. \A i \in 1..NumPorts : pollFds[i].fd = Ports[i]
    BY <1>1 DEF Entry
  <2>4. FdsOf(pollFds) = Ports
    BY <2>1, <2>2, <2>3, SeqEqual DEF NumPorts
  <2>5. <<>> \in Seq(EntryType) /\ Len(<<>>) = 0
    OBVIOUS
  <2>6. FdsOf(<<>>) \in Seq(Fds) /\ Len(FdsOf(<<>>)) = 0
    BY <2>5, FdsOfType
  <2> QED
    BY <2>4, <2>6, EmptySeq
<1>4. Bookkeeping!Init
  BY <1>3 DEF Bookkeeping!Init
<1>5. Proved!IInv
  <2>1. Ports \in Seq(Fds)
    <3>1. Ports \in [DOMAIN Ports -> 3..MaxFd]
      BY PortsAssumption, LenProperties
    <3>2. Ports \in [1..NumPorts -> Fds]
      BY <3>1, PortsFacts
    <3> QED
      BY <1>1, <3>2
  <2>2. Proved!Init
    BY <1>3 DEF Proved!Init
  <2> QED
    BY <2>1, <2>2, Proved!InitIInv
<1>6. TypeOK
  <2>1. files \in [Fds -> Object]
    BY DEF Obj, Free, Object
  <2>2. NewConn \in ConnType /\ Len(NewConn.asked) <= MaxRequests
        /\ NewConn.unread \in Seq(0..Len(NewConn.asked))
    BY BoundsAssumption DEF NewConn, ConnType
  <2>3. NoJob \in JobType
    BY BaseTypes DEF NoJob, JobType
  <2>4. now \in 1..MaxNow
    BY BoundsAssumption
  <2>5. clients \in [DOMAIN clients -> BufferType]
    OBVIOUS
  <2>6. cur \in 1..Len(pollFds) + 1
    BY <1>1, <1>2
  <2>7. /\ conns \in [Conn -> ConnType]
        /\ \A c \in Conn : /\ Len(conns[c].asked) <= MaxRequests
                           /\ conns[c].unread \in Seq(0..Len(conns[c].asked))
    BY <2>2
  <2>8. jobs \in [Job -> JobType]
    BY <2>3
  <2>9. /\ up \in BOOLEAN /\ pc \in {"poll", "handle", "scan", "reap", "drop", "erase"}
        /\ addPollFds \in Seq(EntryType) /\ delIndex \in Seq(Nat) /\ numClients \in Nat
    OBVIOUS
  <2> HIDE DEF Init
  <2> QED
    BY <1>2, <2>1, <2>4, <2>5, <2>6, <2>7, <2>8, <2>9 DEF TypeOK
<1>7. GoodClients(clients)
  BY DEF GoodClients
<1>8. VectorsOK
  BY <1>5, <1>6, ProvedVectors
<1>9. ListenersOK
  <2>1. \A p \in Range(Ports) : files[p] = Obj("lsn", 0)
    BY PortsFacts
  <2>2. \A i \in 1..NumPorts : pollFds[i].events = "IN" /\ pollFds[i].revents \subseteq {"IN"}
    BY <1>1 DEF Entry
  <2>3. \A i \in NumPorts + 1 .. Len(pollFds) : FALSE
    BY <1>1, <1>2
  <2>4. \A i \in DOMAIN addPollFds : FALSE
    OBVIOUS
  <2> HIDE DEF Init
  <2> QED
    BY <2>1, <2>2, <2>3, <2>4 DEF ListenersOK
<1>10. BacklogOK /\ CursorOK
  BY DEF BacklogOK, CursorOK
<1>11. WatchedDescriptors
  BY DEF WatchedDescriptors, Obj, Free
<1> QED
  BY <1>4, <1>5, <1>6, <1>7, <1>8, <1>9, <1>10, <1>11 DEF SocketInv

LEMMA NextKeeps ==
  ASSUME SocketInv, [Next]_vars
  PROVE  SocketInv' /\ [Bookkeeping!Next]_Bookkeeping!vars
<1>1. CASE Poll
  BY <1>1, PollKeeps
<1>2. CASE Handle
  <2>1. CASE ServerDies
    BY <2>1, ServerDiesKeeps
  <2>2. CASE ~ServerDies
    BY <1>2, <2>2, HandleTurn, HandlerTurnKeeps, HandlerTurnMaps
  <2> QED
    BY <2>1, <2>2
<1>3. CASE DeleteClient
  BY <1>3, EndHandleKeeps, ScanKeepKeeps, ScanKillKeeps, ScanReapKeeps, ScanDropKeeps,
     SortIndexesKeeps, EraseKeeps
  DEF DeleteClient
<1>4. CASE AddPending
  BY <1>4, AddPendingKeeps
<1>5. ASSUME NEW c \in Conn, Peer(c)
      PROVE  SocketInv' /\ [Bookkeeping!Next]_Bookkeeping!vars
  BY <1>5, ConnectKeeps, SendKeeps, SendPartKeeps, FinishResetKeeps DEF Peer
<1>6. ASSUME NEW j \in Job, Child(j)
      PROVE  SocketInv' /\ [Bookkeeping!Next]_Bookkeeping!vars
  BY <1>6, ChildKeeps
<1>7. CASE Tick
  BY <1>7, TickKeeps
<1>8. CASE UNCHANGED vars
  BY <1>8, OutsideKeeps, SameKernel, TypesOfState DEF vars, kernel, SocketInv, TypeOK
<1> QED
  BY <1>1, <1>2, <1>3, <1>4, <1>5, <1>6, <1>7, <1>8 DEF Next, Server

(* What the event loop relies on between any two of its steps. *)
THEOREM SocketInvHolds == Spec => []SocketInv
<1>1. Init => SocketInv
  BY InitSocketInv
<1>2. SocketInv /\ [Next]_vars => SocketInv'
  BY NextKeeps
<1> QED
  BY <1>1, <1>2, PTL DEF Spec

(* Every variable of the event loop keeps its type, in every execution: no
   buffer ever names a listening socket as its client or its script, and no
   handler reads behind the end of a vector. *)
THEOREM TypeCorrect == Spec => []TypeOK
<1>1. SocketInv => TypeOK
  BY DEF SocketInv
<1> QED
  BY <1>1, SocketInvHolds, PTL

(* Every connection and every script's output that is open has its entry,
   or one that waits to be added: none is forgotten open. *)
THEOREM NothingForgotten == Spec => []WatchedDescriptors
<1>1. SocketInv => WatchedDescriptors
  BY DEF SocketInv
<1> QED
  BY <1>1, SocketInvHolds, PTL

(* The event loop keeps its vectors as PollSet prescribes: each of its steps
   is a step of PollSet or leaves the vectors alone.  So what is proved of
   PollSet is true of the event loop. *)
THEOREM LoopKeepsBookkeeping == Spec => KeepsBookkeeping
<1>1. Init => Bookkeeping!Init
  BY InitSocketInv
<1>2. SocketInv /\ [Next]_vars => [Bookkeeping!Next]_Bookkeeping!vars
  BY NextKeeps
<1> QED
  BY <1>1, <1>2, SocketInvHolds, PTL DEF Spec, KeepsBookkeeping, Bookkeeping!Spec

=============================================================================

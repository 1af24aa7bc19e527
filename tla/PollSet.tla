------------------------------ MODULE PollSet ------------------------------
(***************************************************************************)
(* The vectors behind poll() in class SocketInterface: _pollFds,           *)
(* _addPollFds, _delIndex and _numClients, over one pass of eventLoop      *)
(* after another.  Handlers never change _pollFds: createClient queues an  *)
(* entry in _addPollFds and pushDelPollFd queues an index in _delIndex.    *)
(* deleteClient then sorts the indexes, drops duplicates and erases, and   *)
(* eventLoop appends the queued entries.  What the handlers decide is left *)
(* open here (module SocketInterface decides it).                          *)
(*                                                                         *)
(* Indexes count from 1.  The loop position of deleteClient's erase loop   *)
(* is modelled by dropping the head of delIndex.                           *)
(***************************************************************************)
EXTENDS SortedIndexes, Sequences, SequencesExt

CONSTANTS
  Fd,           \* the descriptors
  Ports         \* _sockets: the listening descriptors

ASSUME PortsAssumption == Ports \in Seq(Fd)

VARIABLES
  pollFds,      \* _pollFds, its entries reduced to their descriptor
  addPollFds,   \* _addPollFds, likewise
  delIndex,     \* _delIndex
  numClients,   \* _numClients
  pc            \* the part of eventLoop that runs

vars == <<pollFds, addPollFds, delIndex, numClients, pc>>

NumPorts == Len(Ports)

Marked == { delIndex[i] : i \in DOMAIN delIndex }

-----------------------------------------------------------------------------

(* createSockets and setupPoll: one entry per listening socket. *)
Init ==
  /\ pollFds = Ports
  /\ addPollFds = <<>>
  /\ delIndex = <<>>
  /\ numClients = 0
  /\ pc = "poll"

(* poll() returns; it was given the first _numPorts + _numClients entries. *)
Poll ==
  /\ pc = "poll"
  /\ pc' = "handle"
  /\ UNCHANGED <<pollFds, addPollFds, delIndex, numClients>>

(* createClient, called by a handler for a descriptor it obtained. *)
CreateClient(fd) ==
  /\ pc = "handle"
  /\ addPollFds' = Append(addPollFds, fd)
  /\ UNCHANGED <<pollFds, delIndex, numClients, pc>>

(* pushDelPollFd, called by execWriteError while handlers run, and by
   deleteClient's scan for the entry at hand and for its CGI's entry, so an
   index may be queued twice.  No listening socket is ever deleted. *)
PushDelPollFd(k) ==
  /\ \/ pc = "handle" /\ k \in NumPorts + 1 .. NumPorts + numClients
     \/ pc = "scan" /\ k \in NumPorts + 1 .. Len(pollFds)
  /\ delIndex' = Append(delIndex, k)
  /\ UNCHANGED <<pollFds, addPollFds, numClients, pc>>

(* The last handler returns and deleteClient begins its scan. *)
EndHandle ==
  /\ pc = "handle"
  /\ pc' = "scan"
  /\ UNCHANGED <<pollFds, addPollFds, delIndex, numClients>>

(* Mutant: std::greater is forgotten. *)
SortIndexesAscending ==
  /\ pc = "scan"
  /\ delIndex' = SetToSortSeq(Marked, <)
  /\ pc' = "erase"
  /\ UNCHANGED <<pollFds, addPollFds, numClients>>

(* Mutant: std::unique is forgotten. *)
SortIndexesRepeated ==
  /\ pc = "scan"
  /\ delIndex' = SortSeq(delIndex, >)
  /\ pc' = "erase"
  /\ UNCHANGED <<pollFds, addPollFds, numClients>>

(* The scan ends; the queued indexes are sorted and made unique. *)
SortIndexes ==
  /\ pc = "scan"
  /\ delIndex' \in SortedUnique(Marked)
  /\ pc' = "erase"
  /\ UNCHANGED <<pollFds, addPollFds, numClients>>

(* Mutant: _numClients is not decremented. *)
EraseUncounted ==
  /\ pc = "erase"
  /\ delIndex # <<>>
  /\ pollFds' = RemoveAt(pollFds, Head(delIndex))
  /\ delIndex' = Tail(delIndex)
  /\ UNCHANGED <<addPollFds, numClients, pc>>

(* Mutant: the entry erased is the one before. *)
EraseNeighbour ==
  /\ pc = "erase"
  /\ delIndex # <<>>
  /\ pollFds' = RemoveAt(pollFds, Head(delIndex) - 1)
  /\ delIndex' = Tail(delIndex)
  /\ numClients' = numClients - 1
  /\ UNCHANGED <<addPollFds, pc>>

(* One turn of deleteClient's erase loop. *)
Erase ==
  /\ pc = "erase"
  /\ delIndex # <<>>
  /\ pollFds' = RemoveAt(pollFds, Head(delIndex))
  /\ delIndex' = Tail(delIndex)
  /\ numClients' = numClients - 1
  /\ UNCHANGED <<addPollFds, pc>>

(* Mutant: _numClients is not incremented. *)
AddPendingUncounted ==
  /\ pc = "erase"
  /\ delIndex = <<>>
  /\ pollFds' = pollFds \o addPollFds
  /\ addPollFds' = <<>>
  /\ pc' = "poll"
  /\ UNCHANGED <<delIndex, numClients>>

(* deleteClient has returned; the queued entries join _pollFds. *)
AddPending ==
  /\ pc = "erase"
  /\ delIndex = <<>>
  /\ pollFds' = pollFds \o addPollFds
  /\ numClients' = numClients + Len(addPollFds)
  /\ addPollFds' = <<>>
  /\ pc' = "poll"
  /\ UNCHANGED delIndex

Next ==
  \/ Poll
  \/ \E fd \in Fd : CreateClient(fd)
  \/ \E k \in 1..Len(pollFds) : PushDelPollFd(k)
  \/ EndHandle
  \/ SortIndexes
  \/ Erase
  \/ AddPending

Spec == Init /\ [][Next]_vars

-----------------------------------------------------------------------------

TypeOK ==
  /\ pollFds \in Seq(Fd)
  /\ addPollFds \in Seq(Fd)
  /\ delIndex \in Seq(Nat)
  /\ numClients \in Nat
  /\ pc \in {"poll", "handle", "scan", "erase"}

(* _numPorts + _numClients is the length of _pollFds at every step, so the
   count given to poll() (line 628) and to the handler loop (line 634)
   reaches every entry and reads none past the vector's end, although four
   functions update the vector and its counter in separate statements. *)
CountExact == NumPorts + numClients = Len(pollFds)

(* The listening sockets keep the first _numPorts slots: the handler loop
   tells a listening socket from a client by its index alone (line 666). *)
ListenersFirst ==
  /\ NumPorts <= Len(pollFds)
  /\ \A i \in 1..NumPorts : pollFds[i] = Ports[i]

(* Every queued index names a client's entry, and while the erase loop runs
   it names one of the vector as it is by then, after the erasures already
   done (line 613 does not check), so the queue is strictly descending. *)
EraseInRange ==
  /\ Marked \subseteq NumPorts + 1 .. Len(pollFds)
  /\ pc = "erase" => IsDescending(delIndex)

-----------------------------------------------------------------------------
(* Deferring is invisible: taken together, the vector without the entries
   queued for deletion, followed by the entries queued for addition, is a
   WatchList, where each change happens at once. *)

Kept == DOMAIN pollFds \ Marked
Unmarked == [n \in 1..Cardinality(Kept) |-> pollFds[Nth(Kept, n)]]

Deferred == INSTANCE WatchList WITH watched <- Unmarked \o addPollFds

(* Every step of the deferred bookkeeping is one immediate watch or unwatch
   of WatchList, or invisible: sorting, erasing in descending order and the
   final append lose no entry, keep none that was queued for deletion and
   never take a neighbour's instead. *)
DeferredIsWatchList == Deferred!Spec
=============================================================================

---------------------------- MODULE Descriptors ----------------------------
(***************************************************************************)
(* The operating system as class SocketInterface meets it: the process's   *)
(* descriptor table, what poll() reports of a descriptor, and what a       *)
(* write() or a waitpid() returns.  None of this is under src/; it is      *)
(* modelled from the calls src/srcs/SocketInterface and src/srcs/Cgi make. *)
(* A descriptor is a number that the next open object may take over as     *)
(* soon as it is closed: POSIX hands out the lowest free one.              *)
(*                                                                         *)
(* Platform: the Makefile asks for -std=c++98 and the code uses std::stoi, *)
(* which only libc++ offers together; the reports of poll() are those of   *)
(* that platform (end of file is POLLIN with POLLHUP, an entry that asks   *)
(* for nothing is told only POLLNVAL).                                     *)
(***************************************************************************)
EXTENDS Naturals, Sequences, FiniteSets, FiniteSetsExt

CONSTANTS
  Conn,         \* the connections peers may open, 1, 2, ...
  Job,          \* CGI processes, 1, 2, ...; the number is also the pid
  MaxFd         \* bound: the largest descriptor (RLIMIT_NOFILE)

ASSUME MaxFdAssumption == MaxFd \in Nat
ASSUME NumbersAssumption == Conn \subseteq Nat \ {0} /\ Job \subseteq Nat \ {0}

Fds == 0..MaxFd

(* What a descriptor refers to.  stdin and the two ends of its pipe carry
   the number of the Cgi object they were made for. *)
Object ==
  [kind : {"free", "std", "lsn"}, id : {0}]
    \cup [kind : {"conn"}, id : Conn]
    \cup [kind : {"stdinR", "stdinW", "out"}, id : Job]

Obj(k, n) == [kind |-> k, id |-> n]
Free == Obj("free", 0)

FreeFds(files) == { fd \in Fds : files[fd] = Free }
LowestFree(files) == Min(FreeFds(files))

HasFree(files) == FreeFds(files) # {}

(* pipe() has two descriptors to give. *)
CanPipe(files) == HasFree(files) /\ FreeFds(files) # {LowestFree(files)}

(* accept() or one end of pipe(). *)
Open(files, obj) == [files EXCEPT ![LowestFree(files)] = obj]

(* close() of a number that is not open fails and changes nothing. *)
Close(files, fd) == IF fd \in Fds THEN [files EXCEPT ![fd] = Free] ELSE files

(* An object is referred to by some descriptor. *)
IsOpen(files, obj) == \E fd \in Fds : files[fd] = obj
=============================================================================

----------------------------- MODULE MCPollSet -----------------------------
(* PollSet for TLC: one listening socket and descriptors that may repeat.   *)
EXTENDS PollSet

CONSTANTS
  MaxEntries,   \* bound: entries in the two vectors
  MaxMarks      \* bound: indexes one pass queues for deletion

MCFd == 3..5
MCPorts == <<3>>

BoundedNext ==
  /\ Next
  /\ Len(pollFds') + Len(addPollFds') <= MaxEntries
  /\ Len(delIndex') <= MaxMarks

BoundedSpec == Init /\ [][BoundedNext]_vars
=============================================================================

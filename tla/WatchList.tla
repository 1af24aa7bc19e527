----------------------------- MODULE WatchList -----------------------------
(***************************************************************************)
(* What the event loop's bookkeeping promises, whatever its means: an      *)
(* ordered list of watched descriptors that starts with the listening      *)
(* sockets, grows at its end, and loses exactly the entry that is          *)
(* unwatched.  src/srcs/SocketInterface/SocketInterface.cpp keeps this     *)
(* promise with two vectors, a list of marked indexes and a counter, and   *)
(* defers every change to the end of a pass; that is module PollSet.       *)
(***************************************************************************)
EXTENDS Naturals, Sequences, SequencesExt

CONSTANTS
  Fd,         \* the descriptors
  Ports       \* the listening descriptors, in the order they were opened

VARIABLE watched    \* the descriptors under poll, oldest first

Init == watched = Ports

(* A descriptor comes under poll: acceptConnection, execCgi, setCgiBody. *)
Watch(fd) == watched' = Append(watched, fd)

(* One entry, never a listening socket's, leaves. *)
Unwatch(k) ==
  /\ k > Len(Ports)
  /\ watched' = RemoveAt(watched, k)

Next ==
  \/ \E fd \in Fd : Watch(fd)
  \/ \E k \in DOMAIN watched : Unwatch(k)

Spec == Init /\ [][Next]_watched
=============================================================================

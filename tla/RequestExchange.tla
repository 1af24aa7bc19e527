-------------------------- MODULE RequestExchange --------------------------
(***************************************************************************)
(* What reading requests promises to a peer that waits for each answer     *)
(* before it asks again: every request gets one verdict, in order, and the *)
(* verdict depends on the request alone, not on how its bytes were cut     *)
(* into reads or on what the connection carried before.                    *)
(***************************************************************************)
EXTENDS Naturals, Sequences

CONSTANTS
  Request,        \* what a peer may ask; fields as in RequestFraming
  MaxBodySize,    \* client_max_body_size of the server context
  MaxRequests     \* bound: requests per connection

VARIABLES
  asked,          \* the requests sent, in order
  handed          \* the verdicts on them, in order

vars == <<asked, handed>>

Refused == [ok |-> FALSE, n |-> 0, body |-> <<>>]

(* A POST must say where its body ends, and the body must not be too long. *)
Acceptable(r) ==
  /\ r.method = "POST" => r.framing # "none"
  /\ Len(r.body) <= MaxBodySize

Verdict(n) ==
  IF Acceptable(asked[n]) THEN [ok |-> TRUE, n |-> n, body |-> asked[n].body] ELSE Refused

Init == asked = <<>> /\ handed = <<>>

Ask(r) ==
  /\ Len(handed) = Len(asked)
  /\ Len(asked) < MaxRequests
  /\ asked' = Append(asked, r)
  /\ UNCHANGED handed

Hand ==
  /\ Len(handed) < Len(asked)
  /\ handed' = Append(handed, Verdict(Len(handed) + 1))
  /\ UNCHANGED asked

(* A POST without length may be left waiting, or end the server: the place
   where its length is looked for may hold a number larger than what the
   peer sends, or be missing. *)
IsOwed(r) ==
  r.method = "POST" /\ r.framing = "none"
    => r.place # "short" /\ (r.place = "number" => r.seen <= Len(r.wire))

HandOwed == Hand /\ IsOwed(asked[Len(handed) + 1])

Next == (\E r \in Request : Ask(r)) \/ Hand

Spec == Init /\ [][Next]_vars /\ WF_vars(HandOwed)
=============================================================================

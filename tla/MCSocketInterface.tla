------------------------- MODULE MCSocketInterface -------------------------
(* SocketInterface for TLC: the workloads its configurations choose from.   *)
EXTENDS SocketInterfaceProperties

OnePort == <<3>>
TwoPorts == <<3, 4>>

Req(kind, close) == [kind |-> kind, close |-> close]

StaticRequests == { Req("static", FALSE), Req("static", TRUE), Req("bad", FALSE) }
CgiRequests == { Req("get", FALSE), Req("get", TRUE), Req("post", FALSE) }
GetRequests == { Req("get", FALSE) }
BadOrPost == { Req("bad", FALSE), Req("post", FALSE) }
MixedRequests == { Req("bad", FALSE), Req("get", FALSE), Req("post", FALSE), Req("nocgi", FALSE) }

NoJobs == {}
One == 1..1
Two == 1..2
Three == 1..3
Four == 1..4

-----------------------------------------------------------------------------
(* A corner of Spec that is too far from Init to be reached breadth first:
   three peers connect one after the other, only the first asks twice (and
   then leaves), the script of the third redirects to a file while the second
   one's runs on, and write() takes an answer in as many pieces as it can. *)
Piecemeal ==
  \A fd \in DOMAIN clients \cap DOMAIN clients' :
    clients[fd].response.left <= clients'[fd].response.left + 1

ThreePeers ==
  /\ pc = "poll"
  /\ \E c \in Conn :
       \/ Connect(c, Ports[1]) /\ (c = 1 \/ conns[c - 1].asked # <<>>)
       \/ \E r \in Request : Send(c, r) /\ (c = 1 \/ conns[c].asked = <<>>)
       \/ Finish(c) /\ c = 1 /\ Len(conns[c].got) = 2

TheirScripts ==
  /\ pc = "poll"
  /\ \E j \in Job : /\ Child(j)
                    /\ jobs[j].http.conn # 2
                    /\ jobs'[j].out = IF jobs[j].http.conn = 3 THEN "local" ELSE "doc"

RedirectSpec == Init /\ [][(Server /\ Piecemeal) \/ ThreePeers \/ TheirScripts]_vars
=============================================================================

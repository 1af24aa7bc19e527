-------------------------- MODULE MCRequestFraming --------------------------
(* RequestFraming for TLC: requests as a peer encodes them.                *)
EXTENDS RequestFraming

Data(n) == [i \in 1..n |-> B("data", i)]

(* The chunked coding of a body cut into these chunks. *)
Encode(chunks) ==
  FlattenSeq([i \in DOMAIN chunks |-> <<B("digit", Len(chunks[i]))>> \o CRLF \o chunks[i] \o CRLF])
    \o <<B("digit", 0)>> \o CRLF \o CRLF

Plain(lead, method, body, target) ==
  [lead |-> lead, method |-> method, framing |-> IF method = "POST" THEN "length" ELSE "none",
   len |-> Len(body), place |-> "text", seen |-> 0, wire |-> body, body |-> body,
   target |-> target]

(* A POST without length: "POST / HTTP" ends before the place where one is
   looked for, "POST / HTTP/1.1" at it, and "POST /a HTTP/1.1" has its 1 there. *)
Unmeasured(lead, place, body) ==
  [Plain(lead, "POST", body, "core") EXCEPT !.framing = "none", !.place = place, !.seen = 1]
Chunked(chunks, target) ==
  [lead |-> FALSE, method |-> "POST", framing |-> "chunked", len |-> 0,
   place |-> "text", seen |-> 0, wire |-> Encode(chunks), body |-> FlattenSeq(chunks), target |-> target]

Gets == { Plain(TRUE, "GET", <<>>, "core"), Plain(FALSE, "GET", <<>>, "cgi") }
Posts == { Plain(FALSE, "POST", Data(n), t) : n \in 0..3, t \in {"core", "cgi"} }
ChunkedPosts ==
  { Chunked(c, "core") : c \in { <<>>, <<Data(1)>>, <<Data(1), Data(1)>>, <<Data(2), Data(1)>> } }
UnmeasuredPosts ==
  { Unmeasured(FALSE, place, <<>>) : place \in Place } \cup
  { Unmeasured(FALSE, "number", Data(1)), Unmeasured(TRUE, "text", <<>>) }
Requests == Gets \cup Posts \cup UnmeasuredPosts \cup ChunkedPosts

(* With a zero byte, at which std::string(buf) ends. *)
Binary == <<B("data", 1), B("nul", 0)>>

HardChunks ==
  { Chunked(<<>>, "core"), Chunked(<<Data(2), Data(1)>>, "core"), Chunked(<<Data(3)>>, "cgi"),
    Chunked(<<Data(1)>>, "cgi"), Chunked(<<Binary>>, "core"),
    Unmeasured(FALSE, "short", <<>>),
    Chunked(<<Data(3)>>, "redirect"), Plain(FALSE, "GET", <<>>, "redirect") }

Unchunked == {"none", "length"}
AllFramings == {"none", "length", "chunked"}
=============================================================================

--------------------------- MODULE RequestFraming ---------------------------
(***************************************************************************)
(* How one connection's bytes become requests: execReadRequest, parseLine, *)
(* parseChunkedRequest, execParseRequest and RequestParser::parse, with    *)
(* the handlers that put the RequestBuffer back into its first state       *)
(* between two requests of a connection that is kept alive.                *)
(*                                                                         *)
(* A byte is a record [t, v].  Only the bytes that framing looks at are    *)
(* told apart; a header is two of them, its lines and its blank line.  A   *)
(* read takes any first part of what has arrived, or one that ends where a *)
(* protocol element ends (FreeCut chooses).  The peer waits for each       *)
(* answer.  Which descriptor serves whom, errors of read(), time-outs and  *)
(* the scripts' own lives are the business of module SocketInterface.      *)
(***************************************************************************)
EXTENDS Integers, SequencesExt

CONSTANTS
  Request,      \* what a peer may ask: [lead, method, framing, len, place, seen, wire,
                \*   body, target]
                \*   lead: an empty line precedes it; framing: "none", "length"
                \*   (Content-Length is len) or "chunked"; place: what a header
                \*   without either has from its 16th character on: "short" (it
                \*   ends before), "empty", "number" (that reads as seen) or
                \*   "text"; wire: the bytes after
                \*   the header; body: what they stand for; target: who answers,
                \*   "core", "cgi" or "redirect" (a CGI's local redirect to a file)
  FreeCut,      \* the framings whose requests may be cut anywhere; the others
                \*   are cut where a protocol element ends
  MaxBodySize,  \* client_max_body_size of the server context
  MaxRequests   \* bound: requests per connection

VARIABLES
  asked,        \* the requests the peer has sent
  unread,       \* bytes sent and not yet read
  phase,        \* RequestBuffer::state, or "terminated" when the process is gone
  client,       \* the RequestBuffer's members that framing uses
  handed        \* what execParseRequest made of the requests, in order

vars == <<asked, unread, phase, client, handed>>

Method == {"GET", "POST"}
Target == {"core", "cgi", "redirect"}
Place == {"short", "empty", "number", "text"}

(* "head" and "end" are a header's lines and its blank line; "uninit" is
   what no peer sends. *)
Kind == {"head", "end", "cr", "lf", "digit", "data", "nul", "uninit"}
Byte == [t : Kind, v : Nat]
Sent == [t : Kind \ {"head", "end", "uninit"}, v : Nat]

ASSUME RequestAssumption ==
  \A r \in Request :
    /\ r.lead \in BOOLEAN
    /\ r.method \in Method
    /\ r.framing \in {"none", "length", "chunked"}
    /\ r.len \in Nat
    /\ r.place \in Place
    /\ r.seen \in Nat
    /\ r.wire \in Seq(Sent)
    /\ r.target \in Target
ASSUME BoundsAssumption == MaxBodySize \in Nat /\ MaxRequests \in Nat

-----------------------------------------------------------------------------
(* Bytes *)

B(t, v) == [t |-> t, v |-> v]
CR == B("cr", 0)
LF == B("lf", 0)
CRLF == <<CR, LF>>
End == B("end", 0)
Uninit == B("uninit", 0)

(* What the peer sends for its request number n. *)
Stream(n, r) == (IF r.lead THEN CRLF ELSE <<>>) \o <<B("head", n), End>> \o r.wire

(* The indexes of s that hold a byte of kind t. *)
At(s, t) == { i \in DOMAIN s : s[i].t = t }
First(S) == CHOOSE i \in S : \A j \in S : i <= j
Before(s, i) == SubSeq(s, 1, i - 1)
After(s, i) == SubSeq(s, i + 1, Len(s))

LineEnds(s) == { i \in At(s, "cr") : i < Len(s) /\ s[i + 1] = LF }

(* Where find("\r\n\r\n") may see a header end, and the header it then sees. *)
HeaderEnds(s) == At(s, "end") \cup { i \in 4..Len(s) : i - 3 \in LineEnds(s) /\ i - 1 \in LineEnds(s) }
HeaderEnd(s) == First(HeaderEnds(s))
Body(s) == After(s, HeaderEnd(s))
Heads(s) == { i \in At(s, "head") : HeaderEnds(s) # {} /\ i < HeaderEnd(s) }
Number(s) == s[First(Heads(s))].v

Space == {"cr", "lf"}

-----------------------------------------------------------------------------
(* The buffer *)

(* chunkedSize is -1 while the next line is a chunk's size. *)
NewBuffer == [request |-> <<>>, isChunked |-> FALSE, chunkedSize |-> -1, chunkedBody |-> <<>>]

(* A step of the parser leaves a buffer, isRequestFinished and a status. *)
Result(c, finished, status) == [client |-> c, finished |-> finished, status |-> status]

Wait(c) == Result(c, FALSE, 200)
Finished(c) == Result(c, TRUE, 200)
Fail(c, status) == Result(c, FALSE, status)
Thrown(c) == Result(c, FALSE, 0)    \* an exception that nobody catches

(* std::stoi(s, 0, 16) of the first line: -1 where it throws.  Sizes are
   one digit, and no byte of a body is one. *)
FirstLine(s) == 1..(IF LineEnds(s) = {} THEN Len(s) ELSE First(LineEnds(s)) - 1)
StoI(s) ==
  LET word == { i \in FirstLine(s) : s[i].t \notin Space }
  IN IF word # {} /\ s[First(word)].t = "digit" THEN s[First(word)].v ELSE -1

(* Mutant: the line end after a chunk's data is miscounted by one. *)
AddChunkOffByOne(c, body) ==
  LET missing == c.chunkedSize + 3 - Len(c.chunkedBody)
      ready == [c EXCEPT !.chunkedSize = -1, !.chunkedBody = <<>>]
  IN IF c.chunkedSize = 0 /\ body = CRLF THEN Finished(ready)
     ELSE IF missing < 0 THEN Fail(c, 400)
     ELSE IF missing = 0
       THEN Wait([ready EXCEPT !.request = @ \o SubSeq(c.chunkedBody, 1, c.chunkedSize)])
     ELSE Wait(c)

(* Mutant: any empty line finishes the request. *)
AddChunkEmptyLine(c, body) ==
  LET missing == c.chunkedSize + 2 - Len(c.chunkedBody)
      ready == [c EXCEPT !.chunkedSize = -1, !.chunkedBody = <<>>]
  IN IF body = CRLF THEN Finished(ready)
     ELSE IF missing < 0 THEN Fail(c, 400)
     ELSE IF missing = 0
       THEN Wait([ready EXCEPT !.request = @ \o SubSeq(c.chunkedBody, 1, c.chunkedSize)])
     ELSE Wait(c)

(* The second half of parseChunkedRequest: what the chunk read so far means. *)
AddChunk(c, body) ==
  LET missing == c.chunkedSize + 2 - Len(c.chunkedBody)
      ready == [c EXCEPT !.chunkedSize = -1, !.chunkedBody = <<>>]
  IN IF c.chunkedSize = 0 /\ body = CRLF THEN Finished(ready)
     ELSE IF missing < 0 THEN Fail(c, 400)
     ELSE IF missing = 0
       THEN Wait([ready EXCEPT !.request = @ \o SubSeq(c.chunkedBody, 1, c.chunkedSize)])
     ELSE Wait(c)

(* What follows a size line in the same read is dropped. *)
ParseChunkedRequest(c, body) ==
  IF body = <<>> THEN Wait([c EXCEPT !.chunkedSize = -1])
  ELSE IF c.chunkedSize >= 0 THEN AddChunk([c EXCEPT !.chunkedBody = @ \o body], body)
  ELSE IF StoI(body) < 0 THEN Fail(c, 400)
  ELSE AddChunk([c EXCEPT !.chunkedSize = StoI(body)], body)

(* A POST without Content-Length.  find() returns npos, and npos + 16 is 15:
   what stands at that place of the header, in "POST /a HTTP/1.1" the last
   digit of the version, is taken for the length. *)
ParseNoLength(c, r) ==
  IF r.place = "short" THEN Thrown(c)
  ELSE IF r.place = "empty" THEN Fail(c, 411)
  ELSE IF r.place = "text" THEN Fail(c, 400)
  ELSE IF Len(Body(c.request)) < r.seen THEN Wait(c)
  ELSE Finished(c)

(* A header is complete: either it announces chunks, or the body must be
   there.  Anything before the method makes it another method. *)
ParseHeader(c) ==
  LET r == asked[Number(c.request)]
      isPost == c.request[1].t = "head" /\ r.method = "POST"
  IN IF Heads(c.request) = {} THEN Finished(c)
     ELSE IF r.framing = "chunked"
       THEN ParseChunkedRequest([c EXCEPT !.isChunked = TRUE,
                                          !.request = SubSeq(@, 1, HeaderEnd(@))], Body(c.request))
     ELSE IF isPost /\ r.framing = "none" THEN ParseNoLength(c, r)
     ELSE IF isPost /\ Len(Body(c.request)) < r.len THEN Wait(c)
     ELSE Finished(c)

ParseLine(c, s) ==
  IF c.request = <<>> /\ s = CRLF /\ ~c.isChunked THEN Wait(c)
  ELSE IF c.isChunked THEN ParseChunkedRequest(c, s)
  ELSE LET grown == [c EXCEPT !.request = @ \o s]
       IN IF HeaderEnds(grown.request) = {} THEN Wait(grown) ELSE ParseHeader(grown)

(* Three words are read from the header; white space is skipped before them,
   but a word too many before the method leaves no protocol. *)
StartsWithWord(s) ==
  \E i, j \in 1..First(Heads(s)) - 1 : i < j /\ s[i].t \notin Space /\ s[j].t \in Space

(* RequestParser::parse; a body shorter than Content-Length is filled up
   from the uninitialized buffer. *)
Refused == [ok |-> FALSE, n |-> 0, body |-> <<>>]
Parse(c) ==
  LET s == c.request
      r == asked[Number(s)]
      isPost == r.method = "POST" /\ \A i \in 1..First(Heads(s)) - 1 : s[i].t \in Space
      body == IF c.isChunked THEN Body(s)
              ELSE [i \in 1..r.len |-> IF i <= Len(Body(s)) THEN Body(s)[i] ELSE Uninit]
  IN IF \/ Heads(s) = {}
        \/ StartsWithWord(s)
        \/ isPost /\ r.framing = "none" /\ ~c.isChunked
        \/ Len(body) > MaxBodySize
     THEN Refused
     ELSE [ok |-> TRUE, n |-> Number(s), body |-> body]

(* substr() beyond the end of a request without a header: out_of_range,
   which nobody catches. *)
Throws(c) == HeaderEnds(c.request) = {} /\ Len(c.request) < 3

(* The process ends: in parseLine or in RequestParser. *)
Dies(parsed) == parsed.status = 0 \/ (parsed.finished /\ Throws(parsed.client))

(* What execParseRequest makes of a step of the parser. *)
Unfinished == [ok |-> TRUE, n |-> 0, body |-> <<>>]
Http(parsed) ==
  IF Dies(parsed) THEN Unfinished
  ELSE IF parsed.status # 200 THEN Refused
  ELSE IF parsed.finished THEN Parse(parsed.client)
  ELSE Unfinished

-----------------------------------------------------------------------------

Init ==
  /\ asked = <<>>
  /\ unread = <<>>
  /\ phase = "READ_REQUEST"
  /\ client = NewBuffer
  /\ handed = <<>>

(* The peer sends its next request. *)
Ask(r) ==
  /\ phase = "READ_REQUEST"
  /\ Len(handed) = Len(asked)
  /\ Len(asked) < MaxRequests
  /\ asked' = Append(asked, r)
  /\ unread' = unread \o Stream(Len(asked) + 1, r)
  /\ UNCHANGED <<phase, client, handed>>

(* Where a read may end.  An element is a header, a line, or what is left of
   a body; a header may come with the line after it. *)
ElementEnds(s) == At(s, "end") \cup At(s, "lf") \cup {Len(s)}
ReadEnds(s) ==
  IF asked[Len(asked)].framing \in FreeCut THEN 1..Len(s)
  ELSE LET e == First(ElementEnds(s))
       IN {e} \cup (IF s[e].t = "end" /\ e < Len(s)
                    THEN {First({ i \in ElementEnds(s) : i > e })} ELSE {})

(* std::string request(buf): the bytes before the first zero byte. *)
CString(s) == IF At(s, "nul") = {} THEN s ELSE Before(s, First(At(s, "nul")))

(* Where execParseRequest goes on: an accepted request has its handler. *)
StateAfter(parsed, http) ==
  IF Dies(parsed) THEN "terminated"
  ELSE IF http = Unfinished THEN phase
  ELSE IF ~http.ok THEN "WRITE_REQUEST_ERROR"
  ELSE IF asked[http.n].target = "core" THEN "EXEC_CORE_HANDLER"
  ELSE "EXEC_CGI"

(* execReadRequest and execParseRequest. *)
ExecReadRequest ==
  /\ phase = "READ_REQUEST"
  /\ unread # <<>>
  /\ \E k \in ReadEnds(unread) :
       \E parsed \in {ParseLine(client, CString(SubSeq(unread, 1, k)))} :
       \E http \in {Http(parsed)} :
         /\ unread' = After(unread, k)
         /\ phase' = StateAfter(parsed, http)
         /\ client' = IF http = Unfinished THEN parsed.client
                      ELSE [parsed.client EXCEPT !.request = <<>>]
         /\ handed' = IF http = Unfinished THEN handed ELSE Append(handed, http)
  /\ UNCHANGED asked

(* Mutant: isChunked is not reset. *)
ExecWriteResponseKeepsChunked ==
  /\ phase = "EXEC_CORE_HANDLER"
  /\ phase' = "READ_REQUEST"
  /\ client' = [client EXCEPT !.request = <<>>]
  /\ UNCHANGED <<asked, unread, handed>>

(* Mutant: the state is not reset. *)
ExecWriteResponseStays ==
  /\ phase = "EXEC_CORE_HANDLER"
  /\ phase' = "WRITE_RESPONSE"
  /\ client' = [client EXCEPT !.isChunked = FALSE, !.request = <<>>]
  /\ UNCHANGED <<asked, unread, handed>>

(* execCoreHandler and the last execWriteResponse of its answer. *)
ExecWriteResponse ==
  /\ phase = "EXEC_CORE_HANDLER"
  /\ phase' = "READ_REQUEST"
  /\ client' = [client EXCEPT !.isChunked = FALSE, !.request = <<>>]
  /\ UNCHANGED <<asked, unread, handed>>

(* The last execWriteCgi of a script's answer: isChunked stays as it was. *)
ExecWriteCgi ==
  /\ phase = "EXEC_CGI"
  /\ asked[Len(asked)].target = "cgi"
  /\ phase' = "READ_REQUEST"
  /\ client' = [client EXCEPT !.request = <<>>]
  /\ UNCHANGED <<asked, unread, handed>>

(* parseCgiResponse of a local redirect: the request it makes up is parsed
   in the same call, and the core handler answers it.  chunkedSize is 0. *)
ParseCgiRedirect ==
  /\ phase = "EXEC_CGI"
  /\ asked[Len(asked)].target = "redirect"
  /\ phase' = "EXEC_CORE_HANDLER"
  /\ client' = [NewBuffer EXCEPT !.chunkedSize = 0]
  /\ UNCHANGED <<asked, unread, handed>>

Server == ExecReadRequest \/ ExecWriteResponse \/ ExecWriteCgi \/ ParseCgiRedirect

Next == (\E r \in Request : Ask(r)) \/ Server

Spec == Init /\ [][Next]_vars

(* The loop comes back to a connection as long as it has something to do,
   and what was sent arrives. *)
FairSpec == Spec /\ WF_vars(Server)

-----------------------------------------------------------------------------
(* Properties *)

(* Types.  Every header that is still to be parsed belongs to a request
   that was sent, so RequestParser never sees one that is not there. *)
Arrived == { b \in Byte : b.t = "head" => b.v \in DOMAIN asked }
Buffer(S) ==
  [request : Seq(S), isChunked : BOOLEAN, chunkedSize : Int, chunkedBody : Seq(S)]
TypeOK ==
  /\ asked \in Seq(Request)
  /\ unread \in Seq(Arrived)
  /\ phase \in {"READ_REQUEST", "EXEC_CORE_HANDLER", "EXEC_CGI", "WRITE_REQUEST_ERROR", "terminated"}
  /\ client \in Buffer(Arrived)
  /\ handed \in Seq([ok : BOOLEAN, n : Nat, body : Seq(Byte)])

(* Between two reads no finished chunk waits in the buffer: whatever the
   cuts and whatever the connection carried before, a chunk is incomplete
   or already part of the request (SocketInterface.cpp:152-171 compare its
   size after every read).  A refused request leaves what it likes. *)
ChunkIncomplete ==
  phase \notin {"WRITE_REQUEST_ERROR", "terminated"} /\ client.chunkedSize >= 0
    => Len(client.chunkedBody) < client.chunkedSize + 2

(* A chunked request is handed on when its last chunk has arrived, never in
   the middle, whatever the cuts: at most a line end is still to be read
   (SocketInterface.cpp:145).  Not so after a local redirect, which leaves
   chunkedSize at 0 (line 458). *)
HandedAtItsEnd ==
  /\ phase \in {"EXEC_CORE_HANDLER", "EXEC_CGI"}
  /\ \A n \in 1..Len(asked) - 1 : asked[n].target # "redirect"
  => unread \in {<<>>, CRLF}

(* RequestParser only ever gets a whole header, whatever the cuts: the
   process does not end in its substr() (RequestParser.cpp:16-17), only in
   that of parseLine (SocketInterface.cpp:234), for a POST without length
   whose header is shorter than 15 characters.  Not so when
   a chunked request to a script follows a local redirect and a chunk of it
   holds a zero byte: it is finished in its middle, isChunked outlives its
   answer, and what is left of it is parsed as a request of its own. *)
IsShort(r) == r.method = "POST" /\ r.framing = "none" /\ r.place = "short"
OnlyShortTerminates ==
  phase = "terminated" => Heads(client.request) # {} /\ IsShort(asked[Number(client.request)])

(* Every request is handed on once, whole and in order, or refused if it
   has no length or too long a body, whatever the cuts.  None waits for ever
   but a POST without length whose header holds a number in its place that
   is greater than its body (SocketInterface.cpp:234-260). *)
Exchange == INSTANCE RequestExchange
ExchangeKept == Exchange!Spec

(* What the comment at SocketInterface.cpp:144 says: when the size is 0 and
   what was read holds CR LF CR LF, the chunked request is complete. *)
JustRead == SubSeq(unread, 1, Len(unread) - Len(unread'))
HasBlankLine(s) == \E i \in LineEnds(s) : i + 2 \in LineEnds(s)
TerminatorFinishes ==
  [][ client.isChunked /\ client'.chunkedSize = 0 => ~HasBlankLine(JustRead) ]_vars
=============================================================================

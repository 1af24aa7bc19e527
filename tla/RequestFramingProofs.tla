------------------------ MODULE RequestFramingProofs ------------------------
(***************************************************************************)
(* Proofs about RequestFraming, for all requests and for all ways to cut   *)
(* their bytes into reads.                                                 *)
(***************************************************************************)
EXTENDS RequestFraming, TLAPS, SequenceTheorems, WellFoundedInduction

(* A chunk that is being read misses at least one byte. *)
Incomplete(c) == c.chunkedSize >= 0 => Len(c.chunkedBody) < c.chunkedSize + 2

(* Parser steps that leave a buffer of bytes from S, with an incomplete chunk
   unless they fail. *)
Good(S, parsed) ==
  /\ parsed.client \in Buffer(S)
  /\ parsed.finished \in BOOLEAN
  /\ parsed.status = 200 => Incomplete(parsed.client)

-----------------------------------------------------------------------------
(* Positions and parts of sequences *)

(* CHOOSE finds a first index wherever there is an index. *)
LEMMA FirstIsMember ==
  ASSUME NEW S \in SUBSET Nat, S # {}
  PROVE  First(S) \in S /\ \A y \in S : First(S) <= y
<1>1. PICK x \in S : \A y \in S : ~(<<y, x>> \in OpToRel(<, Nat))
  BY NatLessThanWellFounded, WFMin
<1>2. ASSUME NEW y \in S
      PROVE  x <= y
  <2>1. ~(<<y, x>> \in OpToRel(<, Nat))
    BY <1>1
  <2>2. <<y, x>> \in Nat \X Nat
    OBVIOUS
  <2>3. ~(y < x)
    BY <2>1, <2>2 DEF OpToRel
  <2>4. x \in Nat /\ y \in Nat
    OBVIOUS
  <2> QED
    BY <2>3, <2>4
<1> QED
  BY <1>1, <1>2 DEF First

(* A part of a sequence is a sequence of the same elements. *)
LEMMA PartIsSeq ==
  ASSUME NEW T, NEW s \in Seq(T), NEW m \in 1..Len(s) + 1, NEW n \in 0..Len(s)
  PROVE  SubSeq(s, m, n) \in Seq(T)
<1>1. Len(s) \in Nat /\ m \in Int /\ n \in Int
  BY LenProperties
<1>2. \A i \in m..n : s[i] \in T
  BY <1>1, ElementOfSeq
<1> QED
  BY <1>1, <1>2, SubSeqProperties

LEMMA PositionsInRange ==
  ASSUME NEW T, NEW s \in Seq(T)
  PROVE  /\ \A t : At(s, t) \subseteq 1..Len(s)
         /\ LineEnds(s) \subseteq 1..Len(s)
         /\ HeaderEnds(s) \subseteq 1..Len(s)
<1>1. DOMAIN s = 1..Len(s) /\ Len(s) \in Nat
  BY LenProperties
<1>2. \A t : At(s, t) \subseteq 1..Len(s)
  BY <1>1 DEF At
<1>3. LineEnds(s) \subseteq 1..Len(s)
  BY <1>2 DEF LineEnds
<1>4. 4..Len(s) \subseteq 1..Len(s)
  BY <1>1
<1>5. HeaderEnds(s) \subseteq 1..Len(s)
  BY <1>2, <1>4 DEF HeaderEnds
<1> QED
  BY <1>2, <1>3, <1>5

(* The parts of a request that has a header. *)
LEMMA HeaderParts ==
  ASSUME NEW T, NEW s \in Seq(T), HeaderEnds(s) # {}
  PROVE  /\ HeaderEnd(s) \in 1..Len(s)
         /\ SubSeq(s, 1, HeaderEnd(s)) \in Seq(T)
         /\ Body(s) \in Seq(T)
<1>1. Len(s) \in Nat
  BY LenProperties
<1>2. HeaderEnds(s) \subseteq 1..Len(s)
  BY PositionsInRange
<1>3. HeaderEnds(s) \in SUBSET Nat
  BY <1>1, <1>2
<1>4. HeaderEnd(s) \in 1..Len(s)
  BY <1>2, <1>3, FirstIsMember DEF HeaderEnd
<1>5. SubSeq(s, 1, HeaderEnd(s)) \in Seq(T)
  BY <1>1, <1>4, PartIsSeq
<1>6. Body(s) \in Seq(T)
  BY <1>1, <1>4, PartIsSeq DEF Body, After
<1> QED
  BY <1>4, <1>5, <1>6

(* A zero byte shortens what was read; it adds nothing. *)
LEMMA CStringIsSeq ==
  ASSUME NEW T, NEW s \in Seq(T)
  PROVE  CString(s) \in Seq(T)
<1>1. Len(s) \in Nat
  BY LenProperties
<1>2. CASE At(s, "nul") = {}
  BY <1>2 DEF CString
<1>3. CASE At(s, "nul") # {}
  <2>1. At(s, "nul") \subseteq 1..Len(s)
    BY PositionsInRange
  <2>2. First(At(s, "nul")) \in 1..Len(s)
    <3>1. At(s, "nul") \in SUBSET Nat
      BY <1>1, <2>1
    <3> QED
      BY <1>3, <2>1, <3>1, FirstIsMember
  <2>3. SubSeq(s, 1, First(At(s, "nul")) - 1) \in Seq(T)
    BY <1>1, <2>2, PartIsSeq
  <2> QED
    BY <1>3, <2>3 DEF CString, Before
<1> QED
  BY <1>2, <1>3

-----------------------------------------------------------------------------
(* The parser *)

(* stoi never returns less than the -1 that stands for its exception. *)
LEMMA StoIType ==
  ASSUME NEW S, S \subseteq Byte, NEW s \in Seq(S)
  PROVE  StoI(s) \in Nat \cup {-1}
<1> DEFINE word == { i \in FirstLine(s) : s[i].t \notin Space }
<1>1. Len(s) \in Nat
  BY LenProperties
<1>2. FirstLine(s) \subseteq 1..Len(s)
  <2>1. CASE LineEnds(s) = {}
    BY <2>1 DEF FirstLine
  <2>2. CASE LineEnds(s) # {}
    <3>1. LineEnds(s) \subseteq 1..Len(s)
      BY PositionsInRange
    <3>2. LineEnds(s) \in SUBSET Nat
      BY <1>1, <3>1
    <3>3. First(LineEnds(s)) \in 1..Len(s)
      BY <2>2, <3>1, <3>2, FirstIsMember
    <3> QED
      BY <1>1, <2>2, <3>3 DEF FirstLine
  <2> QED
    BY <2>1, <2>2
<1>3. word # {} => First(word) \in 1..Len(s)
  <2>1. word \in SUBSET Nat /\ word \subseteq 1..Len(s)
    BY <1>1, <1>2
  <2> QED
    BY <2>1, FirstIsMember
<1>4. word # {} => s[First(word)] \in Byte
  BY <1>3, ElementOfSeq
<1>5. StoI(s) = IF word # {} /\ s[First(word)].t = "digit" THEN s[First(word)].v ELSE -1
  BY DEF StoI
<1> QED
  BY <1>4, <1>5 DEF Byte

(* Of a chunk that has its size, the parser keeps an incomplete rest. *)
LEMMA AddChunkGood ==
  ASSUME NEW S, NEW c \in Buffer(S), c.chunkedSize >= 0, NEW body
  PROVE  Good(S, AddChunk(c, body))
<1> DEFINE missing == c.chunkedSize + 2 - Len(c.chunkedBody)
           ready == [c EXCEPT !.chunkedSize = -1, !.chunkedBody = <<>>]
           added == [ready EXCEPT !.request = @ \o SubSeq(c.chunkedBody, 1, c.chunkedSize)]
<1>1. c.request \in Seq(S) /\ c.chunkedBody \in Seq(S) /\ c.chunkedSize \in Int
  BY DEF Buffer
<1>2. Len(c.chunkedBody) \in Nat
  BY <1>1, LenProperties
<1>3. ready \in Buffer(S) /\ Incomplete(ready)
  <2>1. <<>> \in Seq(S)
    BY EmptySeq
  <2> DEFINE unsized == [c EXCEPT !.chunkedSize = -1]
  <2>2. unsized \in Buffer(S)
    BY DEF Buffer
  <2>3. ready = [unsized EXCEPT !.chunkedBody = <<>>]
    BY DEF Buffer
  <2>4. ready \in Buffer(S)
    <3> HIDE DEF unsized, ready
    <3> QED
      BY <2>1, <2>2, <2>3 DEF Buffer
  <2>5. ready.chunkedSize = -1
    BY DEF Buffer
  <2> QED
    BY <2>4, <2>5 DEF Incomplete
<1>4. CASE c.chunkedSize = 0 /\ body = CRLF
  <2>1. AddChunk(c, body) = Finished(ready)
    BY <1>4 DEF AddChunk
  <2> QED
    BY <1>3, <2>1 DEF Good, Finished, Result
<1>5. CASE ~(c.chunkedSize = 0 /\ body = CRLF) /\ missing < 0
  <2>1. AddChunk(c, body) = Fail(c, 400)
    BY <1>5 DEF AddChunk
  <2> QED
    BY <2>1 DEF Good, Fail, Result
<1>6. CASE ~(c.chunkedSize = 0 /\ body = CRLF) /\ missing = 0
  <2>1. AddChunk(c, body) = Wait(added)
    BY <1>1, <1>2, <1>6 DEF AddChunk
  <2>2. SubSeq(c.chunkedBody, 1, c.chunkedSize) \in Seq(S)
    <3>1. Len(c.chunkedBody) = c.chunkedSize + 2
      BY <1>1, <1>2, <1>6
    <3>2. c.chunkedSize \in 0..Len(c.chunkedBody) /\ 1 \in 1..Len(c.chunkedBody) + 1
      BY <1>1, <1>2, <3>1
    <3> QED
      BY <1>1, <3>2, PartIsSeq
  <2>3. c.request \o SubSeq(c.chunkedBody, 1, c.chunkedSize) \in Seq(S)
    BY <1>1, <2>2, ConcatProperties
  <2>4. added \in Buffer(S) /\ Incomplete(added)
    BY <1>3, <2>3 DEF Buffer, Incomplete
  <2> QED
    BY <2>1, <2>4 DEF Good, Wait, Result
<1>7. CASE ~(c.chunkedSize = 0 /\ body = CRLF) /\ missing > 0
  <2>1. AddChunk(c, body) = Wait(c)
    BY <1>1, <1>2, <1>7 DEF AddChunk
  <2>2. Incomplete(c)
    BY <1>1, <1>2, <1>7 DEF Incomplete
  <2> QED
    BY <2>1, <2>2 DEF Good, Wait, Result
<1> QED
  BY <1>1, <1>2, <1>4, <1>5, <1>6, <1>7

LEMMA ParseChunkedRequestGood ==
  ASSUME NEW S, S \subseteq Byte, NEW c \in Buffer(S), Incomplete(c), NEW body \in Seq(S)
  PROVE  Good(S, ParseChunkedRequest(c, body))
<1>1. c.chunkedSize \in Int /\ c.chunkedBody \in Seq(S)
  BY DEF Buffer
<1>2. CASE body = <<>>
  <2> DEFINE idle == [c EXCEPT !.chunkedSize = -1]
  <2>1. ParseChunkedRequest(c, body) = Wait(idle)
    BY <1>2 DEF ParseChunkedRequest
  <2>2. idle \in Buffer(S) /\ Incomplete(idle)
    BY DEF Buffer, Incomplete
  <2> QED
    BY <2>1, <2>2 DEF Good, Wait, Result
<1>3. CASE body # <<>> /\ c.chunkedSize >= 0
  <2> DEFINE grown == [c EXCEPT !.chunkedBody = @ \o body]
  <2>1. c.chunkedBody \o body \in Seq(S)
    BY <1>1, ConcatProperties
  <2>2. grown \in Buffer(S) /\ grown.chunkedSize >= 0
    BY <1>3, <2>1 DEF Buffer
  <2>3. ParseChunkedRequest(c, body) = AddChunk(grown, body)
    BY <1>3 DEF ParseChunkedRequest
  <2> QED
    BY <2>2, <2>3, AddChunkGood
<1>4. CASE body # <<>> /\ c.chunkedSize < 0 /\ StoI(body) < 0
  <2>1. ParseChunkedRequest(c, body) = Fail(c, 400)
    BY <1>1, <1>4 DEF ParseChunkedRequest
  <2> QED
    BY <2>1 DEF Good, Fail, Result
<1>5. CASE body # <<>> /\ c.chunkedSize < 0 /\ ~(StoI(body) < 0)
  <2> DEFINE sized == [c EXCEPT !.chunkedSize = StoI(body)]
  <2>1. StoI(body) \in Nat
    BY <1>5, StoIType
  <2>2. sized \in Buffer(S) /\ sized.chunkedSize >= 0
    <3>1. ASSUME NEW m \in Nat
          PROVE  LET d == [c EXCEPT !.chunkedSize = m] IN d \in Buffer(S) /\ d.chunkedSize >= 0
      <4>1. [c EXCEPT !.chunkedSize = m] =
              [request |-> c.request, isChunked |-> c.isChunked,
               chunkedSize |-> m, chunkedBody |-> c.chunkedBody]
        BY DEF Buffer
      <4> QED
        BY <4>1 DEF Buffer
    <3> QED
      BY <2>1, <3>1
  <2>3. ParseChunkedRequest(c, body) = AddChunk(sized, body)
    BY <1>1, <1>5 DEF ParseChunkedRequest
  <2> QED
    BY <2>2, <2>3, AddChunkGood
<1> QED
  BY <1>1, <1>2, <1>3, <1>4, <1>5

(* Chunks are refused, never thrown. *)
LEMMA ChunksNeverThrow ==
  ASSUME NEW c, NEW body
  PROVE  ParseChunkedRequest(c, body).status # 0
<1>1. \A d : Wait(d).status # 0 /\ Finished(d).status # 0 /\ Fail(d, 400).status # 0
  BY DEF Wait, Finished, Fail, Result
<1>2. \A d : AddChunk(d, body).status # 0
  BY <1>1 DEF AddChunk
<1> QED
  BY <1>1, <1>2 DEF ParseChunkedRequest

LEMMA ParseHeaderGood ==
  ASSUME NEW S, S \subseteq Byte, NEW c \in Buffer(S), Incomplete(c), HeaderEnds(c.request) # {}
  PROVE  Good(S, ParseHeader(c))
<1>1. /\ Good(S, Finished(c)) /\ Good(S, Wait(c)) /\ Good(S, Thrown(c))
      /\ Good(S, Fail(c, 400)) /\ Good(S, Fail(c, 411))
  BY DEF Good, Finished, Wait, Thrown, Fail, Result
<1> DEFINE cut == [c EXCEPT !.isChunked = TRUE, !.request = SubSeq(@, 1, HeaderEnd(@))]
<1>2. c.request \in Seq(S)
  BY DEF Buffer
<1>3. SubSeq(c.request, 1, HeaderEnd(c.request)) \in Seq(S) /\ Body(c.request) \in Seq(S)
  BY <1>2, HeaderParts
<1>4. cut \in Buffer(S) /\ Incomplete(cut)
  BY <1>3 DEF Buffer, Incomplete
<1>5. Good(S, ParseChunkedRequest(cut, Body(c.request)))
  BY <1>3, <1>4, ParseChunkedRequestGood
<1> HIDE DEF cut
<1>6. ParseHeader(c) \in {Finished(c), Wait(c), Thrown(c), Fail(c, 400), Fail(c, 411),
                         ParseChunkedRequest(cut, Body(c.request))}
  BY DEF ParseHeader, ParseNoLength, cut
<1> QED
  BY <1>1, <1>5, <1>6

(* One read: whatever came, the buffer is a buffer again. *)
LEMMA ParseLineGood ==
  ASSUME NEW S, S \subseteq Byte, NEW c \in Buffer(S), Incomplete(c), NEW s \in Seq(S)
  PROVE  Good(S, ParseLine(c, s))
<1> DEFINE grown == [c EXCEPT !.request = @ \o s]
<1>1. c.request \in Seq(S)
  BY DEF Buffer
<1>2. c.request \o s \in Seq(S)
  BY <1>1, ConcatProperties
<1>3. grown \in Buffer(S) /\ Incomplete(grown)
  BY <1>2 DEF Buffer, Incomplete
<1>4. Good(S, Wait(c)) /\ Good(S, Wait(grown))
  BY <1>3 DEF Good, Wait, Result
<1>5. Good(S, ParseChunkedRequest(c, s))
  BY ParseChunkedRequestGood
<1>6. HeaderEnds(grown.request) # {} => Good(S, ParseHeader(grown))
  BY <1>3, ParseHeaderGood
<1> HIDE DEF grown
<1>7. \/ ParseLine(c, s) = Wait(c)
      \/ ParseLine(c, s) = Wait(grown)
      \/ ParseLine(c, s) = ParseChunkedRequest(c, s)
      \/ HeaderEnds(grown.request) # {} /\ ParseLine(c, s) = ParseHeader(grown)
  BY DEF ParseLine, grown
<1> QED
  BY <1>4, <1>5, <1>6, <1>7

(* RequestParser's verdict is one, since the header names a request. *)
LEMMA HttpType ==
  ASSUME asked \in Seq(Request), NEW parsed, parsed.client \in Buffer(Arrived)
  PROVE  Http(parsed) \in [ok : BOOLEAN, n : Nat, body : Seq(Byte)]
<1> DEFINE s == parsed.client.request
           r == asked[Number(s)]
           filled == [i \in 1..r.len |-> IF i <= Len(Body(s)) THEN Body(s)[i] ELSE Uninit]
           body == IF parsed.client.isChunked THEN Body(s) ELSE filled
<1>1. s \in Seq(Arrived) /\ Arrived \subseteq Byte
  BY DEF Buffer, Arrived
<1>2. /\ Refused \in [ok : BOOLEAN, n : Nat, body : Seq(Byte)]
      /\ Unfinished \in [ok : BOOLEAN, n : Nat, body : Seq(Byte)]
  <2>1. <<>> \in Seq(Byte)
    BY EmptySeq
  <2> QED
    BY <2>1 DEF Refused, Unfinished
<1>3. CASE Heads(s) = {}
  <2>1. Parse(parsed.client) = Refused
    BY <1>3 DEF Parse
  <2> QED
    BY <1>2, <2>1 DEF Http
<1>4. CASE Heads(s) # {}
  <2>1. HeaderEnds(s) # {} /\ Heads(s) \subseteq At(s, "head")
    BY <1>4 DEF Heads
  <2>2. First(Heads(s)) \in At(s, "head") /\ First(Heads(s)) \in 1..Len(s)
    <3>1. Heads(s) \subseteq 1..Len(s)
      BY <1>1, <2>1, PositionsInRange
    <3>2. Heads(s) \in SUBSET Nat
      BY <1>1, <3>1, LenProperties
    <3> QED
      BY <1>4, <2>1, <3>1, <3>2, FirstIsMember
  <2>3. s[First(Heads(s))] \in Arrived /\ s[First(Heads(s))].t = "head"
    BY <1>1, <2>2, ElementOfSeq DEF At
  <2>4. Number(s) \in DOMAIN asked
    BY <2>3 DEF Arrived, Number
  <2>5. Number(s) \in 1..Len(asked) /\ Number(s) \in Nat
    BY <2>4, LenProperties
  <2>6. r.len \in Nat
    BY <2>5, ElementOfSeq, RequestAssumption
  <2>7. Body(s) \in Seq(Byte)
    <3>1. s \in Seq(Byte)
      BY <1>1
    <3> QED
      BY <2>1, <3>1, HeaderParts
  <2>8. filled \in Seq(Byte)
    <3>1. Uninit \in Byte
      BY DEF Uninit, B, Byte, Kind
    <3>2. Len(Body(s)) \in Nat
      BY <2>7, LenProperties
    <3>3. ASSUME NEW i \in 1..r.len
          PROVE  (IF i <= Len(Body(s)) THEN Body(s)[i] ELSE Uninit) \in Byte
      <4>1. i \in Nat \ {0}
        BY <2>6
      <4>2. i <= Len(Body(s)) => i \in 1..Len(Body(s))
        BY <3>2, <4>1
      <4> QED
        BY <2>7, <3>1, <4>2, ElementOfSeq
    <3>4. filled \in [1..r.len -> Byte]
      BY <3>3
    <3> HIDE DEF filled
    <3> QED
      BY <2>6, <3>4, SeqDef
  <2>9. body \in Seq(Byte)
    BY <2>7, <2>8
  <2> HIDE DEF body, filled
  <2>10. Parse(parsed.client) \in {Refused, [ok |-> TRUE, n |-> Number(s), body |-> body]}
    BY DEF Parse, body, filled
  <2>11. [ok |-> TRUE, n |-> Number(s), body |-> body] \in [ok : BOOLEAN, n : Nat, body : Seq(Byte)]
    BY <2>5, <2>9
  <2>12. Parse(parsed.client) \in [ok : BOOLEAN, n : Nat, body : Seq(Byte)]
    BY <1>2, <2>10, <2>11
  <2> QED
    BY <1>2, <2>12 DEF Http
<1> QED
  BY <1>3, <1>4

-----------------------------------------------------------------------------
(* The steps *)

(* Types and incomplete chunks need each other: what is taken out of
   chunkedBody is part of it only because the sizes add up. *)
IInv == TypeOK /\ ChunkIncomplete

(* The peer's requests arrive as bytes of requests that were sent. *)
LEMMA AskPreserves ==
  ASSUME TypeOK, NEW r \in Request, Ask(r)
  PROVE  TypeOK'
<1>1. /\ asked \in Seq(Request) /\ unread \in Seq(Arrived) /\ client \in Buffer(Arrived)
      /\ asked' = Append(asked, r)
      /\ unread' = unread \o Stream(Len(asked) + 1, r)
      /\ UNCHANGED <<phase, client, handed>>
  BY DEF TypeOK, Ask
<1>2. /\ asked' \in Seq(Request)
      /\ Len(asked') = Len(asked) + 1
      /\ Len(asked) \in Nat
  BY <1>1, AppendProperties, LenProperties
<1>3. DOMAIN asked = 1..Len(asked) /\ DOMAIN asked' = 1..Len(asked) + 1
  BY <1>1, <1>2, LenProperties
<1>4. DOMAIN asked \subseteq DOMAIN asked' /\ Len(asked) + 1 \in DOMAIN asked'
  BY <1>2, <1>3
<1>5. Arrived \subseteq Arrived'
  BY <1>4 DEF Arrived
<1>6. Stream(Len(asked) + 1, r) \in Seq(Arrived')
  <2>1. /\ B("head", Len(asked) + 1) \in Arrived' /\ End \in Arrived'
        /\ CR \in Arrived' /\ LF \in Arrived'
    BY <1>2, <1>4 DEF B, End, CR, LF, Arrived, Byte, Kind
  <2>2. CRLF \in Seq(Arrived') /\ <<>> \in Seq(Arrived')
    BY <2>1 DEF CRLF
  <2>3. <<B("head", Len(asked) + 1), End>> \in Seq(Arrived')
    BY <2>1
  <2>4. r.wire \in Seq(Sent) /\ Sent \subseteq Arrived'
    BY RequestAssumption DEF Sent, Arrived, Byte, Kind
  <2>5. r.wire \in Seq(Arrived')
    BY <2>4
  <2> DEFINE lead == IF r.lead THEN CRLF ELSE <<>>
  <2>6. lead \in Seq(Arrived')
    BY <2>2
  <2> HIDE DEF lead
  <2>7. lead \o <<B("head", Len(asked) + 1), End>> \in Seq(Arrived')
    BY <2>3, <2>6, ConcatProperties
  <2>8. (lead \o <<B("head", Len(asked) + 1), End>>) \o r.wire \in Seq(Arrived')
    BY <2>5, <2>7, ConcatProperties
  <2> QED
    BY <2>8 DEF Stream, lead
<1>7. unread' \in Seq(Arrived')
  <2>1. unread \in Seq(Arrived')
    BY <1>1, <1>5
  <2> QED
    BY <1>1, <1>6, <2>1, ConcatProperties
<1>8. client' \in Buffer(Arrived)'
  <2>1. Seq(Arrived) \subseteq Seq(Arrived')
    BY <1>5
  <2> QED
    BY <1>1, <2>1 DEF Buffer
<1> QED
  BY <1>1, <1>2, <1>7, <1>8 DEF TypeOK

(* Whatever part of the stream a read takes. *)
LEMMA ReadEndsInRange ==
  ASSUME NEW T, NEW s \in Seq(T), s # <<>>
  PROVE  ReadEnds(s) \subseteq 1..Len(s)
<1>1. Len(s) \in Nat \ {0}
  BY EmptySeq, LenProperties
<1>2. ElementEnds(s) \subseteq 1..Len(s) /\ ElementEnds(s) # {}
  BY <1>1, PositionsInRange DEF ElementEnds
<1>3. ElementEnds(s) \in SUBSET Nat
  BY <1>1, <1>2
<1> DEFINE e == First(ElementEnds(s))
           later == { i \in ElementEnds(s) : i > e }
<1>4. e \in 1..Len(s)
  BY <1>2, <1>3, FirstIsMember
<1>5. e < Len(s) => First(later) \in 1..Len(s)
  <2>1. SUFFICES ASSUME e < Len(s)
                 PROVE  First(later) \in 1..Len(s)
    OBVIOUS
  <2>2. Len(s) \in later
    BY <1>1, <2>1 DEF ElementEnds
  <2>3. later \in SUBSET Nat /\ later # {} /\ later \subseteq 1..Len(s)
    BY <1>2, <1>3, <2>2
  <2> QED
    BY <2>3, FirstIsMember
<1> HIDE DEF e, later
<1>6. CASE asked[Len(asked)].framing \in FreeCut
  BY <1>6 DEF ReadEnds
<1>7. CASE asked[Len(asked)].framing \notin FreeCut
  <2>1. ReadEnds(s) = {e} \cup (IF s[e].t = "end" /\ e < Len(s) THEN {First(later)} ELSE {})
    BY <1>7 DEF ReadEnds, e, later
  <2> QED
    BY <1>4, <1>5, <2>1
<1> QED
  BY <1>6, <1>7

(* Every read leaves a buffer with an incomplete chunk, or refuses. *)
LEMMA ReadPreserves ==
  ASSUME IInv, ExecReadRequest
  PROVE  IInv'
<1>1. /\ asked \in Seq(Request) /\ unread \in Seq(Arrived) /\ client \in Buffer(Arrived)
      /\ handed \in Seq([ok : BOOLEAN, n : Nat, body : Seq(Byte)])
      /\ phase = "READ_REQUEST" /\ unread # <<>> /\ asked' = asked
  BY DEF IInv, TypeOK, ExecReadRequest
<1>2. Incomplete(client)
  BY <1>1 DEF IInv, ChunkIncomplete, Incomplete
<1>3. PICK k \in ReadEnds(unread) :
        \E parsed \in {ParseLine(client, CString(SubSeq(unread, 1, k)))} :
        \E http \in {Http(parsed)} :
          /\ unread' = After(unread, k)
          /\ phase' = StateAfter(parsed, http)
          /\ client' = IF http = Unfinished THEN parsed.client
                       ELSE [parsed.client EXCEPT !.request = <<>>]
          /\ handed' = IF http = Unfinished THEN handed ELSE Append(handed, http)
  BY DEF ExecReadRequest
<1> DEFINE parsed == ParseLine(client, CString(SubSeq(unread, 1, k)))
           http == Http(parsed)
           emptied == [parsed.client EXCEPT !.request = <<>>]
<1>4. k \in 1..Len(unread) /\ Len(unread) \in Nat
  BY <1>1, ReadEndsInRange, LenProperties
<1>5. SubSeq(unread, 1, k) \in Seq(Arrived) /\ After(unread, k) \in Seq(Arrived)
  BY <1>1, <1>4, PartIsSeq DEF After
<1>6. CString(SubSeq(unread, 1, k)) \in Seq(Arrived)
  BY <1>5, CStringIsSeq
<1>7. Good(Arrived, parsed)
  <2>1. Arrived \subseteq Byte
    BY DEF Arrived
  <2> QED
    BY <1>1, <1>2, <1>6, <2>1, ParseLineGood
<1>8. http \in [ok : BOOLEAN, n : Nat, body : Seq(Byte)]
  BY <1>1, <1>7, HttpType DEF Good
<1>9. /\ unread' = After(unread, k)
      /\ phase' = StateAfter(parsed, http)
      /\ client' = (IF http = Unfinished THEN parsed.client ELSE emptied)
      /\ handed' = IF http = Unfinished THEN handed ELSE Append(handed, http)
  BY <1>3
<1>10. parsed.status # 200 => phase' = "WRITE_REQUEST_ERROR" \/ phase' = "terminated"
  BY <1>9 DEF StateAfter, Http, Refused, Unfinished
<1> HIDE DEF parsed, http
<1>11. emptied \in Buffer(Arrived) /\ (Incomplete(parsed.client) => Incomplete(emptied))
  <2>1. <<>> \in Seq(Arrived)
    BY EmptySeq
  <2>2. parsed.client \in Buffer(Arrived)
    BY <1>7 DEF Good
  <2> QED
    BY <2>1, <2>2 DEF Buffer, Incomplete
<1>12. client' \in Buffer(Arrived)
  BY <1>7, <1>9, <1>11 DEF Good
<1>13. handed' \in Seq([ok : BOOLEAN, n : Nat, body : Seq(Byte)])
  BY <1>1, <1>8, <1>9, AppendProperties
<1>14. phase' \in {"READ_REQUEST", "EXEC_CORE_HANDLER", "EXEC_CGI", "WRITE_REQUEST_ERROR", "terminated"}
  BY <1>1, <1>9 DEF StateAfter
<1>15. Arrived' = Arrived
  BY <1>1 DEF Arrived
<1>16. TypeOK'
  <2>1. Buffer(Arrived)' = Buffer(Arrived)
    BY <1>15 DEF Buffer
  <2> QED
    BY <1>1, <1>5, <1>9, <1>12, <1>13, <1>14, <1>15, <2>1 DEF TypeOK
<1>17. phase' \notin {"WRITE_REQUEST_ERROR", "terminated"} => Incomplete(client')
  BY <1>7, <1>9, <1>10, <1>11 DEF Good
<1> QED
  BY <1>16, <1>17 DEF IInv, ChunkIncomplete, Incomplete

(* Between two requests the buffer is put back, each handler its own way. *)
LEMMA AnswerPreserves ==
  ASSUME IInv, ExecWriteResponse \/ ExecWriteCgi \/ ParseCgiRedirect
  PROVE  IInv'
<1>1. /\ TypeOK /\ client \in Buffer(Arrived)
      /\ phase \in {"EXEC_CORE_HANDLER", "EXEC_CGI"}
      /\ UNCHANGED <<asked, unread, handed>>
  BY DEF IInv, TypeOK, ExecWriteResponse, ExecWriteCgi, ParseCgiRedirect
<1>2. Incomplete(client)
  BY <1>1 DEF IInv, ChunkIncomplete, Incomplete
<1>3. <<>> \in Seq(Arrived) /\ Len(<<>>) = 0
  BY EmptySeq
<1>4. CASE ExecWriteResponse
  <2> DEFINE unchunked == [client EXCEPT !.isChunked = FALSE]
  <2>1. unchunked \in Buffer(Arrived)
    BY <1>1 DEF Buffer
  <2>2. client' = [unchunked EXCEPT !.request = <<>>]
    BY <1>1, <1>4 DEF ExecWriteResponse, Buffer
  <2>3. unchunked.chunkedSize = client.chunkedSize /\ unchunked.chunkedBody = client.chunkedBody
    BY <1>1 DEF Buffer
  <2> HIDE DEF unchunked
  <2>4. client' \in Buffer(Arrived) /\ Incomplete(client')
    BY <1>2, <1>3, <2>1, <2>2, <2>3 DEF Buffer, Incomplete
  <2> QED
    BY <1>1, <1>4, <2>4 DEF IInv, TypeOK, ChunkIncomplete, Incomplete, ExecWriteResponse, Arrived, Buffer
<1>5. CASE ExecWriteCgi
  <2>1. client' = [client EXCEPT !.request = <<>>]
    BY <1>5 DEF ExecWriteCgi
  <2>2. client' \in Buffer(Arrived) /\ Incomplete(client')
    BY <1>1, <1>2, <1>3, <2>1 DEF Buffer, Incomplete
  <2> QED
    BY <1>1, <1>5, <2>2 DEF IInv, TypeOK, ChunkIncomplete, Incomplete, ExecWriteCgi, Arrived, Buffer
<1>6. CASE ParseCgiRedirect
  <2>1. client' = [request |-> <<>>, isChunked |-> FALSE, chunkedSize |-> 0, chunkedBody |-> <<>>]
    BY <1>6 DEF ParseCgiRedirect, NewBuffer
  <2>2. client' \in Buffer(Arrived) /\ Incomplete(client')
    BY <1>3, <2>1 DEF Buffer, Incomplete
  <2> QED
    BY <1>1, <1>6, <2>2 DEF IInv, TypeOK, ChunkIncomplete, Incomplete, ParseCgiRedirect, Arrived, Buffer
<1> QED
  BY <1>4, <1>5, <1>6

LEMMA InitEstablishes == Init => IInv
<1> SUFFICES ASSUME Init PROVE IInv
  OBVIOUS
<1>1. <<>> \in Seq(Arrived) /\ <<>> \in Seq(Request)
  BY EmptySeq
<1>2. <<>> \in Seq([ok : BOOLEAN, n : Nat, body : Seq(Byte)])
  BY EmptySeq
<1>3. client \in Buffer(Arrived) /\ client.chunkedSize = -1
  BY <1>1 DEF Init, NewBuffer, Buffer
<1> QED
  BY <1>1, <1>2, <1>3 DEF Init, IInv, TypeOK, ChunkIncomplete

LEMMA NextPreserves == IInv /\ [Next]_vars => IInv'
<1> SUFFICES ASSUME IInv, [Next]_vars PROVE IInv'
  OBVIOUS
<1>1. ASSUME NEW r \in Request, Ask(r) PROVE IInv'
  <2>1. TypeOK'
    BY <1>1, AskPreserves DEF IInv
  <2>2. UNCHANGED <<phase, client>>
    BY <1>1 DEF Ask
  <2>3. ChunkIncomplete'
    BY <2>2 DEF IInv, ChunkIncomplete
  <2> QED
    BY <2>1, <2>3 DEF IInv
<1>2. CASE ExecReadRequest
  BY <1>2, ReadPreserves
<1>3. CASE ExecWriteResponse \/ ExecWriteCgi \/ ParseCgiRedirect
  BY <1>3, AnswerPreserves
<1>4. CASE UNCHANGED vars
  BY <1>4 DEF vars, IInv, TypeOK, ChunkIncomplete, Arrived, Buffer
<1> QED
  BY <1>1, <1>2, <1>3, <1>4 DEF Next, Server

(* IInv holds throughout, however the peer's bytes are cut. *)
LEMMA Invariance == Spec => []IInv
  BY InitEstablishes, NextPreserves, PTL DEF Spec

(* Type correctness: in particular every header that is parsed names a
   request that was sent, and sizes and parts of buffers stay in range. *)
THEOREM FramingTypeOK == Spec => []TypeOK
<1>1. IInv => TypeOK
  BY DEF IInv
<1> QED
  BY <1>1, Invariance, PTL

(* Between two reads no finished chunk waits in the buffer, for every body,
   every cut and every history of the connection. *)
THEOREM FramingChunkIncomplete == Spec => []ChunkIncomplete
<1>1. IInv => ChunkIncomplete
  BY DEF IInv
<1> QED
  BY <1>1, Invariance, PTL

-----------------------------------------------------------------------------
(* Where a chunked request ends *)

Zero == B("digit", 0)

(* The size 0 stands only before the last two line ends. *)
EndsOnce(w) ==
  \A i \in DOMAIN w : w[i] = Zero =>
    /\ i + 4 = Len(w)
    /\ w[i + 1] = CR /\ w[i + 2] = LF /\ w[i + 3] = CR /\ w[i + 4] = LF

(* Requests whose bodies, if any, are chunked and end so. *)
Coded ==
  \A r \in Request : EndsOnce(r.wire) /\ (r.framing # "chunked" => r.wire = <<>> /\ r.len = 0)

(* What may be left behind the size 0. *)
Rest(s) ==
  /\ Len(s) <= 4
  /\ \A i \in DOMAIN s : s[i] = IF Len(s) - i \in {0, 2} THEN LF ELSE CR

(* Before the last request, one was answered by a local redirect. *)
Redirected == \E n \in 1..Len(asked) - 1 : asked[n].target = "redirect"

Answering == phase \in {"EXEC_CORE_HANDLER", "EXEC_CGI"}
Idle == Len(handed) = Len(asked)

(* The last request is answered, and its script redirected. *)
AfterRedirect ==
  /\ asked # <<>> /\ asked[Len(asked)].target = "redirect"
  /\ ~client.isChunked

(* The header of the last request is still to come. *)
HeaderAwaited ==
  /\ client.chunkedSize = -1
  /\ \A i \in DOMAIN client.request :
       /\ client.request[i].t \in Space \cup {"head"}
       /\ client.request[i].t = "head" => client.request[i].v = Len(asked) /\ ~Idle
  /\ \A i \in DOMAIN unread :
       /\ unread[i].t \in Space \cup {"head"} \/ \E j \in 1..i : unread[j].t = "end"
       /\ unread[i].t = "head" => unread[i].v = Len(asked)
  /\ asked # <<>> /\ asked[Len(asked)].framing # "chunked" =>
       /\ \A i \in DOMAIN client.request :
            client.request[i].t = "head" => i = Len(client.request) + Len(unread) - 1
       /\ \A i \in DOMAIN unread :
            /\ unread[i].t # "nul"
            /\ unread[i].t = "head" => i = Len(unread) - 1

(* Nothing but a line end is still to come. *)
NothingAwaited ==
  /\ AfterRedirect
  /\ Len(client.request) + Len(unread) <= 2
  /\ Rest(unread)
  /\ \A i \in DOMAIN client.request : client.request[i].t \in Space

(* All is read, and the length seen in the header is not reached. *)
BodyAwaited == ~Idle /\ unread = <<>>

(* Where the parser stands in the stream, up to the first local redirect. *)
EndInv ==
  ~Redirected =>
    /\ EndsOnce(unread)
    /\ Answering =>
         /\ unread \in {<<>>, CRLF}
         /\ client.request = <<>>
         /\ asked # <<>>
         /\ client.chunkedSize = -1 \/ AfterRedirect
    /\ phase = "READ_REQUEST" =>
         /\ Idle =>
              /\ Rest(unread) /\ Len(unread) <= 2
              /\ ~(client.isChunked /\ client.chunkedSize = 0)
         /\ client.isChunked /\ client.chunkedSize = 0 => Rest(unread)
         /\ ~client.isChunked => HeaderAwaited \/ NothingAwaited \/ BodyAwaited

(* Hypotheses under which no request loses its header. *)
NoRedirects == \A r \in Request : r.target # "redirect"
NoChunks == \A r \in Request : r.framing # "chunked"
NoScripts == \A r \in Request : r.target # "cgi"
Unmixed == NoChunks \/ NoScripts \/ (NoRedirects /\ Coded)

(* After a script's answer isChunked is stale: the next thing read is an
   empty line or a header, and neither is a chunk's size. *)
Stale ==
  /\ client.chunkedSize = -1
  /\ client.request = <<>>
  /\ \A i \in DOMAIN unread :
       unread[i].t \in Space \/ \E j \in 1..i : unread[j].t = "head"

HeaderInv ==
  /\ OnlyShortTerminates
  /\ Answering => asked # <<>>
  /\ NoChunks => ~client.isChunked
  /\ phase = "READ_REQUEST" /\ client.isChunked =>
       \/ HeaderEnds(client.request) # {}
       \/ NoRedirects /\ Coded /\ Stale

-----------------------------------------------------------------------------
(* Parts of the stream *)

(* What a read sees of the stream, and what it leaves. *)
LEMMA ReadPart ==
  ASSUME NEW S, NEW u \in Seq(S), NEW k \in 1..Len(u),
         NEW s, s = CString(SubSeq(u, 1, k)), NEW rest, rest = After(u, k)
  PROVE  /\ s \in Seq(S) /\ Len(s) \in 0..k
         /\ \A i \in 1..Len(s) : s[i] = u[i]
         /\ Len(s) < k => u[Len(s) + 1].t = "nul"
         /\ rest \in Seq(S) /\ Len(rest) = Len(u) - k
         /\ \A i \in 1..Len(rest) : rest[i] = u[k + i]
<1> DEFINE part == SubSeq(u, 1, k)
<1>1. Len(u) \in Nat /\ k \in Nat /\ 1 <= k /\ k <= Len(u)
  BY LenProperties
<1>2. \A i \in 1..Len(u) : u[i] \in S
  BY ElementOfSeq
<1>3. part \in Seq(S) /\ Len(part) = k /\ \A i \in 1..k : part[i] = u[i]
  BY <1>1, <1>2, SubSeqProperties
<1>4. /\ rest \in Seq(S) /\ Len(rest) = Len(u) - k
      /\ \A i \in 1..Len(rest) : rest[i] = u[k + i]
  BY <1>1, <1>2, SubSeqProperties DEF After
<1> HIDE DEF part
<1>5. s = CString(part) /\ s \in Seq(S)
  BY <1>3, CStringIsSeq DEF part
<1>6. CASE At(part, "nul") = {}
  BY <1>1, <1>3, <1>4, <1>5, <1>6 DEF CString
<1>7. CASE At(part, "nul") # {}
  <2> DEFINE z == First(At(part, "nul"))
  <2>1. At(part, "nul") \subseteq 1..k
    BY <1>3, PositionsInRange
  <2>2. z \in At(part, "nul") /\ z \in 1..k
    <3>1. At(part, "nul") \in SUBSET Nat
      BY <1>1, <2>1
    <3> QED
      BY <1>7, <2>1, <3>1, FirstIsMember
  <2>3. part[z].t = "nul"
    BY <2>2 DEF At
  <2>4. s = SubSeq(part, 1, z - 1)
    BY <1>5, <1>7 DEF CString, Before
  <2> HIDE DEF z
  <2>5. z \in Nat /\ 1 <= z /\ z <= k
    BY <1>1, <2>2
  <2>6. \A i \in 1..z - 1 : part[i] \in S
    BY <1>1, <1>2, <1>3, <2>5
  <2>7. Len(s) = z - 1 /\ \A i \in 1..z - 1 : s[i] = part[i]
    BY <1>1, <2>4, <2>5, <2>6, SubSeqProperties
  <2>8. Len(s) + 1 = z /\ Len(s) \in 0..k
    BY <1>1, <2>5, <2>7
  <2>9. \A i \in 1..Len(s) : s[i] = u[i]
    BY <1>1, <1>3, <2>5, <2>7
  <2>10. u[Len(s) + 1].t = "nul"
    BY <1>3, <2>2, <2>3, <2>8
  <2> QED
    BY <1>4, <1>5, <2>8, <2>9, <2>10
<1> QED
  BY <1>6, <1>7

(* The same of the stream that is not read yet. *)
LEMMA UnreadPart ==
  ASSUME unread \in Seq(Arrived), NEW k \in 1..Len(unread),
         NEW s, s = CString(SubSeq(unread, 1, k)), unread' = After(unread, k)
  PROVE  /\ s \in Seq(Arrived) /\ Len(s) \in 0..k
         /\ \A i \in 1..Len(s) : s[i] = unread[i]
         /\ Len(s) < k => unread[Len(s) + 1].t = "nul"
         /\ unread' \in Seq(Arrived) /\ Len(unread') = Len(unread) - k
         /\ \A i \in 1..Len(unread') : unread'[i] = unread[k + i]
<1>1. \E rest : rest = unread' /\ rest = After(unread, k)
  OBVIOUS
<1>2. PICK rest : rest = unread' /\ rest = After(unread, k)
  BY <1>1
<1>3. /\ s \in Seq(Arrived) /\ Len(s) \in 0..k
      /\ \A i \in 1..Len(s) : s[i] = unread[i]
      /\ Len(s) < k => unread[Len(s) + 1].t = "nul"
      /\ rest \in Seq(Arrived) /\ Len(rest) = Len(unread) - k
      /\ \A i \in 1..Len(rest) : rest[i] = unread[k + i]
  BY <1>2, ReadPart
<1> QED
  BY <1>2, <1>3

LEMMA RestOfRest ==
  ASSUME NEW S, NEW u \in Seq(S), Rest(u), NEW k \in 1..Len(u), NEW rest, rest = After(u, k)
  PROVE  Rest(rest)
<1>1. /\ rest \in Seq(S) /\ Len(rest) = Len(u) - k
      /\ \A i \in 1..Len(rest) : rest[i] = u[k + i]
  BY ReadPart
<1>2. /\ Len(u) \in Nat /\ k \in Nat /\ 1 <= k /\ k <= Len(u)
      /\ DOMAIN rest = 1..Len(rest) /\ DOMAIN u = 1..Len(u)
  BY <1>1, LenProperties
<1>3. ASSUME NEW i \in 1..Len(rest)
      PROVE  rest[i] = IF Len(rest) - i \in {0, 2} THEN LF ELSE CR
  <2>1. k + i \in DOMAIN u /\ Len(u) - (k + i) = Len(rest) - i
    BY <1>1, <1>2
  <2>2. u[k + i] = IF Len(u) - (k + i) \in {0, 2} THEN LF ELSE CR
    BY <2>1 DEF Rest
  <2> QED
    BY <1>1, <2>1, <2>2
<1>4. Len(rest) <= 4
  BY <1>1, <1>2 DEF Rest
<1> QED
  BY <1>2, <1>3, <1>4 DEF Rest

LEMMA EndsOnceRest ==
  ASSUME NEW S, NEW u \in Seq(S), EndsOnce(u), NEW k \in 1..Len(u), NEW rest, rest = After(u, k)
  PROVE  EndsOnce(rest)
<1>1. /\ rest \in Seq(S) /\ Len(rest) = Len(u) - k
      /\ \A i \in 1..Len(rest) : rest[i] = u[k + i]
  BY ReadPart
<1>2. /\ Len(u) \in Nat /\ k \in Nat /\ 1 <= k /\ k <= Len(u)
      /\ Len(rest) \in Nat /\ Len(rest) = Len(u) - k
      /\ DOMAIN rest = 1..Len(rest) /\ DOMAIN u = 1..Len(u)
  <2>1. Len(u) \in Nat /\ DOMAIN u = 1..Len(u)
    BY LenProperties
  <2>2. Len(rest) \in Nat /\ DOMAIN rest = 1..Len(rest)
    BY <1>1, LenProperties
  <2>3. k \in Nat /\ 1 <= k /\ k <= Len(u)
    BY <2>1
  <2> QED
    BY <1>1, <2>1, <2>2, <2>3
<1>3. ASSUME NEW i \in 1..Len(rest), rest[i] = Zero
      PROVE  /\ i + 4 = Len(rest)
             /\ rest[i + 1] = CR /\ rest[i + 2] = LF /\ rest[i + 3] = CR /\ rest[i + 4] = LF
  <2>1. k + i \in DOMAIN u /\ u[k + i] = Zero
    BY <1>1, <1>2, <1>3
  <2>2. /\ (k + i) + 4 = Len(u)
        /\ u[(k + i) + 1] = CR /\ u[(k + i) + 2] = LF /\ u[(k + i) + 3] = CR /\ u[(k + i) + 4] = LF
    BY <2>1 DEF EndsOnce
  <2>3. i \in Nat /\ 1 <= i /\ i + 4 = Len(rest)
    <3>1. (k + i) + 4 = Len(u)
      BY <2>2
    <3>2. i \in Nat /\ 1 <= i
      BY <1>2
    <3> QED
      BY <1>2, <3>1, <3>2
  <2>4. ASSUME NEW m \in 1..4
        PROVE  rest[i + m] = u[(k + i) + m]
    <3>1. i + m \in 1..Len(rest) /\ k + (i + m) = (k + i) + m
      BY <1>2, <2>3
    <3> QED
      BY <1>1, <3>1
  <2>5. i + 4 = Len(rest)
    BY <2>3
  <2> QED
    BY <2>2, <2>4, <2>5
<1> QED
  BY <1>2, <1>3 DEF EndsOnce

(* Once the size 0 was read, only line ends are left. *)
LEMMA RestAfterZero ==
  ASSUME NEW S, NEW u \in Seq(S), EndsOnce(u), NEW k \in 1..Len(u), NEW rest, rest = After(u, k),
         NEW i \in 1..k, u[i] = Zero
  PROVE  Rest(rest)
<1>1. /\ rest \in Seq(S) /\ Len(rest) = Len(u) - k
      /\ \A j \in 1..Len(rest) : rest[j] = u[k + j]
  BY ReadPart
<1>2. /\ Len(u) \in Nat /\ k \in Nat /\ 1 <= k /\ k <= Len(u) /\ i \in 1..Len(u)
      /\ DOMAIN rest = 1..Len(rest) /\ DOMAIN u = 1..Len(u)
  BY <1>1, LenProperties
<1>3. /\ i + 4 = Len(u)
      /\ u[i + 1] = CR /\ u[i + 2] = LF /\ u[i + 3] = CR /\ u[i + 4] = LF
  BY <1>2 DEF EndsOnce
<1>4. ASSUME NEW j \in 1..Len(rest)
      PROVE  rest[j] = IF Len(rest) - j \in {0, 2} THEN LF ELSE CR
  <2>1. k + j \in {i + 1, i + 2, i + 3, i + 4} /\ Len(rest) - j = (i + 4) - (k + j)
    BY <1>1, <1>2, <1>3
  <2>2. CASE k + j = i + 1
    BY <1>1, <1>2, <1>3, <2>1, <2>2
  <2>3. CASE k + j = i + 2
    BY <1>1, <1>2, <1>3, <2>1, <2>3
  <2>4. CASE k + j = i + 3
    BY <1>1, <1>2, <1>3, <2>1, <2>4
  <2>5. CASE k + j = i + 4
    BY <1>1, <1>2, <1>3, <2>1, <2>5
  <2> QED
    BY <2>1, <2>2, <2>3, <2>4, <2>5
<1>5. Len(rest) <= 4
  BY <1>1, <1>2, <1>3
<1> QED
  BY <1>2, <1>4, <1>5 DEF Rest

LEMMA Lines ==
  /\ CRLF \in Seq(Byte) /\ Len(CRLF) = 2 /\ CRLF[1] = CR /\ CRLF[2] = LF
  /\ CR \in Byte /\ LF \in Byte /\ Zero \in Byte
  /\ CR # LF /\ CR # Zero /\ LF # Zero
  /\ CR.t = "cr" /\ LF.t = "lf" /\ Zero.t = "digit"
BY DEF CRLF, CR, LF, Zero, B, Byte, Kind

(* The line end that finishes a request leaves one line end at most. *)
LEMMA LineLeft ==
  ASSUME NEW S, S \subseteq Byte, NEW u \in Seq(S), Rest(u), NEW k \in 1..Len(u),
         CString(SubSeq(u, 1, k)) = CRLF, NEW rest, rest = After(u, k)
  PROVE  rest \in {<<>>, CRLF}
<1> DEFINE s == CString(SubSeq(u, 1, k))
<1>1. /\ Len(s) \in 0..k
      /\ \A i \in 1..Len(s) : s[i] = u[i]
      /\ Len(s) < k => u[Len(s) + 1].t = "nul"
      /\ rest \in Seq(S) /\ Len(rest) = Len(u) - k
      /\ \A i \in 1..Len(rest) : rest[i] = u[k + i]
  BY ReadPart
<1>2. s = CRLF /\ Len(s) = 2
  BY Lines
<1> HIDE DEF s
<1>3. /\ Len(u) \in Nat /\ k \in Nat /\ 2 <= k /\ k <= Len(u) /\ DOMAIN u = 1..Len(u) /\ Len(u) <= 4
  BY <1>1, <1>2, LenProperties DEF Rest
<1>4. u[1] = CR /\ u[2] = LF
  BY <1>1, <1>2, Lines
<1>5. Len(u) \in {2, 4}
  <2>1. u[2] = IF Len(u) - 2 \in {0, 2} THEN LF ELSE CR
    <3>1. 2 \in DOMAIN u
      BY <1>3
    <3> QED
      BY <3>1 DEF Rest
  <2>2. Len(u) - 2 \in {0, 2}
    BY <1>4, <2>1, Lines
  <2> QED
    BY <1>3, <2>2
<1>6. k = 2
  <2>1. SUFFICES ASSUME k # 2
                 PROVE  FALSE
    OBVIOUS
  <2>2. 3 \in DOMAIN u /\ u[3].t = "nul"
    BY <1>1, <1>2, <1>3, <2>1
  <2>3. u[3] \in {LF, CR}
    BY <2>2 DEF Rest
  <2> QED
    BY <2>2, <2>3, Lines
<1>7. CASE Len(u) = 2
  <2>1. Len(rest) = 0
    BY <1>1, <1>6, <1>7
  <2> QED
    BY <1>1, <2>1, EmptySeq
<1>8. CASE Len(u) = 4
  <2>1. Len(rest) = 2 /\ rest \in Seq(Byte)
    BY <1>1, <1>6, <1>8
  <2>2. Rest(rest) /\ DOMAIN rest = 1..2
    BY <2>1, RestOfRest, LenProperties
  <2>3. rest[1] = CR /\ rest[2] = LF
    BY <2>1, <2>2 DEF Rest
  <2>4. \A i \in 1..Len(rest) : rest[i] = CRLF[i]
    BY <2>1, <2>3, Lines
  <2> QED
    BY <2>1, <2>4, Lines, SeqEqual
<1> QED
  BY <1>5, <1>7, <1>8

-----------------------------------------------------------------------------
(* What a step of the parser depends on *)

LEMMA StoIZero ==
  ASSUME NEW S, S \subseteq Byte, NEW s \in Seq(S), StoI(s) = 0
  PROVE  \E i \in 1..Len(s) : s[i] = Zero
<1> DEFINE word == { i \in FirstLine(s) : s[i].t \notin Space }
<1>1. Len(s) \in Nat
  BY LenProperties
<1>2. FirstLine(s) \subseteq 1..Len(s)
  <2>1. CASE LineEnds(s) = {}
    BY <2>1 DEF FirstLine
  <2>2. CASE LineEnds(s) # {}
    <3>1. LineEnds(s) \subseteq 1..Len(s) /\ LineEnds(s) \in SUBSET Nat
      BY <1>1, PositionsInRange
    <3>2. First(LineEnds(s)) \in 1..Len(s)
      BY <2>2, <3>1, FirstIsMember
    <3> QED
      BY <1>1, <2>2, <3>2 DEF FirstLine
  <2> QED
    BY <2>1, <2>2
<1>3. word # {} /\ s[First(word)].t = "digit" /\ s[First(word)].v = 0
  <2>1. StoI(s) = IF word # {} /\ s[First(word)].t = "digit" THEN s[First(word)].v ELSE -1
    BY DEF StoI
  <2> QED
    BY <2>1
<1>4. word \in SUBSET Nat /\ word \subseteq 1..Len(s)
  BY <1>1, <1>2
<1>5. First(word) \in 1..Len(s)
  BY <1>3, <1>4, FirstIsMember
<1> HIDE DEF word
<1>6. s[First(word)] \in Byte
  BY <1>5, ElementOfSeq
<1>7. s[First(word)] = Zero
  BY <1>3, <1>6 DEF Zero, B, Byte
<1> QED
  BY <1>5, <1>7

Longer(S, old, new) == \E x \in Seq(S) : new = old \o x

(* A chunked request is finished by an empty line after a size 0, and the
   size 0 is one that was read. *)
LEMMA ChunkStep ==
  ASSUME NEW S, S \subseteq Byte, NEW c \in Buffer(S), NEW body \in Seq(S),
         NEW p, p = ParseChunkedRequest(c, body)
  PROVE  /\ p.client.isChunked = c.isChunked
         /\ p.finished =>
              /\ c.chunkedSize = 0 /\ body = CRLF
              /\ p.client.chunkedSize = -1 /\ p.client.request = c.request
         /\ p.status = 200 /\ p.client.chunkedSize = 0 => c.chunkedSize = 0 \/ StoI(body) = 0
         /\ Longer(S, c.request, p.client.request)
<1>1. /\ c.request \in Seq(S) /\ c.chunkedBody \in Seq(S) /\ c.chunkedSize \in Int
      /\ Longer(S, c.request, c.request)
  BY EmptySeq, ConcatEmptySeq DEF Buffer, Longer
<1>2. ASSUME NEW d \in Buffer(S), d.chunkedSize >= 0, NEW q, q = AddChunk(d, body)
      PROVE  /\ q.client.isChunked = d.isChunked
             /\ q.finished =>
                  /\ d.chunkedSize = 0 /\ body = CRLF
                  /\ q.client.chunkedSize = -1 /\ q.client.request = d.request
             /\ q.status = 200 /\ q.client.chunkedSize = 0 => d.chunkedSize = 0
             /\ Longer(S, d.request, q.client.request)
  <2> DEFINE missing == d.chunkedSize + 2 - Len(d.chunkedBody)
             ready == [d EXCEPT !.chunkedSize = -1, !.chunkedBody = <<>>]
             added == [ready EXCEPT !.request = @ \o SubSeq(d.chunkedBody, 1, d.chunkedSize)]
  <2>1. /\ d.request \in Seq(S) /\ d.chunkedBody \in Seq(S) /\ d.chunkedSize \in Int
        /\ Longer(S, d.request, d.request)
    BY EmptySeq, ConcatEmptySeq DEF Buffer, Longer
  <2>2. Len(d.chunkedBody) \in Nat
    BY <2>1, LenProperties
  <2>3. /\ ready.isChunked = d.isChunked /\ ready.chunkedSize = -1 /\ ready.request = d.request
        /\ added.isChunked = d.isChunked /\ added.chunkedSize = -1
        /\ added.request = d.request \o SubSeq(d.chunkedBody, 1, d.chunkedSize)
    BY DEF Buffer
  <2>4. CASE d.chunkedSize = 0 /\ body = CRLF
    <3>1. q = Finished(ready)
      BY <1>2, <2>4 DEF AddChunk
    <3> HIDE DEF ready
    <3>2. q.client = ready
      BY <3>1 DEF Finished, Result
    <3> QED
      BY <1>1, <2>1, <2>3, <2>4, <3>2
  <2>5. CASE ~(d.chunkedSize = 0 /\ body = CRLF) /\ missing < 0
    <3>1. q = Fail(d, 400)
      BY <1>2, <2>5 DEF AddChunk
    <3>2. q.client = d /\ ~q.finished /\ q.status = 400
      BY <3>1 DEF Fail, Result
    <3> QED
      BY <1>1, <2>1, <3>2
  <2>6. CASE ~(d.chunkedSize = 0 /\ body = CRLF) /\ missing = 0
    <3>1. q = Wait(added)
      BY <1>2, <2>1, <2>2, <2>6 DEF AddChunk
    <3>2. SubSeq(d.chunkedBody, 1, d.chunkedSize) \in Seq(S)
      <4>1. Len(d.chunkedBody) = d.chunkedSize + 2
        BY <2>1, <2>2, <2>6
      <4>2. d.chunkedSize \in 0..Len(d.chunkedBody) /\ 1 \in 1..Len(d.chunkedBody) + 1
        BY <1>2, <2>1, <2>2, <4>1
      <4> QED
        BY <2>1, <4>2, PartIsSeq
    <3>3. Longer(S, d.request, added.request)
      BY <2>3, <3>2 DEF Longer
    <3> HIDE DEF added
    <3>4. q.client = added /\ ~q.finished
      BY <3>1 DEF Wait, Result
    <3>5. /\ q.client.isChunked = d.isChunked
          /\ q.client.chunkedSize = -1
          /\ Longer(S, d.request, q.client.request)
      BY <2>3, <3>3, <3>4
    <3> QED
      BY <3>4, <3>5
  <2>7. CASE ~(d.chunkedSize = 0 /\ body = CRLF) /\ missing > 0
    <3>1. q = Wait(d)
      BY <1>2, <2>1, <2>2, <2>7 DEF AddChunk
    <3>2. q.client = d /\ ~q.finished
      BY <3>1 DEF Wait, Result
    <3> QED
      BY <1>1, <2>1, <3>2
  <2> QED
    BY <2>1, <2>2, <2>4, <2>5, <2>6, <2>7
<1>3. CASE body = <<>>
  <2>1. p = Wait([c EXCEPT !.chunkedSize = -1])
    BY <1>3 DEF ParseChunkedRequest
  <2>2. p.client = [c EXCEPT !.chunkedSize = -1] /\ ~p.finished
    BY <2>1 DEF Wait, Result
  <2>3. p.client.isChunked = c.isChunked /\ p.client.chunkedSize = -1 /\ p.client.request = c.request
    BY <2>2 DEF Buffer
  <2> QED
    BY <1>1, <2>2, <2>3
<1>4. CASE body # <<>> /\ c.chunkedSize >= 0
  <2> DEFINE grown == [c EXCEPT !.chunkedBody = @ \o body]
  <2>1. c.chunkedBody \o body \in Seq(S)
    BY <1>1, ConcatProperties
  <2>2. /\ grown \in Buffer(S) /\ grown.chunkedSize = c.chunkedSize
        /\ grown.isChunked = c.isChunked /\ grown.request = c.request
    BY <2>1 DEF Buffer
  <2>3. p = AddChunk(grown, body)
    BY <1>4 DEF ParseChunkedRequest
  <2> HIDE DEF grown
  <2> QED
    BY <1>2, <1>4, <2>2, <2>3
<1>5. CASE body # <<>> /\ c.chunkedSize < 0 /\ StoI(body) < 0
  <2>1. p = Fail(c, 400)
    BY <1>1, <1>5 DEF ParseChunkedRequest
  <2>2. p.client = c /\ ~p.finished /\ p.status = 400
    BY <2>1 DEF Fail, Result
  <2> QED
    BY <1>1, <2>2
<1>6. CASE body # <<>> /\ c.chunkedSize < 0 /\ ~(StoI(body) < 0)
  <2> DEFINE size == StoI(body)
             sized == [c EXCEPT !.chunkedSize = size]
  <2>1. size \in Nat
    BY <1>6, StoIType
  <2>2. p = AddChunk(sized, body)
    BY <1>1, <1>6 DEF ParseChunkedRequest
  <2>3. body = CRLF => size # 0
    <3>1. ASSUME body = CRLF, StoI(body) = 0
          PROVE  FALSE
      <4>1. PICK i \in 1..Len(body) : body[i] = Zero
        BY <3>1, StoIZero
      <4>2. i \in {1, 2}
        BY <3>1, <4>1, Lines
      <4> QED
        BY <3>1, <4>1, <4>2, Lines
    <3> QED
      BY <3>1
  <2> HIDE DEF size
  <2>4. /\ sized \in Buffer(S) /\ sized.chunkedSize = size
        /\ sized.isChunked = c.isChunked /\ sized.request = c.request
    <3>1. sized = [request |-> c.request, isChunked |-> c.isChunked,
                   chunkedSize |-> size, chunkedBody |-> c.chunkedBody]
      BY DEF Buffer
    <3>2. c.isChunked \in BOOLEAN
      BY DEF Buffer
    <3> HIDE DEF sized
    <3> QED
      BY <1>1, <2>1, <3>1, <3>2 DEF Buffer
  <2> HIDE DEF sized
  <2>5. /\ p.client.isChunked = sized.isChunked
        /\ p.finished =>
             /\ sized.chunkedSize = 0 /\ body = CRLF
             /\ p.client.chunkedSize = -1 /\ p.client.request = sized.request
        /\ p.status = 200 /\ p.client.chunkedSize = 0 => sized.chunkedSize = 0
        /\ Longer(S, sized.request, p.client.request)
    BY <1>2, <2>1, <2>2, <2>4
  <2> QED
    BY <2>3, <2>4, <2>5 DEF size
<1> QED
  BY <1>1, <1>3, <1>4, <1>5, <1>6

(* What parseLine waits for behind a header, and how it refuses one. *)
IsWanting(r, body) ==
  Len(body) < IF r.method = "POST" /\ r.framing = "none" THEN r.seen ELSE r.len
Refusals(c) == {Fail(c, 400), Fail(c, 411)}

(* A read before the header is complete, and the read that completes it. *)
LineCases(c, s, g, p) ==
  \/ p = Wait(c) /\ c.request = <<>> /\ s = CRLF
  \/ p = Wait([c EXCEPT !.request = g]) /\ HeaderEnds(g) = {}
  \/ HeaderEnds(g) # {} /\ Heads(g) = {} /\ p = Finished([c EXCEPT !.request = g])
  \/ /\ HeaderEnds(g) # {} /\ Heads(g) # {} /\ asked[Number(g)].framing = "chunked"
     /\ p = ParseChunkedRequest([c EXCEPT !.isChunked = TRUE, !.request = SubSeq(g, 1, HeaderEnd(g))], Body(g))
  \/ /\ HeaderEnds(g) # {} /\ Heads(g) # {} /\ asked[Number(g)].framing # "chunked"
     /\ \/ p \in Refusals([c EXCEPT !.request = g])
        \/ p = Wait([c EXCEPT !.request = g]) /\ IsWanting(asked[Number(g)], Body(g))
        \/ p = Finished([c EXCEPT !.request = g])
        \/ p = Thrown([c EXCEPT !.request = g]) /\ IsShort(asked[Number(g)])

LEMMA LineStep ==
  ASSUME NEW S, NEW c \in Buffer(S), ~c.isChunked, NEW s \in Seq(S)
  PROVE  LineCases(c, s, c.request \o s, ParseLine(c, s))
<1> SUFFICES ASSUME NEW g, g = c.request \o s, NEW p, p = ParseLine(c, s)
             PROVE  LineCases(c, s, g, p)
  OBVIOUS
<1> DEFINE grown == [c EXCEPT !.request = g]
           cut == [c EXCEPT !.isChunked = TRUE, !.request = SubSeq(g, 1, HeaderEnd(g))]
<1>1. grown.request = g /\ grown.isChunked = c.isChunked
  BY DEF Buffer
<1>2. [c EXCEPT !.request = @ \o s] = grown
  OBVIOUS
<1>3. [grown EXCEPT !.isChunked = TRUE, !.request = SubSeq(@, 1, HeaderEnd(@))] = cut
  BY <1>1 DEF Buffer
<1> HIDE DEF grown, cut
<1>4. CASE c.request = <<>> /\ s = CRLF
  BY <1>4 DEF ParseLine, LineCases
<1>5. CASE ~(c.request = <<>> /\ s = CRLF)
  <2>1. p = IF HeaderEnds(g) = {} THEN Wait(grown) ELSE ParseHeader(grown)
    BY <1>1, <1>2, <1>5 DEF ParseLine
  <2>2. HeaderEnds(g) # {} =>
          \/ Heads(g) = {} /\ ParseHeader(grown) = Finished(grown)
          \/ /\ Heads(g) # {} /\ asked[Number(g)].framing = "chunked"
             /\ ParseHeader(grown) = ParseChunkedRequest(cut, Body(g))
          \/ /\ Heads(g) # {} /\ asked[Number(g)].framing # "chunked"
             /\ \/ ParseHeader(grown) \in Refusals(grown)
                \/ ParseHeader(grown) = Wait(grown) /\ IsWanting(asked[Number(g)], Body(g))
                \/ ParseHeader(grown) = Finished(grown)
                \/ ParseHeader(grown) = Thrown(grown) /\ IsShort(asked[Number(g)])
    <3>1. asked[Number(g)].place = "short" /\ asked[Number(g)].method = "POST"
            /\ asked[Number(g)].framing = "none" => IsShort(asked[Number(g)])
      BY DEF IsShort
    <3>2. asked[Number(g)].framing = "none" /\ asked[Number(g)].method = "POST" =>
            \/ ParseNoLength(grown, asked[Number(g)]) \in Refusals(grown)
            \/ /\ ParseNoLength(grown, asked[Number(g)]) = Wait(grown)
               /\ IsWanting(asked[Number(g)], Body(g))
            \/ ParseNoLength(grown, asked[Number(g)]) = Finished(grown)
            \/ /\ ParseNoLength(grown, asked[Number(g)]) = Thrown(grown)
               /\ IsShort(asked[Number(g)])
      BY <1>1, <3>1 DEF ParseNoLength, IsWanting, Refusals
    <3>3. ~(asked[Number(g)].framing = "none" /\ asked[Number(g)].method = "POST")
            /\ Len(Body(g)) < asked[Number(g)].len => IsWanting(asked[Number(g)], Body(g))
      BY DEF IsWanting
    <3> QED
      BY <1>1, <1>3, <3>2, <3>3 DEF ParseHeader
  <2> QED
    BY <2>1, <2>2 DEF LineCases, grown, cut
<1> QED
  BY <1>4, <1>5

(* The header that is parsed is one of the bytes read. *)
LEMMA HeadIsAsked ==
  ASSUME asked \in Seq(Request), NEW s \in Seq(Arrived), Heads(s) # {}
  PROVE  /\ HeaderEnds(s) # {} /\ HeaderEnd(s) \in 1..Len(s)
         /\ Number(s) \in 1..Len(asked)
         /\ \E i \in 1..Len(s) : i < HeaderEnd(s) /\ s[i].t = "head" /\ s[i].v = Number(s)
<1>1. HeaderEnds(s) # {} /\ Heads(s) \subseteq At(s, "head")
  BY DEF Heads
<1>2. HeaderEnd(s) \in 1..Len(s)
  BY <1>1, HeaderParts
<1>3. Heads(s) \subseteq 1..Len(s) /\ Heads(s) \in SUBSET Nat
  BY <1>1, PositionsInRange, LenProperties
<1>4. First(Heads(s)) \in Heads(s)
  BY <1>3, FirstIsMember
<1> DEFINE i == First(Heads(s))
<1>5. i \in 1..Len(s) /\ i < HeaderEnd(s) /\ s[i].t = "head" /\ s[i].v = Number(s)
  BY <1>3, <1>4 DEF Heads, At, Number
<1>6. s[i] \in Arrived
  BY <1>5, ElementOfSeq
<1>7. Number(s) \in DOMAIN asked
  BY <1>5, <1>6 DEF Arrived
<1>8. Number(s) \in 1..Len(asked)
  BY <1>7, LenProperties
<1> QED
  BY <1>1, <1>2, <1>5, <1>8

(* Where a step of the parser leads. *)
LEMMA Verdicts ==
  ASSUME asked \in Seq(Request), phase = "READ_REQUEST",
         NEW p, p.client \in Buffer(Arrived), p.finished \in BOOLEAN,
         NEW http, http = Http(p), NEW ph, ph = StateAfter(p, http)
  PROVE  /\ ph \in {"EXEC_CORE_HANDLER", "EXEC_CGI"} =>
              http # Unfinished /\ p.finished /\ Heads(p.client.request) # {}
         /\ ph = "READ_REQUEST" => http = Unfinished /\ p.status = 200 /\ ~p.finished
         /\ ph = "terminated" => http = Unfinished /\ Dies(p)
<1> DEFINE s == p.client.request
<1>1. s \in Seq(Arrived)
  BY DEF Buffer
<1>2. Refused # Unfinished /\ ~Refused.ok /\ Refused.n = 0
  BY DEF Refused, Unfinished
<1>3. CASE Dies(p)
  BY <1>3 DEF StateAfter, Http
<1>4. CASE ~Dies(p) /\ p.status # 200
  <2>1. http = Refused
    BY <1>4 DEF Http
  <2>2. ph = "WRITE_REQUEST_ERROR"
    BY <1>2, <1>4, <2>1 DEF StateAfter
  <2> QED
    BY <2>2
<1>5. CASE ~Dies(p) /\ p.finished /\ p.status = 200
  <2>1. http = Parse(p.client)
    BY <1>5 DEF Http
  <2>2. CASE http = Refused
    <3>1. ph = "WRITE_REQUEST_ERROR"
      BY <1>2, <1>5, <2>2 DEF StateAfter
    <3> QED
      BY <3>1
  <2>3. CASE http # Refused
    <3>1. Heads(s) # {}
      BY <2>1, <2>3 DEF Parse
    <3>2. http.n = Number(s) /\ http.ok
      <4> DEFINE r == asked[Number(s)]
                 body == IF p.client.isChunked THEN Body(s)
                         ELSE [i \in 1..r.len |-> IF i <= Len(Body(s)) THEN Body(s)[i] ELSE Uninit]
      <4> HIDE DEF body
      <4>1. http \in {Refused, [ok |-> TRUE, n |-> Number(s), body |-> body]}
        BY <2>1 DEF Parse, body
      <4> QED
        BY <2>3, <4>1
    <3>3. Number(s) # 0
      BY <1>1, <3>1, HeadIsAsked
    <3>4. http # Unfinished
      BY <3>2, <3>3 DEF Unfinished
    <3>5. ph \in {"EXEC_CORE_HANDLER", "EXEC_CGI"}
      BY <1>5, <3>2, <3>4 DEF StateAfter
    <3> QED
      BY <1>5, <3>1, <3>4, <3>5
  <2> QED
    BY <2>2, <2>3
<1>6. CASE ~Dies(p) /\ ~p.finished /\ p.status = 200
  <2>1. http = Unfinished
    BY <1>6 DEF Http
  <2>2. ph = "READ_REQUEST"
    BY <1>6, <2>1 DEF StateAfter
  <2> QED
    BY <1>6, <2>1, <2>2
<1> QED
  BY <1>3, <1>4, <1>5, <1>6

-----------------------------------------------------------------------------
(* EndInv is inductive *)

(* v is a, b, c and d in this order. *)
Joined(v, a, b, c, d) ==
  LET q == Len(a) + Len(b)
  IN /\ Len(v) = q + Len(c) + Len(d)
     /\ \A i \in 1..Len(a) : v[i] = a[i]
     /\ \A i \in 1..Len(b) : v[Len(a) + i] = b[i]
     /\ \A i \in 1..Len(c) : v[q + i] = c[i]
     /\ \A i \in 1..Len(d) : v[q + Len(c) + i] = d[i]

Pair(v, a, b) ==
  /\ Len(v) = Len(a) + Len(b)
  /\ \A i \in 1..Len(a) : v[i] = a[i]
  /\ \A i \in 1..Len(b) : v[Len(a) + i] = b[i]

LEMMA Pairing ==
  ASSUME NEW S, NEW a \in Seq(S), NEW b \in Seq(S)
  PROVE  Pair(a \o b, a, b)
<1>1. /\ Len(a \o b) = Len(a) + Len(b)
      /\ \A i \in 1..Len(a) + Len(b) : (a \o b)[i] = IF i <= Len(a) THEN a[i] ELSE b[i - Len(a)]
  BY ConcatProperties
<1>2. Len(a) \in Nat /\ Len(b) \in Nat
  BY LenProperties
<1>3. \A i \in 1..Len(a) : (a \o b)[i] = a[i]
  BY <1>1, <1>2
<1>4. ASSUME NEW i \in 1..Len(b)
      PROVE  (a \o b)[Len(a) + i] = b[i]
  <2>1. Len(a) + i \in 1..Len(a) + Len(b) /\ ~(Len(a) + i <= Len(a)) /\ (Len(a) + i) - Len(a) = i
    BY <1>2
  <2> QED
    BY <1>1, <2>1
<1> QED
  BY <1>1, <1>3, <1>4 DEF Pair

LEMMA Joining ==
  ASSUME NEW S, NEW a \in Seq(S), NEW b \in Seq(S), NEW c \in Seq(S), NEW d \in Seq(S)
  PROVE  Joined(a \o ((b \o c) \o d), a, b, c, d)
<1> DEFINE bc == b \o c
           bcd == bc \o d
           v == a \o bcd
           q == Len(a) + Len(b)
<1>1. Len(a) \in Nat /\ Len(b) \in Nat /\ Len(c) \in Nat /\ Len(d) \in Nat
  BY LenProperties
<1>2. bc \in Seq(S) /\ Pair(bc, b, c)
  BY Pairing, ConcatProperties
<1> HIDE DEF bc
<1>3. bcd \in Seq(S) /\ Pair(bcd, bc, d)
  BY <1>2, Pairing, ConcatProperties
<1> HIDE DEF bcd
<1>4. Pair(v, a, bcd)
  BY <1>3, Pairing
<1> HIDE DEF v
<1>5. Len(bc) = Len(b) + Len(c) /\ Len(bcd) = Len(b) + Len(c) + Len(d)
  BY <1>1, <1>2, <1>3 DEF Pair
<1>6. Len(v) = q + Len(c) + Len(d)
  BY <1>1, <1>4, <1>5 DEF Pair
<1>7. \A i \in 1..Len(a) : v[i] = a[i]
  BY <1>4 DEF Pair
<1>8. ASSUME NEW i \in 1..Len(b)
      PROVE  v[Len(a) + i] = b[i]
  <2>1. i \in 1..Len(bc) /\ i \in 1..Len(bcd)
    BY <1>1, <1>5
  <2>2. v[Len(a) + i] = bcd[i] /\ bcd[i] = bc[i] /\ bc[i] = b[i]
    BY <1>2, <1>3, <1>4, <2>1 DEF Pair
  <2> QED
    BY <2>2
<1>9. ASSUME NEW i \in 1..Len(c)
      PROVE  v[q + i] = c[i]
  <2> DEFINE j == Len(b) + i
  <2>1. j \in 1..Len(bc) /\ j \in 1..Len(bcd) /\ Len(a) + j = q + i
    BY <1>1, <1>5
  <2>2. bc[j] = c[i]
    BY <1>2 DEF Pair
  <2> HIDE DEF j
  <2>3. v[Len(a) + j] = bcd[j] /\ bcd[j] = bc[j]
    BY <1>3, <1>4, <2>1 DEF Pair
  <2> QED
    BY <2>1, <2>2, <2>3
<1>10. ASSUME NEW i \in 1..Len(d)
       PROVE  v[q + Len(c) + i] = d[i]
  <2> DEFINE j == Len(bc) + i
  <2>1. j \in 1..Len(bcd) /\ Len(a) + j = q + Len(c) + i
    BY <1>1, <1>5
  <2>2. bcd[j] = d[i]
    BY <1>3 DEF Pair
  <2> HIDE DEF j
  <2>3. v[Len(a) + j] = bcd[j]
    BY <1>4, <2>1 DEF Pair
  <2> QED
    BY <2>1, <2>2, <2>3
<1>11. Joined(v, a, b, c, d)
  BY <1>6, <1>7, <1>8, <1>9, <1>10 DEF Joined
<1> QED
  BY <1>11 DEF v, bcd, bc

(* v is some line bytes, the header of request n, and w. *)
Arrives(v, n, w) ==
  \E q \in Nat :
    /\ Len(v) = q + 2 + Len(w)
    /\ \A i \in 1..q : v[i] \in {CR, LF}
    /\ v[q + 1] = B("head", n) /\ v[q + 2] = End
    /\ \A i \in 1..Len(w) : v[q + 2 + i] = w[i]

LEMMA StreamBytes ==
  ASSUME NEW T, T \subseteq Byte, NEW u \in Seq(T), Rest(u),
         NEW r \in Request, NEW n \in Nat
  PROVE  Arrives(u \o Stream(n, r), n, r.wire)
<1> SUFFICES ASSUME NEW v, v = u \o Stream(n, r), NEW w, w = r.wire
             PROVE  Arrives(v, n, w)
  OBVIOUS
<1> DEFINE lead == IF r.lead THEN CRLF ELSE <<>>
           header == <<B("head", n), End>>
<1>1. w \in Seq(Byte)
  <2>1. Sent \subseteq Byte
    BY DEF Sent, Byte
  <2> QED
    BY <2>1, RequestAssumption
<1>2. header \in Seq(Byte) /\ Len(header) = 2 /\ header[1] = B("head", n) /\ header[2] = End
  BY DEF B, End, Byte, Kind
<1>3. v = u \o ((lead \o header) \o w)
  BY DEF Stream
<1>4. lead \in {CRLF, <<>>}
  OBVIOUS
<1> HIDE DEF lead, header
<1>5. lead \in Seq(Byte) /\ \A i \in 1..Len(lead) : lead[i] \in {CR, LF}
  <2>1. CASE lead = CRLF
    BY <2>1, Lines
  <2>2. CASE lead = <<>>
    <3>1. <<>> \in Seq(Byte) /\ Len(<<>>) = 0
      BY EmptySeq
    <3> QED
      BY <2>2, <3>1
  <2> QED
    BY <1>4, <2>1, <2>2
<1>6. u \in Seq(Byte) /\ \A i \in 1..Len(u) : u[i] \in {CR, LF}
  <2>1. DOMAIN u = 1..Len(u)
    BY LenProperties
  <2> QED
    BY <2>1, SeqMonotonic DEF Rest
<1> DEFINE q == Len(u) + Len(lead)
<1>7. Len(u) \in Nat /\ Len(lead) \in Nat /\ Len(w) \in Nat
  BY <1>1, <1>5, <1>6, LenProperties
<1>8. /\ Len(v) = q + 2 + Len(w)
      /\ \A i \in 1..Len(u) : v[i] = u[i]
      /\ \A i \in 1..Len(lead) : v[Len(u) + i] = lead[i]
      /\ v[q + 1] = header[1] /\ v[q + 2] = header[2]
      /\ \A i \in 1..Len(w) : v[q + 2 + i] = w[i]
  <2>1. header \in Seq(Byte) /\ Len(header) = 2 /\ lead \in Seq(Byte) /\ u \in Seq(Byte)
    BY <1>2, <1>5, <1>6
  <2>2. Joined(u \o ((lead \o header) \o w), u, lead, header, w)
    BY <1>1, <2>1, Joining
  <2>3. Joined(v, u, lead, header, w)
    BY <1>3, <2>2
  <2>4. /\ Len(v) = q + Len(header) + Len(w)
        /\ \A i \in 1..Len(u) : v[i] = u[i]
        /\ \A i \in 1..Len(lead) : v[Len(u) + i] = lead[i]
        /\ \A i \in 1..Len(header) : v[q + i] = header[i]
        /\ \A i \in 1..Len(w) : v[q + Len(header) + i] = w[i]
    BY <2>3, Zenon DEF Joined
  <2> HIDE DEF q
  <2>5. v[q + 1] = header[1] /\ v[q + 2] = header[2]
    <3>1. 1 \in 1..Len(header) /\ 2 \in 1..Len(header)
      BY <2>1
    <3> QED
      BY <2>4, <3>1, Zenon
  <2> QED
    BY <2>1, <2>4, <2>5
<1>9. v[q + 1] = B("head", n) /\ v[q + 2] = End
  BY <1>2, <1>8
<1>10. ASSUME NEW i \in 1..q
       PROVE  v[i] \in {CR, LF}
  <2>1. i \in Nat /\ 1 <= i
    BY <1>7
  <2>2. CASE i <= Len(u)
    BY <1>6, <1>7, <1>8, <2>1, <2>2
  <2>3. CASE ~(i <= Len(u))
    <3> DEFINE j == i - Len(u)
    <3>1. j \in 1..Len(lead) /\ Len(u) + j = i
      BY <1>7, <2>1, <2>3
    <3> HIDE DEF j
    <3>2. v[i] = lead[j]
      BY <1>8, <3>1
    <3> QED
      BY <1>5, <3>1, <3>2
  <2> QED
    BY <2>2, <2>3
<1>11. q \in Nat
  BY <1>7
<1> HIDE DEF q
<1> QED
  BY <1>8, <1>9, <1>10, <1>11 DEF Arrives

LEMMA Kinds ==
  /\ End.t = "end" /\ End # Zero
  /\ \A n : B("head", n).t = "head" /\ B("head", n).v = n /\ B("head", n) # Zero
  /\ \A b \in Sent : b.t # "head" /\ b.t # "end"
BY DEF End, Zero, B, Sent

(* A new request comes after the bytes left over from the one before it. *)
LEMMA AskKeepsEnd ==
  ASSUME Coded, TypeOK, EndInv, NEW r \in Request, Ask(r)
  PROVE  EndInv'
<1> SUFFICES ASSUME ~Redirected'
             PROVE  EndInv'
  BY DEF EndInv
<1>1. /\ asked \in Seq(Request) /\ unread \in Seq(Arrived) /\ client \in Buffer(Arrived)
      /\ phase = "READ_REQUEST" /\ Idle
      /\ asked' = Append(asked, r) /\ unread' = unread \o Stream(Len(asked) + 1, r)
      /\ phase' = phase /\ client' = client /\ handed' = handed
  BY DEF TypeOK, Ask, Idle
<1>2. Len(asked) \in Nat /\ Len(asked') = Len(asked) + 1 /\ asked'[Len(asked')] = r /\ asked' # <<>>
      /\ \A n \in 1..Len(asked) : asked'[n] = asked[n]
  <2>1. Len(asked) \in Nat /\ asked' \in Seq(Request) /\ Len(asked') = Len(asked) + 1
    BY <1>1, LenProperties, AppendProperties
  <2>2. asked'[Len(asked) + 1] = r /\ \A n \in 1..Len(asked) : asked'[n] = asked[n]
    BY <1>1, <2>1, AppendProperties
  <2>3. asked' # <<>>
    BY <2>1, EmptySeq
  <2> QED
    BY <2>1, <2>2, <2>3
<1>3. \A n \in 1..Len(asked) : asked[n].target # "redirect"
  BY <1>2 DEF Redirected
<1>4. ~Redirected /\ ~AfterRedirect
  <2>1. ~Redirected
    BY <1>2, <1>3 DEF Redirected
  <2>2. asked # <<>> => Len(asked) \in 1..Len(asked)
    BY <1>1, EmptySeq
  <2> QED
    BY <1>3, <2>1, <2>2 DEF AfterRedirect
<1>5. Rest(unread) /\ Len(unread) <= 2 /\ ~(client.isChunked /\ client.chunkedSize = 0)
  BY <1>1, <1>4 DEF EndInv
<1> DEFINE n == Len(asked) + 1
           w == r.wire
           v == unread'
<1>6. Arrived \subseteq Byte /\ n \in Nat
  BY <1>2 DEF Arrived
<1>7. PICK q \in Nat :
        /\ Len(v) = q + 2 + Len(w)
        /\ \A i \in 1..q : v[i] \in {CR, LF}
        /\ v[q + 1] = B("head", n) /\ v[q + 2] = End
        /\ \A i \in 1..Len(w) : v[q + 2 + i] = w[i]
  <2>1. Arrives(unread \o Stream(n, r), n, r.wire)
    <3> HIDE DEF n
    <3> QED
      BY <1>1, <1>5, <1>6, StreamBytes
  <2>2. Arrives(v, n, w)
    BY <1>1, <2>1
  <2> HIDE DEF n, w, v
  <2> QED
    BY <2>2 DEF Arrives
<1>8. w \in Seq(Sent) /\ EndsOnce(w) /\ (r.framing # "chunked" => w = <<>>)
  BY RequestAssumption DEF Coded
<1>9. Len(w) \in Nat /\ DOMAIN w = 1..Len(w) /\ \A i \in 1..Len(w) : w[i] \in Sent
  BY <1>8, LenProperties, ElementOfSeq
<1>10. DOMAIN v = 1..Len(v)
  <2>1. v \in Seq(Byte)
    <3>1. TypeOK'
      BY AskPreserves
    <3> QED
      BY <3>1, SeqMonotonic DEF TypeOK, Arrived
  <2> QED
    BY <2>1, LenProperties
<1> HIDE DEF n, w, v
<1>11. ASSUME NEW i \in 1..Len(v)
       PROVE  \/ i <= q /\ v[i].t \in Space /\ v[i] # Zero /\ v[i].t # "nul"
              \/ i = q + 1 /\ v[i].t = "head" /\ v[i].v = n /\ v[i] # Zero
              \/ i = q + 2 /\ v[i].t = "end" /\ v[i] # Zero
              \/ i - (q + 2) \in 1..Len(w) /\ v[i] = w[i - (q + 2)] /\ v[i].t # "head"
  <2>1. i \in Nat /\ 1 <= i
    OBVIOUS
  <2>2. CASE i <= q
    <3>1. v[i] \in {CR, LF}
      BY <1>7, <2>1, <2>2
    <3> QED
      BY <2>2, <3>1, Lines DEF Space
  <2>3. CASE i = q + 1
    BY <1>7, <2>3, Kinds
  <2>4. CASE i = q + 2
    BY <1>7, <2>4, Kinds
  <2>5. CASE i > q + 2
    <3> DEFINE m == i - (q + 2)
    <3>1. m \in 1..Len(w) /\ q + 2 + m = i
      BY SMTT(30), <1>7, <1>9, <2>1, <2>5
    <3> HIDE DEF m
    <3>2. v[i] = w[m]
      BY <1>7, <3>1
    <3>3. v[i].t # "head"
      BY <1>9, <3>1, <3>2, Kinds
    <3> QED
      BY <3>1, <3>2, <3>3 DEF m
  <2> QED
    BY <2>1, <2>2, <2>3, <2>4, <2>5
<1>12. EndsOnce(v)
  <2>1. ASSUME NEW i \in 1..Len(v), v[i] = Zero
        PROVE  /\ i + 4 = Len(v)
               /\ v[i + 1] = CR /\ v[i + 2] = LF /\ v[i + 3] = CR /\ v[i + 4] = LF
    <3> DEFINE m == i - (q + 2)
    <3>1. m \in 1..Len(w) /\ w[m] = Zero
      BY <1>11, <2>1
    <3>2. m + 4 = Len(w) /\ w[m + 1] = CR /\ w[m + 2] = LF /\ w[m + 3] = CR /\ w[m + 4] = LF
      BY <1>8, <1>9, <3>1 DEF EndsOnce
    <3>3. i = q + 2 + m /\ m \in Nat /\ 1 <= m
      BY <3>1
    <3> HIDE DEF m
    <3>4. ASSUME NEW k \in 1..4
          PROVE  v[i + k] = w[m + k]
      <4>1. m + k \in 1..Len(w) /\ q + 2 + (m + k) = i + k
        BY <3>2, <3>3
      <4> QED
        BY <1>7, <4>1
    <3>5. i + 4 = Len(v)
      BY SMTT(30), <1>7, <3>2, <3>3
    <3> QED
      BY <3>2, <3>4, <3>5
  <2> QED
    BY <1>10, <2>1 DEF EndsOnce
<1>13. ~Idle'
  BY <1>1, <1>2 DEF Idle
<1>14. ~client.isChunked => HeaderAwaited'
  <2> SUFFICES ASSUME ~client.isChunked
               PROVE  HeaderAwaited'
    OBVIOUS
  <2>1. HeaderAwaited
    BY <1>1, <1>4 DEF EndInv, NothingAwaited, BodyAwaited
  <2>2. client.chunkedSize = -1
    BY <2>1 DEF HeaderAwaited
  <2>3. \A i \in DOMAIN client.request : client.request[i].t \in Space
    BY <1>1, <2>1 DEF HeaderAwaited
  <2>4. ASSUME NEW i \in 1..Len(v)
        PROVE  /\ v[i].t \in Space \cup {"head"} \/ \E j \in 1..i : v[j].t = "end"
               /\ v[i].t = "head" => v[i].v = n
    <3>1. i > q + 2 => q + 2 \in 1..i /\ v[q + 2].t = "end"
      BY <1>7, Kinds
    <3>2. i \in 1..i
      OBVIOUS
    <3> QED
      BY <1>9, <1>11, <3>1, <3>2 DEF Space
  <2>5. ASSUME r.framing # "chunked", NEW i \in 1..Len(v)
        PROVE  v[i].t # "nul" /\ (v[i].t = "head" => i = Len(v) - 1)
    <3>1. Len(w) = 0 /\ Len(v) = q + 2
      BY <1>7, <1>8, <2>5, EmptySeq
    <3> QED
      BY <1>11, <3>1 DEF Space
  <2>6. Space \cap {"head"} = {}
    BY DEF Space
  <2> QED
    BY <1>1, <1>2, <1>10, <2>2, <2>3, <2>4, <2>5, <2>6 DEF HeaderAwaited, v, n
<1>15. phase' = "READ_REQUEST" /\ ~Answering' /\ client' = client
  BY <1>1 DEF Answering
<1> QED
  BY <1>5, <1>12, <1>13, <1>14, <1>15 DEF EndInv, v

(* What a read does, as far as the next lemmas need it: it takes k bytes,
   the parser sees s of them and leaves p. *)
ReadBy(k, s, p) ==
  /\ k \in 1..Len(unread)
  /\ s = CString(SubSeq(unread, 1, k)) /\ s \in Seq(Arrived)
  /\ p = ParseLine(client, s)
  /\ p.client \in Buffer(Arrived) /\ p.finished \in BOOLEAN
  /\ phase = "READ_REQUEST" /\ asked' = asked
  /\ unread' = After(unread, k)
  /\ Answering' =>
       /\ p.finished /\ Heads(p.client.request) # {}
       /\ client'.request = <<>>
       /\ client'.chunkedSize = p.client.chunkedSize /\ client'.isChunked = p.client.isChunked
  /\ phase' = "READ_REQUEST" =>
       /\ client' = p.client /\ handed' = handed
       /\ p.status = 200 /\ ~p.finished
  /\ phase' = "terminated" => client' = p.client /\ Dies(p)
  /\ client'.isChunked = p.client.isChunked

LEMMA ReadFacts ==
  ASSUME IInv, ExecReadRequest
  PROVE  \E k, s, p : ReadBy(k, s, p)
<1>1. /\ asked \in Seq(Request) /\ unread \in Seq(Arrived) /\ client \in Buffer(Arrived)
      /\ phase = "READ_REQUEST" /\ unread # <<>> /\ asked' = asked
  BY DEF IInv, TypeOK, ExecReadRequest
<1>2. Incomplete(client)
  BY <1>1 DEF IInv, ChunkIncomplete, Incomplete
<1>3. PICK k \in ReadEnds(unread) :
        \E parsed \in {ParseLine(client, CString(SubSeq(unread, 1, k)))} :
        \E http \in {Http(parsed)} :
          /\ unread' = After(unread, k)
          /\ phase' = StateAfter(parsed, http)
          /\ client' = IF http = Unfinished THEN parsed.client
                       ELSE [parsed.client EXCEPT !.request = <<>>]
          /\ handed' = IF http = Unfinished THEN handed ELSE Append(handed, http)
  BY DEF ExecReadRequest
<1> DEFINE s == CString(SubSeq(unread, 1, k))
           p == ParseLine(client, s)
           http == Http(p)
           emptied == [p.client EXCEPT !.request = <<>>]
<1>4. k \in 1..Len(unread)
  BY <1>1, ReadEndsInRange
<1>5. s \in Seq(Arrived)
  <2>1. SubSeq(unread, 1, k) \in Seq(Arrived)
    <3>1. Len(unread) \in Nat
      BY <1>1, LenProperties
    <3>2. 1 \in 1..Len(unread) + 1 /\ k \in 0..Len(unread)
      BY <1>4, <3>1
    <3> QED
      BY <1>1, <3>2, PartIsSeq
  <2> QED
    BY <2>1, CStringIsSeq
<1>6. Good(Arrived, p)
  <2>1. Arrived \subseteq Byte
    BY DEF Arrived
  <2> HIDE DEF s
  <2> QED
    BY <1>1, <1>2, <1>5, <2>1, ParseLineGood
<1>7. /\ unread' = After(unread, k)
      /\ phase' = StateAfter(p, http)
      /\ client' = (IF http = Unfinished THEN p.client ELSE emptied)
      /\ handed' = IF http = Unfinished THEN handed ELSE Append(handed, http)
  BY <1>3
<1> HIDE DEF p
<1>8. p.client \in Buffer(Arrived) /\ p.finished \in BOOLEAN
  BY <1>6 DEF Good
<1>9. /\ phase' \in {"EXEC_CORE_HANDLER", "EXEC_CGI"} =>
           http # Unfinished /\ p.finished /\ Heads(p.client.request) # {}
      /\ phase' = "READ_REQUEST" => http = Unfinished /\ p.status = 200 /\ ~p.finished
      /\ phase' = "terminated" => http = Unfinished /\ Dies(p)
  BY <1>1, <1>7, <1>8, Verdicts
<1>10. /\ emptied.request = <<>> /\ emptied.chunkedSize = p.client.chunkedSize
       /\ emptied.isChunked = p.client.isChunked
  BY <1>8 DEF Buffer
<1> HIDE DEF s, http, emptied
<1>11. ReadBy(k, s, p)
  BY <1>1, <1>4, <1>5, <1>7, <1>8, <1>9, <1>10 DEF ReadBy, Answering, s, p
<1> QED
  BY <1>11

(* A size 0 that is read leaves line ends only. *)
LEMMA ZeroRead ==
  ASSUME NEW k, NEW s, NEW p, ReadBy(k, s, p), unread \in Seq(Arrived), EndsOnce(unread),
         NEW i \in 1..Len(s), s[i] = Zero
  PROVE  Rest(unread') /\ ~Rest(unread)
<1>1. k \in 1..Len(unread) /\ s = CString(SubSeq(unread, 1, k)) /\ unread' = After(unread, k)
  BY DEF ReadBy
<1>2. Len(s) \in 0..k /\ \A j \in 1..Len(s) : s[j] = unread[j]
  BY <1>1, UnreadPart
<1>3. i \in 1..k /\ unread[i] = Zero
  BY <1>1, <1>2
<1>4. Rest(unread')
  BY <1>1, <1>3, RestAfterZero
<1>5. i \in DOMAIN unread
  BY <1>1, <1>3, LenProperties
<1> QED
  BY <1>3, <1>4, <1>5, Lines DEF Rest

(* A read of a chunk. *)
LEMMA ChunkKeepsEnd ==
  ASSUME TypeOK, EndInv, ~Redirected, client.isChunked,
         NEW k, NEW s, NEW p, ReadBy(k, s, p)
  PROVE  EndInv'
<1>1. /\ asked \in Seq(Request) /\ unread \in Seq(Arrived) /\ client \in Buffer(Arrived)
      /\ k \in 1..Len(unread) /\ s = CString(SubSeq(unread, 1, k)) /\ s \in Seq(Arrived)
      /\ phase = "READ_REQUEST" /\ asked' = asked /\ unread' = After(unread, k)
      /\ Arrived \subseteq Byte
  BY DEF TypeOK, ReadBy, Arrived
<1>2. /\ EndsOnce(unread)
      /\ Idle => Rest(unread) /\ Len(unread) <= 2 /\ client.chunkedSize # 0
      /\ client.chunkedSize = 0 => Rest(unread)
  BY <1>1 DEF EndInv
<1>3. p = ParseChunkedRequest(client, s)
  BY DEF ReadBy, ParseLine
<1>4. /\ p.client.isChunked
      /\ p.finished => client.chunkedSize = 0 /\ s = CRLF /\ p.client.chunkedSize = -1
      /\ p.status = 200 /\ p.client.chunkedSize = 0 => client.chunkedSize = 0 \/ StoI(s) = 0
  BY <1>1, <1>3, ChunkStep
<1>5. EndsOnce(unread')
  BY <1>1, <1>2, EndsOnceRest
<1>6. /\ Len(unread') = Len(unread) - k /\ Len(unread) \in Nat /\ k \in Nat
  BY <1>1, ReadPart, LenProperties
<1>7. Rest(unread) => Rest(unread')
  BY <1>1, RestOfRest
<1>8. StoI(s) = 0 => Rest(unread') /\ ~Rest(unread)
  <2> SUFFICES ASSUME StoI(s) = 0
               PROVE  Rest(unread') /\ ~Rest(unread)
    OBVIOUS
  <2>1. PICK i \in 1..Len(s) : s[i] = Zero
    BY <1>1, StoIZero
  <2> QED
    BY <1>1, <1>2, <2>1, ZeroRead
<1>9. ASSUME Answering'
      PROVE  /\ unread' \in {<<>>, CRLF} /\ client'.request = <<>> /\ asked' # <<>>
             /\ client'.chunkedSize = -1
  <2>1. /\ p.finished /\ Heads(p.client.request) # {} /\ p.client \in Buffer(Arrived)
        /\ client'.request = <<>> /\ client'.chunkedSize = p.client.chunkedSize
    BY <1>9 DEF ReadBy
  <2>2. client.chunkedSize = 0 /\ s = CRLF /\ client'.chunkedSize = -1
    BY <1>4, <2>1
  <2>3. unread' \in {<<>>, CRLF}
    BY <1>1, <1>2, <2>2, LineLeft
  <2>4. p.client.request \in Seq(Arrived)
    BY <2>1 DEF Buffer
  <2>5. Number(p.client.request) \in 1..Len(asked)
    BY <1>1, <2>1, <2>4, HeadIsAsked
  <2>6. asked # <<>>
    BY <2>5, EmptySeq
  <2> QED
    BY <1>1, <2>1, <2>2, <2>3, <2>6
<1>10. ASSUME phase' = "READ_REQUEST"
       PROVE  /\ Idle' => Rest(unread') /\ Len(unread') <= 2 /\ client'.chunkedSize # 0
              /\ client'.chunkedSize = 0 => Rest(unread')
              /\ client'.isChunked
  <2>1. client' = p.client /\ handed' = handed /\ p.status = 200
    BY <1>10 DEF ReadBy
  <2>2. Idle' = Idle
    BY <1>1, <2>1 DEF Idle
  <2> QED
    BY <1>2, <1>4, <1>6, <1>7, <1>8, <2>1, <2>2
<1> QED
  BY <1>5, <1>9, <1>10 DEF EndInv

(* A read after a redirect was answered finishes nothing. *)
LEMMA NothingKeepsEnd ==
  ASSUME TypeOK, EndInv, ~Redirected, ~client.isChunked, NothingAwaited,
         NEW k, NEW s, NEW p, ReadBy(k, s, p)
  PROVE  EndInv'
<1>1. /\ asked \in Seq(Request) /\ unread \in Seq(Arrived) /\ client \in Buffer(Arrived)
      /\ k \in 1..Len(unread) /\ s = CString(SubSeq(unread, 1, k)) /\ s \in Seq(Arrived)
      /\ p = ParseLine(client, s)
      /\ phase = "READ_REQUEST" /\ asked' = asked /\ unread' = After(unread, k)
      /\ client.request \in Seq(Arrived)
  BY DEF TypeOK, ReadBy, Buffer
<1> DEFINE g == client.request \o s
           grown == [client EXCEPT !.request = g]
<1>2. /\ EndsOnce(unread) /\ Rest(unread)
      /\ Len(client.request) + Len(unread) <= 2
      /\ \A i \in DOMAIN client.request : client.request[i].t \in Space
  BY <1>1 DEF EndInv, NothingAwaited
<1>3. /\ Len(s) \in 0..k /\ \A i \in 1..Len(s) : s[i] = unread[i]
      /\ Len(unread') = Len(unread) - k
  BY <1>1, ReadPart
<1>4. /\ Len(unread) \in Nat /\ Len(client.request) \in Nat /\ k \in Nat
      /\ DOMAIN unread = 1..Len(unread) /\ DOMAIN client.request = 1..Len(client.request)
  BY <1>1, LenProperties
<1>5. \A i \in 1..Len(s) : s[i].t \in Space
  <2>1. \A i \in 1..Len(s) : i \in DOMAIN unread
    BY <1>1, <1>3, <1>4
  <2> QED
    BY <1>2, <1>3, <2>1, Lines DEF Rest, Space
<1>6. /\ g \in Seq(Arrived) /\ Len(g) = Len(client.request) + Len(s)
      /\ \A i \in 1..Len(client.request) + Len(s) :
           g[i] = IF i <= Len(client.request) THEN client.request[i] ELSE s[i - Len(client.request)]
  BY <1>1, ConcatProperties
<1>7. DOMAIN g = 1..Len(g) /\ Len(g) \in Nat
  BY <1>6, LenProperties
<1> HIDE DEF g
<1>8. ASSUME NEW i \in 1..Len(g)
      PROVE  g[i].t \in Space
  <2>1. CASE i <= Len(client.request)
    <3>1. i \in DOMAIN client.request /\ g[i] = client.request[i]
      BY <1>4, <1>6, <1>7, <2>1
    <3> QED BY <1>2, <3>1
  <2>2. CASE ~(i <= Len(client.request))
    <3> DEFINE j == i - Len(client.request)
    <3>1. j \in 1..Len(s)
      BY <1>3, <1>4, <1>6, <2>2
    <3>2. g[i] = s[j]
      BY <1>3, <1>4, <1>6, <2>2
    <3> HIDE DEF j
    <3> QED
      BY <1>5, <3>1, <3>2
  <2> QED
    BY <2>1, <2>2
<1>9. Len(g) <= 2 /\ Len(g) + Len(unread') <= 2
  <2>1. Len(s) \in Nat /\ Len(s) <= k /\ k <= Len(unread)
    BY <1>1, <1>3, <1>4
  <2>2. Len(g) + Len(unread') <= 2 /\ Len(unread') >= 0
    BY <1>2, <1>3, <1>4, <1>6, <2>1
  <2> QED
    BY <1>7, <2>1, <2>2, <1>3, <1>4
<1>10. HeaderEnds(g) = {}
  <2>1. At(g, "end") = {}
    BY <1>7, <1>8 DEF At, Space
  <2>2. 4..Len(g) = {}
    BY <1>7, <1>9
  <2> QED
    BY <2>1, <2>2 DEF HeaderEnds
<1>11. /\ grown.request = g /\ grown.isChunked = client.isChunked
  BY <1>1 DEF Buffer
<1>12. \/ p = Wait(client) /\ client.request = <<>>
       \/ p = Wait(grown)
  <2>1. LineCases(client, s, g, p)
    BY <1>1, LineStep DEF g
  <2> QED
    BY <1>10, <2>1 DEF LineCases
<1> HIDE DEF grown
<1>13. p.client \in {client, grown} /\ ~p.finished /\ ~p.client.isChunked
  BY <1>11, <1>12 DEF Wait, Result
<1>14. Rest(unread') /\ EndsOnce(unread')
  BY <1>1, <1>2, RestOfRest, EndsOnceRest
<1>15. ~Answering'
  BY <1>13 DEF ReadBy
<1>16. phase' = "READ_REQUEST" => client' = p.client /\ NothingAwaited'
  <2> SUFFICES ASSUME phase' = "READ_REQUEST"
               PROVE  client' = p.client /\ NothingAwaited'
    OBVIOUS
  <2>1. client' = p.client
    BY DEF ReadBy
  <2>2. AfterRedirect'
    BY <1>1, <1>13, <2>1 DEF NothingAwaited, AfterRedirect
  <2>3. \/ client'.request = client.request
        \/ client'.request = g
    BY <1>11, <1>13, <2>1
  <2>4. /\ Len(client'.request) + Len(unread') <= 2
        /\ \A i \in DOMAIN client'.request : client'.request[i].t \in Space
    <3>1. CASE client'.request = client.request
      BY <1>2, <1>3, <1>4, <3>1
    <3>2. CASE client'.request = g
      BY <1>7, <1>8, <1>9, <3>2
    <3> QED
      BY <2>3, <3>1, <3>2
  <2> QED
    BY <1>14, <2>1, <2>2, <2>4 DEF NothingAwaited
<1>17. Len(unread') <= 2
  BY <1>2, <1>3, <1>4
<1> QED
  BY <1>13, <1>14, <1>15, <1>16, <1>17 DEF EndInv

(* The buffer holds g after a read of s, which took k bytes. *)
HeaderRead(k, s, g) ==
  /\ g \in Seq(Arrived) /\ Len(g) = Len(client.request) + Len(s)
  /\ \A i \in 1..Len(client.request) : g[i] = client.request[i]
  /\ \A i \in 1..Len(s) : g[Len(client.request) + i] = s[i] /\ s[i] = unread[i]
  /\ Len(client.request) \in Nat /\ Len(s) \in Nat /\ Len(unread) \in Nat /\ k \in Nat
  /\ 1 <= k /\ k <= Len(unread) /\ Len(s) <= k
  /\ Len(unread') = Len(unread) - k
  /\ \A i \in 1..Len(unread') : unread'[i] = unread[k + i]
  /\ Len(s) < k => \E i \in 1..Len(s) : s[i].t = "end"

(* No byte before the header's end is lost. *)
LEMMA ReadHeader ==
  ASSUME TypeOK, HeaderAwaited, NEW k, NEW s, NEW p, ReadBy(k, s, p)
  PROVE  HeaderRead(k, s, client.request \o s)
<1> DEFINE g == client.request \o s
<1>1. /\ unread \in Seq(Arrived) /\ client.request \in Seq(Arrived)
      /\ k \in 1..Len(unread) /\ s = CString(SubSeq(unread, 1, k)) /\ s \in Seq(Arrived)
      /\ unread' = After(unread, k)
  BY DEF TypeOK, ReadBy, Buffer
<1>2. /\ Len(s) \in 0..k /\ \A i \in 1..Len(s) : s[i] = unread[i]
      /\ Len(s) < k => unread[Len(s) + 1].t = "nul"
      /\ Len(unread') = Len(unread) - k
      /\ \A i \in 1..Len(unread') : unread'[i] = unread[k + i]
  BY <1>1, UnreadPart
<1>3. Pair(g, client.request, s) /\ g \in Seq(Arrived)
  BY <1>1, Pairing, ConcatProperties
<1> HIDE DEF g
<1>4. /\ Len(g) = Len(client.request) + Len(s)
      /\ \A i \in 1..Len(client.request) : g[i] = client.request[i]
      /\ \A i \in 1..Len(s) : g[Len(client.request) + i] = s[i]
  BY <1>3, Zenon DEF Pair
<1>5. /\ Len(client.request) \in Nat /\ Len(s) \in Nat /\ Len(unread) \in Nat /\ k \in Nat
      /\ 1 <= k /\ k <= Len(unread) /\ Len(s) <= k
      /\ DOMAIN unread = 1..Len(unread)
  BY <1>1, <1>2, LenProperties
<1>6. ASSUME Len(s) < k
      PROVE  \E i \in 1..Len(s) : s[i].t = "end"
  <2>1. Len(s) + 1 \in DOMAIN unread /\ unread[Len(s) + 1].t = "nul"
    BY <1>2, <1>5, <1>6
  <2>2. PICK j \in 1..Len(s) + 1 : unread[j].t = "end"
    BY <2>1 DEF HeaderAwaited, Space
  <2>3. j \in 1..Len(s)
    BY <1>5, <2>1, <2>2
  <2> QED
    BY <1>2, <2>2, <2>3
<1>7. HeaderRead(k, s, g)
  BY <1>2, <1>3, <1>4, <1>5, <1>6 DEF HeaderRead
<1> QED
  BY <1>7 DEF g

(* A read that does not complete the header. *)
LEMMA HeaderStillAwaited ==
  ASSUME TypeOK, ~client.isChunked, HeaderAwaited, NEW k, NEW s, NEW p, ReadBy(k, s, p),
         Idle => Rest(unread),
         phase' = "READ_REQUEST",
         NEW g, HeaderRead(k, s, g),
         \/ p = Wait(client) /\ client.request = <<>> /\ s = CRLF
         \/ p = Wait([client EXCEPT !.request = g]) /\ HeaderEnds(g) = {}
  PROVE  ~client'.isChunked /\ HeaderAwaited'
<1>1. /\ g \in Seq(Arrived) /\ Len(g) = Len(client.request) + Len(s)
      /\ \A i \in 1..Len(client.request) : g[i] = client.request[i]
      /\ \A i \in 1..Len(s) : g[Len(client.request) + i] = s[i] /\ s[i] = unread[i]
      /\ Len(client.request) \in Nat /\ Len(s) \in Nat /\ Len(unread) \in Nat /\ k \in Nat
      /\ 1 <= k /\ k <= Len(unread) /\ Len(s) <= k
      /\ Len(unread') = Len(unread) - k
      /\ \A i \in 1..Len(unread') : unread'[i] = unread[k + i]
      /\ Len(s) < k => \E i \in 1..Len(s) : s[i].t = "end"
  BY DEF HeaderRead
<1>2. /\ unread \in Seq(Arrived) /\ client.request \in Seq(Arrived) /\ client \in Buffer(Arrived)
      /\ asked' = asked /\ client' = p.client /\ handed' = handed /\ s \in Seq(Arrived)
      /\ Idle' = Idle
  BY DEF TypeOK, ReadBy, Buffer, Idle
<1>3. unread' \in Seq(Arrived)
  BY <1>1, <1>2, ReadPart DEF ReadBy
<1>4. /\ DOMAIN unread = 1..Len(unread) /\ DOMAIN unread' = 1..Len(unread')
      /\ DOMAIN client.request = 1..Len(client.request) /\ DOMAIN g = 1..Len(g)
      /\ Len(unread') \in Nat
  BY <1>1, <1>2, <1>3, LenProperties
(* No end of a header was read, so nothing was lost to a zero byte. *)
<1>5. \A i \in 1..Len(s) : s[i].t # "end"
  <2>1. CASE client.request = <<>> /\ s = CRLF
    <3>1. \A i \in 1..2 : CRLF[i].t # "end"
      BY Lines
    <3> QED
      BY <2>1, <3>1, Lines
  <2>2. CASE HeaderEnds(g) = {}
    <3>1. At(g, "end") = {}
      BY <2>2 DEF HeaderEnds
    <3>2. \A i \in 1..Len(g) : g[i].t # "end"
      BY <1>4, <3>1 DEF At
    <3>3. \A i \in 1..Len(s) : Len(client.request) + i \in 1..Len(g)
      BY <1>1
    <3> QED
      BY <1>1, <3>2, <3>3
  <2> QED
    BY <2>1, <2>2
<1>6. Len(s) = k
  BY <1>1, <1>5
<1> DEFINE old == Len(client.request)
<1>13. /\ old \in Nat /\ Len(g) = old + k /\ Len(unread') = Len(unread) - k
       /\ Len(unread) \in Nat /\ k \in Nat /\ k <= Len(unread)
  BY <1>1, <1>6
<1> HIDE DEF old
<1>14. Len(g) + Len(unread') = old + Len(unread) /\ Len(g) \in Nat /\ Len(unread') \in Nat
  BY <1>13
<1>7. ASSUME NEW i \in 1..k
      PROVE  /\ unread[i].t \in Space \cup {"head"} /\ unread[i] = s[i]
             /\ unread[i].t = "head" => unread[i].v = Len(asked) /\ ~Idle
  <2>1. i \in DOMAIN unread /\ unread[i] = s[i] /\ \A j \in 1..i : unread[j].t # "end"
    BY <1>1, <1>4, <1>5, <1>6
  <2>2. unread[i].t \in Space \cup {"head"} /\ (unread[i].t = "head" => unread[i].v = Len(asked))
    BY <2>1 DEF HeaderAwaited
  <2>3. Idle => unread[i].t # "head"
    BY <2>1, Lines DEF Rest
  <2> QED
    BY <2>1, <2>2, <2>3
<1>8. ASSUME NEW i \in 1..Len(unread')
      PROVE  /\ unread'[i].t \in Space \cup {"head"} \/ \E j \in 1..i : unread'[j].t = "end"
             /\ unread'[i].t = "head" => unread'[i].v = Len(asked)
  <2>1. k + i \in DOMAIN unread /\ unread'[i] = unread[k + i]
    BY <1>1, <1>4
  <2>2. unread'[i].t = "head" => unread'[i].v = Len(asked)
    BY <2>1 DEF HeaderAwaited
  <2>3. CASE \E j \in 1..k + i : unread[j].t = "end"
    <3>1. PICK j \in 1..k + i : unread[j].t = "end"
      BY <2>3
    <3>2. ~(j \in 1..k)
      BY <1>1, <1>5, <1>6, <3>1
    <3> DEFINE m == j - k
    <3>3. m \in 1..i /\ m \in 1..Len(unread') /\ k + m = j
      BY <1>1, <1>4, <3>2
    <3> HIDE DEF m
    <3>4. unread'[m].t = "end"
      BY <1>1, <3>1, <3>3
    <3> QED
      BY <2>2, <3>3, <3>4
  <2>4. CASE ~(\E j \in 1..k + i : unread[j].t = "end")
    BY <2>1, <2>2, <2>4 DEF HeaderAwaited
  <2> QED
    BY <2>3, <2>4
<1>9. /\ ~client'.isChunked /\ client'.chunkedSize = -1
      /\ \/ client'.request = client.request /\ client.request = <<>> /\ \A i \in 1..k : unread[i].t # "head"
         \/ client'.request = g
  <2>1. client.chunkedSize = -1
    BY DEF HeaderAwaited
  <2>2. CASE p = Wait(client) /\ client.request = <<>> /\ s = CRLF
    <3>1. client' = client
      BY <1>2, <2>2 DEF Wait, Result
    <3>2. \A i \in 1..2 : CRLF[i].t # "head"
      BY Lines
    <3>3. k = 2 /\ \A i \in 1..k : s[i].t # "head"
      BY <1>6, <2>2, <3>2, Lines
    <3>4. \A i \in 1..k : unread[i].t # "head"
      BY <1>7, <3>3
    <3> QED
      BY <2>1, <2>2, <3>1, <3>4
  <2>3. CASE p = Wait([client EXCEPT !.request = g])
    <3>1. client' = [client EXCEPT !.request = g]
      BY <1>2, <2>3 DEF Wait, Result
    <3>2. client'.request = g /\ client'.isChunked = client.isChunked /\ client'.chunkedSize = client.chunkedSize
      BY <1>2, <3>1 DEF Buffer
    <3> QED
      BY <2>1, <3>2
  <2> QED
    BY <2>2, <2>3
<1>10. ASSUME NEW i \in 1..Len(g)
       PROVE  \/ i \in 1..Len(client.request) /\ g[i] = client.request[i]
              \/ i - Len(client.request) \in 1..k /\ g[i] = unread[i - Len(client.request)]
  <2>1. CASE i <= Len(client.request)
    BY <1>1, <2>1
  <2>2. CASE ~(i <= Len(client.request))
    <3> DEFINE m == i - Len(client.request)
    <3>1. m \in 1..Len(s) /\ Len(client.request) + m = i
      <4>1. i \in Nat /\ i <= Len(g) /\ i > old
        <5>1. ~(i <= old)
          BY <2>2 DEF old
        <5> QED
          BY <1>13, <1>14, <5>1
      <4>2. i - old \in 1..k /\ old + (i - old) = i
        BY <1>13, <4>1
      <4> QED
        BY <1>6, <4>2 DEF old
    <3> HIDE DEF m
    <3>2. g[i] = unread[m] /\ m \in 1..k
      BY <1>1, <1>6, <3>1
    <3> QED
      BY <3>2 DEF m
  <2> QED
    BY <2>1, <2>2
<1>11. \A i \in DOMAIN client'.request :
         /\ client'.request[i].t \in Space \cup {"head"}
         /\ client'.request[i].t = "head" => client'.request[i].v = Len(asked) /\ ~Idle
  <2>1. \A i \in 1..Len(client.request) :
          /\ client.request[i].t \in Space \cup {"head"}
          /\ client.request[i].t = "head" => client.request[i].v = Len(asked) /\ ~Idle
    BY <1>4 DEF HeaderAwaited
  <2>2. \A i \in 1..Len(g) :
          /\ g[i].t \in Space \cup {"head"}
          /\ g[i].t = "head" => g[i].v = Len(asked) /\ ~Idle
    BY <1>7, <1>10, <2>1
  <2> QED
    BY <1>4, <1>9, <2>1, <2>2
<1>12. ASSUME asked # <<>>, asked[Len(asked)].framing # "chunked"
       PROVE  /\ \A i \in DOMAIN client'.request :
                   client'.request[i].t = "head" => i = Len(client'.request) + Len(unread') - 1
              /\ \A i \in DOMAIN unread' :
                   /\ unread'[i].t # "nul"
                   /\ unread'[i].t = "head" => i = Len(unread') - 1
  <2>1. /\ \A i \in 1..Len(client.request) :
             client.request[i].t = "head" => i = Len(client.request) + Len(unread) - 1
        /\ \A i \in 1..Len(unread) :
             /\ unread[i].t # "nul"
             /\ unread[i].t = "head" => i = Len(unread) - 1
    BY <1>4, <1>12 DEF HeaderAwaited
  <2>2. ASSUME NEW i \in 1..Len(unread')
        PROVE  unread'[i].t # "nul" /\ (unread'[i].t = "head" => i = Len(unread') - 1)
    <3>1. k + i \in 1..Len(unread) /\ unread'[i] = unread[k + i]
      BY <1>1, <1>4
    <3>2. k + i = Len(unread) - 1 => i = Len(unread') - 1
      BY <1>13
    <3> QED
      BY <2>1, <3>1, <3>2
  <2>3. ASSUME NEW i \in 1..Len(g), g[i].t = "head"
        PROVE  i = Len(g) + Len(unread') - 1
    <3>1. CASE i \in 1..Len(client.request) /\ g[i] = client.request[i]
      <4>1. i = Len(client.request) + Len(unread) - 1
        BY <2>1, <2>3, <3>1
      <4> QED
        BY <1>14, <4>1 DEF old
    <3>2. CASE i - Len(client.request) \in 1..k /\ g[i] = unread[i - Len(client.request)]
      <4> DEFINE m == i - Len(client.request)
      <4>1. m \in 1..Len(unread) /\ unread[m].t = "head" /\ i = Len(client.request) + m
        BY SMTT(30), <1>1, <2>3, <3>2
      <4> HIDE DEF m
      <4>2. m = Len(unread) - 1
        BY <2>1, <4>1
      <4> QED
        <5>1. i = old + m /\ m \in Nat
          BY <1>13, <4>1 DEF old
        <5> QED
          BY SMTT(30), <1>13, <1>14, <4>2, <5>1
    <3> QED
      BY <1>10, <3>1, <3>2
  <2>4. \A i \in DOMAIN client'.request :
          client'.request[i].t = "head" => i = Len(client'.request) + Len(unread') - 1
    <3>1. CASE client'.request = client.request /\ client.request = <<>>
      <4>1. DOMAIN client'.request = {}
        BY <3>1
      <4> QED
        BY <4>1
    <3>2. CASE client'.request = g
      BY <1>4, <2>3, <3>2
    <3> QED
      BY <1>9, <3>1, <3>2
  <2> QED
    BY <1>4, <2>2, <2>4
<1> QED
  BY <1>2, <1>4, <1>8, <1>9, <1>11, <1>12 DEF HeaderAwaited

(* The head that was found is the last request's, and where it stands. *)
LEMMA HeadFound ==
  ASSUME TypeOK, HeaderAwaited, NEW k, NEW s, NEW p, ReadBy(k, s, p),
         Idle => Rest(unread),
         NEW g, HeaderRead(k, s, g), Heads(g) # {}
  PROVE  /\ ~Idle
         /\ Number(g) = Len(asked) /\ Len(asked) \in 1..Len(asked)
         /\ asked[Len(asked)].framing # "chunked" => Len(unread') = 0
<1>1. /\ g \in Seq(Arrived) /\ Len(g) = Len(client.request) + Len(s)
      /\ \A i \in 1..Len(client.request) : g[i] = client.request[i]
      /\ \A i \in 1..Len(s) : g[Len(client.request) + i] = s[i] /\ s[i] = unread[i]
      /\ Len(client.request) \in Nat /\ Len(s) \in Nat /\ Len(unread) \in Nat /\ k \in Nat
      /\ 1 <= k /\ k <= Len(unread) /\ Len(s) <= k
      /\ Len(unread') = Len(unread) - k
  BY DEF HeaderRead
<1>2. asked \in Seq(Request) /\ unread \in Seq(Arrived) /\ client.request \in Seq(Arrived)
  BY DEF TypeOK, Buffer
<1>3. /\ DOMAIN unread = 1..Len(unread) /\ DOMAIN client.request = 1..Len(client.request)
      /\ Len(g) \in Nat
  BY <1>1, <1>2, LenProperties
<1>4. /\ HeaderEnd(g) \in 1..Len(g)
      /\ Number(g) \in 1..Len(asked)
      /\ \E i \in 1..Len(g) : i < HeaderEnd(g) /\ g[i].t = "head" /\ g[i].v = Number(g)
  BY <1>1, <1>2, HeadIsAsked
<1>5. PICK i \in 1..Len(g) : i < HeaderEnd(g) /\ g[i].t = "head" /\ g[i].v = Number(g)
  BY <1>4
<1>6. i + 1 <= Len(g) /\ i \in Nat /\ 1 <= i
  BY <1>3, <1>4, <1>5
<1>7. asked # <<>>
  BY <1>4, EmptySeq
<1> DEFINE old == Len(client.request)
<1>8. CASE i <= old
  <2>1. i \in DOMAIN client.request /\ client.request[i] = g[i]
    BY <1>1, <1>3, <1>6, <1>8
  <2>2. Number(g) = Len(asked) /\ ~Idle
    BY <1>5, <2>1 DEF HeaderAwaited
  <2>3. asked[Len(asked)].framing # "chunked" => i = old + Len(unread) - 1
    BY <1>5, <1>7, <2>1 DEF HeaderAwaited
  <2>4. old \in Nat
    BY <1>1
  <2> HIDE DEF old
  <2>5. asked[Len(asked)].framing # "chunked" => Len(unread') = 0
    <3>1. i = old + Len(unread) - 1 => Len(unread) <= 1
      BY <1>1, <1>6, <1>8, <2>4
    <3>2. Len(unread) <= 1 => Len(unread') = 0
      BY <1>1
    <3> QED
      BY <2>3, <3>1, <3>2
  <2> QED
    BY <1>4, <2>2, <2>5
<1>9. CASE ~(i <= old)
  <2> DEFINE m == i - old
  <2>1. old \in Nat /\ Len(g) = old + Len(s)
    BY <1>1
  <2> HIDE DEF old
  <2>2. m \in 1..Len(s) /\ old + m = i /\ m + 1 <= Len(s) /\ m \in 1..Len(unread)
    BY <1>1, <1>6, <1>9, <2>1
  <2> HIDE DEF m
  <2>3. unread[m] = g[i]
    BY <1>1, <2>2 DEF old
  <2>4. Number(g) = Len(asked)
    BY <1>3, <1>5, <2>2, <2>3 DEF HeaderAwaited
  <2>5. ~Idle
    <3>1. unread[m] \notin {LF, CR}
      BY <1>5, <2>3, Lines
    <3> QED
      BY <1>3, <2>2, <3>1 DEF Rest
  <2>6. asked[Len(asked)].framing # "chunked" => m = Len(unread) - 1
    BY <1>3, <1>5, <1>7, <2>2, <2>3 DEF HeaderAwaited
  <2>7. m = Len(unread) - 1 => Len(unread') = 0
    BY <1>1, <2>2
  <2> QED
    BY <1>4, <2>4, <2>5, <2>6, <2>7
<1> QED
  BY <1>8, <1>9

(* A size 0 behind the header is one that was read. *)
LEMMA ZeroBehindHeader ==
  ASSUME TypeOK, HeaderAwaited, EndsOnce(unread), NEW k, NEW s, NEW p, ReadBy(k, s, p),
         NEW g, HeaderRead(k, s, g), HeaderEnds(g) # {}, StoI(Body(g)) = 0
  PROVE  Rest(unread')
<1>1. /\ g \in Seq(Arrived) /\ Len(g) = Len(client.request) + Len(s)
      /\ \A i \in 1..Len(client.request) : g[i] = client.request[i]
      /\ \A i \in 1..Len(s) : g[Len(client.request) + i] = s[i]
      /\ Len(client.request) \in Nat /\ Len(s) \in Nat
  BY DEF HeaderRead
<1>2. /\ unread \in Seq(Arrived) /\ client.request \in Seq(Arrived)
      /\ Arrived \subseteq Byte
  BY DEF TypeOK, Buffer, Arrived
<1>3. DOMAIN client.request = 1..Len(client.request) /\ Len(g) \in Nat
  BY <1>1, <1>2, LenProperties
<1>4. HeaderEnd(g) \in 1..Len(g)
  BY <1>1, HeaderParts
<1> DEFINE e == HeaderEnd(g)
           b == Body(g)
<1>5. /\ b \in Seq(Arrived) /\ Len(b) = Len(g) - e
      /\ \A i \in 1..Len(b) : b[i] = g[e + i]
  <2>1. e \in 1..Len(g) /\ b = After(g, e)
    BY <1>4 DEF Body
  <2> HIDE DEF e, b
  <2>2. e \in Nat /\ 1 <= e /\ e <= Len(g)
    BY <1>3, <2>1
  <2>3. \A i \in 1..Len(g) : g[i] \in Arrived
    BY <1>1, ElementOfSeq
  <2> QED
    BY <1>3, <2>1, <2>2, <2>3, SubSeqProperties DEF After
<1>6. PICK j \in 1..Len(b) : b[j] = Zero
  <2> HIDE DEF b
  <2> QED
    BY <1>2, <1>5, StoIZero DEF b
<1> DEFINE i == e + j
<1>7. i \in 1..Len(g) /\ g[i] = Zero
  <2> HIDE DEF b
  <2>1. g[i] = Zero
    BY <1>5, <1>6
  <2> HIDE DEF e
  <2>2. i \in 1..Len(g)
    BY <1>3, <1>4, <1>5, <1>6 DEF e
  <2> QED
    BY <2>1, <2>2
<1> HIDE DEF i, b, e
<1> DEFINE old == Len(client.request)
<1>8. CASE i <= old
  <2>1. i \in DOMAIN client.request /\ client.request[i] = Zero
    BY <1>1, <1>3, <1>7, <1>8
  <2>2. client.request[i].t \in Space \cup {"head"}
    BY <2>1 DEF HeaderAwaited
  <2> QED
    BY <2>1, <2>2, Lines DEF Space
<1>9. CASE ~(i <= old)
  <2> DEFINE m == i - old
  <2>1. old \in Nat /\ Len(g) = old + Len(s)
    BY <1>1
  <2> HIDE DEF old
  <2>2. m \in 1..Len(s) /\ old + m = i
    BY <1>1, <1>7, <1>9, <2>1
  <2> HIDE DEF m
  <2>3. s[m] = Zero
    BY <1>1, <1>7, <2>2 DEF old
  <2> QED
    BY <1>2, <2>2, <2>3, ZeroRead
<1> QED
  BY <1>8, <1>9

(* A read while the header is still to come. *)
LEMMA HeaderKeepsEnd ==
  ASSUME Coded, TypeOK, EndInv, ~Redirected, ~client.isChunked, HeaderAwaited,
         NEW k, NEW s, NEW p, ReadBy(k, s, p),
         NEW g, HeaderRead(k, s, g), LineCases(client, s, g, p)
  PROVE  EndInv'
<1> DEFINE grown == [client EXCEPT !.request = g]
           cut == [client EXCEPT !.isChunked = TRUE, !.request = SubSeq(g, 1, HeaderEnd(g))]
<1>1. /\ asked \in Seq(Request) /\ unread \in Seq(Arrived) /\ client \in Buffer(Arrived)
      /\ k \in 1..Len(unread) /\ Arrived \subseteq Byte
      /\ phase = "READ_REQUEST" /\ asked' = asked /\ unread' = After(unread, k)
      /\ g \in Seq(Arrived)
  BY DEF TypeOK, ReadBy, Arrived, HeaderRead
<1>2. EndsOnce(unread) /\ (Idle => Rest(unread) /\ Len(unread) <= 2) /\ client.chunkedSize = -1
  BY <1>1 DEF EndInv, HeaderAwaited
<1>3. EndsOnce(unread') /\ (Rest(unread) => Rest(unread'))
  BY <1>1, <1>2, EndsOnceRest, RestOfRest
<1>4. unread' \in Seq(Arrived) /\ Len(unread') = Len(unread) - k /\ Len(unread) \in Nat /\ k \in Nat
  BY SMTT(30), <1>1, ReadPart, LenProperties
<1>5. /\ grown.request = g /\ grown.chunkedSize = -1 /\ grown.isChunked = FALSE
      /\ cut.isChunked = TRUE /\ cut.chunkedSize = -1
  BY <1>1, <1>2 DEF Buffer
<1>6. HeaderEnds(g) # {} => cut \in Buffer(Arrived)
  <2> SUFFICES ASSUME HeaderEnds(g) # {}
               PROVE  cut \in Buffer(Arrived)
    OBVIOUS
  <2>1. SubSeq(g, 1, HeaderEnd(g)) \in Seq(Arrived)
    BY <1>1, HeaderParts
  <2> QED
    BY <1>1, <2>1 DEF Buffer
<1> HIDE DEF grown, cut
(* What follows the header starts a chunk at most. *)
<1>7. ASSUME HeaderEnds(g) # {}, p = ParseChunkedRequest(cut, Body(g))
      PROVE  /\ p.client.isChunked /\ ~p.finished
             /\ p.status = 200 /\ p.client.chunkedSize = 0 => Rest(unread')
  <2>1. Body(g) \in Seq(Arrived)
    BY <1>1, <1>7, HeaderParts
  <2>2. /\ p.client.isChunked = cut.isChunked
        /\ p.finished => cut.chunkedSize = 0
        /\ p.status = 200 /\ p.client.chunkedSize = 0 => cut.chunkedSize = 0 \/ StoI(Body(g)) = 0
    BY <1>1, <1>6, <1>7, <2>1, ChunkStep
  <2>3. StoI(Body(g)) = 0 => Rest(unread')
    BY <1>2, <1>7, ZeroBehindHeader
  <2> QED
    BY <1>5, <2>2, <2>3
<1>8. CASE \/ p = Wait(client) /\ client.request = <<>> /\ s = CRLF
           \/ p = Wait(grown) /\ HeaderEnds(g) = {}
  <2>1. ~p.finished
    BY <1>8 DEF Wait, Result
  <2>2. ~Answering'
    BY <2>1 DEF ReadBy
  <2>3. ASSUME phase' = "READ_REQUEST"
        PROVE  /\ ~client'.isChunked /\ HeaderAwaited'
               /\ Idle' => Rest(unread') /\ Len(unread') <= 2
    <3>1. ~client'.isChunked /\ HeaderAwaited'
      BY <1>2, <1>8, <2>3, HeaderStillAwaited DEF grown
    <3>2. Idle' = Idle
      BY <2>3 DEF ReadBy, Idle
    <3>3. Idle => Len(unread') <= 2
      BY <1>2, <1>4
    <3> QED
      BY <1>2, <1>3, <3>1, <3>2, <3>3
  <2> QED
    BY <1>3, <2>2, <2>3 DEF EndInv
<1>9. CASE HeaderEnds(g) # {} /\ Heads(g) = {} /\ p = Finished(grown)
  <2>1. p.finished /\ p.client = grown
    BY <1>9 DEF Finished, Result
  <2>2. ~Answering' /\ phase' # "READ_REQUEST"
    BY <1>5, <1>9, <2>1 DEF ReadBy
  <2> QED
    BY <1>3, <2>2 DEF EndInv
<1>10. CASE /\ HeaderEnds(g) # {} /\ Heads(g) # {} /\ p = ParseChunkedRequest(cut, Body(g))
  <2>1. ~Answering'
    BY <1>7, <1>10 DEF ReadBy
  <2>2. ~Idle
    BY <1>2, <1>10, HeadFound
  <2>3. ASSUME phase' = "READ_REQUEST"
        PROVE  /\ ~Idle' /\ client'.isChunked
               /\ client'.chunkedSize = 0 => Rest(unread')
    <3>1. client' = p.client /\ handed' = handed /\ p.status = 200 /\ asked' = asked
      BY <2>3 DEF ReadBy
    <3> QED
      BY <1>7, <1>10, <2>2, <3>1 DEF Idle
  <2> QED
    BY <1>3, <2>1, <2>3 DEF EndInv
<1>11. CASE /\ HeaderEnds(g) # {} /\ Heads(g) # {} /\ asked[Number(g)].framing # "chunked"
            /\ \/ p \in Refusals(grown)
               \/ p = Wait(grown) /\ IsWanting(asked[Number(g)], Body(g))
               \/ p = Finished(grown)
               \/ p = Thrown(grown) /\ IsShort(asked[Number(g)])
  <2>1. /\ Number(g) = Len(asked) /\ Len(asked) \in 1..Len(asked)
        /\ Len(unread') = 0
    BY <1>2, <1>11, HeadFound
  <2>2. asked # <<>> /\ unread' = <<>>
    BY <1>1, <1>4, <2>1, EmptySeq
  <2>3. p.client = grown
    BY <1>11 DEF Refusals, Fail, Wait, Finished, Thrown, Result
  <2>4. Answering' => client'.request = <<>> /\ client'.chunkedSize = -1
    BY <1>5, <2>3 DEF ReadBy
  <2>5. phase' = "READ_REQUEST" => ~client'.isChunked /\ BodyAwaited' /\ ~Idle'
    <3>1. ~Idle
      BY <1>2, <1>11, HeadFound
    <3> QED
      BY <1>1, <1>5, <2>2, <2>3, <3>1 DEF ReadBy, Idle, BodyAwaited
  <2> QED
    BY <1>1, <1>3, <2>2, <2>4, <2>5 DEF EndInv
<1> QED
  BY <1>8, <1>9, <1>10, <1>11 DEF LineCases, grown, cut

LEMMA ReadKeepsEnd ==
  ASSUME Coded, IInv, EndInv, ExecReadRequest
  PROVE  EndInv'
<1>1. TypeOK /\ asked' = asked
  BY DEF IInv, ExecReadRequest
<1>2. CASE Redirected
  <2>1. Redirected'
    BY <1>1, <1>2 DEF Redirected
  <2> QED
    BY <2>1 DEF EndInv
<1>3. CASE ~Redirected
  <2>1. PICK k, s, p : ReadBy(k, s, p)
    BY ReadFacts
  <2>2. CASE client.isChunked
    BY <1>1, <1>3, <2>1, <2>2, ChunkKeepsEnd
  <2>3. CASE ~client.isChunked /\ NothingAwaited
    BY <1>1, <1>3, <2>1, <2>3, NothingKeepsEnd
  <2>4. CASE ~client.isChunked /\ HeaderAwaited
    <3> DEFINE g == client.request \o s
    <3>1. client \in Buffer(Arrived) /\ s \in Seq(Arrived) /\ p = ParseLine(client, s)
      BY <1>1, <2>1 DEF TypeOK, ReadBy
    <3>2. LineCases(client, s, g, p) /\ HeaderRead(k, s, g)
      BY <1>1, <2>1, <2>4, <3>1, LineStep, ReadHeader
    <3> HIDE DEF g
    <3> QED
      BY <1>1, <1>3, <2>1, <2>4, <3>2, HeaderKeepsEnd
  <2>5. phase = "READ_REQUEST" /\ ~BodyAwaited
    BY <2>1 DEF ReadBy, BodyAwaited, ExecReadRequest
  <2> QED
    BY <1>3, <2>2, <2>3, <2>4, <2>5 DEF EndInv
<1> QED
  BY <1>2, <1>3

(* Nothing but a line end is left when a request is answered. *)
LEMMA AnswerKeepsEnd ==
  ASSUME TypeOK, EndInv, ExecWriteResponse \/ ExecWriteCgi \/ ParseCgiRedirect
  PROVE  EndInv'
<1>1. /\ asked \in Seq(Request) /\ client \in Buffer(Arrived)
      /\ asked' = asked /\ unread' = unread /\ handed' = handed /\ Answering
  BY DEF TypeOK, ExecWriteResponse, ExecWriteCgi, ParseCgiRedirect, Answering
<1> SUFFICES ASSUME ~Redirected
             PROVE  EndInv'
  BY <1>1 DEF EndInv, Redirected
<1>2. /\ EndsOnce(unread) /\ unread \in {<<>>, CRLF}
      /\ client.request = <<>> /\ asked # <<>>
      /\ client.chunkedSize = -1 \/ AfterRedirect
  BY <1>1 DEF EndInv
<1>3. /\ unread \in Seq(Byte) /\ Len(unread) \in Nat /\ Len(unread) <= 2
      /\ \A i \in DOMAIN unread : i \in {1, 2} /\ unread = CRLF
  <2>1. CASE unread = <<>>
    <3>1. Len(unread) = 0 /\ unread \in Seq(Byte)
      BY <2>1
    <3>2. DOMAIN unread = {}
      BY <2>1
    <3> QED
      BY <3>1, <3>2
  <2>2. CASE unread = CRLF
    <3>1. unread \in Seq(Byte) /\ Len(unread) = 2
      BY <2>2, Lines
    <3>2. DOMAIN unread = 1..2
      BY <3>1, LenProperties
    <3>3. \A i \in 1..2 : i \in {1, 2}
      OBVIOUS
    <3> QED
      BY <2>2, <3>1, <3>2, <3>3
  <2> QED
    BY <1>2, <2>1, <2>2
<1>4. /\ \A i \in DOMAIN unread : unread[i].t \in Space
      /\ Rest(unread) /\ Len(unread) <= 2
  <2>1. ASSUME NEW i \in DOMAIN unread
        PROVE  unread[i].t \in Space /\ unread[i] = IF Len(unread) - i \in {0, 2} THEN LF ELSE CR
    <3>1. i \in {1, 2} /\ unread = CRLF
      BY <1>3
    <3> QED
      BY <3>1, Lines DEF Space
  <2>2. Len(unread) <= 4 /\ Len(unread) <= 2
    BY <1>3
  <2> QED
    BY <2>1, <2>2 DEF Rest
<1>5. ASSUME client'.request = <<>>, client.chunkedSize = -1, client'.chunkedSize = client.chunkedSize
      PROVE  HeaderAwaited'
  <2>1. \A i \in DOMAIN unread : unread[i].t # "head" /\ unread[i].t # "nul"
    BY <1>4 DEF Space
  <2>2. DOMAIN client'.request = {}
    BY <1>5
  <2> QED
    BY <1>1, <1>4, <1>5, <2>1, <2>2 DEF HeaderAwaited
<1>6. CASE ExecWriteResponse
  <2>1. /\ phase' = "READ_REQUEST" /\ client'.request = <<>> /\ ~client'.isChunked
        /\ client'.chunkedSize = client.chunkedSize
    BY <1>1, <1>6 DEF ExecWriteResponse, Buffer
  <2>2. AfterRedirect => NothingAwaited'
    <3>1. AfterRedirect => AfterRedirect'
      BY <1>1, <2>1 DEF AfterRedirect
    <3>2. Len(client'.request) = 0 /\ DOMAIN client'.request = {}
      BY <2>1
    <3>3. Len(client'.request) + Len(unread') <= 2
      BY <1>1, <1>3, <3>2
    <3> QED
      BY <1>1, <1>4, <3>1, <3>2, <3>3 DEF NothingAwaited
  <2> QED
    BY <1>1, <1>2, <1>4, <1>5, <2>1, <2>2 DEF EndInv, Answering
<1>7. CASE ExecWriteCgi
  <2>1. /\ phase' = "READ_REQUEST" /\ client'.request = <<>>
        /\ client'.chunkedSize = client.chunkedSize /\ client'.isChunked = client.isChunked
        /\ asked[Len(asked)].target = "cgi"
    BY <1>1, <1>7 DEF ExecWriteCgi, Buffer
  <2>2. client.chunkedSize = -1
    BY <1>2, <2>1 DEF AfterRedirect
  <2> QED
    BY <1>1, <1>2, <1>4, <1>5, <2>1, <2>2 DEF EndInv, Answering
<1>8. CASE ParseCgiRedirect
  <2>1. /\ phase' = "EXEC_CORE_HANDLER" /\ client'.request = <<>> /\ ~client'.isChunked
        /\ asked[Len(asked)].target = "redirect"
    BY <1>8 DEF ParseCgiRedirect, NewBuffer
  <2> QED
    BY <1>1, <1>2, <2>1 DEF EndInv, AfterRedirect
<1> QED
  BY <1>6, <1>7, <1>8

LEMMA InitHasEnd ==
  ASSUME Init
  PROVE  EndInv
<1>1. /\ asked = <<>> /\ unread = <<>> /\ phase = "READ_REQUEST"
      /\ client.request = <<>> /\ ~client.isChunked /\ client.chunkedSize = -1
  BY DEF Init, NewBuffer
<1>2. DOMAIN <<>> = {} /\ Len(<<>>) = 0
  BY EmptySeq
<1>3. HeaderAwaited
  BY <1>1, <1>2 DEF HeaderAwaited
<1>4. EndsOnce(unread) /\ Rest(unread) /\ Len(unread) <= 2
  BY <1>1, <1>2 DEF EndsOnce, Rest
<1> QED
  BY <1>1, <1>3, <1>4 DEF EndInv, Answering

LEMMA EndStep ==
  ASSUME Coded, IInv, EndInv, [Next]_vars
  PROVE  EndInv'
<1>1. TypeOK
  BY DEF IInv
<1>2. CASE \E r \in Request : Ask(r)
  BY <1>1, <1>2, AskKeepsEnd
<1>3. CASE ExecReadRequest
  BY <1>3, ReadKeepsEnd
<1>4. CASE ExecWriteResponse \/ ExecWriteCgi \/ ParseCgiRedirect
  BY <1>1, <1>4, AnswerKeepsEnd
<1>5. CASE UNCHANGED vars
  BY <1>5 DEF vars, EndInv, Redirected, EndsOnce, Answering, AfterRedirect, Idle, Rest,
              HeaderAwaited, NothingAwaited, BodyAwaited
<1> QED
  BY <1>2, <1>3, <1>4, <1>5 DEF Next, Server

LEMMA EndInvHolds ==
  ASSUME Coded
  PROVE  Spec => []EndInv
<1>1. Init => EndInv
  BY InitHasEnd
<1>2. IInv /\ EndInv /\ [Next]_vars => EndInv'
  BY EndStep
<1> QED
  BY <1>1, <1>2, Invariance, PTL DEF Spec

(* A chunked request whose only size 0 is its last chunk's is handed on when
   that chunk has arrived, wherever the reads end, until a script redirects
   (SocketInterface.cpp:145). *)
THEOREM HandedOnlyAtItsEnd ==
  ASSUME Coded
  PROVE  Spec => []HandedAtItsEnd
<1>1. EndInv => HandedAtItsEnd
  BY DEF EndInv, HandedAtItsEnd, Answering, Redirected
<1> QED
  BY <1>1, EndInvHolds, PTL

-----------------------------------------------------------------------------
(* HeaderInv is inductive *)

(* A header's end depends on the bytes up to it only. *)
LEMMA SameHeader ==
  ASSUME NEW S, NEW s \in Seq(S), NEW e \in HeaderEnds(s),
         NEW T, NEW t \in Seq(T), e <= Len(t), \A i \in 1..e : t[i] = s[i]
  PROVE  e \in HeaderEnds(t)
<1>1. /\ Len(s) \in Nat /\ Len(t) \in Nat
      /\ DOMAIN s = 1..Len(s) /\ DOMAIN t = 1..Len(t)
  BY LenProperties
<1>2. e \in 1..Len(s)
  BY PositionsInRange
<1>3. e \in 1..Len(t) /\ t[e] = s[e]
  BY <1>1, <1>2
<1>4. CASE e \in At(s, "end")
  <2>1. e \in At(t, "end")
    BY <1>1, <1>3, <1>4 DEF At
  <2> QED
    BY <2>1 DEF HeaderEnds
<1>5. CASE e \in 4..Len(s) /\ e - 3 \in LineEnds(s) /\ e - 1 \in LineEnds(s)
  <2>1. ASSUME NEW i \in {e - 3, e - 1}
        PROVE  i \in LineEnds(t)
    <3>1. i \in 1..Len(s) /\ s[i].t = "cr" /\ s[i + 1] = LF
      BY <1>1, <1>5, <2>1 DEF LineEnds, At
    <3>2. i \in 1..e /\ i + 1 \in 1..e /\ i \in 1..Len(t) /\ i < Len(t)
      BY <1>1, <1>2, <1>3, <1>5, <2>1
    <3>3. t[i].t = "cr" /\ t[i + 1] = LF
      BY <3>1, <3>2
    <3> QED
      BY <1>1, <3>2, <3>3 DEF LineEnds, At
  <2>2. e \in 4..Len(t)
    BY <1>1, <1>3, <1>5
  <2> QED
    BY <2>1, <2>2 DEF HeaderEnds
<1> QED
  BY <1>4, <1>5 DEF HeaderEnds

(* What is added to a request leaves its header where it was. *)
LEMMA HeaderStays ==
  ASSUME NEW S, NEW old \in Seq(S), NEW new, Longer(S, old, new), HeaderEnds(old) # {}
  PROVE  HeaderEnds(new) # {}
<1>1. PICK x \in Seq(S) : new = old \o x
  BY DEF Longer
<1>2. Pair(old \o x, old, x) /\ old \o x \in Seq(S)
  BY Pairing, ConcatProperties
<1>3. Pair(new, old, x) /\ new \in Seq(S)
  BY <1>1, <1>2
<1>4. Len(old) \in Nat /\ Len(x) \in Nat
  BY LenProperties
<1>5. PICK e \in HeaderEnds(old) : TRUE
  OBVIOUS
<1>6. e \in 1..Len(old)
  BY PositionsInRange
<1>7. e <= Len(new) /\ \A i \in 1..e : new[i] = old[i]
  <2>1. Len(new) = Len(old) + Len(x) /\ \A i \in 1..Len(old) : new[i] = old[i]
    BY <1>3 DEF Pair
  <2>2. e <= Len(new)
    BY <1>4, <1>6, <2>1
  <2>3. \A i \in 1..e : i \in 1..Len(old)
    BY <1>4, <1>6
  <2> QED
    BY <2>1, <2>2, <2>3
<1>8. e \in HeaderEnds(new)
  BY <1>3, <1>7, SameHeader
<1> QED
  BY <1>8

(* The header itself has an end. *)
LEMMA HeaderHasEnd ==
  ASSUME NEW S, NEW s \in Seq(S), HeaderEnds(s) # {}
  PROVE  HeaderEnds(SubSeq(s, 1, HeaderEnd(s))) # {}
<1> DEFINE e == HeaderEnd(s)
           part == SubSeq(s, 1, e)
<1>1. HeaderEnds(s) \subseteq 1..Len(s) /\ Len(s) \in Nat
  BY PositionsInRange, LenProperties
<1>2. e \in HeaderEnds(s) /\ e \in 1..Len(s)
  <2>1. HeaderEnds(s) \in SUBSET Nat
    BY <1>1
  <2> QED
    BY <1>1, <2>1, FirstIsMember DEF HeaderEnd
<1> HIDE DEF e
<1>3. e \in Nat /\ 1 <= e /\ e <= Len(s)
  BY <1>1, <1>2
<1>4. \A i \in 1..e : s[i] \in S
  BY <1>1, <1>3, ElementOfSeq
<1>5. part \in Seq(S) /\ Len(part) = e /\ \A i \in 1..e : part[i] = s[i]
  BY <1>1, <1>3, <1>4, SubSeqProperties
<1> HIDE DEF part
<1>6. e \in HeaderEnds(part)
  BY <1>2, <1>3, <1>5, SameHeader
<1> QED
  BY <1>6 DEF part, e

(* What starts with line ends and a header has no size. *)
LEMMA HeadIsNoSize ==
  ASSUME NEW S, NEW s \in Seq(S),
         \A i \in 1..Len(s) : s[i].t \in Space \/ \E j \in 1..i : s[j].t = "head"
  PROVE  StoI(s) = -1
<1> DEFINE word == { i \in FirstLine(s) : s[i].t \notin Space }
           n == IF LineEnds(s) = {} THEN Len(s) ELSE First(LineEnds(s)) - 1
<1>1. Len(s) \in Nat
  BY LenProperties
<1>2. FirstLine(s) = 1..n
  BY DEF FirstLine
<1>3. n \in 0..Len(s)
  <2>1. CASE LineEnds(s) = {}
    BY <1>1, <2>1
  <2>2. CASE LineEnds(s) # {}
    <3>1. LineEnds(s) \subseteq 1..Len(s) /\ LineEnds(s) \in SUBSET Nat
      BY <1>1, PositionsInRange
    <3>2. First(LineEnds(s)) \in 1..Len(s)
      BY <2>2, <3>1, FirstIsMember
    <3> QED
      BY <1>1, <2>2, <3>2
  <2> QED
    BY <2>1, <2>2
<1>4. StoI(s) = IF word # {} /\ s[First(word)].t = "digit" THEN s[First(word)].v ELSE -1
  BY DEF StoI
<1> HIDE DEF n
<1>5. word \subseteq 1..n /\ word \in SUBSET Nat
  BY <1>1, <1>2, <1>3
<1>6. ASSUME word # {}
      PROVE  s[First(word)].t = "head"
  <2> DEFINE f == First(word)
  <2>1. f \in word /\ \A i \in word : f <= i
    <3> HIDE DEF word
    <3> QED
      BY <1>5, <1>6, FirstIsMember
  <2>2. f \in 1..n /\ s[f].t \notin Space
    BY <1>5, <2>1
  <2> HIDE DEF f
  <2>3. f \in 1..Len(s)
    BY <1>1, <1>3, <2>2
  <2>4. PICK j \in 1..f : s[j].t = "head"
    BY <2>2, <2>3
  <2>5. j \in 1..n /\ s[j].t \notin Space
    BY <1>1, <1>3, <2>2, <2>4 DEF Space
  <2>6. f <= j
    BY <1>2, <2>1, <2>5
  <2>7. f = j
    BY <1>1, <1>3, <2>2, <2>4, <2>6
  <2> QED
    BY <2>4, <2>7 DEF f
<1> QED
  BY <1>4, <1>6

(* The requests whose kind HeaderInv looks at are requests. *)
LEMMA KnownRequests ==
  ASSUME TypeOK
  PROVE  /\ NoRedirects => ~Redirected
         /\ asked # <<>> => asked[Len(asked)] \in Request
<1>1. asked \in Seq(Request) /\ Len(asked) \in Nat
  BY LenProperties DEF TypeOK
<1>2. \A n \in 1..Len(asked) : asked[n] \in Request
  BY <1>1, ElementOfSeq
<1>3. asked # <<>> => Len(asked) \in 1..Len(asked)
  BY <1>1, EmptySeq
<1>4. \A n \in 1..Len(asked) - 1 : n \in 1..Len(asked)
  BY <1>1
<1> QED
  BY <1>2, <1>3, <1>4 DEF NoRedirects, Redirected

(* A read of a chunk, or of what a stale isChunked takes for one. *)
LEMMA ChunkKeepsHeader ==
  ASSUME TypeOK, HeaderInv, client.isChunked, NEW k, NEW s, NEW p, ReadBy(k, s, p)
  PROVE  HeaderInv'
<1>1. /\ asked \in Seq(Request) /\ unread \in Seq(Arrived) /\ client \in Buffer(Arrived)
      /\ k \in 1..Len(unread) /\ s = CString(SubSeq(unread, 1, k)) /\ s \in Seq(Arrived)
      /\ client.request \in Seq(Arrived) /\ phase = "READ_REQUEST" /\ asked' = asked
      /\ Arrived \subseteq Byte
  BY DEF TypeOK, ReadBy, Arrived, Buffer
<1>2. p = ParseChunkedRequest(client, s) /\ ~NoChunks
  BY DEF ReadBy, ParseLine, HeaderInv
<1>3. /\ p.client.isChunked
      /\ p.finished => client.chunkedSize = 0
      /\ Longer(Arrived, client.request, p.client.request)
  BY <1>1, <1>2, ChunkStep
<1>4. CASE HeaderEnds(client.request) # {}
  <2>1. HeaderEnds(p.client.request) # {}
    BY <1>1, <1>3, <1>4, HeaderStays
  <2>2. phase' # "terminated"
    BY <1>2, <2>1, ChunksNeverThrow DEF ReadBy, Throws, Dies
  <2>3. Answering' => asked' # <<>>
    <3>1. SUFFICES ASSUME Answering'
                   PROVE  asked # <<>>
      BY <1>1
    <3>2. p.client \in Buffer(Arrived) /\ Heads(p.client.request) # {}
      BY <3>1 DEF ReadBy
    <3>3. p.client.request \in Seq(Arrived)
      BY <3>2 DEF Buffer
    <3>4. Number(p.client.request) \in 1..Len(asked)
      BY <1>1, <3>2, <3>3, HeadIsAsked
    <3> QED
      BY <3>4, EmptySeq
  <2>4. phase' = "READ_REQUEST" => HeaderEnds(client'.request) # {}
    BY <2>1 DEF ReadBy
  <2> QED
    BY <1>2, <2>2, <2>3, <2>4 DEF HeaderInv, OnlyShortTerminates
<1>5. CASE Stale
  <2>1. client.chunkedSize = -1 /\ client.request = <<>>
    BY <1>5 DEF Stale
  <2>2. /\ Len(s) \in 0..k /\ \A i \in 1..Len(s) : s[i] = unread[i]
        /\ Len(s) < k => unread[Len(s) + 1].t = "nul"
    BY <1>1, ReadPart
  <2>3. k \in Nat /\ Len(unread) \in Nat /\ DOMAIN unread = 1..Len(unread) /\ 1 <= k /\ k <= Len(unread)
    BY <1>1, LenProperties
  <2>4. StoI(s) = -1
    <3>1. ASSUME NEW i \in 1..Len(s)
          PROVE  s[i].t \in Space \/ \E j \in 1..i : s[j].t = "head"
      <4>1. i \in DOMAIN unread /\ s[i] = unread[i] /\ \A j \in 1..i : s[j] = unread[j]
        BY <2>2, <2>3
      <4> QED
        BY <1>5, <4>1 DEF Stale
    <3> QED
      BY <1>1, <3>1, HeadIsNoSize
  <2>5. s # <<>>
    <3>1. SUFFICES ASSUME s = <<>>
                   PROVE  FALSE
      OBVIOUS
    <3>2. Len(s) = 0
      BY <3>1
    <3>3. unread[1].t = "nul" /\ 1 \in DOMAIN unread
      BY <2>2, <2>3, <3>2
    <3>4. \A j \in 1..1 : j = 1
      OBVIOUS
    <3> QED
      BY <1>5, <3>3, <3>4 DEF Stale, Space
  <2>6. p = Fail(client, 400)
    BY <1>2, <2>1, <2>4, <2>5 DEF ParseChunkedRequest
  <2>7. p.status = 400 /\ ~p.finished
    BY <2>6 DEF Fail, Result
  <2>8. phase' # "READ_REQUEST" /\ ~Answering' /\ phase' # "terminated"
    BY <2>7 DEF ReadBy, Dies
  <2> QED
    BY <1>2, <2>8 DEF HeaderInv, OnlyShortTerminates
<1> QED
  BY <1>1, <1>4, <1>5 DEF HeaderInv

(* A read before the header is complete, and the one that completes it. *)
LEMMA LineKeepsHeader ==
  ASSUME TypeOK, HeaderInv, ~client.isChunked, NEW k, NEW s, NEW p, ReadBy(k, s, p),
         NEW g \in Seq(Arrived), LineCases(client, s, g, p)
  PROVE  HeaderInv'
<1> DEFINE grown == [client EXCEPT !.request = g]
           cut == [client EXCEPT !.isChunked = TRUE, !.request = SubSeq(g, 1, HeaderEnd(g))]
<1>1. /\ asked \in Seq(Request) /\ client \in Buffer(Arrived)
      /\ phase = "READ_REQUEST" /\ asked' = asked /\ Arrived \subseteq Byte
  BY DEF TypeOK, ReadBy, Arrived
<1>2. /\ grown.request = g /\ grown.isChunked = FALSE
      /\ cut.isChunked = TRUE /\ cut.request = SubSeq(g, 1, HeaderEnd(g))
  BY <1>1 DEF Buffer
<1>3. HeaderEnds(g) # {} => cut \in Buffer(Arrived) /\ HeaderEnds(cut.request) # {}
  <2> SUFFICES ASSUME HeaderEnds(g) # {}
               PROVE  cut \in Buffer(Arrived) /\ HeaderEnds(cut.request) # {}
    OBVIOUS
  <2>1. SubSeq(g, 1, HeaderEnd(g)) \in Seq(Arrived)
    BY HeaderParts
  <2>2. cut \in Buffer(Arrived)
    BY <1>1, <2>1 DEF Buffer
  <2> HIDE DEF cut
  <2> QED
    BY <1>2, <2>2, HeaderHasEnd
<1> HIDE DEF grown, cut
<1>4. Answering' => asked' # <<>>
  <2> SUFFICES ASSUME Answering'
               PROVE  asked # <<>>
    BY <1>1
  <2>1. p.client \in Buffer(Arrived) /\ Heads(p.client.request) # {}
    BY DEF ReadBy
  <2>2. p.client.request \in Seq(Arrived)
    BY <2>1 DEF Buffer
  <2>3. Number(p.client.request) \in 1..Len(asked)
    BY <1>1, <2>1, <2>2, HeadIsAsked
  <2> QED
    BY <2>3, EmptySeq
(* What the parser leaves in each case. *)
<1>5. CASE p.status # 0 /\ ~p.finished /\ ~p.client.isChunked
  BY <1>4, <1>5 DEF ReadBy, HeaderInv, OnlyShortTerminates, Dies
<1>6. CASE p.status # 0 /\ ~p.client.isChunked /\ HeaderEnds(p.client.request) # {}
  BY <1>4, <1>6 DEF ReadBy, HeaderInv, OnlyShortTerminates, Dies, Throws
<1>7. CASE p.status # 0 /\ ~NoChunks /\ HeaderEnds(p.client.request) # {}
  BY <1>4, <1>7 DEF ReadBy, HeaderInv, OnlyShortTerminates, Dies, Throws
<1>8. CASE p = Wait(client) \/ p = Wait(grown)
  <2>1. p.status # 0 /\ ~p.finished /\ ~p.client.isChunked
    BY <1>2, <1>8 DEF Wait, Result
  <2> QED
    BY <1>5, <2>1
<1>9. CASE HeaderEnds(g) # {} /\ (p = Finished(grown) \/ p \in Refusals(grown))
  <2>1. p.client = grown /\ p.status # 0
    BY <1>9 DEF Finished, Refusals, Fail, Result
  <2> QED
    BY <1>2, <1>6, <1>9, <2>1
<1>10. CASE /\ HeaderEnds(g) # {} /\ Heads(g) # {} /\ asked[Number(g)].framing = "chunked"
            /\ p = ParseChunkedRequest(cut, Body(g))
  <2>1. ~NoChunks
    <3>1. Number(g) \in 1..Len(asked)
      BY <1>1, <1>10, HeadIsAsked
    <3>2. asked[Number(g)] \in Request
      BY <1>1, <3>1, ElementOfSeq
    <3> QED
      BY <1>10, <3>2 DEF NoChunks
  <2>2. Body(g) \in Seq(Arrived)
    BY <1>10, HeaderParts
  <2>3. Longer(Arrived, cut.request, p.client.request)
    BY <1>1, <1>3, <1>10, <2>2, ChunkStep
  <2>4. cut.request \in Seq(Arrived)
    BY <1>3, <1>10 DEF Buffer
  <2>5. HeaderEnds(p.client.request) # {}
    BY <1>3, <1>10, <2>3, <2>4, HeaderStays
  <2>6. p.status # 0
    BY <1>10, ChunksNeverThrow
  <2> QED
    BY <1>7, <2>1, <2>5, <2>6
<1>11. CASE Heads(g) # {} /\ p = Thrown(grown) /\ IsShort(asked[Number(g)])
  <2>1. p.client = grown /\ p.status = 0 /\ ~p.finished
    BY <1>11 DEF Thrown, Result
  <2>2. phase' # "READ_REQUEST" /\ ~Answering'
    BY <2>1 DEF ReadBy
  <2>3. client'.isChunked = FALSE
    BY <1>2, <2>1 DEF ReadBy
  <2>4. OnlyShortTerminates'
    <3>1. phase' = "terminated" => client'.request = g
      BY <1>2, <2>1 DEF ReadBy
    <3>2. Heads(g)' = Heads(g) /\ asked[Number(g)]' = asked[Number(g)]
      BY <1>1
    <3> QED
      BY <1>1, <1>11, <3>1 DEF OnlyShortTerminates, Heads, HeaderEnds, HeaderEnd, Number, IsShort
  <2> QED
    BY <2>2, <2>3, <2>4 DEF HeaderInv
<1> QED
  BY <1>8, <1>9, <1>10, <1>11 DEF LineCases, grown, cut

(* A request that comes while isChunked is stale. *)
LEMMA AskKeepsHeader ==
  ASSUME TypeOK, Coded => EndInv, HeaderInv, NEW r \in Request, Ask(r)
  PROVE  HeaderInv'
<1>1. /\ asked \in Seq(Request) /\ unread \in Seq(Arrived)
      /\ phase = "READ_REQUEST" /\ Idle
      /\ unread' = unread \o Stream(Len(asked) + 1, r)
      /\ phase' = phase /\ client' = client
  BY DEF TypeOK, Ask, Idle
<1>2. ASSUME NoRedirects, Coded, Stale
      PROVE  Stale'
  <2>1. Rest(unread)
    BY <1>1, <1>2, KnownRequests DEF EndInv
  <2> DEFINE n == Len(asked) + 1
             v == unread'
             w == r.wire
  <2>2. n \in Nat /\ Arrived \subseteq Byte
    BY <1>1, LenProperties DEF Arrived
  <2>3. Arrives(unread \o Stream(n, r), n, r.wire)
    <3> HIDE DEF n
    <3> QED
      BY <1>1, <2>1, <2>2, StreamBytes
  <2>4. Arrives(v, n, w)
    BY <1>1, <2>3
  <2>5. v \in Seq(Byte)
    <3>1. TypeOK'
      BY AskPreserves
    <3> QED
      BY <3>1, SeqMonotonic DEF TypeOK, Arrived
  <2> HIDE DEF n, w, v
  <2>6. PICK q \in Nat :
          /\ \A i \in 1..q : v[i] \in {CR, LF}
          /\ v[q + 1] = B("head", n)
    BY <2>4 DEF Arrives
  <2>7. DOMAIN v = 1..Len(v) /\ Len(v) \in Nat
    BY <2>5, LenProperties
  <2>8. ASSUME NEW i \in DOMAIN v
        PROVE  v[i].t \in Space \/ \E j \in 1..i : v[j].t = "head"
    <3>1. i \in Nat /\ 1 <= i
      BY <2>7
    <3>2. CASE i <= q
      <4>1. v[i] \in {CR, LF}
        BY <2>6, <3>1, <3>2
      <4> QED
        BY <4>1, Lines DEF Space
    <3>3. CASE ~(i <= q)
      <4>1. q + 1 \in 1..i
        BY <3>1, <3>3
      <4>2. v[q + 1].t = "head"
        BY <2>6, Kinds
      <4> QED
        BY <4>1, <4>2
    <3> QED
      BY <3>2, <3>3
  <2> QED
    BY <1>1, <1>2, <2>8 DEF Stale, v
<1> QED
  BY <1>1, <1>2 DEF HeaderInv, OnlyShortTerminates, Answering

(* A script's answer leaves isChunked stale, the core handler's does not. *)
LEMMA AnswerKeepsHeader ==
  ASSUME Unmixed, TypeOK, Coded => EndInv, HeaderInv,
         ExecWriteResponse \/ ExecWriteCgi \/ ParseCgiRedirect
  PROVE  HeaderInv'
<1>1. /\ client \in Buffer(Arrived) /\ Answering /\ asked # <<>>
      /\ asked' = asked /\ unread' = unread
  BY DEF TypeOK, HeaderInv, ExecWriteResponse, ExecWriteCgi, ParseCgiRedirect, Answering
<1>2. CASE ExecWriteResponse
  <2>1. phase' = "READ_REQUEST" /\ ~client'.isChunked
    BY <1>1, <1>2 DEF ExecWriteResponse, Buffer
  <2> QED
    BY <2>1 DEF HeaderInv, OnlyShortTerminates, Answering
<1>3. CASE ParseCgiRedirect
  <2>1. phase' = "EXEC_CORE_HANDLER" /\ ~client'.isChunked
    BY <1>3 DEF ParseCgiRedirect, NewBuffer
  <2> QED
    BY <1>1, <2>1 DEF HeaderInv, OnlyShortTerminates
<1>4. CASE ExecWriteCgi
  <2>1. /\ phase' = "READ_REQUEST" /\ client'.request = <<>>
        /\ client'.chunkedSize = client.chunkedSize /\ client'.isChunked = client.isChunked
        /\ asked[Len(asked)].target = "cgi"
    BY <1>1, <1>4 DEF ExecWriteCgi, Buffer
  <2>2. ~NoScripts
    BY <1>1, <2>1, KnownRequests DEF NoScripts
  <2>3. ASSUME NoRedirects, Coded
        PROVE  Stale'
    <3>1. /\ unread \in {<<>>, CRLF}
          /\ client.chunkedSize = -1 \/ AfterRedirect
      BY <1>1, <2>3, KnownRequests DEF EndInv
    <3>2. client.chunkedSize = -1
      BY <2>1, <3>1 DEF AfterRedirect
    <3>3. \A i \in DOMAIN unread : unread[i].t \in Space
      <4>1. CASE unread = <<>>
        BY <4>1
      <4>2. CASE unread = CRLF
        <5>1. DOMAIN unread = 1..2
          BY <4>2, Lines, LenProperties
        <5>2. \A i \in 1..2 : i \in {1, 2}
          OBVIOUS
        <5> QED
          BY <4>2, <5>1, <5>2, Lines DEF Space
      <4> QED
        BY <3>1, <4>1, <4>2
    <3> QED
      BY <1>1, <2>1, <3>2, <3>3 DEF Stale
  <2> QED
    BY <2>1, <2>2, <2>3 DEF HeaderInv, OnlyShortTerminates, Answering, Unmixed
<1> QED
  BY <1>2, <1>3, <1>4

LEMMA HeaderStep ==
  ASSUME Unmixed, IInv, Coded => EndInv, HeaderInv, [Next]_vars
  PROVE  HeaderInv'
<1>1. TypeOK
  BY DEF IInv
<1>2. CASE \E r \in Request : Ask(r)
  BY <1>1, <1>2, AskKeepsHeader
<1>3. CASE ExecReadRequest
  <2>1. PICK k, s, p : ReadBy(k, s, p)
    BY <1>3, ReadFacts
  <2>2. CASE client.isChunked
    BY <1>1, <2>1, <2>2, ChunkKeepsHeader
  <2>3. CASE ~client.isChunked
    <3> DEFINE g == client.request \o s
    <3>1. client \in Buffer(Arrived) /\ s \in Seq(Arrived) /\ p = ParseLine(client, s)
      BY <1>1, <2>1 DEF TypeOK, ReadBy
    <3>2. LineCases(client, s, g, p)
      BY <2>3, <3>1, LineStep
    <3>3. g \in Seq(Arrived)
      BY <3>1, ConcatProperties DEF Buffer
    <3> HIDE DEF g
    <3> QED
      BY <1>1, <2>1, <2>3, <3>2, <3>3, LineKeepsHeader
  <2> QED
    BY <2>2, <2>3
<1>4. CASE ExecWriteResponse \/ ExecWriteCgi \/ ParseCgiRedirect
  BY <1>1, <1>4, AnswerKeepsHeader
<1>5. CASE UNCHANGED vars
  BY <1>5 DEF vars, HeaderInv, OnlyShortTerminates, Answering, Stale
<1> QED
  BY <1>2, <1>3, <1>4, <1>5 DEF Next, Server

(* RequestParser only ever gets a whole header, wherever the reads end: when
   nothing is chunked, when no script is asked, or when no script redirects
   and the chunked requests are coded as they should be
   (RequestParser.cpp:16-17). *)
THEOREM HeadersNeverMissing ==
  ASSUME Unmixed
  PROVE  Spec => []OnlyShortTerminates
<1> DEFINE WholeInv == (Coded => EndInv) /\ HeaderInv
<1>1. Init => WholeInv
  <2>1. Init => /\ phase = "READ_REQUEST" /\ client.isChunked = FALSE
    BY DEF Init, NewBuffer
  <2>2. Init => HeaderInv
    BY <2>1 DEF HeaderInv, OnlyShortTerminates, Answering
  <2> QED
    BY <2>2, InitHasEnd
<1>2. IInv /\ WholeInv /\ [Next]_vars => WholeInv'
  <2>1. IInv /\ (Coded => EndInv) /\ [Next]_vars => (Coded => EndInv')
    BY EndStep
  <2>2. Coded' = Coded
    BY DEF Coded, EndsOnce
  <2> QED
    BY <2>1, <2>2, HeaderStep
<1>3. WholeInv => OnlyShortTerminates
  BY DEF HeaderInv
<1> QED
  BY <1>1, <1>2, <1>3, Invariance, PTL DEF Spec

-----------------------------------------------------------------------------
(* Unchunked requests are handed on whole *)

(* Requests without chunks, as peers send them: the body is as long as the
   header says and holds no zero byte, only a POST has one, and no empty line
   comes before a POST. *)
Measured ==
  \A r \in Request :
    /\ r.framing # "chunked"
    /\ r.body = r.wire /\ r.len = Len(r.wire)
    /\ \A i \in DOMAIN r.wire : r.wire[i].t # "nul"
    /\ r.method = "GET" => r.wire = <<>>
    /\ r.lead => r.method = "GET"

(* Byte i of request number n, q line bytes before its header. *)
StreamByte(n, r, q, i) ==
  IF i <= q THEN CRLF[i]
  ELSE IF i = q + 1 THEN B("head", n)
  ELSE IF i = q + 2 THEN End
  ELSE r.wire[i - (q + 2)]

(* g, and then u, is that request. *)
Follows(g, u, n, r, q) ==
  /\ Len(g) + Len(u) = q + 2 + Len(r.wire)
  /\ \A i \in 1..Len(g) : g[i] = StreamByte(n, r, q, i)
  /\ \A i \in 1..Len(u) : u[i] = StreamByte(n, r, q, Len(g) + i)

(* No byte of a request is lost but an empty line before it, and none is
   left when it is handed on. *)
ExchangeInv ==
  /\ ~client.isChunked
  /\ Answering => Idle /\ unread = <<>> /\ client.request = <<>>
  /\ phase = "READ_REQUEST" /\ Idle => unread = <<>> /\ client.request = <<>>
  /\ phase = "READ_REQUEST" /\ ~Idle =>
       /\ Len(handed) + 1 = Len(asked)
       /\ \E q \in {0, 2} :
            /\ q = 2 => asked[Len(asked)].lead
            /\ Follows(client.request, unread, Len(asked), asked[Len(asked)], q)

LEMMA MeasuredRequest ==
  ASSUME Measured, NEW r \in Request
  PROVE  /\ r.framing \in {"none", "length"} /\ r.method \in {"GET", "POST"}
         /\ r.wire \in Seq(Byte) /\ Len(r.wire) \in Nat /\ r.body = r.wire /\ r.len = Len(r.wire)
         /\ \A i \in 1..Len(r.wire) : r.wire[i].t \notin {"nul", "head", "end"}
         /\ r.method = "GET" => r.wire = <<>>
         /\ r.lead => r.method = "GET"
<1>1. r.wire \in Seq(Sent) /\ r.framing \in {"none", "length", "chunked"} /\ r.method \in {"GET", "POST"}
  BY RequestAssumption DEF Method
<1>2. Len(r.wire) \in Nat /\ DOMAIN r.wire = 1..Len(r.wire) /\ r.wire \in Seq(Byte)
  <2>1. Sent \subseteq Byte
    BY DEF Sent, Byte
  <2> QED
    BY <1>1, <2>1, LenProperties
<1>3. \A i \in 1..Len(r.wire) : r.wire[i] \in Sent
  BY <1>1, ElementOfSeq
<1>4. \A i \in 1..Len(r.wire) : r.wire[i].t \notin {"nul", "head", "end"}
  BY <1>2, <1>3, Kinds DEF Measured
<1> QED
  BY <1>1, <1>2, <1>4 DEF Measured

(* What byte i of such a request can be. *)
KindIs(b, r, q, i) ==
  /\ b.t # "nul"
  /\ i <= q => b \in {CR, LF}
  /\ b.t = "head" <=> i = q + 1
  /\ b.t = "end" <=> i = q + 2
  /\ i > q + 2 => b = r.wire[i - (q + 2)]

LEMMA StreamKinds ==
  ASSUME Measured, NEW r \in Request, NEW n \in Nat, NEW q \in {0, 2},
         NEW i \in 1..q + 2 + Len(r.wire)
  PROVE  KindIs(StreamByte(n, r, q, i), r, q, i)
<1> SUFFICES /\ StreamByte(n, r, q, i).t # "nul"
             /\ i <= q => StreamByte(n, r, q, i) \in {CR, LF}
             /\ StreamByte(n, r, q, i).t = "head" <=> i = q + 1
             /\ StreamByte(n, r, q, i).t = "end" <=> i = q + 2
             /\ i > q + 2 => StreamByte(n, r, q, i) = r.wire[i - (q + 2)]
  BY DEF KindIs
<1>1. /\ Len(r.wire) \in Nat
      /\ \A j \in 1..Len(r.wire) : r.wire[j].t \notin {"nul", "head", "end"}
  BY MeasuredRequest
<1> DEFINE length == Len(r.wire)
<1>2. i \in Nat /\ 1 <= i /\ i <= q + 2 + length /\ q \in Nat /\ length \in Nat
  <2>1. length \in Nat /\ i \in 1..q + 2 + length
    BY <1>1
  <2> HIDE DEF length
  <2>2. q \in Nat
    OBVIOUS
  <2>3. q + 2 + length \in Nat
    BY <2>1, <2>2
  <2> QED
    BY <2>1, <2>2, <2>3
<1> HIDE DEF length
<1>3. /\ StreamByte(n, r, q, q + 1) = B("head", n)
      /\ StreamByte(n, r, q, q + 2) = End
      /\ B("head", n).t = "head" /\ End.t = "end"
  BY Kinds DEF StreamByte
<1>4. CASE i <= q
  <2>1. i \in {1, 2} /\ i # q + 1 /\ i # q + 2
    BY <1>2, <1>4
  <2>2. StreamByte(n, r, q, i) = CRLF[i]
    BY <1>4 DEF StreamByte
  <2> QED
    BY <1>2, <1>3, <1>4, <2>1, <2>2, Lines
<1>5. CASE i = q + 1 \/ i = q + 2
  BY <1>2, <1>3, <1>5
<1>6. CASE i > q + 2
  <2> DEFINE m == i - (q + 2)
  <2>1. m \in 1..length /\ ~(i <= q) /\ i # q + 1 /\ i # q + 2
    BY <1>2, <1>6
  <2>2. StreamByte(n, r, q, i) = r.wire[m]
    BY <2>1 DEF StreamByte
  <2> HIDE DEF m
  <2>3. r.wire[m].t \notin {"nul", "head", "end"}
    BY <1>1, <2>1 DEF length
  <2> QED
    BY <1>3, <2>1, <2>2, <2>3 DEF m
<1> QED
  BY <1>2, <1>4, <1>5, <1>6

(* A read moves the place in the request, and loses nothing. *)
LEMMA FollowsRead ==
  ASSUME Measured, TypeOK, NEW r \in Request, NEW n \in Nat, NEW q \in {0, 2},
         Follows(client.request, unread, n, r, q), NEW k \in 1..Len(unread)
  PROVE  LET s == CString(SubSeq(unread, 1, k))
         IN /\ s \in Seq(Arrived) /\ Len(s) = k
            /\ client.request \o s \in Seq(Arrived)
            /\ Len(client.request \o s) = Len(client.request) + k
            /\ Follows(client.request \o s, After(unread, k), n, r, q)
<1> DEFINE s == CString(SubSeq(unread, 1, k))
           rest == After(unread, k)
           g == client.request \o s
           old == Len(client.request)
<1>1. unread \in Seq(Arrived) /\ client.request \in Seq(Arrived)
  BY DEF TypeOK, Buffer
<1>2. /\ s \in Seq(Arrived) /\ Len(s) \in 0..k
      /\ \A i \in 1..Len(s) : s[i] = unread[i]
      /\ Len(s) < k => unread[Len(s) + 1].t = "nul"
      /\ rest \in Seq(Arrived) /\ Len(rest) = Len(unread) - k
      /\ \A i \in 1..Len(rest) : rest[i] = unread[k + i]
  BY <1>1, ReadPart
<1> HIDE DEF s, rest
<1>3. Pair(g, client.request, s) /\ g \in Seq(Arrived)
  BY <1>1, <1>2, Pairing, ConcatProperties
<1> HIDE DEF g
<1>4. old \in Nat /\ Len(unread) \in Nat /\ Len(s) \in Nat /\ k \in Nat /\ 1 <= k /\ k <= Len(unread)
  BY <1>1, <1>2, LenProperties
<1> DEFINE total == q + 2 + Len(r.wire)
<1>5. /\ old + Len(unread) = total
      /\ \A i \in 1..old : client.request[i] = StreamByte(n, r, q, i)
      /\ \A i \in 1..Len(unread) : unread[i] = StreamByte(n, r, q, old + i)
  BY DEF Follows
<1>6. /\ Len(g) = old + Len(s)
      /\ \A i \in 1..old : g[i] = client.request[i]
      /\ \A i \in 1..Len(s) : g[old + i] = s[i]
  BY <1>3, Zenon DEF Pair
<1> HIDE DEF old, total
<1>7. Len(s) = k
  <2>1. SUFFICES ASSUME Len(s) < k
                 PROVE  FALSE
    BY <1>2, <1>4
  <2> DEFINE m == Len(s) + 1
  <2>2. m \in 1..Len(unread) /\ unread[m].t = "nul"
    BY <1>2, <1>4, <2>1
  <2> HIDE DEF m
  <2>3. old + m \in 1..total
    BY <1>4, <1>5, <2>2
  <2>4. StreamByte(n, r, q, old + m).t # "nul"
    BY ZenonT(60), <2>3, StreamKinds DEF total, KindIs
  <2> QED
    BY <1>5, <2>2, <2>4
<1>8. Len(g) = old + k /\ Len(g) + Len(rest) = total
  <2>1. Len(rest) = Len(unread) - k /\ Len(g) = old + k /\ old + Len(unread) = total
    BY <1>2, <1>5, <1>6, <1>7
  <2> QED
    BY <1>4, <2>1
<1>9. ASSUME NEW i \in 1..Len(g)
      PROVE  g[i] = StreamByte(n, r, q, i)
  <2>1. i \in Nat /\ 1 <= i /\ i <= old + k
    BY <1>4, <1>8
  <2>2. CASE i <= old
    <3>1. i \in 1..old
      BY <1>4, <2>1, <2>2
    <3> QED
      BY <1>5, <1>6, <3>1
  <2>3. CASE ~(i <= old)
    <3> DEFINE m == i - old
    <3>1. m \in 1..Len(s) /\ m \in 1..Len(unread) /\ old + m = i
      BY <1>4, <1>7, <2>1, <2>3
    <3> HIDE DEF m
    <3>2. g[old + m] = s[m] /\ s[m] = unread[m] /\ unread[m] = StreamByte(n, r, q, old + m)
      BY <1>2, <1>5, <1>6, <3>1
    <3> QED
      BY <3>1, <3>2
  <2> QED
    BY <2>2, <2>3
<1>10. ASSUME NEW i \in 1..Len(rest)
       PROVE  rest[i] = StreamByte(n, r, q, Len(g) + i)
  <2>1. k + i \in 1..Len(unread) /\ old + (k + i) = Len(g) + i
    BY <1>2, <1>4, <1>8
  <2> QED
    BY <1>2, <1>5, <2>1
<1>11. Follows(g, rest, n, r, q)
  BY <1>8, <1>9, <1>10 DEF Follows, total
<1> QED
  BY <1>2, <1>3, <1>7, <1>8, <1>11 DEF s, g, rest, old

(* Where the header of what was read ends, and what follows it. *)
LEMMA FollowsHeader ==
  ASSUME Measured, NEW r \in Request, NEW n \in Nat, NEW q \in {0, 2},
         NEW g \in Seq(Arrived), NEW u \in Seq(Arrived), Follows(g, u, n, r, q)
  PROVE  /\ Len(g) < q + 2 => HeaderEnds(g) = {}
         /\ Len(g) >= q + 2 =>
              /\ HeaderEnds(g) # {} /\ HeaderEnd(g) = q + 2
              /\ Heads(g) # {} /\ First(Heads(g)) = q + 1 /\ Number(g) = n
              /\ Len(Body(g)) = Len(g) - (q + 2)
              /\ \A i \in 1..Len(Body(g)) : Body(g)[i] = r.wire[i]
<1>1. /\ Len(g) \in Nat /\ Len(u) \in Nat /\ DOMAIN g = 1..Len(g) /\ q \in Nat
      /\ Len(r.wire) \in Nat
  BY LenProperties, MeasuredRequest
<1>2. /\ Len(g) + Len(u) = q + 2 + Len(r.wire)
      /\ \A i \in 1..Len(g) : g[i] = StreamByte(n, r, q, i)
  BY DEF Follows
<1>3. ASSUME NEW i \in 1..Len(g)
      PROVE  /\ i <= q => g[i] \in {CR, LF}
             /\ g[i].t = "head" <=> i = q + 1
             /\ g[i].t = "end" <=> i = q + 2
             /\ i > q + 2 => g[i] = r.wire[i - (q + 2)]
  <2>1. i \in 1..q + 2 + Len(r.wire)
    <3> DEFINE length == Len(r.wire)
    <3>1. length \in Nat /\ Len(g) + Len(u) = q + 2 + length
      BY <1>1, <1>2
    <3> HIDE DEF length
    <3>2. i \in 1..q + 2 + length
      BY <1>1, <3>1
    <3> QED
      BY <3>2 DEF length
  <2>2. KindIs(StreamByte(n, r, q, i), r, q, i)
    BY <2>1, StreamKinds, Zenon
  <2>3. KindIs(g[i], r, q, i)
    BY <1>2, <2>2
  <2> QED
    BY <2>3 DEF KindIs
<1>4. ASSUME NEW e \in HeaderEnds(g)
      PROVE  e \in 1..Len(g) /\ e >= q + 2
  <2>1. e \in 1..Len(g)
    BY PositionsInRange
  <2>2. CASE e \in At(g, "end")
    BY <1>3, <2>1, <2>2, <1>1 DEF At
  <2>3. CASE e \in 4..Len(g)
    BY <1>1, <2>1, <2>3
  <2> QED
    BY <2>1, <2>2, <2>3 DEF HeaderEnds
<1>5. Len(g) < q + 2 => HeaderEnds(g) = {}
  BY <1>1, <1>4
<1>6. ASSUME Len(g) >= q + 2
      PROVE  /\ HeaderEnds(g) # {} /\ HeaderEnd(g) = q + 2
             /\ Heads(g) # {} /\ First(Heads(g)) = q + 1 /\ Number(g) = n
             /\ Len(Body(g)) = Len(g) - (q + 2)
             /\ \A i \in 1..Len(Body(g)) : Body(g)[i] = r.wire[i]
  <2>1. q + 1 \in 1..Len(g) /\ q + 2 \in 1..Len(g)
    BY <1>1, <1>6
  <2>2. q + 2 \in HeaderEnds(g)
    <3>1. q + 2 \in At(g, "end")
      BY <1>1, <1>3, <2>1 DEF At
    <3> QED
      BY <3>1 DEF HeaderEnds
  <2>3. HeaderEnd(g) = q + 2
    <3>1. HeaderEnds(g) \in SUBSET Nat
      BY <1>1, <1>4
    <3>2. HeaderEnd(g) \in HeaderEnds(g) /\ HeaderEnd(g) <= q + 2
      BY <2>2, <3>1, FirstIsMember DEF HeaderEnd
    <3>3. HeaderEnd(g) >= q + 2 /\ HeaderEnd(g) \in 1..Len(g)
      BY <1>4, <3>2
    <3> QED
      BY <1>1, <3>2, <3>3
  <2>4. Heads(g) = {q + 1}
    <3>1. \A i \in 1..Len(g) : i \in At(g, "head") <=> i = q + 1
      BY <1>1, <1>3 DEF At
    <3>2. At(g, "head") = {q + 1}
      BY <1>1, <2>1, <3>1 DEF At
    <3>3. HeaderEnds(g) # {} /\ q + 1 < HeaderEnd(g)
      BY <1>1, <2>2, <2>3
    <3> QED
      BY <3>2, <3>3 DEF Heads
  <2>5. First(Heads(g)) = q + 1
    <3>1. Heads(g) \in SUBSET Nat /\ Heads(g) # {}
      BY <1>1, <2>4
    <3>2. First(Heads(g)) \in Heads(g)
      BY <3>1, FirstIsMember
    <3> QED
      BY <2>4, <3>2
  <2>6. Number(g) = n
    <3>1. g[q + 1] = B("head", n)
      <4>1. StreamByte(n, r, q, q + 1) = B("head", n)
        BY <1>1 DEF StreamByte
      <4> QED
        BY <1>2, <2>1, <4>1
    <3> QED
      BY <2>5, <3>1, Kinds DEF Number
  <2> DEFINE e == HeaderEnd(g)
             b == Body(g)
  <2>7. /\ Len(b) = Len(g) - e
        /\ \A i \in 1..Len(b) : b[i] = g[e + i]
    <3>1. e \in Nat /\ 1 <= e /\ e <= Len(g) /\ b = After(g, e)
      BY <1>1, <2>1, <2>3 DEF Body
    <3> HIDE DEF e, b
    <3>2. \A i \in 1..Len(g) : g[i] \in Arrived
      BY ElementOfSeq
    <3>3. Len(g) \in Nat /\ b = SubSeq(g, e + 1, Len(g)) /\ \A i \in (e + 1)..Len(g) : g[i] \in Arrived
      BY <1>1, <3>1, <3>2 DEF After
    <3> QED
      BY <3>1, <3>3, SubSeqProperties
  <2> HIDE DEF b
  <2>8. ASSUME NEW i \in 1..Len(b)
        PROVE  b[i] = r.wire[i]
    <3> DEFINE m == e + i
    <3>1. b[i] = g[m] /\ m = q + 2 + i /\ Len(b) = Len(g) - (q + 2)
      BY <2>3, <2>7
    <3> HIDE DEF m, e
    <3>2. m \in 1..Len(g) /\ m > q + 2 /\ m - (q + 2) = i
      BY <1>1, <3>1
    <3> QED
      BY <1>3, <3>1, <3>2
  <2> QED
    BY <2>2, <2>3, <2>4, <2>5, <2>6, <2>7, <2>8 DEF b
<1> QED
  BY <1>5, <1>6

(* The parser drops the empty line before a request, waits, or judges. *)
Progress(p, grown, rest, n) ==
  \/ p = Wait(client) /\ Follows(client.request, rest, n, asked[n], 0)
  \/ p = Wait(grown)
  \/ p \in Refusals(grown) /\ ~Exchange!Acceptable(asked[n])
  \/ p = Thrown(grown)
  \/ /\ p = Finished(grown) /\ HeaderEnds(grown.request) # {}
     /\ Parse(grown) = Refused /\ ~Exchange!Acceptable(asked[n])
  \/ /\ p = Finished(grown) /\ Len(rest) = 0 /\ HeaderEnds(grown.request) # {}
     /\ Parse(grown) = Exchange!Verdict(n)

(* The empty line before a request's header. *)
LEMMA LeadDropped ==
  ASSUME Measured, NEW r \in Request, NEW n \in Nat, NEW q \in {0, 2},
         NEW rest \in Seq(Arrived), Follows(CRLF, rest, n, r, q)
  PROVE  Follows(<<>>, rest, n, r, 0)
<1> DEFINE length == Len(r.wire)
<1>1. length \in Nat /\ Len(rest) \in Nat
  BY MeasuredRequest, LenProperties
<1>2. /\ 2 + Len(rest) = q + 2 + length
      /\ \A i \in 1..2 : CRLF[i] = StreamByte(n, r, q, i)
      /\ \A i \in 1..Len(rest) : rest[i] = StreamByte(n, r, q, 2 + i)
  BY Lines DEF Follows
<1> HIDE DEF length
<1>3. q = 2
  <2>1. ASSUME q = 0
        PROVE  FALSE
    <3>1. 1 \in 1..2 /\ ~(1 <= q) /\ 1 = q + 1
      BY <2>1
    <3>2. StreamByte(n, r, q, 1) = B("head", n)
      BY <3>1 DEF StreamByte
    <3>3. CR = B("head", n)
      BY <1>2, <3>1, <3>2, Lines
    <3> QED
      BY <3>3, Lines, Kinds
  <2> QED
    BY <2>1
<1>4. Len(<<>>) = 0
  OBVIOUS
<1>5. Len(rest) = 0 + 2 + length
  BY <1>1, <1>2, <1>3
<1>6. ASSUME NEW i \in 1..Len(rest)
      PROVE  rest[i] = StreamByte(n, r, 0, 0 + i)
  <2>1. /\ i \in Nat /\ 1 <= i /\ ~(2 + i <= 2) /\ ~(0 + i <= 0)
        /\ (2 + i = 2 + 1 <=> 0 + i = 0 + 1) /\ (2 + i = 2 + 2 <=> 0 + i = 0 + 2)
        /\ (2 + i) - (2 + 2) = (0 + i) - (0 + 2)
    BY <1>1
  <2>2. StreamByte(n, r, 2, 2 + i) = StreamByte(n, r, 0, 0 + i)
    BY <2>1 DEF StreamByte
  <2> QED
    BY <1>2, <1>3, <2>2
<1>7. \A i \in 1..0 : <<>>[i] = StreamByte(n, r, 0, i)
  OBVIOUS
<1> QED
  BY <1>4, <1>5, <1>6, <1>7 DEF Follows, length

(* What RequestParser makes of a request that is whole. *)
LEMMA WholeParsed ==
  ASSUME Measured, TypeOK, ~client.isChunked, NEW n \in 1..Len(asked), NEW q \in {0, 2},
         q = 2 => asked[n].lead, asked[n].framing = "none" => asked[n].method = "GET",
         NEW g \in Seq(Arrived), NEW rest \in Seq(Arrived), Len(rest) = 0,
         Follows(g, rest, n, asked[n], q)
  PROVE  Parse([client EXCEPT !.request = g]) = Exchange!Verdict(n)
<1> DEFINE r == asked[n]
           grown == [client EXCEPT !.request = g]
           length == Len(r.wire)
           body == [i \in 1..r.len |-> IF i <= Len(Body(g)) THEN Body(g)[i] ELSE Uninit]
           isPost == r.method = "POST" /\ \A i \in 1..First(Heads(g)) - 1 : g[i].t \in Space
<1>1. asked \in Seq(Request) /\ client \in Buffer(Arrived) /\ r \in Request
  BY ElementOfSeq DEF TypeOK
<1>2. grown.request = g /\ grown.isChunked = FALSE
  BY <1>1 DEF Buffer
<1> HIDE DEF grown
<1>3. /\ r.wire \in Seq(Byte) /\ length \in Nat /\ r.body = r.wire /\ r.len = length
      /\ r.lead => r.method = "GET"
      /\ r.method \in {"GET", "POST"}
  BY <1>1, MeasuredRequest
<1>4. n \in Nat /\ Len(g) \in Nat
  BY <1>1, LenProperties
<1>5. /\ Len(g) = q + 2 + length
      /\ \A i \in 1..Len(g) : g[i] = StreamByte(n, r, q, i)
  <2>1. Len(g) + 0 = q + 2 + length /\ \A i \in 1..Len(g) : g[i] = StreamByte(n, r, q, i)
    BY DEF Follows
  <2> HIDE DEF length
  <2> QED
    BY <1>4, <2>1
<1>6. /\ Heads(g) # {} /\ First(Heads(g)) = q + 1 /\ Number(g) = n
      /\ Len(Body(g)) = Len(g) - (q + 2)
      /\ \A i \in 1..Len(Body(g)) : Body(g)[i] = r.wire[i]
  <2>1. Len(g) >= q + 2
    <3>1. length \in Nat /\ q \in Nat
      BY <1>3
    <3> HIDE DEF length
    <3> QED
      BY <1>5, <3>1
  <2> QED
    BY ZenonT(60), <1>1, <1>4, <2>1, FollowsHeader
<1> HIDE DEF length
<1>7. Len(Body(g)) = length
  BY <1>3, <1>4, <1>5, <1>6
<1>8. body = r.wire
  <2>1. body = [i \in 1..length |-> Body(g)[i]]
    BY <1>3, <1>7
  <2>2. r.wire = [i \in 1..length |-> r.wire[i]]
    BY <1>3 DEF length
  <2> QED
    BY <1>6, <1>7, <2>1, <2>2
<1>9. \A i \in 1..q : g[i].t \in Space
  <2>1. ASSUME NEW i \in 1..q
        PROVE  g[i].t \in Space
    <3>1. i \in {1, 2} /\ i <= q
      OBVIOUS
    <3>2. i \in 1..Len(g)
      BY <1>3, <1>4, <1>5, <3>1
    <3>3. g[i] = CRLF[i]
      BY <1>5, <3>1, <3>2 DEF StreamByte
    <3> QED
      BY <3>1, <3>3, Lines DEF Space
  <2> QED
    BY <2>1
<1>10. 1..First(Heads(g)) - 1 = 1..q
  BY <1>6
<1>11. ~StartsWithWord(g)
  BY <1>9, <1>10 DEF StartsWithWord
<1>12. isPost <=> r.method = "POST"
  BY <1>9, <1>10
<1> HIDE DEF body, isPost
<1>13. Parse(grown) =
         IF \/ Heads(g) = {}
            \/ StartsWithWord(g)
            \/ isPost /\ r.framing = "none" /\ ~grown.isChunked
            \/ Len(body) > MaxBodySize
         THEN Refused
         ELSE [ok |-> TRUE, n |-> Number(g), body |-> body]
  BY <1>2, <1>6 DEF Parse, body, isPost
<1>14. Parse(grown) = IF Len(r.wire) > MaxBodySize THEN Refused
                      ELSE [ok |-> TRUE, n |-> n, body |-> r.wire]
  BY <1>3, <1>6, <1>8, <1>11, <1>12, <1>13
<1>15. Len(r.wire) > MaxBodySize <=> ~(Len(r.wire) <= MaxBodySize)
  BY <1>3, BoundsAssumption DEF length
<1>16. Exchange!Verdict(n) = IF Len(r.wire) <= MaxBodySize
                             THEN [ok |-> TRUE, n |-> n, body |-> r.wire] ELSE Refused
  <2>1. r.method = "POST" => r.framing # "none"
    BY <1>3
  <2> QED
    BY <1>3, <2>1 DEF Exchange!Verdict, Exchange!Acceptable, Exchange!Refused, Refused
<1> QED
  BY <1>14, <1>15, <1>16 DEF grown

(* Each read makes progress with the request it belongs to. *)
LEMMA UnchunkedLine ==
  ASSUME Measured, TypeOK, ~client.isChunked, NEW n \in 1..Len(asked), NEW q \in {0, 2},
         q = 2 => asked[n].lead,
         NEW s \in Seq(Arrived), NEW rest \in Seq(Arrived),
         Follows(client.request \o s, rest, n, asked[n], q)
  PROVE  Progress(ParseLine(client, s), [client EXCEPT !.request = client.request \o s], rest, n)
<1> DEFINE r == asked[n]
           g == client.request \o s
           grown == [client EXCEPT !.request = g]
           p == ParseLine(client, s)
<1>1. /\ asked \in Seq(Request) /\ client \in Buffer(Arrived) /\ r \in Request
      /\ client.request \in Seq(Arrived) /\ n \in Nat
  BY ElementOfSeq, LenProperties DEF TypeOK, Buffer
<1>2. /\ r.framing \in {"none", "length"} /\ r.method \in {"GET", "POST"}
      /\ r.wire \in Seq(Byte) /\ Len(r.wire) \in Nat /\ r.body = r.wire /\ r.len = Len(r.wire)
      /\ r.method = "GET" => r.wire = <<>>
      /\ r.lead => r.method = "GET"
  BY <1>1, MeasuredRequest
<1>3. g \in Seq(Arrived) /\ Len(g) \in Nat /\ Len(rest) \in Nat
  BY <1>1, ConcatProperties, LenProperties
<1>4. CASE client.request = <<>> /\ s = CRLF
  <2>1. p = Wait(client)
    BY <1>4 DEF ParseLine
  <2>2. g = CRLF
    BY <1>4, Lines
  <2>3. Follows(CRLF, rest, n, r, q)
    BY <2>2
  <2>4. Follows(<<>>, rest, n, r, 0)
    BY <1>1, <2>3, LeadDropped
  <2> QED
    BY <1>4, <2>1, <2>4 DEF Progress
<1>5. CASE ~(client.request = <<>> /\ s = CRLF)
  <2>1. grown.request = g /\ grown.isChunked = FALSE
    BY <1>1 DEF Buffer
  <2>2. p = IF HeaderEnds(g) = {} THEN Wait(grown) ELSE ParseHeader(grown)
    <3>1. [client EXCEPT !.request = @ \o s] = grown
      OBVIOUS
    <3> HIDE DEF grown
    <3> QED
      BY <1>5, <2>1, <3>1 DEF ParseLine
  <2>3. Follows(g, rest, n, r, q)
    OBVIOUS
  <2> SUFFICES Progress(p, grown, rest, n)
    OBVIOUS
  <2> HIDE DEF grown, p, g
  <2>4. CASE HeaderEnds(g) = {}
    BY <2>2, <2>4 DEF Progress
  <2>5. CASE HeaderEnds(g) # {}
    <3> DEFINE isPost == g[1].t = "head" /\ r.method = "POST"
               length == Len(r.wire)
    <3>1. ~(Len(g) < q + 2)
      BY ZenonT(60), <1>1, <1>3, <2>3, <2>5, FollowsHeader
    <3>2. Len(g) >= q + 2
      BY <1>3, <3>1
    <3>3. /\ Heads(g) # {} /\ Number(g) = n
          /\ Len(Body(g)) = Len(g) - (q + 2)
      BY <1>1, <1>3, <2>3, <3>2, FollowsHeader
    <3>4. r.method = "POST" => g[1].t = "head"
      <4> SUFFICES ASSUME r.method = "POST"
                   PROVE  g[1].t = "head"
        OBVIOUS
      <4>1. q = 0
        BY <1>2
      <4>2. 1 \in 1..Len(g) /\ ~(1 <= q) /\ 1 = q + 1
        BY <1>3, <3>2, <4>1
      <4>3. g[1] = StreamByte(n, r, q, 1)
        BY <2>3, <4>2 DEF Follows
      <4> QED
        BY <4>2, <4>3, Kinds DEF StreamByte
    <3>5. isPost <=> r.method = "POST"
      BY <3>4
    <3> HIDE DEF isPost
    <3>6. ParseHeader(grown) =
            IF isPost /\ r.framing = "none" THEN ParseNoLength(grown, r)
            ELSE IF isPost /\ Len(Body(g)) < length THEN Wait(grown)
            ELSE Finished(grown)
      BY <1>2, <2>1, <3>3 DEF ParseHeader, isPost
    <3> HIDE DEF length
    <3>7. length \in Nat /\ Len(g) + Len(rest) = q + 2 + length
      BY <1>2, <2>3 DEF Follows, length
    <3>8. CASE isPost /\ r.framing = "none"
      <4>1. ~Exchange!Acceptable(r)
        BY <3>5, <3>8 DEF Exchange!Acceptable
      <4>2. p = ParseNoLength(grown, r)
        BY <2>2, <2>5, <3>6, <3>8
      <4>3. p \in Refusals(grown) \cup {Thrown(grown), Wait(grown), Finished(grown)}
        BY <4>2 DEF ParseNoLength, Refusals
      <4>4. Parse(grown) = Refused
        <5>1. q = 0
          BY <1>2, <3>5, <3>8
        <5>2. First(Heads(g)) = 1
          <6>1. First(Heads(g)) = q + 1
            BY ZenonT(60), <1>1, <1>3, <2>3, <3>2, FollowsHeader
          <6> QED
            BY <5>1, <6>1
        <5>3. \A i \in 1..First(Heads(g)) - 1 : g[i].t \in Space
          BY <5>2
        <5> QED
          BY <2>1, <3>3, <3>5, <3>8, <5>3 DEF Parse
      <4>5. HeaderEnds(grown.request) # {}
        BY <2>1, <2>5
      <4> QED
        BY <4>1, <4>3, <4>4, <4>5 DEF Progress
    <3>9. CASE ~(isPost /\ r.framing = "none") /\ isPost /\ Len(Body(g)) < length
      <4>1. p = Wait(grown)
        BY <2>2, <2>5, <3>6, <3>9
      <4> QED
        BY <4>1 DEF Progress
    <3>10. CASE ~(isPost /\ r.framing = "none") /\ ~(isPost /\ Len(Body(g)) < length)
      <4>1. p = Finished(grown)
        BY <2>2, <2>5, <3>6, <3>10
      <4>2. Len(rest) = 0
        <5>1. CASE isPost
          <6>1. ~(Len(g) - (q + 2) < length)
            BY <3>3, <3>10, <5>1
          <6> QED
            BY <1>3, <3>7, <6>1
        <5>2. CASE ~isPost
          <6>1. length = 0
            BY <1>2, <3>5, <5>2 DEF length
          <6> QED
            BY <1>3, <3>2, <3>7, <6>1
        <5> QED
          BY <5>1, <5>2
      <4>3. r.framing = "none" => r.method = "GET"
        BY <1>2, <3>5, <3>10
      <4>4. Parse(grown) = Exchange!Verdict(n)
        BY <1>3, <2>3, <4>2, <4>3, WholeParsed DEF grown
      <4>5. HeaderEnds(grown.request) # {}
        BY <2>1, <2>5
      <4> QED
        BY <4>1, <4>2, <4>4, <4>5 DEF Progress
    <3> QED
      BY <3>8, <3>9, <3>10
  <2> QED
    BY <2>4, <2>5
<1> QED
  BY <1>4, <1>5

LEMMA VerdictIsNew ==
  ASSUME NEW n \in Nat \ {0}
  PROVE  /\ Exchange!Verdict(n) # Unfinished
         /\ ~Exchange!Acceptable(asked[n]) => Exchange!Verdict(n) = Refused
         /\ Refused # Unfinished /\ ~Refused.ok
BY DEF Exchange!Verdict, Exchange!Refused, Refused, Unfinished

(* A read waits for more of the request, or hands it on. *)
LEMMA ReadExchanges ==
  ASSUME Measured, IInv, ExchangeInv, ExecReadRequest
  PROVE  ExchangeInv' /\ (Exchange!Hand \/ UNCHANGED <<asked, handed>>)
<1> DEFINE n == Len(asked)
           r == asked[n]
<1>1. /\ TypeOK /\ asked \in Seq(Request) /\ unread \in Seq(Arrived) /\ client \in Buffer(Arrived)
      /\ phase = "READ_REQUEST" /\ unread # <<>> /\ asked' = asked /\ ~client.isChunked
      /\ handed \in Seq([ok : BOOLEAN, n : Nat, body : Seq(Byte)])
  BY DEF IInv, TypeOK, ExecReadRequest, ExchangeInv
<1>2. /\ ~Idle /\ Len(handed) + 1 = n /\ Len(handed) \in Nat
      /\ n \in 1..n /\ n \in Nat \ {0}
  <2>1. ~Idle /\ Len(handed) + 1 = n
    BY <1>1 DEF ExchangeInv
  <2>2. Len(handed) \in Nat /\ n \in Nat
    BY <1>1, LenProperties
  <2> HIDE DEF n
  <2> QED
    BY <2>1, <2>2
<1>3. PICK q \in {0, 2} :
        /\ q = 2 => r.lead
        /\ Follows(client.request, unread, n, r, q)
  BY <1>1, <1>2 DEF ExchangeInv
<1>4. PICK k \in ReadEnds(unread) :
        \E parsed \in {ParseLine(client, CString(SubSeq(unread, 1, k)))} :
        \E http \in {Http(parsed)} :
          /\ unread' = After(unread, k)
          /\ phase' = StateAfter(parsed, http)
          /\ client' = IF http = Unfinished THEN parsed.client
                       ELSE [parsed.client EXCEPT !.request = <<>>]
          /\ handed' = IF http = Unfinished THEN handed ELSE Append(handed, http)
  BY DEF ExecReadRequest
<1> DEFINE s == CString(SubSeq(unread, 1, k))
           rest == After(unread, k)
           g == client.request \o s
           grown == [client EXCEPT !.request = g]
           p == ParseLine(client, s)
           http == Http(p)
<1>5. k \in 1..Len(unread)
  BY <1>1, ReadEndsInRange
<1>6. r \in Request
  BY <1>1, <1>2, ElementOfSeq
<1>7. /\ s \in Seq(Arrived) /\ g \in Seq(Arrived)
      /\ Follows(g, rest, n, r, q)
  <2> HIDE DEF n, r
  <2> QED
    BY ZenonT(60), <1>1, <1>2, <1>3, <1>5, <1>6, FollowsRead
<1>8. rest \in Seq(Arrived)
  BY <1>1, <1>5, ReadPart
<1>9. /\ unread' = rest /\ phase' = StateAfter(p, http)
      /\ client' = (IF http = Unfinished THEN p.client ELSE [p.client EXCEPT !.request = <<>>])
      /\ handed' = IF http = Unfinished THEN handed ELSE Append(handed, http)
  BY <1>4
<1>10. Progress(p, grown, rest, n)
  <2> HIDE DEF rest, s
  <2>1. Follows(client.request \o s, rest, n, asked[n], q)
    BY <1>7
  <2>2. n \in 1..Len(asked) /\ (q = 2 => asked[n].lead)
    BY <1>2, <1>3
  <2> HIDE DEF n
  <2> QED
    BY <1>1, <1>7, <1>8, <2>1, <2>2, UnchunkedLine
<1>11. /\ grown.request = g /\ ~grown.isChunked
  BY <1>1 DEF Buffer
<1>12. [grown EXCEPT !.request = <<>>].request = <<>> /\ ~[grown EXCEPT !.request = <<>>].isChunked
  BY <1>1 DEF Buffer
<1> HIDE DEF s, rest, g, grown, p, http
<1>13. CASE p = Wait(client) /\ Follows(client.request, rest, n, r, 0)
  <2>1. /\ p.client = client /\ ~p.finished /\ p.status = 200 /\ ~Dies(p)
    BY <1>13 DEF Wait, Result, Dies
  <2>2. http = Unfinished
    BY <2>1 DEF Http, http
  <2>3. phase' = phase /\ client' = client /\ handed' = handed
    BY <1>9, <2>1, <2>2 DEF StateAfter
  <2>4. Follows(client'.request, unread', n, r, 0)
    BY <1>9, <1>13, <2>3
  <2> QED
    BY <1>1, <1>2, <2>3, <2>4 DEF ExchangeInv, Idle, Answering
<1>14. CASE p = Wait(grown)
  <2>1. /\ p.client = grown /\ ~p.finished /\ p.status = 200 /\ ~Dies(p)
    BY <1>14 DEF Wait, Result, Dies
  <2>2. http = Unfinished
    BY <2>1 DEF Http, http
  <2>3. phase' = phase /\ client' = grown /\ handed' = handed
    BY <1>9, <2>1, <2>2 DEF StateAfter
  <2>4. Follows(client'.request, unread', n, r, q)
    BY <1>7, <1>9, <1>11, <2>3
  <2> QED
    BY <1>1, <1>2, <1>3, <1>11, <2>3, <2>4 DEF ExchangeInv, Idle, Answering
<1>15. CASE /\ ~Exchange!Acceptable(r)
            /\ \/ p \in Refusals(grown)
               \/ p = Finished(grown) /\ HeaderEnds(grown.request) # {} /\ Parse(grown) = Refused
  <2>1. p.client = grown /\ ~Dies(p)
    BY <1>15 DEF Refusals, Fail, Finished, Result, Dies, Throws
  <2>2. http = Refused
    <3>1. CASE p \in Refusals(grown)
      <4>1. p.status # 200
        BY <3>1 DEF Refusals, Fail, Result
      <4> QED
        BY <2>1, <4>1 DEF Http, http
    <3>2. CASE p = Finished(grown) /\ Parse(grown) = Refused
      <4>1. p.status = 200 /\ p.finished
        BY <3>2 DEF Finished, Result
      <4> QED
        BY <2>1, <3>2, <4>1 DEF Http, http
    <3> QED
      BY <1>15, <3>1, <3>2
  <2>3. phase' = "WRITE_REQUEST_ERROR"
    BY <1>2, <1>9, <2>1, <2>2, VerdictIsNew DEF StateAfter
  <2>4. handed' = Append(handed, Exchange!Verdict(n)) /\ ~client'.isChunked
    BY <1>2, <1>9, <1>12, <1>15, <2>1, <2>2, VerdictIsNew
  <2>5. Exchange!Hand
    BY <1>1, <1>2, <2>4 DEF Exchange!Hand
  <2> QED
    BY <2>3, <2>4, <2>5 DEF ExchangeInv, Answering
<1>16. CASE /\ p = Finished(grown) /\ Len(rest) = 0 /\ HeaderEnds(grown.request) # {}
            /\ Parse(grown) = Exchange!Verdict(n)
  <2>1. /\ p.client = grown /\ p.finished /\ p.status = 200
    BY <1>16 DEF Finished, Result
  <2>2. ~Dies(p)
    BY <1>16, <2>1 DEF Dies, Throws
  <2>3. http = Exchange!Verdict(n) /\ http # Unfinished
    <3>1. http = Parse(grown)
      BY <2>1, <2>2 DEF Http, http
    <3> QED
      BY <1>2, <1>16, <3>1, VerdictIsNew
  <2>4. phase' \in {"WRITE_REQUEST_ERROR", "EXEC_CORE_HANDLER", "EXEC_CGI"}
    BY <1>9, <2>2, <2>3 DEF StateAfter
  <2>5. /\ client'.request = <<>> /\ ~client'.isChunked
        /\ handed' = Append(handed, Exchange!Verdict(n))
    BY <1>9, <1>12, <2>1, <2>3
  <2>6. unread' = <<>>
    BY <1>8, <1>9, <1>16, EmptySeq
  <2>7. Len(handed') = n
    <3>1. Len(Append(handed, Exchange!Verdict(n))) = Len(handed) + 1
      <4> DEFINE v == Exchange!Verdict(n)
                 S == [ok : BOOLEAN, n : Nat, body : Seq(Byte)] \cup {v}
      <4>1. handed \in Seq(S) /\ v \in S
        <5> HIDE DEF v
        <5> QED
          BY <1>1, SeqMonotonic
      <4> HIDE DEF v, S
      <4>2. Len(Append(handed, v)) = Len(handed) + 1
        BY <4>1, AppendProperties
      <4> QED
        BY <4>2 DEF v
    <3> QED
      BY <1>2, <2>5, <3>1
  <2>8. Exchange!Hand
    BY <1>1, <1>2, <2>5 DEF Exchange!Hand
  <2> QED
    BY <1>1, <2>4, <2>5, <2>6, <2>7, <2>8 DEF ExchangeInv, Answering, Idle
<1>17. CASE p = Thrown(grown)
  <2>1. p.client = grown /\ Dies(p)
    BY <1>17 DEF Thrown, Result, Dies
  <2>2. http = Unfinished /\ phase' = "terminated"
    BY <1>9, <2>1 DEF Http, StateAfter, http
  <2>3. handed' = handed /\ client' = grown
    BY <1>9, <2>1, <2>2
  <2> QED
    BY <1>1, <1>11, <2>2, <2>3 DEF ExchangeInv, Answering
<1> QED
  BY <1>10, <1>13, <1>14, <1>15, <1>16, <1>17 DEF Progress

(* A request that nothing was read of. *)
LEMMA StreamFollows ==
  ASSUME Measured, NEW r \in Request, NEW n \in Nat, NEW q \in {0, 2}, q = 2 <=> r.lead
  PROVE  Follows(<<>>, <<>> \o Stream(n, r), n, r, q)
<1> DEFINE lead == IF r.lead THEN CRLF ELSE <<>>
           header == <<B("head", n), End>>
           w == r.wire
           u == <<>> \o ((lead \o header) \o w)
           length == Len(w)
<1>1. w \in Seq(Byte) /\ length \in Nat
  BY MeasuredRequest
<1>2. header \in Seq(Byte) /\ Len(header) = 2 /\ header[1] = B("head", n) /\ header[2] = End
  BY DEF B, End, Byte, Kind
<1>3. lead \in Seq(Byte) /\ Len(lead) = q /\ \A i \in 1..q : lead[i] = CRLF[i]
  <2>1. CASE r.lead
    BY <2>1, Lines
  <2>2. CASE ~r.lead
    <3>1. q = 0 /\ lead = <<>>
      BY <2>2
    <3>2. <<>> \in Seq(Byte) /\ Len(<<>>) = 0 /\ 1..0 = {}
      BY EmptySeq
    <3> QED
      BY <3>1, <3>2
  <2> QED
    BY <2>1, <2>2
<1>4. <<>> \o Stream(n, r) = u
  BY DEF Stream
<1> HIDE DEF lead, header, w
<1>5. Joined(u, <<>>, lead, header, w)
  <2>1. <<>> \in Seq(Byte)
    BY EmptySeq
  <2> QED
    BY <1>1, <1>2, <1>3, <2>1, Joining
<1> HIDE DEF u
<1>6. /\ Len(u) = (0 + q) + 2 + length
      /\ \A i \in 1..q : u[0 + i] = lead[i]
      /\ \A i \in 1..2 : u[(0 + q) + i] = header[i]
      /\ \A i \in 1..length : u[(0 + q) + 2 + i] = w[i]
  <2>1. Len(<<>>) = 0
    OBVIOUS
  <2>2. /\ Len(u) = (Len(<<>>) + Len(lead)) + Len(header) + length
        /\ \A i \in 1..Len(lead) : u[Len(<<>>) + i] = lead[i]
        /\ \A i \in 1..Len(header) : u[(Len(<<>>) + Len(lead)) + i] = header[i]
        /\ \A i \in 1..length : u[(Len(<<>>) + Len(lead)) + Len(header) + i] = w[i]
    BY <1>5, Zenon DEF Joined
  <2> HIDE DEF length
  <2> QED
    BY <1>2, <1>3, <2>1, <2>2
<1> HIDE DEF length
<1>7. ASSUME NEW i \in 1..Len(u)
      PROVE  u[i] = StreamByte(n, r, q, 0 + i)
  <2>1. i \in Nat /\ 1 <= i /\ i <= q + 2 + length /\ q \in Nat /\ 0 + i = i
    BY <1>1, <1>6
  <2>2. CASE i <= q
    <3>1. i \in 1..q
      BY <2>1, <2>2
    <3>2. u[i] = CRLF[i]
      BY <1>3, <1>6, <2>1, <3>1
    <3> QED
      BY <2>1, <2>2, <3>2 DEF StreamByte
  <2>3. CASE i = q + 1
    <3>1. 1 \in 1..2 /\ (0 + q) + 1 = i /\ ~(i <= q)
      BY <2>1, <2>3
    <3>2. u[i] = B("head", n)
      BY <1>2, <1>6, <3>1
    <3> QED
      BY <2>1, <2>3, <3>1, <3>2 DEF StreamByte
  <2>4. CASE i = q + 2
    <3>1. 2 \in 1..2 /\ (0 + q) + 2 = i /\ ~(i <= q) /\ i # q + 1
      BY <2>1, <2>4
    <3>2. u[i] = End
      BY <1>2, <1>6, <3>1
    <3> QED
      BY <2>1, <2>4, <3>1, <3>2 DEF StreamByte
  <2>5. CASE i > q + 2
    <3> DEFINE m == i - (q + 2)
    <3>1. m \in 1..length /\ (0 + q) + 2 + m = i /\ ~(i <= q) /\ i # q + 1 /\ i # q + 2
      BY <1>1, <2>1, <2>5
    <3>2. StreamByte(n, r, q, i) = w[m]
      BY <3>1 DEF StreamByte, w
    <3> HIDE DEF m
    <3>3. u[i] = w[m]
      BY <1>6, <3>1
    <3> QED
      BY <2>1, <3>2, <3>3
  <2> QED
    BY <2>1, <2>2, <2>3, <2>4, <2>5
<1>8. 0 + Len(u) = q + 2 + length /\ Len(<<>>) = 0 /\ 1..0 = {}
  BY <1>1, <1>6
<1>9. Follows(<<>>, u, n, r, q)
  BY <1>7, <1>8 DEF Follows, length, w
<1> QED
  BY <1>4, <1>9

LEMMA AskExchanges ==
  ASSUME Measured, TypeOK, ExchangeInv, NEW r \in Request, Ask(r)
  PROVE  ExchangeInv' /\ Exchange!Ask(r)
<1>1. /\ asked \in Seq(Request) /\ phase = "READ_REQUEST" /\ Idle
      /\ asked' = Append(asked, r) /\ unread' = unread \o Stream(Len(asked) + 1, r)
      /\ phase' = phase /\ client' = client /\ handed' = handed
      /\ unread = <<>> /\ client.request = <<>> /\ ~client.isChunked
  BY DEF TypeOK, Ask, Idle, ExchangeInv
<1>2. Exchange!Ask(r)
  BY DEF Ask, Exchange!Ask
<1>3. /\ Len(asked) \in Nat /\ Len(asked') = Len(asked) + 1 /\ asked'[Len(asked')] = r
  <2>1. Len(asked) \in Nat /\ Len(asked') = Len(asked) + 1
    BY <1>1, LenProperties, AppendProperties
  <2>2. asked'[Len(asked) + 1] = r
    BY <1>1, AppendProperties
  <2> QED
    BY <2>1, <2>2
<1>4. ~Idle' /\ Len(handed') + 1 = Len(asked')
  BY <1>1, <1>3 DEF Idle
<1> DEFINE n == Len(asked) + 1
           q == IF r.lead THEN 2 ELSE 0
<1>5. q \in {0, 2} /\ (q = 2 <=> r.lead) /\ n \in Nat
  <2>1. r.lead \in BOOLEAN
    BY RequestAssumption
  <2> QED
    BY <1>3, <2>1
<1> HIDE DEF n, q
<1>6. Follows(<<>>, <<>> \o Stream(n, r), n, r, q)
  BY <1>5, StreamFollows
<1>7. Follows(client'.request, unread', Len(asked'), asked'[Len(asked')], q)
  BY <1>1, <1>3, <1>6 DEF n
<1> QED
  BY <1>1, <1>2, <1>3, <1>4, <1>5, <1>7 DEF ExchangeInv, Answering

LEMMA AnswerExchanges ==
  ASSUME TypeOK, ExchangeInv, ExecWriteResponse \/ ExecWriteCgi \/ ParseCgiRedirect
  PROVE  ExchangeInv' /\ UNCHANGED <<asked, handed>>
<1>1. /\ client \in Buffer(Arrived) /\ Answering
      /\ asked' = asked /\ unread' = unread /\ handed' = handed
  BY DEF TypeOK, ExecWriteResponse, ExecWriteCgi, ParseCgiRedirect, Answering
<1>2. Idle /\ unread = <<>> /\ ~client.isChunked
  BY <1>1 DEF ExchangeInv
<1>3. client'.request = <<>> /\ ~client'.isChunked
  BY <1>1, <1>2 DEF ExecWriteResponse, ExecWriteCgi, ParseCgiRedirect, NewBuffer, Buffer
<1> QED
  BY <1>1, <1>2, <1>3 DEF ExchangeInv, Idle

(* Unchunked requests are exchanged as RequestExchange says, wherever the
   reads end and whatever the connection carried before: none gets two
   verdicts or another's, they come in order, and each is the one its own
   bytes deserve; a POST without length may get none, but never one that
   accepts it (SocketInterface.cpp:209-309). *)
THEOREM UnchunkedExchanged ==
  ASSUME Measured
  PROVE  Spec => Exchange!Init /\ [][Exchange!Next]_(Exchange!vars)
<1>1. Init => Exchange!Init /\ ExchangeInv
  BY DEF Init, NewBuffer, Exchange!Init, ExchangeInv, Answering, Idle
<1>2. IInv /\ ExchangeInv /\ [Next]_vars => ExchangeInv' /\ [Exchange!Next]_(Exchange!vars)
  <2> SUFFICES ASSUME IInv, ExchangeInv, [Next]_vars
               PROVE  ExchangeInv' /\ [Exchange!Next]_(Exchange!vars)
    OBVIOUS
  <2>1. TypeOK
    BY DEF IInv
  <2>2. CASE \E r \in Request : Ask(r)
    BY <2>1, <2>2, AskExchanges DEF Exchange!Next
  <2>3. CASE ExecReadRequest
    BY <2>3, ReadExchanges DEF Exchange!Next, Exchange!vars
  <2>4. CASE ExecWriteResponse \/ ExecWriteCgi \/ ParseCgiRedirect
    BY <2>1, <2>4, AnswerExchanges DEF Exchange!vars
  <2>5. CASE UNCHANGED vars
    BY SMTT(30), <2>5 DEF vars, Exchange!vars, ExchangeInv, Answering, Idle, Follows
  <2> QED
    BY <2>2, <2>3, <2>4, <2>5 DEF Next, Server
<1> QED
  BY <1>1, <1>2, Invariance, PTL DEF Spec
=============================================================================

----------------------------- MODULE SiteProofs -----------------------------
(***************************************************************************)
(* Proofs about Site: for all files, directories, requests, scripts and    *)
(* bounds.                                                                 *)
(***************************************************************************)
EXTENDS SiteProperties, TLAPS, SequenceTheorems, FiniteSetTheorems, WellFoundedInduction

(* The least of some natural numbers is one of them. *)
LEMMA MinIsMember ==
  ASSUME NEW S \in SUBSET Nat, S # {}
  PROVE  Min(S) \in S /\ \A y \in S : Min(S) <= y
<1> DEFINE R == OpToRel(<, Nat)
<1>1. IsWellFoundedOn(R, Nat)
  BY NatLessThanWellFounded, Zenon
<1>2. R = {ss \in Nat \X Nat : ss[1] < ss[2]}
  BY Zenon DEF OpToRel
<1> HIDE DEF R
<1>3. PICK x \in S : \A y \in S : ~ (<<y, x>> \in R)
  BY <1>1, WFMin
<1>4. \A y \in S : y < x => <<y, x>> \in R
  BY <1>2
<1>5. \A y \in S : ~ (y < x)
  BY <1>3, <1>4, Zenon
<1>6. \A y \in S : x <= y
  <2> TAKE y \in S
  <2>1. x \in Nat /\ y \in Nat /\ ~ (y < x)
    BY <1>5
  <2> QED BY <2>1
<1> QED BY <1>6 DEF Min

-----------------------------------------------------------------------------
(* Sequences, and the lookups in one server *)

IsSequence(s) == s \in Seq(Range(s))

(* A sequence over any set is one over its own elements. *)
LEMMA SequenceFacts ==
  ASSUME NEW S, NEW s \in Seq(S)
  PROVE  IsSequence(s) /\ Len(s) \in Nat /\ DOMAIN s = 1..Len(s)
<1>1. Len(s) \in Nat /\ DOMAIN s = 1..Len(s) /\ s \in [1..Len(s) -> S]
  BY LenProperties
<1>2. s \in [1..Len(s) -> Range(s)]
  BY <1>1 DEF Range
<1>3. s \in Seq(Range(s))
  BY <1>1, <1>2, SeqDef
<1> QED BY <1>1, <1>3 DEF IsSequence

(* Appending an element keeps a sequence, and the elements before it. *)
LEMMA AppendFacts ==
  ASSUME NEW s, IsSequence(s), NEW e
  PROVE  /\ IsSequence(Append(s, e))
         /\ DOMAIN Append(s, e) = 1..Len(s) + 1
         /\ \A i \in DOMAIN s : Append(s, e)[i] = s[i]
         /\ Append(s, e)[Len(s) + 1] = e
<1> DEFINE S == Range(s) \cup {e}
<1>1. s \in Seq(Range(s)) /\ Len(s) \in Nat /\ DOMAIN s = 1..Len(s)
  BY SequenceFacts DEF IsSequence
<1>2. s \in [1..Len(s) -> S]
  BY <1>1 DEF Range
<1>3. s \in Seq(S)
  BY <1>1, <1>2, SeqDef
<1> HIDE DEF S
<1>4. e \in S
  BY DEF S
<1>5. /\ Append(s, e) \in Seq(S)
      /\ Len(Append(s, e)) = Len(s) + 1
      /\ \A i \in 1..Len(s) : Append(s, e)[i] = s[i]
      /\ Append(s, e)[Len(s) + 1] = e
  BY <1>3, <1>4, AppendProperties
<1>6. IsSequence(Append(s, e)) /\ DOMAIN Append(s, e) = 1..Len(Append(s, e))
  BY <1>5, SequenceFacts
<1> QED BY <1>1, <1>5, <1>6

(* The last element of a sequence is the one that was appended. *)
LEMMA LastAppended ==
  ASSUME NEW s, IsSequence(s), NEW e
  PROVE  Last(Append(s, e)) = e
<1>1. /\ IsSequence(Append(s, e)) /\ DOMAIN Append(s, e) = 1..Len(s) + 1
      /\ Append(s, e)[Len(s) + 1] = e
  BY AppendFacts
<1>2. Len(Append(s, e)) \in Nat /\ DOMAIN Append(s, e) = 1..Len(Append(s, e)) /\ Len(s) \in Nat
  BY <1>1, LenProperties DEF IsSequence
<1>3. Len(Append(s, e)) = Len(s) + 1
  BY <1>1, <1>2
<1> QED BY <1>1, <1>3 DEF Last

(* What the parser leaves of a server block. *)
IsPath(path) == IsSequence(path.segs) /\ "" \notin Range(path.segs)

IsLocation(location) == IsCompleteLocation(location) /\ IsPath(location.directives["path"])

IsServer(server) ==
  /\ DOMAIN server = DOMAIN NewServerContext
  /\ server.listen \in Nat
  /\ server.serverNames \in Seq(Nat)
  /\ IsSequence(server.locations)
  /\ \A i \in DOMAIN server.locations : IsLocation(server.locations[i])

(* The first of some locations of a server is one of them. *)
LEMMA FirstIsMember ==
  ASSUME NEW server, IsServer(server),
         NEW indices \in SUBSET DOMAIN server.locations, indices # {}
  PROVE  /\ Min(indices) \in indices
         /\ \A j \in indices : Min(indices) <= j
         /\ First(server, indices) = server.locations[Min(indices)]
<1>1. DOMAIN server.locations \subseteq Nat
  BY SequenceFacts DEF IsServer, IsSequence
<1> QED BY <1>1, MinIsMember DEF First

(* What IsServer says of one location. *)
LEMMA LocationOfServer ==
  ASSUME NEW server, IsServer(server), NEW i \in DOMAIN server.locations
  PROVE  IsLocation(server.locations[i])
BY DEF IsServer

(* getLocationContext returns a location of the server with the path asked for. *)
LEMMA LocationFound ==
  ASSUME NEW server, IsServer(server), NEW path, HasLocation(server, path)
  PROVE  \E i \in DOMAIN server.locations :
           /\ GetLocationContext(server, path) = server.locations[i]
           /\ server.locations[i].directives["path"] = path
<1>1. Min(WithPath(server, path)) \in WithPath(server, path)
  BY FirstIsMember DEF HasLocation, WithPath
<1> QED BY <1>1 DEF GetLocationContext, First, WithPath

(* _serverPathMap knows the alias of the location a request was looked up in. *)
LEMMA ServerPathIsAlias ==
  ASSUME NEW server, IsServer(server), NEW path, HasLocation(server, path),
         HasDirective(GetLocationContext(server, path), "alias")
  PROVE  GetServerPath(server, path) = Alias(GetLocationContext(server, path))
<1> DEFINE P == WithPath(server, path)
           A == WithPath(server, path) \cap WithAlias(server)
<1>1. P \in SUBSET DOMAIN server.locations /\ P # {}
  BY DEF HasLocation, WithPath
<1>2. Min(P) \in P /\ (\A j \in P : Min(P) <= j) /\ First(server, P) = server.locations[Min(P)]
  BY <1>1, FirstIsMember
<1>3. Min(P) \in A
  BY <1>2 DEF GetLocationContext, WithAlias, WithPath
<1>4. Min(A) \in A /\ (\A j \in A : Min(A) <= j) /\ First(server, A) = server.locations[Min(A)]
  BY <1>1, <1>3, FirstIsMember
<1>5. DOMAIN server.locations \subseteq Nat
  BY SequenceFacts DEF IsServer, IsSequence
<1> HIDE DEF P, A
<1>6. Min(A) \in P /\ Min(A) \in Nat /\ Min(P) \in Nat
  BY <1>1, <1>2, <1>4, <1>5 DEF P, A
<1>7. Min(A) = Min(P)
  BY <1>2, <1>3, <1>4, <1>6
<1> QED BY <1>2, <1>4, <1>7 DEF GetServerPath, GetLocationContext, P, A

-----------------------------------------------------------------------------
(* CoreHandler *)

(* A url that is found lies in a location, and its directory is the alias. *)
LEMMA FoundInLocation ==
  ASSUME NEW server, IsServer(server), NEW url, ParseUrl(server, url).status = 200
  PROVE  LET result == ParseUrl(server, url)
             location == GetLocationContext(server, result.directory)
         IN /\ HasLocation(server, result.directory)
            /\ HasDirective(location, "alias")
            /\ result.dir = Alias(location)
<1> USE DEF Found, Failed, Throws
<1>0. url.query # "empty"
  BY DEF ParseUrl
<1>1. CASE url.segs = <<>>
  BY <1>0, <1>1 DEF ParseUrl, ParseHomeDirectory
<1>2. CASE url.segs # <<>> /\ url.segs[1] \in Dotted
  <2>1. ParseUrl(server, url) = ParseFileOfHome(server, url.segs)
    BY <1>0, <1>2 DEF ParseUrl
  <2> QED BY <2>1 DEF ParseFileOfHome
<1>3. CASE url.segs # <<>> /\ url.segs[1] \notin Dotted
  <2> DEFINE directory == Directory(url.segs)
             location == GetLocationContext(server, directory)
  <2>1. /\ HasLocation(server, directory)
        /\ ~HasDirective(location, "return")
        /\ ParseUrl(server, url) = GetFile(location, url.segs)
    BY <1>0, <1>3 DEF ParseUrl
  <2>2. PICK i \in DOMAIN server.locations :
          location = server.locations[i] /\ location.directives["path"] = directory
    BY <2>1, LocationFound
  <2> HIDE DEF location, directory
  <2>3. IsCompleteLocation(location)
    <3>1. IsLocation(server.locations[i])
      BY LocationOfServer
    <3> QED BY <2>2, <3>1, Zenon DEF IsLocation
  <2>4. HasDirective(location, "alias")
    BY <2>1, <2>3 DEF IsCompleteLocation
  <2>5. GetFile(location, url.segs).status = 200 =>
          /\ GetFile(location, url.segs).directory = location.directives["path"]
          /\ GetFile(location, url.segs).dir = Alias(location)
    BY DEF GetFile
  <2>6. ParseUrl(server, url).directory = directory /\ ParseUrl(server, url).dir = Alias(location)
    BY <2>1, <2>2, <2>5
  <2> QED BY <2>1, <2>4, <2>6 DEF location
<1> QED BY <1>1, <1>2, <1>3

(* What a request does to the files it does in a location that allows it. *)
LEMMA RequestChangesAsAllowed ==
  ASSUME NEW server, IsServer(server), NEW method, NEW url, NEW body,
         NEW dir \in DOMAIN disk,
         LET done == ProcessRequest(server, method, url, body)
         IN dir \notin DOMAIN done.disk \/ done.disk[dir] # disk[dir]
  PROVE  \E i \in DOMAIN server.locations :
           /\ HasDirective(server.locations[i], "alias")
           /\ Alias(server.locations[i]) = dir
           /\ IsAllowedMethod(server.locations[i], method)
<1> DEFINE result == ParseUrl(server, url)
           location == GetLocationContext(server, result.directory)
           done == ProcessRequest(server, method, url, body)
<1>1. done.disk # disk
  OBVIOUS
<1>2. /\ result.status = 200
      /\ IsAllowedMethod(location, method)
      /\ \/ method = "POST" /\ done = PostMethod(server, result.directory, body)
         \/ method = "DELETE" /\ done = DeleteMethod(result)
  BY <1>1 DEF ProcessRequest, Unchanged
<1>3. /\ HasLocation(server, result.directory)
      /\ HasDirective(location, "alias")
      /\ result.dir = Alias(location)
  BY <1>2, FoundInLocation
<1>4. PICK i \in DOMAIN server.locations : location = server.locations[i]
  BY <1>3, LocationFound
<1>5. GetServerPath(server, result.directory) = result.dir
  BY <1>3, ServerPathIsAlias
<1>6. dir = result.dir
  <2> HIDE DEF result, location
  <2>1. ASSUME dir # result.dir PROVE dir \in DOMAIN done.disk /\ done.disk[dir] = disk[dir]
    <3>1. CASE done = PostMethod(server, result.directory, body)
      <4> DEFINE name == Uploaded[Min(FreeUploads(result.dir))]
                 file1 == Stored(disk[result.dir], name, FileData(body))
                 posted == [disk EXCEPT ![result.dir] = file1]
      <4>1. done.disk = disk \/ done.disk = posted
        BY <3>1, <1>5 DEF PostMethod, Unchanged
      <4> HIDE DEF file1
      <4> QED BY <4>1, <2>1
    <3>2. CASE done = DeleteMethod(result)
      <4> DEFINE files == Restrict(disk[result.dir], DOMAIN disk[result.dir] \ {result.name})
                 removed == [disk EXCEPT ![result.dir] = files]
                 fewer == Restrict(disk, DOMAIN disk \ {result.dir})
      <4>1. DeleteMethod(result).disk \in {disk, removed, fewer}
        BY DEF DeleteMethod, Unchanged
      <4>2. dir \in DOMAIN removed /\ removed[dir] = disk[dir]
        <5> HIDE DEF files
        <5> QED BY <2>1
      <4>3. dir \in DOMAIN fewer /\ fewer[dir] = disk[dir]
        BY <2>1 DEF Restrict
      <4> HIDE DEF files, removed, fewer, done
      <4> QED BY <3>2, <4>1, <4>2, <4>3
    <3> QED BY <1>2, <3>1, <3>2
  <2> QED BY <2>1
<1> QED BY <1>2, <1>3, <1>4, <1>6

(* No request makes a directory. *)
LEMMA RequestKeepsDirectories ==
  ASSUME NEW server, NEW method, NEW url, NEW body
  PROVE  DOMAIN ProcessRequest(server, method, url, body).disk \subseteq DOMAIN disk
<1> DEFINE result == ParseUrl(server, url)
<1>1. DOMAIN PostMethod(server, result.directory, body).disk \subseteq DOMAIN disk
  BY DEF PostMethod, Unchanged
<1>2. DOMAIN DeleteMethod(result).disk \subseteq DOMAIN disk
  BY DEF DeleteMethod, Unchanged, Restrict
<1> HIDE DEF result
<1> QED BY <1>1, <1>2 DEF ProcessRequest, Unchanged, result

(* In a complete configuration every request gets an answer, unless its query is
   empty. *)
LEMMA CompleteAnswers ==
  ASSUME NEW server, IsServer(server), IsComplete(server),
         NEW method, NEW url, url.query # "empty", NEW body
  PROVE  ProcessRequest(server, method, url, body).answer.status # 0
<1> DEFINE result == ParseUrl(server, url)
           location == GetLocationContext(server, result.directory)
<1>1. result.status # 0
  <2> USE DEF Found, Failed, Throws
  <2>1. HasLocation(server, Home) =>
          LET home == GetLocationContext(server, Home)
          IN /\ HasDirective(home, "alias")
             /\ HasDirective(home, "index") \/ HasDirective(home, "autoindex")
    BY LocationFound DEF IsComplete
  <2>2. CASE url.segs = <<>>
    BY <2>1, <2>2 DEF ParseUrl, ParseHomeDirectory
  <2>3. CASE url.segs # <<>> /\ url.segs[1] \in Dotted
    <3>1. result = ParseFileOfHome(server, url.segs)
      BY <2>3 DEF ParseUrl
    <3> QED BY <3>1, <2>1 DEF ParseFileOfHome
  <2>4. CASE url.segs # <<>> /\ url.segs[1] \notin Dotted
    BY <2>4 DEF ParseUrl, GetFile
  <2> QED BY <2>2, <2>3, <2>4
<1> HIDE DEF result, location
<1>2. GetMethod(server, location, result).status # 0
  BY DEF GetMethod, Error
<1>3. PostMethod(server, result.directory, body).answer.status # 0
  BY DEF PostMethod, Unchanged, Error
<1>4. DeleteMethod(result).answer.status # 0
  BY DEF DeleteMethod, Unchanged, Error
<1> QED BY <1>1, <1>2, <1>3, <1>4 DEF ProcessRequest, Unchanged, Error, result, location

-----------------------------------------------------------------------------
(* ConfigFile: what holds between two lines *)

(* Where the parser is.  The end of the file ends the blocks that are open, one
   line after the other. *)
PlaceInv ==
  /\ file \in File
  /\ lineNumber \in Nat \ {0}
  /\ contextType \in {"http", "server", "location", "cgi"}
  /\ outcome \in {"loading", "refused", "up", "down"}
  /\ IsReached => contextType = "http"
  /\ lineNumber <= Len(file) + 3
  /\ contextType # "http" => lineNumber <= Len(file) + 2
  /\ contextType \in {"location", "cgi"} => lineNumber <= Len(file) + 1

LocationInv ==
  /\ DOMAIN locationContext = {"directives", "allowedMethods"}
  /\ "path" \in DOMAIN locationContext.directives
  /\ IsPath(locationContext.directives["path"])

ServedInv ==
  /\ portAndHostVecAll \in Seq(Nat \X Nat)
  /\ DOMAIN servers = Range(portAndHostVecAll)
  /\ \A pair \in DOMAIN servers :
       IsServer(servers[pair]) /\ servers[pair].listen = pair[1]

ParserInv == PlaceInv /\ IsServer(serverContext) /\ LocationInv /\ ServedInv

(* A server block starts as a server without locations. *)
LEMMA NewServerIsServer == IsServer(NewServerContext)
<1>1. <<>> \in Seq(Nat) /\ IsSequence(<<>>)
  BY EmptySeq DEF IsSequence
<1> QED BY <1>1 DEF IsServer, NewServerContext, DEFAULT_LISTEN

(* The parser starts in a state its invariant allows. *)
LEMMA InitParserInv == ParserInit => ParserInv
<1> SUFFICES ASSUME ParserInit PROVE ParserInv
  OBVIOUS
<1> USE DEF ParserInit
<1>1. PlaceInv
  <2>1. file \in File /\ Len(file) \in Nat
    BY FileAssumption
  <2> QED BY <2>1 DEF PlaceInv, IsReached
<1>2. LocationInv
  <2>1. locationContext = [directives |-> [path |-> Home], allowedMethods |-> {}]
    BY DEF NewLocationContext
  <2>2. locationContext.directives["path"] = Home
    BY <2>1
  <2>3. IsPath(Home)
    <3>1. Home.segs = <<>> /\ Range(<<>>) = {} /\ IsSequence(<<>>)
      BY EmptySeq DEF Range, Home, Dir, IsSequence
    <3> QED BY <3>1 DEF IsPath
  <2>4. DOMAIN locationContext = {"directives", "allowedMethods"}
    BY <2>1
  <2>5. "path" \in DOMAIN locationContext.directives
    BY <2>1
  <2> QED BY <2>2, <2>3, <2>4, <2>5 DEF LocationInv
<1>3. ServedInv
  BY EmptySeq DEF ServedInv, Range
<1> QED BY <1>1, <1>2, <1>3, NewServerIsServer DEF ParserInv

(* A line of the file while there is one. *)
LEMMA LineFacts ==
  ASSUME PlaceInv, ~AtEnd
  PROVE  /\ lineNumber \in DOMAIN file /\ lineNumber <= Len(file) /\ Len(file) \in Nat
         /\ Word = "listen" => Arg \in Int
         /\ Word = "server_names" => Line.args \in Seq(Nat)
         /\ Word \in {"location", "return"} => Arg \in Path
         /\ Word = "location" => IsPath(Arg)
<1>1. Len(file) \in Nat /\ DOMAIN file = 1..Len(file)
  BY FileAssumption DEF PlaceInv
<1>2. lineNumber <= Len(file) /\ Word = file[lineNumber].word
  <2>1. lineNumber \in Nat
    BY DEF PlaceInv
  <2>2. ~ (lineNumber > Len(file))
    BY DEF AtEnd, Word
  <2> QED BY <1>1, <2>1, <2>2 DEF Word, Line
<1>3. lineNumber \in DOMAIN file
  BY <1>1, <1>2 DEF PlaceInv
<1>4. Word = "location" => IsPath(Arg)
  <2> SUFFICES ASSUME Word = "location" PROVE IsPath(Arg)
    OBVIOUS
  <2>1. Arg \in Path /\ "" \notin Range(Arg.segs)
    BY <1>2, <1>3, FileAssumption DEF Line, Arg, PlaceInv
  <2>2. Arg.segs \in Seq(STRING)
    BY <2>1 DEF Path
  <2>3. IsSequence(Arg.segs)
    BY <2>2, SequenceFacts
  <2> QED BY <2>1, <2>3 DEF IsPath
<1> QED BY <1>1, <1>2, <1>3, <1>4, FileAssumption DEF Line, Arg, PlaceInv

(* The line counter and the open block agree after every turn of the parser. *)
LEMMA PlaceStep == PlaceInv /\ ParserNext => PlaceInv'
<1> SUFFICES ASSUME PlaceInv, ParserNext PROVE PlaceInv'
  OBVIOUS
<1>r. ASSUME Refuse, outcome = "loading" PROVE PlaceInv'
  BY <1>r DEF Refuse, PlaceInv, IsReached
<1>a. ASSUME Advance, outcome = "loading", ~AtEnd,
             contextType' \in {"http", "server", "location", "cgi"}
      PROVE  PlaceInv'
  <2>1. Len(file') = Len(file) /\ lineNumber <= Len(file) /\ Len(file) \in Nat
    BY <1>a, LineFacts DEF Advance
  <2> QED BY <1>a, <2>1 DEF Advance, PlaceInv, IsReached
<1>c. ASSUME Advance, outcome = "loading", contextType # "http",
             contextType' = IF contextType = "server" THEN "http" ELSE "server"
      PROVE  PlaceInv'
  <2>1. Len(file') = Len(file) /\ Len(file) \in Nat
    BY <1>c, FileAssumption DEF Advance, PlaceInv
  <2> QED BY <1>c, <2>1 DEF Advance, PlaceInv, IsReached
<1>t. contextType \in {"http", "server", "location", "cgi"}
  BY DEF PlaceInv
<1>1. CASE Comment
  BY <1>1, <1>a, <1>t DEF Comment
<1>2. CASE NotAllowedDirective
  BY <1>2, <1>r DEF NotAllowedDirective
<1>3. CASE OpenServer
  BY <1>3, <1>a DEF OpenServer, Reads
<1>4. CASE ServerDirective
  BY <1>4, <1>r, <1>a, <1>t DEF ServerDirective, Reads
<1>5. CASE CloseServer
  BY <1>5, <1>r, <1>c DEF CloseServer, Ends
<1>6. CASE OpenLocation
  BY <1>6, <1>r, <1>a DEF OpenLocation, Reads
<1>7. CASE LimitExcept
  BY <1>7, <1>a, <1>t DEF LimitExcept, Reads
<1>8. CASE LocationDirective
  BY <1>8, <1>r, <1>a, <1>t DEF LocationDirective, Reads
<1>9. CASE CloseLocation
  BY <1>9, <1>r, <1>c DEF CloseLocation, Ends
<1>10. CASE OpenCgi
  BY <1>10, <1>a DEF OpenCgi, Reads
<1>11. CASE CgiDirective
  BY <1>11, <1>r, <1>a, <1>t DEF CgiDirective, Reads
<1>12. CASE CloseCgi
  BY <1>12, <1>c DEF CloseCgi, Ends
<1>13. CASE EndOfFile
  BY <1>13 DEF EndOfFile, Ends, PlaceInv, IsReached
<1> QED BY <1>1, <1>2, <1>3, <1>4, <1>5, <1>6, <1>7, <1>8, <1>9, <1>10, <1>11, <1>12, <1>13
        DEF ParserNext

(* The objects the parser fills keep their shape. *)
LEMMA SameLocations ==
  ASSUME NEW server, IsServer(server), NEW other, DOMAIN other = DOMAIN server,
         other.listen \in Nat, other.serverNames \in Seq(Nat),
         other.locations = server.locations
  PROVE  IsServer(other)
BY DEF IsServer

(* The fields of a server, and what its invariant says of them. *)
LEMMA ServerFields ==
  ASSUME NEW server, IsServer(server)
  PROVE  /\ DOMAIN server = {"listen", "serverNames", "maxBodySize", "errorPages",
                             "directives", "locations", "returnLocations", "cgi"}
         /\ server.listen \in Nat
         /\ server.serverNames \in Seq(Nat)
<1>1. DOMAIN server = DOMAIN NewServerContext
  BY DEF IsServer
<1>2. DOMAIN NewServerContext = {"listen", "serverNames", "maxBodySize", "errorPages",
                                 "directives", "locations", "returnLocations", "cgi"}
  BY DEF NewServerContext
<1> QED BY <1>1, <1>2, Zenon DEF IsServer

(* A directive of a server block keeps the server block well-formed. *)
LEMMA DirectiveKeepsServer ==
  ASSUME NEW server, IsServer(server), Word \in Allowed["server"] \ {"location", "cgi"},
         Word = "listen" => Arg \in Nat,
         Word = "server_names" => Line.args \in Seq(Nat)
  PROVE  IsServer(WithServerDirective(server))
<1> DEFINE other == WithServerDirective(server)
<1>1. Word \in {"listen", "server_names", "client_max_body_size", "error_page"}
  BY DEF Allowed
<1>2. /\ DOMAIN server = {"listen", "serverNames", "maxBodySize", "errorPages",
                          "directives", "locations", "returnLocations", "cgi"}
      /\ server.listen \in Nat
      /\ server.serverNames \in Seq(Nat)
  BY ServerFields
<1>3. CASE Word = "listen"
  <2>1. other = [server EXCEPT !.listen = Arg]
    BY <1>3 DEF WithServerDirective
  <2> HIDE DEF other
  <2>2. /\ DOMAIN other = DOMAIN server /\ other.listen = Arg
        /\ other.serverNames = server.serverNames /\ other.locations = server.locations
    BY <1>2, <2>1
  <2> QED BY <1>2, <1>3, <2>2, SameLocations DEF other
<1>4. CASE Word = "server_names"
  <2>1. other = [server EXCEPT !.serverNames = Line.args]
    BY <1>4 DEF WithServerDirective
  <2> HIDE DEF other
  <2>2. /\ DOMAIN other = DOMAIN server /\ other.listen = server.listen
        /\ other.serverNames = Line.args /\ other.locations = server.locations
    BY <1>2, <2>1
  <2> QED BY <1>2, <1>4, <2>2, SameLocations DEF other
<1>5. CASE Word = "client_max_body_size"
  <2>1. other = [server EXCEPT !.maxBodySize = Arg]
    BY <1>5 DEF WithServerDirective
  <2> HIDE DEF other
  <2>2. /\ DOMAIN other = DOMAIN server /\ other.listen = server.listen
        /\ other.serverNames = server.serverNames /\ other.locations = server.locations
    BY <1>2, <2>1
  <2> QED BY <1>2, <2>2, SameLocations DEF other
<1>6. CASE Word = "error_page"
  <2> DEFINE pages == Inserted(server.errorPages, {Arg}, Line.args[2])
  <2>1. other = [server EXCEPT !.errorPages = pages]
    BY <1>6 DEF WithServerDirective
  <2> HIDE DEF pages, other
  <2>2. /\ DOMAIN other = DOMAIN server /\ other.listen = server.listen
        /\ other.serverNames = server.serverNames /\ other.locations = server.locations
    BY <1>2, <2>1
  <2> QED BY <1>2, <2>2, SameLocations DEF other
<1> QED BY <1>1, <1>3, <1>4, <1>5, <1>6

(* So does the end of a complete location in it. *)
LEMMA AddLocationKeepsServer ==
  ASSUME NEW server, IsServer(server), NEW location, IsLocation(location)
  PROVE  IsServer(AddLocationContext(server, location))
<1> DEFINE other == AddLocationContext(server, location)
<1>1. DOMAIN server = {"listen", "serverNames", "maxBodySize", "errorPages",
                       "directives", "locations", "returnLocations", "cgi"}
  BY ServerFields
<1>2. /\ DOMAIN other = DOMAIN server
      /\ other.listen = server.listen
      /\ other.serverNames = server.serverNames
      /\ other.locations = Append(server.locations, location)
  BY <1>1 DEF AddLocationContext
<1>3. /\ IsSequence(other.locations)
      /\ DOMAIN other.locations = 1..Len(server.locations) + 1
      /\ \A i \in DOMAIN server.locations : other.locations[i] = server.locations[i]
      /\ other.locations[Len(server.locations) + 1] = location
  BY <1>2, AppendFacts DEF IsServer
<1>4. DOMAIN server.locations = 1..Len(server.locations) /\ Len(server.locations) \in Nat
  BY SequenceFacts DEF IsServer, IsSequence
<1> HIDE DEF other
<1>5. ASSUME NEW i \in DOMAIN other.locations PROVE IsLocation(other.locations[i])
  <2>1. i \in DOMAIN server.locations \/ i = Len(server.locations) + 1
    BY <1>3, <1>4
  <2> QED BY <1>3, <2>1 DEF IsServer
<1>6. IsServer(other)
  BY <1>2, <1>3, <1>5 DEF IsServer
<1> QED BY <1>6 DEF other

(* The server block stays well-formed in every turn of the parser. *)
LEMMA ServerStepInv == ParserInv /\ ParserNext => IsServer(serverContext')
<1> SUFFICES ASSUME ParserInv, ParserNext PROVE IsServer(serverContext')
  OBVIOUS
<1> USE DEF blocks
<1>0. PlaceInv /\ IsServer(serverContext) /\ LocationInv
  BY DEF ParserInv
<1>1. CASE serverContext' = serverContext
  BY <1>0, <1>1
<1>2. CASE OpenServer
  BY <1>2, NewServerIsServer DEF OpenServer
<1>3. CASE ServerDirective /\ ~Refuse
  <2> DEFINE server == WithServerDirective(serverContext)
  <2>1. Word \in Allowed["server"] \ {"location", "cgi"} /\ ~AtEnd
    BY <1>3 DEF ServerDirective, Reads
  <2>2. ServerDirectiveIsGood /\ serverContext' = [server EXCEPT !.directives = @ \cup {Word}]
    BY <1>3 DEF ServerDirective
  <2>3. Word = "listen" => Arg \in Nat
    BY <1>0, <2>1, <2>2, LineFacts DEF ServerDirectiveIsGood
  <2>4. Word = "server_names" => Line.args \in Seq(Nat)
    BY <1>0, <2>1, LineFacts
  <2>5. IsServer(server)
    BY <1>0, <2>1, <2>3, <2>4, DirectiveKeepsServer, Zenon
  <2>6. /\ DOMAIN server = {"listen", "serverNames", "maxBodySize", "errorPages",
                            "directives", "locations", "returnLocations", "cgi"}
        /\ server.listen \in Nat /\ server.serverNames \in Seq(Nat)
    BY <2>5, ServerFields
  <2> HIDE DEF server
  <2>7. /\ DOMAIN serverContext' = DOMAIN server /\ serverContext'.listen = server.listen
        /\ serverContext'.serverNames = server.serverNames
        /\ serverContext'.locations = server.locations
    BY <2>2, <2>6
  <2> QED BY <2>5, <2>6, <2>7, SameLocations
<1>4. CASE CloseLocation /\ ~Refuse
  <2>1. IsLocation(locationContext)
    BY <1>0, <1>4 DEF CloseLocation, LocationInv, IsLocation
  <2> QED BY <1>0, <1>4, <2>1, AddLocationKeepsServer DEF CloseLocation
<1>5. CASE CloseCgi
  <2>1. serverContext' = [serverContext EXCEPT !.cgi = cgiContext]
    BY <1>5 DEF CloseCgi
  <2>2. /\ DOMAIN serverContext = {"listen", "serverNames", "maxBodySize", "errorPages",
                                   "directives", "locations", "returnLocations", "cgi"}
        /\ serverContext.listen \in Nat /\ serverContext.serverNames \in Seq(Nat)
    BY <1>0, ServerFields
  <2>3. /\ DOMAIN serverContext' = DOMAIN serverContext
        /\ serverContext'.listen = serverContext.listen
        /\ serverContext'.serverNames = serverContext.serverNames
        /\ serverContext'.locations = serverContext.locations
    BY <2>1, <2>2
  <2> QED BY <1>0, <2>2, <2>3, SameLocations
<1>6. CASE Refuse
  BY <1>1, <1>6 DEF Refuse
<1> QED BY <1>1, <1>2, <1>3, <1>4, <1>5, <1>6
        DEF ParserNext, Comment, NotAllowedDirective, CloseServer, OpenLocation, LimitExcept,
            LocationDirective, OpenCgi, CgiDirective, EndOfFile

(* The location block has its path, whatever directives it is given. *)
LEMMA LocationStepInv == ParserInv /\ ParserNext => LocationInv'
<1> SUFFICES ASSUME ParserInv, ParserNext PROVE LocationInv'
  OBVIOUS
<1> USE DEF blocks
<1>0. PlaceInv /\ LocationInv
  BY DEF ParserInv
<1>1. CASE locationContext' = locationContext
  BY <1>0, <1>1 DEF LocationInv
<1>2. CASE OpenLocation /\ ~Refuse
  <2>1. Word = "location" /\ ~AtEnd
    BY <1>2 DEF OpenLocation, Reads
  <2>2. locationContext' = [directives |-> [path |-> Arg], allowedMethods |-> {}]
    BY <1>2 DEF OpenLocation, NewLocationContext
  <2>3. IsPath(Arg)
    BY <1>0, <2>1, LineFacts
  <2>4. /\ DOMAIN locationContext' = {"directives", "allowedMethods"}
        /\ "path" \in DOMAIN locationContext'.directives
        /\ locationContext'.directives["path"] = Arg
    BY <2>2
  <2> QED BY <2>3, <2>4 DEF LocationInv
<1>3. CASE LimitExcept
  <2> DEFINE methods == locationContext.allowedMethods \cup Range(Line.args)
  <2>1. locationContext' = [locationContext EXCEPT !.allowedMethods = methods]
    BY <1>3 DEF LimitExcept
  <2> HIDE DEF methods
  <2>2. /\ DOMAIN locationContext' = DOMAIN locationContext
        /\ locationContext'.directives = locationContext.directives
    BY <1>0, <2>1 DEF LocationInv
  <2> QED BY <1>0, <2>2 DEF LocationInv
<1>4. CASE LocationDirective /\ ~Refuse
  <2> DEFINE directives == Inserted(locationContext.directives, {Word}, Arg)
  <2>1. locationContext' = [locationContext EXCEPT !.directives = directives]
    BY <1>4 DEF LocationDirective
  <2>2. "path" \in DOMAIN directives /\ directives["path"] = locationContext.directives["path"]
    BY <1>0 DEF LocationInv, Inserted
  <2> HIDE DEF directives
  <2>3. /\ DOMAIN locationContext' = DOMAIN locationContext
        /\ locationContext'.directives = directives
    BY <1>0, <2>1 DEF LocationInv
  <2> QED BY <1>0, <2>2, <2>3 DEF LocationInv
<1>5. CASE Refuse
  BY <1>1, <1>5 DEF Refuse
<1> QED BY <1>1, <1>2, <1>3, <1>4, <1>5
        DEF ParserNext, Comment, NotAllowedDirective, OpenServer, ServerDirective, CloseServer,
            CloseLocation, OpenCgi, CgiDirective, CloseCgi, EndOfFile

(* A server has a name, so it is served on its port. *)
LEMMA PortsAndHostsFacts ==
  ASSUME NEW server, IsServer(server)
  PROVE  /\ PortsAndHosts(server) \in Seq(Nat \X Nat)
         /\ \A i \in DOMAIN PortsAndHosts(server) : PortsAndHosts(server)[i][1] = server.listen
<1> DEFINE names == IF server.serverNames = <<>> THEN <<Localhost>> ELSE server.serverNames
<1>1. names \in Seq(Nat)
  <2>1. Localhost \in Nat
    BY FileAssumption
  <2>2. <<Localhost>> \in [1..1 -> Nat]
    BY <2>1
  <2>3. <<Localhost>> \in Seq(Nat)
    BY <2>2, SeqDef
  <2> QED BY <2>3 DEF IsServer
<1>2. PortsAndHosts(server) = [i \in DOMAIN names |-> <<server.listen, names[i]>>]
  BY DEF PortsAndHosts
<1> HIDE DEF names
<1>3. Len(names) \in Nat /\ DOMAIN names = 1..Len(names) /\ \A i \in 1..Len(names) : names[i] \in Nat
  BY <1>1, LenProperties, ElementOfSeq
<1>4. server.listen \in Nat
  BY DEF IsServer
<1>5. PortsAndHosts(server) \in [1..Len(names) -> Nat \X Nat]
  BY <1>2, <1>3, <1>4
<1>6. PortsAndHosts(server) \in Seq(Nat \X Nat)
  BY <1>3, <1>5, SeqDef
<1> QED BY <1>2, <1>6

(* Config holds well-formed servers, each under the pairs that were collected. *)
LEMMA ServedStepInv == ParserInv /\ ParserNext => ServedInv'
<1> SUFFICES ASSUME ParserInv, ParserNext PROVE ServedInv'
  OBVIOUS
<1>0. ServedInv /\ IsServer(serverContext)
  BY DEF ParserInv
<1>1. CASE UNCHANGED config
  BY <1>0, <1>1 DEF ServedInv, config
<1>2. CASE CloseServer /\ ~Refuse
  <2> DEFINE pairs == PortsAndHosts(serverContext)
  <2>1. servers' = Inserted(servers, Range(pairs), serverContext) /\ portAndHostVecAll' = portAndHostVecAll \o pairs
    BY <1>2 DEF CloseServer
  <2>2. /\ pairs \in Seq(Nat \X Nat)
        /\ \A i \in DOMAIN pairs : pairs[i][1] = serverContext.listen
    BY <1>0, PortsAndHostsFacts
  <2> HIDE DEF pairs
  <2>3. portAndHostVecAll' \in Seq(Nat \X Nat)
    BY <1>0, <2>1, <2>2, ConcatProperties DEF ServedInv
  <2>4. Range(portAndHostVecAll') = Range(portAndHostVecAll) \cup Range(pairs)
    BY <1>0, <2>1, <2>2, RangeConcatenation DEF ServedInv
  <2>5. /\ DOMAIN servers' = DOMAIN servers \cup Range(pairs)
        /\ \A pair \in DOMAIN servers : servers'[pair] = servers[pair]
        /\ \A pair \in Range(pairs) \ DOMAIN servers : servers'[pair] = serverContext
    BY <2>1 DEF Inserted
  <2>6. \A pair \in Range(pairs) : serverContext.listen = pair[1]
    BY <2>2 DEF Range
  <2>7. \A pair \in DOMAIN servers' :
          IsServer(servers'[pair]) /\ servers'[pair].listen = pair[1]
    BY <1>0, <2>5, <2>6 DEF ServedInv
  <2> QED BY <1>0, <2>3, <2>4, <2>5, <2>7 DEF ServedInv
<1>3. CASE Refuse
  BY <1>1, <1>3 DEF Refuse
<1> QED BY <1>1, <1>2, <1>3
        DEF ParserNext, Comment, NotAllowedDirective, OpenServer, ServerDirective, CloseServer,
            OpenLocation, LimitExcept, LocationDirective, CloseLocation, OpenCgi, CgiDirective,
            CloseCgi, EndOfFile

(* The parser's invariant is inductive. *)
LEMMA ParserStepInv == ParserInv /\ ParserNext => ParserInv'
<1> SUFFICES ASSUME ParserInv, ParserNext PROVE ParserInv'
  OBVIOUS
<1> QED BY PlaceStep, ServerStepInv, LocationStepInv, ServedStepInv DEF ParserInv

-----------------------------------------------------------------------------
(* Site: requests and sessions *)

IsRequest(r) ==
  /\ DOMAIN r = {"method", "port", "host", "url", "body"}
  /\ r.url.segs \in Seq(STRING) /\ r.url.query \in Query

IsProgram(program) == program = Failing \/ \E data \in DOMAIN Program : program = Program[data]

HasFields(s) ==
  DOMAIN s = {"st", "plan", "body", "stdin", "program", "printed", "out", "redirects"}

SessionShape(s) ==
  /\ s.st \in {"none", "body", "exec", "running", "ended", "read"}
  /\ s.st # "none" =>
       /\ HasFields(s)
       /\ s.redirects \in 0..MAX_LOCAL_REDIRECT_COUNT
       /\ s.plan.status \in {200, 405}
  /\ s.st \in {"running", "ended", "read"} => IsProgram(s.program)

SiteInv ==
  /\ ParserInv
  /\ SessionShape(session)
  /\ session.st # "none" => request.port \in Ports /\ answer = NoAnswer
  /\ IsRequest(request)
  /\ request \in Request \cup {NoRequest} \/ request.host = 0
  /\ asked \in 0..MaxRequests
  /\ outcome \in {"loading", "refused"} => session = NoSession /\ answer = NoAnswer

(* The whole starts in a state the invariant allows. *)
LEMMA InitSiteInv == Init => SiteInv
<1> SUFFICES ASSUME Init PROVE SiteInv
  OBVIOUS
<1>1. ParserInv
  BY InitParserInv DEF Init
<1>2. SessionShape(session) /\ session.st = "none"
  BY DEF Init, SessionShape, NoSession
<1>3. IsRequest(request)
  <2>1. <<>> \in Seq(STRING)
    BY EmptySeq
  <2> QED BY <2>1 DEF Init, IsRequest, NoRequest, Query
<1>4. asked \in 0..MaxRequests
  BY RequestAssumption DEF Init
<1> QED BY <1>1, <1>2, <1>3, <1>4 DEF Init, SiteInv

(* The server of a port that has a socket is one the file declared. *)
LEMMA ServerIsDeclared ==
  ASSUME ServedInv, NEW port \in Ports, NEW host
  PROVE  \E pair \in DOMAIN servers : GetServerContext(servers, port, host) = servers[pair]
<1>1. PICK i \in DOMAIN portAndHostVecAll : port = portAndHostVecAll[i][1]
  BY DEF Ports
<1>2. portAndHostVecAll[i] \in DOMAIN servers /\ portAndHostVecAll[i] \in Nat \X Nat
  BY ElementOfSeq, LenProperties DEF ServedInv, Range
<1>3. DOMAIN servers \subseteq Nat \X Nat
  BY RangeOfSeq DEF ServedInv
<1>4. HostsOf(servers, port) \in SUBSET Nat /\ portAndHostVecAll[i][2] \in HostsOf(servers, port)
  BY <1>1, <1>2, <1>3 DEF HostsOf
<1>5. Min(HostsOf(servers, port)) \in HostsOf(servers, port)
  BY <1>4, MinIsMember
<1>6. <<port, Min(HostsOf(servers, port))>> \in DOMAIN servers
  <2>1. PICK pair \in DOMAIN servers : pair[1] = port /\ pair[2] = Min(HostsOf(servers, port))
    BY <1>5 DEF HostsOf
  <2>2. pair = <<pair[1], pair[2]>>
    BY <1>3, <2>1
  <2> QED BY <2>1, <2>2
<1> QED BY <1>6 DEF GetServerContext

(* Hence the server a request is handed to is well-formed. *)
LEMMA ServerIsServer ==
  ASSUME ServedInv, NEW port \in Ports, NEW host
  PROVE  IsServer(GetServerContext(servers, port, host))
BY ServerIsDeclared DEF ServedInv

(* An answer that says nothing of a file that was created or removed, and shows
   none. *)
SaysNothing(a) ==
  /\ "document" \in DOMAIN a \/ a.status \notin {201, 204}
  /\ DOMAIN a \cap {"data", "links", "location"} = {}

(* What the steps behind the file come to: a request is handled, a session goes
   on, or it ends with an answer that shows no file, or the server terminates. *)
ConfigKept == UNCHANGED <<file, lineNumber, contextType, blocks, config>>

Handled(r, n) ==
  /\ outcome = "up" /\ IsRequest(r) /\ r.port \in Ports /\ (r \in Request \/ r.host = 0)
  /\ n \in 0..MAX_LOCAL_REDIRECT_COUNT
  /\ ExecParseRequest(r, n)
  /\ ConfigKept /\ asked' \in 0..MaxRequests

Continued ==
  /\ outcome = "up" /\ session.st # "none"
  /\ ConfigKept /\ UNCHANGED <<disk, request, asked>>
  /\ \/ UNCHANGED <<outcome, answer>> /\ SessionShape(session')
     \/ session' = NoSession /\ SaysNothing(answer') /\ UNCHANGED outcome
     \/ /\ outcome' = "down" /\ answer' = NoAnswer /\ UNCHANGED session
        /\ session.st = "read" /\ CgiResponseType(session.program) = "throws"

Loaded ==
  /\ outcome = "loading" /\ ParserNext
  /\ UNCHANGED <<disk, session, request, answer, asked>>

(* The parser takes turns only while the file is loaded. *)
LEMMA LoadsBefore ==
  ParserNext => outcome = "loading" /\ outcome' \in {"loading", "refused", "up"}
BY DEF Refuse, Advance, ParserNext, Comment, NotAllowedDirective, OpenServer, ServerDirective, CloseServer,
       OpenLocation, LimitExcept, LocationDirective, CloseLocation, OpenCgi, CgiDirective,
       CloseCgi, EndOfFile, Reads, Ends

(* There is no file in the absence of an answer. *)
LEMMA NoAnswerSaysNothing == SaysNothing(NoAnswer)
BY DEF SaysNothing, NoAnswer

(* A request of a peer is handled, at redirect count 0. *)
LEMMA AskHandles == ASSUME SiteInv, NEW r \in Request, Ask(r) PROVE Handled(r, 0)
<1>1. IsRequest(r) /\ 0 \in 0..MAX_LOCAL_REDIRECT_COUNT
  BY RequestAssumption DEF IsRequest
<1>2. asked' \in 0..MaxRequests
  BY RequestAssumption DEF Ask, SiteInv
<1> QED BY <1>1, <1>2 DEF Ask, Handled, ConfigKept

(* A session keeps its shape when some of its counts or its state change. *)
LEMMA SessionFields ==
  ASSUME NEW s, SessionShape(s), s.st # "none", NEW t, HasFields(t),
         t.st \in {"body", "exec", "running", "ended", "read"},
         t.redirects = s.redirects, t.plan = s.plan,
         t.st \in {"running", "ended", "read"} => IsProgram(t.program)
  PROVE  SessionShape(t)
BY DEF SessionShape

(* Another state leaves the rest of a session alone. *)
LEMMA StateChanges ==
  ASSUME NEW s,
         HasFields(s), NEW st, NEW t, t = [s EXCEPT !.st = st]
  PROVE  /\ HasFields(t) /\ t.st = st
         /\ t.program = s.program /\ t.redirects = s.redirects /\ t.plan = s.plan
BY DEF HasFields

(* Steps that change nothing but the session continue it. *)
LEMMA SessionStep ==
  ASSUME SessionShape(session), outcome = "up",
         ExecWriteCgiBody \/ ExecWaitCgiChild \/ ExecReadCgi \/ ScriptNext
  PROVE  session.st # "none" /\ SessionShape(session')
<1>1. session.st # "none" /\ session.st \in {"body", "running", "ended", "read"}
  BY DEF ExecWriteCgiBody, ExecWaitCgiChild, ExecReadCgi, ScriptNext, ScriptReads, ScriptPrints,
         ScriptExits
<1>2. HasFields(session)
  BY <1>1 DEF SessionShape
<1>3. /\ HasFields(session')
      /\ session'.redirects = session.redirects /\ session'.plan = session.plan
      /\ session'.program = session.program
      /\ \/ session'.st \in {session.st, "exec"}
         \/ session.st \in {"running", "ended"} /\ session'.st \in {"ended", "read"}
  <2>1. ASSUME NEW a, NEW b,
               \/ session' = [session EXCEPT !.stdin = a]
               \/ session' = [session EXCEPT !.out = a]
               \/ session' = [session EXCEPT !.printed = a, !.out = b]
               \/ session' = [session EXCEPT !.body = a, !.stdin = b]
        PROVE  /\ HasFields(session') /\ session'.st = session.st
               /\ session'.program = session.program /\ session'.redirects = session.redirects
               /\ session'.plan = session.plan
    <3>1. CASE session' = [session EXCEPT !.stdin = a]
      BY <1>2, <3>1 DEF HasFields
    <3>2. CASE session' = [session EXCEPT !.out = a]
      BY <1>2, <3>2 DEF HasFields
    <3>3. CASE session' = [session EXCEPT !.printed = a, !.out = b]
      BY <1>2, <3>3 DEF HasFields
    <3>4. CASE session' = [session EXCEPT !.body = a, !.stdin = b]
      BY <1>2, <3>4 DEF HasFields
    <3> QED BY <2>1, <3>1, <3>2, <3>3, <3>4
  <2>2. CASE ExecWriteCgiBody
    <3>1. \/ session' = [session EXCEPT !.st = "exec"]
          \/ \E a, b : session' = [session EXCEPT !.body = a, !.stdin = b]
      BY <2>2, Zenon DEF ExecWriteCgiBody
    <3>2. CASE session' = [session EXCEPT !.st = "exec"]
      <4>1. /\ HasFields(session') /\ session'.st = "exec"
            /\ session'.program = session.program /\ session'.redirects = session.redirects
            /\ session'.plan = session.plan
        BY <1>2, <3>2, StateChanges
      <4> QED BY <4>1, Zenon
    <3> QED BY <2>1, <3>1, <3>2, Zenon
  <2>3. CASE ExecWaitCgiChild
    BY <1>2, <2>3, StateChanges DEF ExecWaitCgiChild
  <2>4. CASE ExecReadCgi
    BY <2>1, <2>4, Zenon DEF ExecReadCgi
  <2>5. CASE ScriptReads \/ ScriptPrints
    BY <2>1, <2>5, Zenon DEF ScriptReads, ScriptPrints
  <2>6. CASE ScriptExits
    BY <1>2, <2>6, StateChanges DEF ScriptExits
  <2> QED BY <2>2, <2>3, <2>4, <2>5, <2>6 DEF ScriptNext
<1>4. session.st \in {"running", "ended", "read"} => IsProgram(session.program)
  BY DEF SessionShape
<1> QED BY <1>1, <1>3, <1>4, SessionFields

(* What is executed is one of the scripts, or fails. *)
LEMMA ExecutedIsProgram ==
  ASSUME NEW plan, NEW program \in Executed(plan)
  PROVE  IsProgram(program)
BY DEF Executed, IsProgram

(* execCgi continues the session or answers it. *)
LEMMA ExecCgiContinues == ASSUME SiteInv, ExecCgi PROVE Continued
<1>1. session.st = "exec" /\ SessionShape(session) /\ InSession
  BY DEF ExecCgi, SiteInv
<1>2. CASE \E status \in RefusedWith(session.plan) : Reply(Error(status))
  <2>1. PICK status \in RefusedWith(session.plan) : Reply(Error(status))
    BY <1>2
  <2>2. status \in {404, 405}
    BY <1>1 DEF RefusedWith, SessionShape
  <2>3. SaysNothing(Error(status))
    BY <2>2 DEF SaysNothing, Error
  <2> QED BY <1>1, <2>1, <2>3 DEF ExecCgi, Reply, InSession, Continued, ConfigKept
<1>3. ASSUME NEW program \in Executed(session.plan),
             session' = [session EXCEPT !.st = "running", !.program = program],
             UNCHANGED <<outcome, disk, answer>>
      PROVE  Continued
  <2>1. HasFields(session)
    BY <1>1 DEF SessionShape
  <2>2. /\ HasFields(session') /\ session'.st = "running"
        /\ session'.program = program /\ session'.redirects = session.redirects
        /\ session'.plan = session.plan
    BY <1>3, <2>1 DEF HasFields
  <2>3. SessionShape(session')
    BY <1>1, <2>2, ExecutedIsProgram, SessionFields
  <2> QED BY <1>1, <1>3, <2>3 DEF ExecCgi, InSession, Continued, ConfigKept
<1> QED BY <1>2, <1>3 DEF ExecCgi

(* A redirect of a script is a request to the port of the first one. *)
LEMMA RedirectIsRequest ==
  ASSUME SiteInv, session.st = "read", CgiResponseType(session.program) = "Server_Redirect"
  PROVE  LET r == ServerRedirect(session.program)
         IN IsRequest(r) /\ r.port = request.port /\ r.host = 0
<1> DEFINE r == ServerRedirect(session.program)
           url == [segs |-> session.program.location[1].segs,
                   query |-> session.program.query]
<1>1. session.program.location # <<>>
  BY DEF CgiResponseType
<1>2. IsProgram(session.program)
  BY DEF SiteInv, SessionShape
<1>3. session.program.location[1].segs \in Seq(STRING) /\ session.program.query \in Query
  BY <1>1, <1>2, ProgramAssumption DEF IsProgram, Failing
<1>4. DOMAIN request = {"method", "port", "host", "url", "body"}
  BY DEF SiteInv, IsRequest
<1>5. r = [request EXCEPT !.host = 0, !.body = session.program.body, !.url = url]
  BY DEF ServerRedirect
<1>6. url.segs = session.program.location[1].segs /\ url.query = session.program.query
  OBVIOUS
<1> HIDE DEF url
<1>7. DOMAIN r = DOMAIN request /\ r.url = url /\ r.port = request.port /\ r.host = 0
  BY <1>4, <1>5
<1> HIDE DEF r
<1>8. IsRequest(r) /\ r.port = request.port /\ r.host = 0
  BY <1>3, <1>4, <1>6, <1>7 DEF IsRequest
<1> QED BY <1>8 DEF r

(* The end of a script's output answers, or hands on the redirected request. *)
LEMMA ParseCgiResponseSteps ==
  ASSUME SiteInv, ParseCgiResponse
  PROVE  Continued \/ \E r, n : Handled(r, n)
<1> DEFINE program == session.program
           type == CgiResponseType(program)
           count == session.redirects + 1
<1>1. session.st = "read" /\ InSession
  BY DEF ParseCgiResponse
<1>2. CASE type = "throws" /\ Terminate /\ UNCHANGED request
  BY <1>1, <1>2 DEF Terminate, InSession, Continued, ConfigKept
<1>3. CASE Reply(DocumentResponse(program)) /\ UNCHANGED request
  BY <1>1, <1>3 DEF Reply, DocumentResponse, SaysNothing, InSession, Continued, ConfigKept
<1>4. CASE Reply(ClientRedirectResponse(program)) /\ UNCHANGED request
  BY <1>1, <1>4 DEF Reply, ClientRedirectResponse, SaysNothing, InSession, Continued, ConfigKept
<1>5. CASE Reply(Error(500)) /\ UNCHANGED request
  BY <1>1, <1>5 DEF Reply, Error, SaysNothing, InSession, Continued, ConfigKept
<1>6. CASE /\ type = "Server_Redirect" /\ ~TooManyRedirects(count)
           /\ ExecParseRequest(ServerRedirect(program), count)
  <2>1. IsRequest(ServerRedirect(program)) /\ ServerRedirect(program).port \in Ports
        /\ ServerRedirect(program).host = 0
    BY <1>1, <1>6, RedirectIsRequest DEF SiteInv
  <2>2. count \in 0..MAX_LOCAL_REDIRECT_COUNT
    BY <1>1, <1>6, RequestAssumption DEF SiteInv, SessionShape, TooManyRedirects
  <2>3. asked' \in 0..MaxRequests
    BY <1>1 DEF InSession, SiteInv
  <2> HIDE DEF count, program
  <2>4. Handled(ServerRedirect(program), count)
    BY <1>1, <1>6, <2>1, <2>2, <2>3 DEF InSession, Handled, ConfigKept
  <2> QED BY <2>4
<1> QED BY <1>2, <1>3, <1>4, <1>5, <1>6 DEF ParseCgiResponse

(* Every step reads the file, continues a session, or handles one request. *)
LEMMA Steps == SiteInv /\ Next => Loaded \/ Continued \/ \E r, n : Handled(r, n)
<1> SUFFICES ASSUME SiteInv, Next PROVE Loaded \/ Continued \/ \E r, n : Handled(r, n)
  OBVIOUS
<1>0. SessionShape(session)
  BY DEF SiteInv
<1>1. CASE LoadConfig
  BY <1>1, LoadsBefore DEF LoadConfig, Loaded
<1>2. CASE \E r \in Request : Ask(r)
  BY <1>2, AskHandles
<1>3. CASE (ExecWriteCgiBody \/ ExecWaitCgiChild \/ ExecReadCgi \/ ScriptNext) /\ NothingElse
  <2>1. outcome = "up" /\ ConfigKept /\ UNCHANGED <<outcome, disk, request, answer, asked>>
    BY <1>3 DEF NothingElse, InSession, ConfigKept
  <2>2. session.st # "none" /\ SessionShape(session')
    BY <1>0, <1>3, <2>1, SessionStep
  <2> QED BY <2>1, <2>2 DEF Continued
<1>4. CASE ExecCgi
  BY <1>4, ExecCgiContinues
<1>5. CASE ScriptFailed
  BY <1>5 DEF ScriptFailed, Reply, Error, SaysNothing, InSession, Continued, ConfigKept
<1>6. CASE ParseCgiResponse
  BY <1>6, ParseCgiResponseSteps
<1>7. CASE Timeout
  BY <1>7 DEF Timeout, Reply, Error, SaysNothing, InSession, Continued, ConfigKept
<1> QED BY <1>1, <1>2, <1>3, <1>4, <1>5, <1>6, <1>7 DEF Next, ServerStep, ScriptStep

-----------------------------------------------------------------------------
(* The invariant *)

(* Steps that leave the configuration alone keep the parser's invariant. *)
LEMMA ConfigKeptInv ==
  ASSUME ParserInv, ConfigKept, outcome = "up", outcome' \in {"up", "down"}
  PROVE  ParserInv'
<1> USE DEF ConfigKept, blocks, config
<1>1. PlaceInv'
  BY DEF ParserInv, PlaceInv, IsReached
<1>2. IsServer(serverContext') /\ LocationInv'
  BY DEF ParserInv, LocationInv
<1>3. ServedInv'
  BY DEF ParserInv, ServedInv
<1> QED BY <1>1, <1>2, <1>3 DEF ParserInv

(* A plan that ends nothing is one to follow, or refuses the method. *)
LEMMA PlanStatuses ==
  ASSUME NEW server, NEW method, NEW url, NEW plan \in Plans(server, method, url)
  PROVE  plan.status \in {0, 200, 405}
<1>1. GetCgiPath(server, method, url.segs).status \in {0, 200, 405}
  BY DEF GetCgiPath, Plan, Throws, Failed
<1>2. ParseCgiBlock(server, url.segs).status \in {0, 200}
  BY DEF ParseCgiBlock, Plan, Throws, Failed
<1>3. Throws.status = 0
  BY DEF Throws, Failed
<1> QED BY <1>1, <1>2, <1>3 DEF Plans

(* A session starts in its shape. *)
LEMMA NewSessionShape ==
  ASSUME NEW plan, plan.status \in {200, 405},
         NEW method, NEW size, NEW n \in 0..MAX_LOCAL_REDIRECT_COUNT
  PROVE  SessionShape(NewSession(plan, method, size, n))
BY DEF NewSession, SessionShape, HasFields

(* What a handled request comes to. *)
LEMMA HandledSteps ==
  ASSUME NEW r, NEW n, Handled(r, n)
  PROVE  /\ request' = r
         /\ \/ outcome' = "down" /\ answer' = NoAnswer /\ UNCHANGED <<disk, session>>
            \/ /\ outcome' = "up" /\ disk' = disk /\ SessionShape(session')
               /\ SaysNothing(answer') /\ (session' = NoSession \/ answer' = NoAnswer)
            \/ /\ outcome' = "up" /\ session' = NoSession /\ NamesAreLeft
               /\ LET server == GetServerContext(servers, r.port, r.host)
                      done == ProcessRequest(server, r.method, r.url, r.body)
                  IN ~IsCgi(server, r.url.segs) /\ answer' = done.answer /\ disk' = done.disk
<1> DEFINE server == GetServerContext(servers, r.port, r.host)
<1>1. outcome = "up" /\ n \in 0..MAX_LOCAL_REDIRECT_COUNT /\ ExecParseRequest(r, n)
  BY DEF Handled
<1>2. request' = r
  BY <1>1 DEF ExecParseRequest
<1>3. CASE Reply(Error(413))
  <2>1. SessionShape(NoSession)
    BY DEF NoSession, SessionShape
  <2> QED BY <1>1, <1>2, <1>3, <2>1 DEF Reply, Error, SaysNothing
<1>4. ASSUME NEW plan \in Plans(server, r.method, r.url), StartSession(plan, r, n)
      PROVE  \/ outcome' = "down" /\ answer' = NoAnswer /\ UNCHANGED <<disk, session>>
             \/ /\ outcome' = "up" /\ disk' = disk /\ SessionShape(session')
                /\ SaysNothing(answer') /\ answer' = NoAnswer
  <2>1. plan.status # 0 => plan.status \in {200, 405}
    BY <1>4, PlanStatuses
  <2> QED BY <1>1, <1>4, <2>1, NoAnswerSaysNothing, NewSessionShape DEF StartSession, Terminate
<1>5. CASE ~IsCgi(server, r.url.segs) /\ ExecCoreHandler(server, r)
  BY <1>1, <1>2, <1>5 DEF ExecCoreHandler, Terminate
<1> QED BY <1>1, <1>2, <1>3, <1>4, <1>5 DEF ExecParseRequest

(* The invariant is inductive. *)
LEMMA StepInv == SiteInv /\ [Next]_vars => SiteInv'
<1> SUFFICES ASSUME SiteInv, [Next]_vars PROVE SiteInv'
  OBVIOUS
<1> USE DEF ConfigKept, config
<1>1. CASE UNCHANGED vars
  <2>1. UNCHANGED <<parserVars, session, request, answer, asked>>
    BY <1>1 DEF vars
  <2>2. ParserInv'
    BY <2>1 DEF parserVars, blocks, SiteInv, ParserInv, PlaceInv, IsReached, LocationInv, ServedInv
  <2> QED BY <2>1, <2>2 DEF parserVars, SiteInv, Ports
<1>2. CASE Loaded
  <2>1. ParserInv' /\ outcome = "loading"
    BY <1>2, ParserStepInv DEF Loaded, SiteInv
  <2>2. session = NoSession /\ answer = NoAnswer
    BY <2>1 DEF SiteInv
  <2> QED BY <1>2, <2>1, <2>2 DEF Loaded, SiteInv, NoSession
<1>3. CASE Continued
  <2>1. outcome = "up" /\ outcome' \in {"up", "down"} /\ ConfigKept
    BY <1>3 DEF Continued
  <2>2. ParserInv'
    BY <2>1, ConfigKeptInv DEF SiteInv
  <2>3. SessionShape(session')
    BY <1>3 DEF Continued, NoSession, SessionShape, SiteInv
  <2>4. Ports' = Ports /\ UNCHANGED <<request, asked>> /\ request.port \in Ports
    BY <1>3 DEF Continued, Ports, SiteInv
  <2>5. session'.st # "none" => answer' = NoAnswer
    BY <1>3 DEF Continued, NoSession, SiteInv
  <2> QED BY <2>1, <2>2, <2>3, <2>4, <2>5 DEF SiteInv, NoAnswer
<1>4. ASSUME NEW r, NEW n, Handled(r, n) PROVE SiteInv'
  <2>1. request' = r /\ outcome' \in {"up", "down"} /\ SessionShape(session')
    BY <1>4, HandledSteps DEF SiteInv, NoSession, SessionShape
  <2>2. outcome = "up" /\ ConfigKept
    BY <1>4 DEF Handled
  <2>3. ParserInv'
    BY <2>1, <2>2, ConfigKeptInv DEF SiteInv
  <2>4. Ports' = Ports
    BY <2>2 DEF Ports
  <2>5. IsRequest(r) /\ r.port \in Ports /\ (r \in Request \/ r.host = 0) /\ asked' \in 0..MaxRequests
    BY <1>4 DEF Handled
  <2>6. session'.st # "none" => answer' = NoAnswer
    BY <1>4, HandledSteps DEF NoSession
  <2> QED BY <2>1, <2>3, <2>4, <2>5, <2>6 DEF SiteInv, NoAnswer
<1> QED BY <1>1, <1>2, <1>3, <1>4, Steps

(* The invariant holds in every reachable state. *)
LEMMA Invariance == Spec => []SiteInv
<1> QED BY InitSiteInv, StepInv, PTL DEF Spec

-----------------------------------------------------------------------------
(* The theorems *)

(* getServerContext finds a server for every port a socket was opened for. *)
THEOREM PortsServedHolds == Spec => []PortsServed
<1>1. SiteInv => PortsServed
  <2> SUFFICES ASSUME SiteInv PROVE PortsServed
    OBVIOUS
  <2>1. ServedInv
    BY DEF SiteInv, ParserInv
  <2>2. ASSUME NEW port \in Ports PROVE HostsOf(servers, port) # {}
    <3>1. PICK i \in DOMAIN portAndHostVecAll : port = portAndHostVecAll[i][1]
      BY DEF Ports
    <3>2. portAndHostVecAll[i] \in DOMAIN servers
      BY <2>1 DEF ServedInv, Range
    <3> QED BY <3>1, <3>2 DEF HostsOf
  <2> QED BY <2>1, <2>2 DEF PortsServed, ServedInv
<1> QED BY <1>1, Invariance, PTL


(* Nothing leaves the shape of the state: the file is read to its end at most
   three lines behind it, redirects of scripts are counted, and only directories
   that were there are there. *)
THEOREM TypeCorrectness == Spec => []TypeOK
<1> DEFINE DiskInv == DOMAIN disk \subseteq DOMAIN Disk
<1>1. Init => DiskInv
  BY DEF Init
<1>2. SiteInv /\ DiskInv /\ [Next]_vars => DiskInv'
  <2> SUFFICES ASSUME SiteInv, DiskInv, [Next]_vars PROVE DiskInv'
    OBVIOUS
  <2>1. CASE UNCHANGED vars
    BY <2>1 DEF vars
  <2>2. CASE Loaded \/ Continued
    BY <2>2 DEF Loaded, Continued
  <2>3. ASSUME NEW r, NEW n, Handled(r, n) PROVE DiskInv'
    <3> DEFINE server == GetServerContext(servers, r.port, r.host)
               done == ProcessRequest(server, r.method, r.url, r.body)
    <3>1. disk' = disk \/ disk' = done.disk
      BY <2>3, HandledSteps
    <3>2. DOMAIN done.disk \subseteq DOMAIN disk
      BY RequestKeepsDirectories
    <3> QED BY <3>1, <3>2
  <2> QED BY <2>1, <2>2, <2>3, Steps
<1>3. SiteInv /\ DiskInv => TypeOK
  <2> SUFFICES ASSUME SiteInv, DiskInv PROVE TypeOK
    OBVIOUS
  <2>1. PlaceInv
    BY DEF SiteInv, ParserInv
  <2>2. Len(file) \in Nat /\ lineNumber \in 1..Len(file) + 3
    <3>1. Len(file) \in Nat
      BY <2>1, FileAssumption DEF PlaceInv
    <3>2. lineNumber \in Nat /\ lineNumber # 0 /\ lineNumber <= Len(file) + 3
      BY <2>1 DEF PlaceInv
    <3> QED BY <3>1, <3>2
  <2>3. contextType \in DOMAIN Allowed
    BY <2>1 DEF PlaceInv, Allowed
  <2>4. SessionShape(session)
    BY DEF SiteInv
  <2> QED BY <2>1, <2>2, <2>3, <2>4 DEF TypeOK, SiteInv, PlaceInv, SessionShape
<1> QED BY <1>1, <1>2, <1>3, Invariance, PTL DEF Spec

(* A file changes only where a location allows the method of the request. *)
THEOREM LimitExceptIsKept == Spec => LimitExceptHolds
<1>1. SiteInv /\ [Next]_vars => [ChangesAsAllowed]_vars
  <2> SUFFICES ASSUME SiteInv, Next PROVE ChangesAsAllowed
    OBVIOUS
  <2>1. CASE Loaded \/ Continued
    BY <2>1 DEF Loaded, Continued, ChangesAsAllowed, Changed
  <2>2. ASSUME NEW r, NEW n, Handled(r, n) PROVE ChangesAsAllowed
    <3> DEFINE server == GetServerContext(servers, r.port, r.host)
               done == ProcessRequest(server, r.method, r.url, r.body)
    <3>1. request' = r /\ (disk' = disk \/ disk' = done.disk)
      BY <2>2, HandledSteps
    <3>2. IsServer(server)
      BY <2>2, ServerIsServer DEF Handled, SiteInv, ParserInv
    <3>3. ASSUME NEW dir \in Changed
          PROVE  \E i \in DOMAIN server.locations :
                   /\ HasDirective(server.locations[i], "alias")
                   /\ Alias(server.locations[i]) = dir
                   /\ IsAllowedMethod(server.locations[i], r.method)
      <4>1. /\ dir \in DOMAIN disk /\ disk' = done.disk
            /\ dir \notin DOMAIN done.disk \/ done.disk[dir] # disk[dir]
        BY <3>1, <3>3 DEF Changed
      <4> QED BY <3>2, <4>1, RequestChangesAsAllowed
    <3> QED BY <3>1, <3>3 DEF ChangesAsAllowed
  <2> QED BY <2>1, <2>2, Steps
<1> QED BY <1>1, Invariance, PTL DEF Spec, LimitExceptHolds


-----------------------------------------------------------------------------
(* Which requests are for scripts *)

(* The directory of a url starts with the first piece of its path. *)
LEMMA DirectoryStarts ==
  ASSUME NEW segs \in Seq(STRING), segs # <<>>
  PROVE  Directory(segs).segs[1] = segs[1]
<1> DEFINE S == { i \in 2..Len(segs) : segs[i] \in Dotted } \cup {Len(segs) + 1}
<1>1. Len(segs) \in Nat /\ Len(segs) >= 1
  BY LenProperties, EmptySeq
<1>2. S \in SUBSET Nat /\ S # {} /\ \A i \in S : 2 <= i /\ i <= Len(segs) + 1
  BY <1>1
<1>3. Min(S) \in S
  BY <1>2, MinIsMember
<1>4. DirectoryLength(segs) = Min(S) - 1
  BY DEF DirectoryLength
<1> HIDE DEF S
<1>5. DirectoryLength(segs) \in 1..Len(segs)
  <2>1. ASSUME NEW m \in S PROVE m - 1 \in 1..Len(segs)
    <3>1. m \in Nat /\ 2 <= m /\ m <= Len(segs) + 1
      BY <1>2
    <3> QED BY <1>1, <3>1
  <2> QED BY <1>3, <1>4, <2>1
<1>6. SubSeq(segs, 1, DirectoryLength(segs))[1] = segs[1]
  BY <1>1, <1>5, SubSeqProperties
<1> QED BY <1>6 DEF Directory, Dir

(* What an element in front of a sequence does to it. *)
LEMMA PrependFacts ==
  ASSUME NEW S, NEW e \in S, NEW s \in Seq(S), Len(s) >= 1
  PROVE  /\ Len(<<e>> \o s) > 1 /\ (<<e>> \o s)[1] = e /\ (<<e>> \o s)[2] = s[1]
         /\ e \in Range(<<e>>)
<1>1. Len(s) \in Nat
  BY LenProperties
<1>2. <<e>> \in [1..1 -> S] /\ Len(<<e>>) = 1 /\ <<e>>[1] = e
  OBVIOUS
<1>3. <<e>> \in Seq(S)
  BY <1>2, SeqDef
<1>4. /\ Len(<<e>> \o s) = 1 + Len(s)
      /\ \A i \in 1..1 + Len(s) :
           (<<e>> \o s)[i] = IF i <= 1 THEN <<e>>[i] ELSE s[i - 1]
  BY <1>2, <1>3, ConcatProperties
<1>5. (<<e>> \o s)[1] = e /\ (<<e>> \o s)[2] = s[1]
  BY <1>1, <1>2, <1>4
<1>6. e \in Range(<<e>>)
  BY <1>2 DEF Range
<1> QED BY <1>1, <1>4, <1>5, <1>6

(* The tokens RequestParser looks at start with an empty one, which no location
   is named by; so the first piece of the path counts. *)
LEMMA FirstPieceCounts ==
  ASSUME NEW server, IsServer(server), NEW segs \in Seq(STRING), segs # <<>>
  PROVE  IsCgiDir(server, <<"">> \o segs) <=> IsCgiOn(server, segs[1])
<1> DEFINE tokens == <<"">> \o segs
<1>1. Len(segs) \in Nat /\ Len(segs) >= 1
  BY LenProperties, EmptySeq
<1>2. Len(tokens) > 1 /\ tokens[1] = "" /\ tokens[2] = segs[1] /\ "" \in Range(<<"">>)
  <2> DEFINE S == STRING \cup {""}
  <2>1. segs \in Seq(S)
    <3>1. segs \in [1..Len(segs) -> STRING] /\ DOMAIN segs = 1..Len(segs)
      BY SequenceFacts, LenProperties
    <3>2. segs \in [1..Len(segs) -> S]
      <4> SUFFICES ASSUME NEW i \in 1..Len(segs) PROVE segs[i] \in S
        BY <3>1, Zenon
      <4> QED BY <3>1
    <3> HIDE DEF S
    <3> QED BY <1>1, <3>2, SeqDef
  <2>2. "" \in S
    OBVIOUS
  <2> HIDE DEF S
  <2> QED BY <1>1, <2>1, <2>2, PrependFacts, Zenon
<1>4. ~HasLocation(server, Dir(<<"">>))
  <2> DEFINE path == Dir(<<"">>)
  <2> SUFFICES ASSUME HasLocation(server, path) PROVE FALSE
    OBVIOUS
  <2>1. path.segs = <<"">>
    BY DEF Dir
  <2> HIDE DEF path
  <2>2. PICK i \in DOMAIN server.locations : server.locations[i].directives["path"] = path
    BY LocationFound
  <2>3. "" \notin Range(server.locations[i].directives["path"].segs)
    <3>1. IsLocation(server.locations[i])
      BY LocationOfServer
    <3> QED BY <3>1, Zenon DEF IsLocation, IsPath
  <2> QED BY <1>2, <2>1, <2>2, <2>3, Zenon
<1> HIDE DEF tokens
<1>5. IsCgiDir(server, tokens) <=> IsCgiOn(server, segs[1])
  BY <1>2, <1>4 DEF IsCgiDir
<1> QED BY <1>5 DEF tokens

(* No file is served from the locations of scripts. *)
THEOREM ScriptsAreOnlyRun == Spec => []ScriptsAreRun
<1>1. Init => ScriptsAreRun
  BY DEF Init, NoAnswer, ScriptsAreRun
<1>2. SiteInv /\ ScriptsAreRun /\ [Next]_vars => ScriptsAreRun'
  <2> SUFFICES ASSUME SiteInv, ScriptsAreRun, [Next]_vars PROVE ScriptsAreRun'
    OBVIOUS
  <2>1. CASE UNCHANGED <<servers, request, answer>>
    BY <2>1 DEF ScriptsAreRun, Server
  <2>2. CASE UNCHANGED vars
    BY <2>1, <2>2 DEF vars, parserVars, config
  <2>3. CASE Loaded
    <3>1. answer' = NoAnswer
      BY <2>3 DEF Loaded, SiteInv
    <3> QED BY <3>1 DEF ScriptsAreRun, NoAnswer
  <2>4. CASE Continued
    <3>1. UNCHANGED <<servers, request>> /\ (answer' = answer \/ "data" \notin DOMAIN answer')
      BY <2>4, NoAnswerSaysNothing DEF Continued, ConfigKept, config, SaysNothing
    <3>2. CASE "data" \notin DOMAIN answer'
      BY <3>2 DEF ScriptsAreRun
    <3> QED BY <2>1, <3>1, <3>2
  <2>5. ASSUME NEW r, NEW n, Handled(r, n) PROVE ScriptsAreRun'
    <3> DEFINE server == GetServerContext(servers, r.port, r.host)
    <3>1. request' = r /\ servers' = servers /\ IsRequest(r)
      BY <2>5, HandledSteps DEF Handled, ConfigKept, config
    <3>2. "data" \notin DOMAIN answer' \/ ~IsCgi(server, r.url.segs)
      BY <2>5, HandledSteps, NoAnswerSaysNothing DEF SaysNothing
    <3>3. ASSUME "data" \in DOMAIN answer', r.url.segs # <<>>
          PROVE  ~IsCgiOn(server, Directory(r.url.segs).segs[1])
      <4>1. IsServer(server)
        BY <2>5, ServerIsServer DEF Handled, SiteInv, ParserInv
      <4>2. r.url.segs \in Seq(STRING)
        BY <3>1 DEF IsRequest
      <4> QED BY <3>2, <3>3, <4>1, <4>2, FirstPieceCounts, DirectoryStarts DEF IsCgi
    <3> QED BY <3>1, <3>3 DEF ScriptsAreRun, Server
  <2> QED BY <2>2, <2>3, <2>4, <2>5, Steps
<1> QED BY <1>1, <1>2, Invariance, PTL DEF Spec

(* In a complete configuration every plan for a script is one to follow, unless
   the query is empty. *)
LEMMA CompletePlans ==
  ASSUME NEW server, IsServer(server), IsComplete(server),
         NEW url, url.query # "empty",
         NEW segs \in Seq(STRING), url.segs = segs, IsCgi(server, segs),
         NEW method, NEW plan \in Plans(server, method, url)
  PROVE  plan.status # 0
<1> DEFINE directory == Dir(<<segs[1]>>)
           location == GetLocationContext(server, directory)
<1>1. segs # <<>> /\ Len(segs) \in Nat /\ Len(segs) >= 1
  <2>1. segs # <<>>
    BY DEF IsCgi
  <2> QED BY <2>1, LenProperties, EmptySeq
<1>2. IsCgiOn(server, segs[1])
  <2>1. ~IsCgiBlockPath(server, segs)
    BY DEF IsComplete, IsCgiBlockPath, IsScriptName
  <2> QED BY <1>1, <2>1, FirstPieceCounts DEF IsCgi
<1>3. HasLocation(server, directory) /\ HasDirective(location, "cgi_on")
  BY <1>2 DEF IsCgiOn
<1>4. HasDirective(location, "alias") /\ Range(directory.segs) \cap Dotted = {}
  <2>1. PICK i \in DOMAIN server.locations :
          location = server.locations[i] /\ location.directives["path"] = directory
    BY <1>3, LocationFound
  <2> QED BY <1>3, <2>1 DEF IsComplete
<1>5. segs[1] \notin Dotted
  BY <1>4 DEF Range, Dir
<1>6. plan = GetCgiPath(server, method, segs)
  BY <1>2, <1>3 DEF Plans, IsCgiDir, ReadsBeyond
<1> HIDE DEF location, directory
<1>7. Len(segs) = 1 => { i \in DOMAIN segs : segs[i] \in Dotted } = {}
  <2>1. DOMAIN segs = 1..Len(segs)
    BY SequenceFacts
  <2> QED BY <1>5, <2>1
<1>8. GetCgiPath(server, method, segs).status # 0
  BY <1>3, <1>4, <1>7 DEF GetCgiPath, Plan, Failed, location, directory
<1> QED BY <1>6, <1>8

(* Requests to a server whose configuration is complete do not end it: only an
   empty query does, asked for or redirected to, and what a script prints. *)
THEOREM ServerSurvivesRequests == Spec => []SurvivesRequests
<1>1. Init => SurvivesRequests
  BY DEF Init, ParserInit, SurvivesRequests
<1>2. SiteInv /\ SurvivesRequests /\ [Next]_vars => SurvivesRequests'
  <2> SUFFICES ASSUME SiteInv, SurvivesRequests, [Next]_vars PROVE SurvivesRequests'
    OBVIOUS
  <2>1. CASE UNCHANGED vars
    BY <2>1 DEF vars, parserVars, config, SurvivesRequests
  <2>2. CASE Loaded
    BY <2>2, LoadsBefore DEF Loaded, SurvivesRequests
  <2>3. CASE Continued
    BY <2>3 DEF Continued, SurvivesRequests
  <2>4. ASSUME NEW r, NEW n, Handled(r, n) PROVE SurvivesRequests'
    <3> DEFINE server == GetServerContext(servers, r.port, r.host)
               done == ProcessRequest(server, r.method, r.url, r.body)
    <3>1. servers' = servers /\ outcome = "up" /\ IsRequest(r) /\ ExecParseRequest(r, n)
      BY <2>4 DEF Handled, ConfigKept, config
    <3>2. SUFFICES ASSUME \A pair \in DOMAIN servers : IsComplete(servers[pair]),
                          r.url.query # "empty"
                   PROVE  outcome' = "up"
      BY <3>1 DEF SurvivesRequests, ExecParseRequest
    <3>3. IsServer(server) /\ IsComplete(server)
      BY <2>4, <3>2, ServerIsServer, ServerIsDeclared DEF Handled, SiteInv, ParserInv
    <3>4. CASE Reply(Error(413))
      BY <3>1, <3>4 DEF Reply
    <3>5. ASSUME IsCgi(server, r.url.segs), NEW plan \in Plans(server, r.method, r.url),
                 StartSession(plan, r, n)
          PROVE  outcome' = "up"
      <4>1. plan.status # 0
        BY <3>1, <3>2, <3>3, <3>5, CompletePlans DEF IsRequest
      <4> QED BY <3>1, <3>5, <4>1 DEF StartSession
    <3>6. CASE ExecCoreHandler(server, r)
      <4>1. done.answer.status # 0
        BY <3>2, <3>3, CompleteAnswers
      <4> QED BY <3>1, <3>6, <4>1 DEF ExecCoreHandler
    <3> QED BY <3>1, <3>4, <3>5, <3>6 DEF ExecParseRequest
  <2> QED BY <2>1, <2>2, <2>3, <2>4, Steps
<1> QED BY <1>1, <1>2, Invariance, PTL DEF Spec

-----------------------------------------------------------------------------
(* The files as a store *)

(* What parseUrl answers by itself never says that a file was stored. *)
LEMMA ParseUrlStatuses ==
  ASSUME NEW server, NEW url
  PROVE  ParseUrl(server, url).status \in {0, 200, 302, 403, 404}
<1> USE DEF Found, Failed, Throws
<1>1. ParseHomeDirectory(server, url.query).status \in {0, 200, 403, 404}
  BY DEF ParseHomeDirectory
<1>2. ParseFileOfHome(server, url.segs).status \in {0, 200, 404}
  BY DEF ParseFileOfHome
<1>3. ASSUME NEW location PROVE GetFile(location, url.segs).status \in {200, 403, 404}
  BY DEF GetFile
<1> QED BY <1>1, <1>2, <1>3 DEF ParseUrl

(* An upload gets a name that no file of its directory has. *)
LEMMA UploadIsNew ==
  ASSUME NEW dir \in DOMAIN disk, NamesAreLeft
  PROVE  Uploaded[Min(FreeUploads(dir))] \notin DOMAIN disk[dir]
<1>1. FreeUploads(dir) # {} /\ FreeUploads(dir) \subseteq Nat
  <2>1. DOMAIN Uploaded \subseteq Nat
    BY UploadedAssumption, SequenceFacts
  <2> QED BY <2>1 DEF NamesAreLeft, FreeUploads
<1>2. Min(FreeUploads(dir)) \in FreeUploads(dir)
  BY <1>1, MinIsMember
<1> QED BY <1>2 DEF FreeUploads, FileExists, DirExists

(* What a request may do to the files, which become d, with its answer a. *)
Created(a, d) ==
  /\ a.status = 201
  /\ \E dir \in DOMAIN disk : \E name, data :
       /\ name \notin DOMAIN disk[dir]
       /\ d = [disk EXCEPT ![dir] = Stored(disk[dir], name, data)]
Removed(a, d) ==
  /\ a.status = 204
  /\ \E dir \in DOMAIN disk : \E name \in DOMAIN disk[dir] :
       d = [disk EXCEPT ![dir] = Restrict(disk[dir], DOMAIN disk[dir] \ {name})]
DirectoryRemoved(a, d) ==
  /\ a.status = 204
  /\ \E dir \in DOMAIN disk : disk[dir] = <<>> /\ d = Restrict(disk, DOMAIN disk \ {dir})
Stores(a, d) ==
  /\ "document" \notin DOMAIN a
  /\ \/ Created(a, d) \/ Removed(a, d) \/ DirectoryRemoved(a, d)
     \/ a.status \notin {201, 204} /\ d = disk

(* An error is answered, and nothing is changed. *)
LEMMA ErrorStores ==
  ASSUME NEW status, status \notin {201, 204}
  PROVE  Stores(Unchanged(Error(status)).answer, Unchanged(Error(status)).disk)
BY DEF Stores, Unchanged, Error

(* processPostData creates one file or does nothing. *)
LEMMA PostStores ==
  ASSUME NEW server, NEW directory, NEW body, NamesAreLeft
  PROVE  Stores(PostMethod(server, directory, body).answer, PostMethod(server, directory, body).disk)
<1> DEFINE dir == GetServerPath(server, directory)
           name == Uploaded[Min(FreeUploads(dir))]
           data == FileData(body)
           done == PostMethod(server, directory, body)
           a == [status |-> 201, location |-> Append(directory.segs, name)]
           d == [disk EXCEPT ![dir] = Stored(disk[dir], name, data)]
<1>1. CASE ~DirExists(dir) \/ dir \in ReadOnly
  <2>1. done = Unchanged(Error(404)) \/ done = Unchanged(Error(500))
    BY <1>1 DEF PostMethod
  <2> QED BY <2>1, ErrorStores
<1>2. CASE DirExists(dir) /\ dir \notin ReadOnly
  <2>1. done.answer = a /\ done.disk = d
    BY <1>2 DEF PostMethod
  <2>2. dir \in DOMAIN disk /\ name \notin DOMAIN disk[dir]
    BY <1>2, UploadIsNew DEF DirExists
  <2>3. a.status = 201 /\ "document" \notin DOMAIN a
    OBVIOUS
  <2> HIDE DEF a, dir, name, data
  <2>4. Created(a, d)
    BY <2>2, <2>3 DEF Created
  <2> HIDE DEF d
  <2> QED BY <2>1, <2>3, <2>4 DEF Stores
<1> QED BY <1>1, <1>2

(* deleteMethod removes one file, one empty directory, or nothing. *)
LEMMA DeleteStores ==
  ASSUME NEW result
  PROVE  Stores(DeleteMethod(result).answer, DeleteMethod(result).disk)
<1> DEFINE done == DeleteMethod(result)
           dir == result.dir
           name == result.name
           a == [status |-> 204]
           fewer == [disk EXCEPT ![dir] = Restrict(disk[dir], DOMAIN disk[dir] \ {name})]
           without == Restrict(disk, DOMAIN disk \ {dir})
<1>0. a.status = 204 /\ "document" \notin DOMAIN a
  OBVIOUS
<1>1. CASE done = Unchanged(Error(404))
  BY <1>1, ErrorStores
<1>2. CASE FileExists(dir, name) /\ done = [answer |-> a, disk |-> fewer]
  <2>1. dir \in DOMAIN disk /\ name \in DOMAIN disk[dir]
    BY <1>2 DEF FileExists, DirExists
  <2>2. done.answer = a /\ done.disk = fewer
    BY <1>2
  <2> HIDE DEF a, dir, name
  <2>3. Removed(a, fewer)
    <3>1. \E n \in DOMAIN disk[dir] :
            fewer = [disk EXCEPT ![dir] = Restrict(disk[dir], DOMAIN disk[dir] \ {n})]
      BY <2>1, Zenon
    <3> HIDE DEF fewer
    <3> QED BY <1>0, <2>1, <3>1 DEF Removed
  <2> HIDE DEF fewer
  <2> QED BY <1>0, <2>2, <2>3 DEF Stores
<1>3. CASE DirExists(dir) /\ disk[dir] = <<>> /\ done = [answer |-> a, disk |-> without]
  <2>1. done.answer = a /\ done.disk = without
    BY <1>3
  <2> HIDE DEF a, dir
  <2>2. DirectoryRemoved(a, without)
    BY <1>0, <1>3 DEF DirectoryRemoved, DirExists
  <2> HIDE DEF without
  <2> QED BY <1>0, <2>1, <2>2 DEF Stores
<1> QED BY ZenonT(60), <1>1, <1>2, <1>3 DEF DeleteMethod

(* The same of every request. *)
LEMMA RequestStores ==
  ASSUME NEW server, NEW method, NEW url, NEW body, NamesAreLeft
  PROVE  Stores(ProcessRequest(server, method, url, body).answer,
                ProcessRequest(server, method, url, body).disk)
<1> DEFINE result == ParseUrl(server, url)
           location == GetLocationContext(server, result.directory)
           done == ProcessRequest(server, method, url, body)
<1>1. CASE result.status # 200
  <2>1. done.answer = result /\ done.disk = disk
    BY <1>1 DEF ProcessRequest, Unchanged
  <2>2. "document" \notin DOMAIN result
    BY DEF ParseUrl, ParseHomeDirectory, ParseFileOfHome, GetFile, Found, Failed, Throws
  <2>3. result.status \notin {201, 204}
    BY ParseUrlStatuses
  <2> HIDE DEF result
  <2> QED BY <2>1, <2>2, <2>3 DEF Stores
<1>2. CASE done = Unchanged(Error(405))
  BY <1>2, ErrorStores
<1>3. CASE done = Unchanged(GetMethod(server, location, result))
  <2> DEFINE a == GetMethod(server, location, result)
  <2>1. a.status \in {200, 404} /\ "document" \notin DOMAIN a
    BY DEF GetMethod, Error
  <2>2. done.answer = a /\ done.disk = disk
    BY <1>3 DEF Unchanged
  <2> HIDE DEF a
  <2> QED BY <2>1, <2>2 DEF Stores
<1>4. CASE done = PostMethod(server, result.directory, body)
  BY <1>4, PostStores
<1>5. CASE done = DeleteMethod(result)
  BY <1>5, DeleteStores
<1> HIDE DEF result, location
<1> QED BY <1>1, <1>2, <1>3, <1>4, <1>5 DEF ProcessRequest, result, location

(* Such a change is a step of the store. *)
LEMMA StoresIsStep == Stores(answer', disk') => Store!Next
<1> SUFFICES ASSUME Stores(answer', disk') PROVE Store!Next
  OBVIOUS
<1>1. "document" \notin DOMAIN answer'
  BY DEF Stores
<1>2. CASE Created(answer', disk')
  <2>1. PICK dir \in DOMAIN disk : \E name, data :
          /\ name \notin DOMAIN disk[dir]
          /\ disk' = [disk EXCEPT ![dir] = Stored(disk[dir], name, data)]
    BY <1>2 DEF Created
  <2>2. PICK name, data :
          /\ name \notin DOMAIN disk[dir]
          /\ disk' = [disk EXCEPT ![dir] = Stored(disk[dir], name, data)]
    BY <2>1
  <2>3. disk'[dir] = Stored(disk[dir], name, data)
    BY <2>2
  <2>4. name \in DOMAIN disk'[dir] \ DOMAIN disk[dir] /\ disk'[dir][name] = data
    BY <2>2, <2>3 DEF Stored
  <2>5. Stored(disk[dir], name, data) = Store!With(disk[dir], name, disk'[dir][name])
    BY <2>4 DEF Stored, Store!With
  <2>6. disk' = [disk EXCEPT ![dir] = Store!With(disk[dir], name, disk'[dir][name])]
    BY <2>2, <2>5
  <2>7. answer'.status = 201
    BY <1>2 DEF Created
  <2> QED BY <1>1, <2>4, <2>6, <2>7 DEF Store!Next, Store!Create
<1>3. CASE Removed(answer', disk')
  <2>0. PICK dir \in DOMAIN disk : \E name \in DOMAIN disk[dir] :
          disk' = [disk EXCEPT ![dir] = Restrict(disk[dir], DOMAIN disk[dir] \ {name})]
    BY <1>3 DEF Removed
  <2>1. PICK name \in DOMAIN disk[dir] :
          disk' = [disk EXCEPT ![dir] = Restrict(disk[dir], DOMAIN disk[dir] \ {name})]
    BY <2>0
  <2>2. Restrict(disk[dir], DOMAIN disk[dir] \ {name})
          = Store!Restrict(disk[dir], DOMAIN disk[dir] \ {name})
    BY DEF Restrict, Store!Restrict
  <2>3. disk' = [disk EXCEPT ![dir] = Store!Restrict(disk[dir], DOMAIN disk[dir] \ {name})]
    BY <2>1, <2>2
  <2>4. answer'.status = 204
    BY <1>3 DEF Removed
  <2> QED BY <1>1, <2>1, <2>3, <2>4 DEF Store!Next, Store!Remove
<1>4. CASE DirectoryRemoved(answer', disk')
  BY <1>1, <1>4
  DEF DirectoryRemoved, Store!Next, Store!RemoveDirectory, Restrict, Store!Restrict
<1>5. CASE answer'.status \notin {201, 204} /\ disk' = disk
  BY <1>1, <1>5 DEF Store!Next, Store!Otherwise
<1> QED BY <1>2, <1>3, <1>4, <1>5 DEF Stores

(* CoreHandler implements the store: an answer 201 created one file under a new
   name, an answer 204 removed one file or one empty directory, and nothing else
   touches the disk, whatever the configuration, the requests and the scripts. *)
THEOREM FilesAreStored == Spec => StoresFiles
<1> DEFINE status == IF "document" \in DOMAIN answer THEN 0 ELSE answer.status
<1>1. Init => Store!Init
  BY DEF Init, NoAnswer, Store!Init
<1>2. SiteInv /\ [Next]_vars => [Store!Next]_<<disk, status>>
  <2> SUFFICES ASSUME SiteInv, [Next]_vars PROVE Store!Next \/ UNCHANGED <<disk, answer>>
    OBVIOUS
  <2>0. SaysNothing(answer') /\ disk' = disk => Store!Next
    BY DEF SaysNothing, Store!Next, Store!Otherwise
  <2>1. CASE UNCHANGED vars
    BY <2>1 DEF vars
  <2>2. CASE Loaded
    BY <2>2 DEF Loaded
  <2>4. CASE Continued
    BY <2>0, <2>4, NoAnswerSaysNothing DEF Continued
  <2>5. ASSUME NEW r, NEW n, Handled(r, n) PROVE Store!Next
    <3> DEFINE server == GetServerContext(servers, r.port, r.host)
               done == ProcessRequest(server, r.method, r.url, r.body)
    <3>1. CASE SaysNothing(answer') /\ disk' = disk
      BY <2>0, <3>1
    <3>2. CASE NamesAreLeft /\ answer' = done.answer /\ disk' = done.disk
      <4>1. Stores(done.answer, done.disk)
        BY <3>2, RequestStores
      <4> HIDE DEF done
      <4> QED BY <3>2, <4>1, StoresIsStep
    <3> QED BY <2>5, <3>1, <3>2, HandledSteps, NoAnswerSaysNothing
  <2> QED BY <2>1, <2>2, <2>4, <2>5, Steps
<1> QED BY <1>1, <1>2, Invariance, PTL DEF Spec, StoresFiles, Store!Spec

-----------------------------------------------------------------------------
(* What was posted or listed is served *)

PlainNames(segs) == IsSequence(segs) /\ Range(segs) \cap Dotted = {}

(* Where the directory of a url ends. *)
LEMMA DirectoryLengthFacts ==
  ASSUME NEW segs, IsSequence(segs), segs # <<>>
  PROVE  /\ DirectoryLength(segs) \in 1..Len(segs)
         /\ \A i \in 2..DirectoryLength(segs) : segs[i] \notin Dotted
         /\ DirectoryLength(segs) < Len(segs) => segs[DirectoryLength(segs) + 1] \in Dotted
<1> DEFINE S == { i \in 2..Len(segs) : segs[i] \in Dotted } \cup {Len(segs) + 1}
<1>1. Len(segs) \in Nat /\ Len(segs) >= 1
  BY LenProperties, EmptySeq DEF IsSequence
<1>2. S \in SUBSET Nat /\ S # {} /\ \A i \in S : 2 <= i /\ i <= Len(segs) + 1
  BY <1>1
<1>3. Min(S) \in S /\ \A i \in S : Min(S) <= i
  BY <1>2, MinIsMember
<1>4. DirectoryLength(segs) = Min(S) - 1
  BY DEF DirectoryLength
<1>5. \A i \in 2..Len(segs) : segs[i] \in Dotted => i \in S
  OBVIOUS
<1>6. \A i \in S : i = Len(segs) + 1 \/ segs[i] \in Dotted
  OBVIOUS
<1> HIDE DEF S
<1>7. PICK m \in S : m = Min(S)
  BY <1>3
<1>8. m \in Nat /\ 2 <= m /\ m <= Len(segs) + 1 /\ DirectoryLength(segs) = m - 1
  BY <1>2, <1>4, <1>7
<1>9. ASSUME NEW i \in 2..m - 1 PROVE segs[i] \notin Dotted
  <2>1. i \in Nat /\ i \in 2..Len(segs) /\ ~ (m <= i)
    BY <1>1, <1>8
  <2> QED BY <1>3, <1>5, <1>7, <2>1
<1>10. m - 1 < Len(segs) => segs[m] \in Dotted
  BY <1>1, <1>6, <1>8
<1>11. m - 1 \in 1..Len(segs) /\ m - 1 + 1 = m
  BY <1>1, <1>8
<1> QED BY <1>8, <1>9, <1>10, <1>11

(* The directory of a url that starts with none holds no file. *)
LEMMA DirectoryIsPlain ==
  ASSUME NEW segs, IsSequence(segs), segs # <<>>, segs[1] \notin Dotted
  PROVE  /\ PlainNames(Directory(segs).segs)
         /\ Directory(segs) = Dir(Directory(segs).segs) /\ Directory(segs).segs # <<>>
<1> DEFINE k == DirectoryLength(segs)
           names == SubSeq(segs, 1, k)
<1>1. Len(segs) \in Nat /\ DOMAIN segs = 1..Len(segs)
  BY LenProperties DEF IsSequence
<1>2. k \in 1..Len(segs) /\ \A i \in 2..k : segs[i] \notin Dotted
  BY DirectoryLengthFacts
<1>3. k \in Nat /\ 1 <= k /\ \A i \in 1..k : i \in DOMAIN segs
  BY <1>1, <1>2
<1>4. \A i \in 1..k : segs[i] \in Range(segs)
  BY <1>3 DEF Range
<1> HIDE DEF k
<1>5. /\ names \in Seq(Range(segs)) /\ Len(names) = k
      /\ \A i \in 1..k : names[i] = segs[i]
  BY <1>3, <1>4, SubSeqProperties
<1> HIDE DEF names
<1>6. IsSequence(names) /\ DOMAIN names = 1..k
  BY <1>5, SequenceFacts
<1>7. ASSUME NEW i \in DOMAIN names PROVE names[i] \notin Dotted
  <2>1. i = 1 \/ i \in 2..k
    BY <1>3, <1>6
  <2> QED BY <1>2, <1>5, <1>6, <2>1
<1>8. Range(names) \cap Dotted = {}
  BY <1>7 DEF Range
<1>9. names # <<>>
  BY <1>3, <1>5, EmptySeq
<1>10. Directory(segs) = Dir(names)
  BY DEF Directory, names, k
<1> QED BY <1>6, <1>8, <1>9, <1>10 DEF PlainNames, Dir

(* The url of a file directly in a directory leads to that directory. *)
LEMMA LinkDirectory ==
  ASSUME NEW segs, PlainNames(segs), segs # <<>>, NEW name \in Dotted
  PROVE  LET link == Append(segs, name)
         IN /\ link # <<>> /\ link[1] \notin Dotted /\ Last(link) = name
            /\ Directory(link) = Dir(segs)
<1> DEFINE link == Append(segs, name)
           n == Len(segs)
<1>1. n \in Nat /\ n >= 1 /\ DOMAIN segs = 1..n /\ segs \in Seq(Range(segs))
  BY LenProperties, EmptySeq DEF PlainNames, IsSequence
<1>2. \A i \in 1..n : segs[i] \notin Dotted
  BY <1>1 DEF PlainNames, Range
<1>3. /\ IsSequence(link) /\ DOMAIN link = 1..n + 1
      /\ \A i \in 1..n : link[i] = segs[i]
      /\ link[n + 1] = name
  BY <1>1, AppendFacts DEF PlainNames
<1> HIDE DEF link
<1>4. Len(link) = n + 1
  <2>1. Len(link) \in Nat /\ DOMAIN link = 1..Len(link)
    BY <1>3, LenProperties DEF IsSequence
  <2> QED BY <1>1, <1>3, <2>1
<1>5. link # <<>> /\ link[1] \notin Dotted /\ Last(link) = name
  <2>1. link # <<>>
    BY <1>1, <1>4, EmptySeq
  <2> QED BY <1>1, <1>2, <1>3, <1>4, <2>1 DEF Last
<1>6. DirectoryLength(link) = n
  <2>1. /\ DirectoryLength(link) \in 1..n + 1
        /\ \A i \in 2..DirectoryLength(link) : link[i] \notin Dotted
        /\ DirectoryLength(link) < n + 1 => link[DirectoryLength(link) + 1] \in Dotted
    BY <1>3, <1>4, <1>5, DirectoryLengthFacts
  <2>2. DirectoryLength(link) # n + 1
    <3>1. n + 1 \in 2..n + 1
      BY <1>1
    <3> QED BY <1>3, <2>1, <3>1
  <2>3. DirectoryLength(link) \in 1..n
    BY <1>1, <2>1, <2>2
  <2>4. ASSUME DirectoryLength(link) < n PROVE FALSE
    <3>1. DirectoryLength(link) + 1 \in 1..n
      BY <1>1, <2>3, <2>4
    <3> QED BY <1>1, <1>2, <1>3, <2>1, <2>4, <3>1
  <2> QED BY <1>1, <2>3, <2>4
<1>7. SubSeq(link, 1, n) = segs
  <2>1. \A i \in 1..n : link[i] \in Range(segs)
    BY <1>1, <1>3 DEF Range
  <2>2. /\ SubSeq(link, 1, n) \in Seq(Range(segs)) /\ Len(SubSeq(link, 1, n)) = n
        /\ \A i \in 1..n : SubSeq(link, 1, n)[i] = segs[i]
    BY <1>1, <1>3, <2>1, SubSeqProperties
  <2> QED BY <1>1, <2>2, SeqEqual
<1> QED BY <1>5, <1>6, <1>7 DEF Directory, link

(* A directory requests find files in. *)
IsFound(server, directory) ==
  /\ directory = Dir(directory.segs) /\ PlainNames(directory.segs)
  /\ HasLocation(server, directory)
  /\ HasDirective(GetLocationContext(server, directory), "alias")

(* The url of a file in such a directory leads to it, or the location returns. *)
LEMMA LinkIsParsed ==
  ASSUME NEW server, IsServer(server),
         NEW directory, IsFound(server, directory), NEW name \in Dotted
  PROVE  LET location == GetLocationContext(server, directory)
             result == ParseUrl(server, [segs |-> Append(directory.segs, name), query |-> "none"])
         IN \/ result.status = 302 /\ HasDirective(location, "return") /\ directory # Home
            \/ /\ result.status = 200 /\ result.directory = directory
               /\ result.dir = Alias(location) /\ result.name = name
<1> DEFINE location == GetLocationContext(server, directory)
           link == Append(directory.segs, name)
           url == [segs |-> link, query |-> "none"]
<1>1. url.segs = link /\ url.query = "none"
  OBVIOUS
<1>2. CASE directory.segs = <<>>
  <2>1. directory = Home
    BY <1>2 DEF IsFound, Home
  <2>2. link = <<name>> /\ link # <<>> /\ link[1] = name
    BY <1>2
  <2>3. DirectoryLength(link) = 1
    <3>1. IsSequence(link) /\ Len(link) = 1
      <4>1. IsSequence(link) /\ DOMAIN link = 1..1
        <5>1. IsSequence(directory.segs) /\ Len(directory.segs) = 0
          BY <1>2 DEF IsFound, PlainNames
        <5> QED BY <5>1, AppendFacts
      <4> QED BY <2>2, <4>1
    <3> HIDE DEF link
    <3>2. DirectoryLength(link) \in 1..1
      BY <2>2, <3>1, DirectoryLengthFacts
    <3> QED BY <3>2
  <2> HIDE DEF link
  <2>4. ParseUrl(server, url) = ParseFileOfHome(server, link)
    BY <2>2 DEF ParseUrl
  <2>5. HasLocation(server, Home) /\ HasDirective(GetLocationContext(server, Home), "alias")
    BY <2>1 DEF IsFound
  <2>6. LET found == ParseFileOfHome(server, link)
        IN /\ found.status = 200 /\ found.directory = Home
           /\ found.dir = Alias(GetLocationContext(server, Home)) /\ found.name = name
    BY <2>2, <2>3, <2>5 DEF ParseFileOfHome, Found
  <2> QED BY <2>1, <2>4, <2>6 DEF link
<1>3. CASE directory.segs # <<>>
  <2>1. /\ link # <<>> /\ link[1] \notin Dotted /\ Last(link) = name
        /\ Directory(link) = directory
    BY <1>3, LinkDirectory DEF IsFound
  <2>2. HasLocation(server, directory) /\ directory # Home
    BY <1>3 DEF IsFound, Home, Dir
  <2> HIDE DEF link, location
  <2>3. CASE HasDirective(location, "return")
    <3>1. ParseUrl(server, url).status = 302
      BY <2>1, <2>2, <2>3 DEF ParseUrl, location
    <3> QED BY <2>2, <2>3, <3>1 DEF location, link
  <2>4. CASE ~HasDirective(location, "return")
    <3>1. ParseUrl(server, url) = GetFile(location, link)
      BY <2>1, <2>2, <2>4 DEF ParseUrl, location
    <3>2. /\ GetFile(location, link).status = 200
          /\ GetFile(location, link).directory = location.directives["path"]
          /\ GetFile(location, link).dir = Alias(location)
          /\ GetFile(location, link).name = name
      BY <2>1 DEF GetFile, Found
    <3>3. location.directives["path"] = directory
      BY <2>2, LocationFound DEF location
    <3> QED BY <3>1, <3>2, <3>3 DEF location, link
  <2> QED BY <2>3, <2>4
<1> QED BY <1>2, <1>3

(* GET of such a url answers with the file. *)
LEMMA LinkIsServed ==
  ASSUME NEW server, IsServer(server),
         NEW directory, IsFound(server, directory), NEW name \in Dotted,
         FileExists(Alias(GetLocationContext(server, directory)), name)
  PROVE  LET location == GetLocationContext(server, directory)
             url == [segs |-> Append(directory.segs, name), query |-> "none"]
             a == ProcessRequest(server, "GET", url, <<>>).answer
         IN \/ a.status = 302 /\ HasDirective(location, "return") /\ directory # Home
            \/ a = Error(405)
            \/ a = [status |-> 200, data |-> disk[Alias(location)][name]]
<1> DEFINE location == GetLocationContext(server, directory)
           url == [segs |-> Append(directory.segs, name), query |-> "none"]
           result == ParseUrl(server, url)
           done == ProcessRequest(server, "GET", url, <<>>)
<1>1. \/ result.status = 302 /\ HasDirective(location, "return") /\ directory # Home
      \/ /\ result.status = 200 /\ result.directory = directory
         /\ result.dir = Alias(location) /\ result.name = name
  BY LinkIsParsed
<1> HIDE DEF url, location, result
<1>2. CASE result.status = 302
  <2>1. done.answer = result
    BY <1>2 DEF ProcessRequest, Unchanged, result
  <2> QED BY <1>1, <1>2, <2>1 DEF location, url
<1>3. CASE result.status = 200
  <2>1. done.answer = Error(405) \/ done.answer = GetMethod(server, location, result)
    BY <1>1, <1>3 DEF ProcessRequest, Unchanged, result, location
  <2>2. GetMethod(server, location, result) = [status |-> 200, data |-> disk[Alias(location)][name]]
    BY <1>1, <1>3 DEF GetMethod, location
  <2> QED BY <2>1, <2>2 DEF location, url
<1> QED BY <1>1, <1>2, <1>3

(* A url that is found lies in such a directory, which does not return unless it
   is "/". *)
LEMMA FoundDirectory ==
  ASSUME NEW server, IsServer(server), NEW url, url.segs \in Seq(STRING),
         ParseUrl(server, url).status = 200
  PROVE  LET directory == ParseUrl(server, url).directory
         IN /\ IsFound(server, directory)
            /\ \/ directory = Home
               \/ ~HasDirective(GetLocationContext(server, directory), "return")
<1> DEFINE directory == ParseUrl(server, url).directory
<1> USE DEF Found, Failed, Throws
<1>1. HasLocation(server, directory) /\ HasDirective(GetLocationContext(server, directory), "alias")
  BY FoundInLocation
<1>0. url.query # "empty"
  BY DEF ParseUrl
<1>2. IsSequence(url.segs)
  BY SequenceFacts
<1>3. CASE url.segs = <<>> \/ url.segs[1] \in Dotted
  <2>1. directory = Home
    <3>1. CASE url.segs = <<>>
      BY <1>0, <3>1 DEF ParseUrl, ParseHomeDirectory
    <3>2. CASE url.segs # <<>> /\ url.segs[1] \in Dotted
      <4>1. ParseUrl(server, url) = ParseFileOfHome(server, url.segs)
        BY <1>0, <3>2 DEF ParseUrl
      <4> QED BY <4>1 DEF ParseFileOfHome
    <3> QED BY <1>3, <3>1, <3>2
  <2>2. Home = Dir(Home.segs) /\ PlainNames(Home.segs)
    <3>1. Home = Dir(<<>>) /\ Home.segs = <<>> /\ Range(<<>>) = {} /\ IsSequence(<<>>)
      BY EmptySeq DEF Home, Dir, Range, IsSequence
    <3> QED BY <3>1 DEF PlainNames
  <2> HIDE DEF directory
  <2> QED BY <1>1, <2>1, <2>2 DEF IsFound, directory
<1>4. CASE url.segs # <<>> /\ url.segs[1] \notin Dotted
  <2> DEFINE path == Directory(url.segs)
             location == GetLocationContext(server, path)
  <2>1. path = Dir(path.segs) /\ PlainNames(path.segs)
    BY <1>2, <1>4, DirectoryIsPlain
  <2>2. /\ HasLocation(server, path) /\ ~HasDirective(location, "return")
        /\ ParseUrl(server, url) = GetFile(location, url.segs)
    BY <1>0, <1>4 DEF ParseUrl
  <2>3. location.directives["path"] = path
    BY <2>2, LocationFound
  <2> HIDE DEF location, path
  <2>4. GetFile(location, url.segs).status = 200 =>
          GetFile(location, url.segs).directory = location.directives["path"]
    BY SMTT(30) DEF GetFile
  <2>5. directory = path
    BY <2>2, <2>3, <2>4
  <2> HIDE DEF directory
  <2> QED BY <1>1, <2>1, <2>2, <2>5 DEF IsFound, directory, location
<1> QED BY <1>3, <1>4

(* What the answer a of a POST with this body says of the files d. *)
Shows(server, a, body, d) ==
  \E directory : \E name \in Dotted :
    LET location == GetLocationContext(server, directory)
    IN /\ IsFound(server, directory)
       /\ directory = Home \/ ~HasDirective(location, "return")
       /\ a.location = Append(directory.segs, name)
       /\ Alias(location) \in DOMAIN d /\ name \in DOMAIN d[Alias(location)]
       /\ d[Alias(location)][name] = FileData(body)

(* An answer 201 names the file that was made. *)
LEMMA PostShows ==
  ASSUME NEW server, IsServer(server), NEW method, NEW url, url.segs \in Seq(STRING),
         NEW body, NamesAreLeft,
         ProcessRequest(server, method, url, body).answer.status = 201
  PROVE  Shows(server, ProcessRequest(server, method, url, body).answer, body,
               ProcessRequest(server, method, url, body).disk)
<1> DEFINE result == ParseUrl(server, url)
           directory == result.directory
           location == GetLocationContext(server, directory)
           dir == Alias(location)
           name == Uploaded[Min(FreeUploads(dir))]
           done == ProcessRequest(server, method, url, body)
<1>1. result.status = 200 /\ done = PostMethod(server, directory, body)
  <2>1. CASE result.status # 200
    <3>1. done.answer = result
      BY <2>1 DEF ProcessRequest, Unchanged
    <3> HIDE DEF result
    <3> QED BY <3>1, ParseUrlStatuses DEF result
  <2>2. GetMethod(server, location, result).status # 201
    BY DEF GetMethod, Error
  <2>3. DeleteMethod(result).answer.status # 201
    BY DEF DeleteMethod, Unchanged, Error
  <2> HIDE DEF result, location
  <2> QED BY <2>1, <2>2, <2>3 DEF ProcessRequest, Unchanged, Error, result, location
<1>2. IsFound(server, directory) /\ (directory = Home \/ ~HasDirective(location, "return"))
  BY <1>1, FoundDirectory
<1>3. GetServerPath(server, directory) = dir
  BY <1>2, ServerPathIsAlias DEF IsFound
<1> HIDE DEF result, location, dir
<1>4. /\ dir \in DOMAIN disk
      /\ done.answer = [status |-> 201, location |-> Append(directory.segs, name)]
      /\ done.disk = [disk EXCEPT ![dir] = Stored(disk[dir], name, FileData(body))]
  BY <1>1, <1>3 DEF PostMethod, Unchanged, Error, DirExists
<1>5. name \in Dotted
  <2>1. FreeUploads(dir) # {} /\ DOMAIN Uploaded \subseteq Nat
    BY <1>4, UploadedAssumption, SequenceFacts DEF NamesAreLeft
  <2>2. FreeUploads(dir) \in SUBSET Nat
    BY <2>1 DEF FreeUploads
  <2>3. Min(FreeUploads(dir)) \in FreeUploads(dir)
    BY <2>1, <2>2, MinIsMember
  <2>4. Min(FreeUploads(dir)) \in DOMAIN Uploaded
    BY <2>3 DEF FreeUploads
  <2> QED BY <2>4, UploadedAssumption DEF Range
<1> HIDE DEF name, done, directory
<1>6. done.disk[dir] = Stored(disk[dir], name, FileData(body)) /\ dir \in DOMAIN done.disk
  BY <1>4
<1>7. name \in DOMAIN done.disk[dir] /\ done.disk[dir][name] = FileData(body)
  BY <1>6 DEF Stored
<1>8. done.answer.location = Append(directory.segs, name)
  BY <1>4
<1> QED BY SMTT(30), <1>2, <1>5, <1>6, <1>7, <1>8 DEF Shows, done, dir, location

(* What a listing says of the files d: its links name files of a directory that
   is the alias of a location, under the first path that has this alias. *)
Lists(server, links, d) ==
  \E i \in DOMAIN server.locations :
    LET alias == Alias(server.locations[i])
    IN /\ HasDirective(server.locations[i], "alias")
       /\ \A link \in links :
            \/ Last(link) \notin Dotted
            \/ /\ alias \in DOMAIN d
               /\ \E name \in DOMAIN d[alias] : link = Append(GetClientPath(server, alias).segs, name)

(* GET lists a directory in this way. *)
LEMMA GetLists ==
  ASSUME NEW server, IsServer(server), NEW method, NEW url, NEW body,
         "links" \in DOMAIN ProcessRequest(server, method, url, body).answer
  PROVE  LET done == ProcessRequest(server, method, url, body)
         IN done.disk = disk /\ Lists(server, done.answer.links, disk)
<1> DEFINE result == ParseUrl(server, url)
           location == GetLocationContext(server, result.directory)
           alias == Alias(location)
           done == ProcessRequest(server, method, url, body)
<1>1. result.status = 200 /\ done = Unchanged(GetMethod(server, location, result))
  <2>1. "links" \notin DOMAIN result
    BY DEF ParseUrl, ParseHomeDirectory, ParseFileOfHome, GetFile, Found, Failed, Throws
  <2>2. "links" \notin DOMAIN PostMethod(server, result.directory, body).answer
    BY DEF PostMethod, Unchanged, Error
  <2>3. "links" \notin DOMAIN DeleteMethod(result).answer
    BY DEF DeleteMethod, Unchanged, Error
  <2>4. "links" \notin DOMAIN Error(405)
    BY DEF Error
  <2> HIDE DEF result, location
  <2> QED BY <2>1, <2>2, <2>3, <2>4 DEF ProcessRequest, Unchanged, result, location
<1>2. HasLocation(server, result.directory) /\ HasDirective(location, "alias")
  BY <1>1, FoundInLocation
<1>3. PICK i \in DOMAIN server.locations : location = server.locations[i]
  BY <1>2, LocationFound
<1> HIDE DEF result, location
<1>4. done.disk = disk /\ done.answer.links = GetAutoIndexHtml(server, alias)
  BY <1>1 DEF GetMethod, Unchanged, Error
<1>5. ASSUME NEW link \in GetAutoIndexHtml(server, alias), Last(link) \in Dotted
      PROVE  /\ alias \in DOMAIN disk
             /\ \E name \in DOMAIN disk[alias] : link = Append(GetClientPath(server, alias).segs, name)
  <2>1. DirExists(alias)
    BY <1>5 DEF GetAutoIndexHtml
  <2>2. PICK name \in DOMAIN disk[alias] \ Hidden :
          link = IF alias = "./docs/" /\ name \notin Dotted
                 THEN <<"docs", name>>
                 ELSE Append(GetClientPath(server, alias).segs, name)
    BY <1>5, <2>1 DEF GetAutoIndexHtml
  <2>3. ~(alias = "./docs/" /\ name \notin Dotted)
    <3>1. Last(<<"docs", name>>) = name
      BY DEF Last
    <3> QED BY <1>5, <2>2, <3>1
  <2> QED BY <2>1, <2>2, <2>3 DEF DirExists
<1> HIDE DEF done
<1> QED BY <1>2, <1>3, <1>4, <1>5 DEF Lists, done

(* The first path with an alias is one that requests come to, if paths are plain. *)
LEMMA ClientPathIsFound ==
  ASSUME NEW server, IsServer(server), PathsArePlain(server),
         NEW i \in DOMAIN server.locations, HasDirective(server.locations[i], "alias")
  PROVE  LET path == GetClientPath(server, Alias(server.locations[i]))
         IN /\ IsFound(server, path)
            /\ Alias(GetLocationContext(server, path)) = Alias(server.locations[i])
<1> DEFINE alias == Alias(server.locations[i])
           Same == { j \in WithAlias(server) : Alias(server.locations[j]) = alias }
           k == Min(Same)
           path == server.locations[k].directives["path"]
<1>1. Same \in SUBSET DOMAIN server.locations /\ Same # {}
  BY DEF WithAlias
<1> HIDE DEF Same
<1>2. k \in Same /\ First(server, Same) = server.locations[k]
  BY <1>1, FirstIsMember
<1>3. /\ k \in DOMAIN server.locations /\ HasDirective(server.locations[k], "alias")
      /\ Alias(server.locations[k]) = alias
  BY <1>2 DEF Same, WithAlias
<1> HIDE DEF k
<1>4. GetClientPath(server, alias) = path
  BY <1>2 DEF GetClientPath, Same, k
<1>5. IsPlain(path) /\ \A j \in DOMAIN server.locations :
                         server.locations[j].directives["path"] = path => j = k
  <2> DEFINE paths == [j \in DOMAIN server.locations |-> server.locations[j].directives["path"]]
  <2>1. IsInjective(paths) /\ \A j \in DOMAIN paths : IsPlain(paths[j])
    BY DEF PathsArePlain
  <2>2. IsPlain(paths[k])
    BY <1>3, <2>1
  <2>3. \A a, b \in DOMAIN paths : paths[a] = paths[b] => a = b
    BY <2>1 DEF IsInjective
  <2> QED BY <1>3, <2>2, <2>3
<1>6. IsSequence(path.segs)
  BY <1>3, LocationOfServer DEF IsLocation, IsPath
<1>7. path = Dir(path.segs) /\ PlainNames(path.segs)
  BY <1>5, <1>6 DEF IsPlain, PlainNames
<1>8. HasLocation(server, path)
  BY <1>3 DEF HasLocation, WithPath
<1>9. GetLocationContext(server, path) = server.locations[k]
  <2>1. PICK j \in DOMAIN server.locations :
          /\ GetLocationContext(server, path) = server.locations[j]
          /\ server.locations[j].directives["path"] = path
    BY <1>8, LocationFound
  <2> QED BY <1>5, <2>1
<1> HIDE DEF path, alias
<1> QED BY <1>3, <1>4, <1>7, <1>8, <1>9 DEF IsFound, alias

(* What an answer says of the files stays true while it is there. *)
AnswerInv ==
  /\ answer.status = 201 /\ "location" \in DOMAIN answer =>
       request.port \in Ports /\ Shows(Server, answer, request.body, disk)
  /\ "links" \in DOMAIN answer => request.port \in Ports /\ Lists(Server, answer.links, disk)

(* Every step keeps it. *)
LEMMA AnswerStepInv == SiteInv /\ AnswerInv /\ [Next]_vars => AnswerInv'
<1> SUFFICES ASSUME SiteInv, AnswerInv, [Next]_vars PROVE AnswerInv'
  OBVIOUS
<1>1. CASE SaysNothing(answer')
  BY <1>1 DEF SaysNothing, AnswerInv
<1>2. CASE UNCHANGED <<servers, portAndHostVecAll, request, answer, disk>>
  <2>1. Ports' = Ports /\ Server' = Server
    BY <1>2 DEF Ports, Server
  <2> QED BY <1>2, <2>1 DEF AnswerInv
<1>3. CASE UNCHANGED vars
  BY <1>2, <1>3 DEF vars, parserVars, config
<1>4. CASE Loaded
  <2>1. answer' = NoAnswer
    BY <1>4 DEF Loaded, SiteInv
  <2> QED BY <1>1, <2>1, NoAnswerSaysNothing
<1>5. CASE Continued
  <2>1. answer = NoAnswer
    BY <1>5 DEF Continued, SiteInv
  <2>2. SaysNothing(answer')
    BY <1>5, <2>1, NoAnswerSaysNothing DEF Continued
  <2> QED BY <1>1, <2>2
<1>6. ASSUME NEW r, NEW n, Handled(r, n) PROVE AnswerInv'
  <2> DEFINE server == GetServerContext(servers, r.port, r.host)
             done == ProcessRequest(server, r.method, r.url, r.body)
  <2>1. /\ request' = r /\ Server' = server
        /\ r.port \in Ports /\ Ports' = Ports /\ r.url.segs \in Seq(STRING)
    BY <1>6, HandledSteps DEF Handled, ConfigKept, config, Server, Ports, IsRequest
  <2>2. IsServer(server)
    BY <1>6, ServerIsServer DEF Handled, SiteInv, ParserInv
  <2>3. CASE NamesAreLeft /\ answer' = done.answer /\ disk' = done.disk
    <3>1. answer'.status = 201 => Shows(server, answer', r.body, disk')
      BY <2>1, <2>2, <2>3, PostShows
    <3>2. "links" \in DOMAIN answer' => Lists(server, answer'.links, disk')
      BY <2>2, <2>3, GetLists
    <3> HIDE DEF server, done
    <3> QED BY <2>1, <3>1, <3>2 DEF AnswerInv
  <2> QED BY <1>1, <1>6, <2>3, HandledSteps, NoAnswerSaysNothing
<1> QED BY <1>3, <1>4, <1>5, <1>6, Steps

(* The Location of an answer 201 leads to what was stored: the path the upload is
   given and the path its url is taken apart into are the same, whatever the
   locations, their aliases and the other files are. *)
THEOREM UploadsAreServed == Spec => []PostedIsServed
<1>1. Init => AnswerInv
  BY DEF Init, NoAnswer, AnswerInv
<1>2. SiteInv /\ AnswerInv => PostedIsServed
  <2> SUFFICES ASSUME SiteInv, AnswerInv, answer.status = 201, "location" \in DOMAIN answer
               PROVE  Got(answer.location) \in {[status |-> 200, data |-> FileData(request.body)],
                                                Error(405)}
    BY DEF PostedIsServed
  <2>1. request.port \in Ports /\ Shows(Server, answer, request.body, disk)
    BY DEF AnswerInv
  <2>2. IsServer(Server)
    BY <2>1, ServerIsServer DEF Server, SiteInv, ParserInv
  <2>3. PICK directory : \E name \in Dotted :
          LET location == GetLocationContext(Server, directory)
          IN /\ IsFound(Server, directory)
             /\ directory = Home \/ ~HasDirective(location, "return")
             /\ answer.location = Append(directory.segs, name)
             /\ Alias(location) \in DOMAIN disk /\ name \in DOMAIN disk[Alias(location)]
             /\ disk[Alias(location)][name] = FileData(request.body)
    BY <2>1 DEF Shows
  <2> DEFINE location == GetLocationContext(Server, directory)
  <2>4. PICK name \in Dotted :
          /\ IsFound(Server, directory)
          /\ directory = Home \/ ~HasDirective(location, "return")
          /\ answer.location = Append(directory.segs, name)
          /\ Alias(location) \in DOMAIN disk /\ name \in DOMAIN disk[Alias(location)]
          /\ disk[Alias(location)][name] = FileData(request.body)
    BY <2>3
  <2>5. FileExists(Alias(location), name)
    BY <2>4 DEF FileExists, DirExists
  <2>6. \/ HasDirective(location, "return") /\ directory # Home
        \/ Got(answer.location) = Error(405)
        \/ Got(answer.location) = [status |-> 200, data |-> disk[Alias(location)][name]]
    BY <2>2, <2>4, <2>5, LinkIsServed DEF Got
  <2> HIDE DEF location
  <2> QED BY <2>4, <2>6
<1> QED BY <1>1, <1>2, AnswerStepInv, Invariance, PTL DEF Spec

(* A listing links to what can be had: the links are made from the path of the
   first location with the directory's alias, and looking the url up leads back
   to this directory. *)
THEOREM ListingsAreServed == Spec => []ListedIsServed
<1>1. Init => AnswerInv
  BY DEF Init, NoAnswer, AnswerInv
<1>2. SiteInv /\ AnswerInv => ListedIsServed
  <2> SUFFICES ASSUME SiteInv, AnswerInv, "links" \in DOMAIN answer, PathsArePlain(Server),
                      NEW link \in answer.links, Last(link) \in Dotted
               PROVE  Got(link).status \in {200, 302, 405}
    BY DEF ListedIsServed
  <2>1. request.port \in Ports /\ Lists(Server, answer.links, disk)
    BY DEF AnswerInv
  <2>2. IsServer(Server)
    BY <2>1, ServerIsServer DEF Server, SiteInv, ParserInv
  <2>3. PICK i \in DOMAIN Server.locations :
          LET alias == Alias(Server.locations[i])
          IN /\ HasDirective(Server.locations[i], "alias")
             /\ alias \in DOMAIN disk
             /\ \E name \in DOMAIN disk[alias] : link = Append(GetClientPath(Server, alias).segs, name)
    BY <2>1 DEF Lists
  <2> DEFINE alias == Alias(Server.locations[i])
             path == GetClientPath(Server, alias)
  <2>4. PICK name \in DOMAIN disk[alias] : link = Append(path.segs, name)
    BY <2>3
  <2>5. IsFound(Server, path) /\ Alias(GetLocationContext(Server, path)) = alias
    BY <2>2, <2>3, ClientPathIsFound
  <2>6. FileExists(alias, name)
    BY <2>3, <2>4 DEF FileExists, DirExists
  <2> HIDE DEF alias, path
  <2>7. name \in Dotted
    <3>1. IsSequence(path.segs)
      BY <2>5 DEF IsFound, PlainNames
    <3> QED BY <2>4, <3>1, LastAppended
  <2>8. \/ Got(link).status = 302
        \/ Got(link) = Error(405)
        \/ Got(link) = [status |-> 200, data |-> disk[alias][name]]
    BY <2>2, <2>4, <2>5, <2>6, <2>7, LinkIsServed DEF Got
  <2>9. Error(405).status = 405
    BY DEF Error
  <2> QED BY <2>8, <2>9
<1> QED BY <1>1, <1>2, AnswerStepInv, Invariance, PTL DEF Spec

-----------------------------------------------------------------------------
(* Redirects of the configuration end: what the parser knows of the returns *)

(* The paths of a location, as they were read. *)
HasPaths(location) ==
  /\ location.directives["path"] \in Path
  /\ HasDirective(location, "return") => location.directives["return"] \in Path

PathOf(server, i) == server.locations[i].directives["path"]
KnowsReturn(server, path) ==
  LET location == GetLocationContext(server, path)
  IN HasDirective(location, "return") =>
       /\ path \in DOMAIN server.returnLocations
       /\ server.returnLocations[path] = location.directives["return"]

(* _returnLocations knows where the first location of a path returns to, and
   knows no other paths than those of locations. *)
ReturnsKnown(server) ==
  /\ \A i \in DOMAIN server.locations :
       HasPaths(server.locations[i]) /\ KnowsReturn(server, PathOf(server, i))
  /\ \A path \in DOMAIN server.returnLocations : HasLocation(server, path)

ReturnInv ==
  /\ HasPaths(locationContext)
  /\ ReturnsKnown(serverContext)
  /\ \A pair \in DOMAIN servers :
       ReturnsKnown(servers[pair]) /\ ~HasReturnCycle(servers[pair].returnLocations)

(* Locations that are added do not take the place of those that are there. *)
LEMMA LookupAfterAppend ==
  ASSUME NEW server, IsServer(server), NEW location, NEW other, IsServer(other),
         other.locations = Append(server.locations, location),
         NEW path
  PROVE  /\ HasLocation(server, path) =>
              /\ HasLocation(other, path)
              /\ GetLocationContext(other, path) = GetLocationContext(server, path)
         /\ ~HasLocation(server, path) /\ HasLocation(other, path) =>
              /\ location.directives["path"] = path
              /\ GetLocationContext(other, path) = location
<1> DEFINE n == Len(server.locations)
           P == WithPath(server, path)
           Q == WithPath(other, path)
<1>1. IsSequence(server.locations) /\ n \in Nat /\ DOMAIN server.locations = 1..n
  BY SequenceFacts DEF IsServer, IsSequence
<1>2. /\ DOMAIN other.locations = 1..n + 1
      /\ \A i \in 1..n : other.locations[i] = server.locations[i]
      /\ other.locations[n + 1] = location
  BY <1>1, AppendFacts
<1>3. P \in SUBSET (1..n) /\ Q \in SUBSET (1..n + 1)
  BY <1>1, <1>2 DEF WithPath
<1>4. \A i \in 1..n : i \in P <=> i \in Q
  BY <1>1, <1>2 DEF WithPath
<1>5. n + 1 \in Q => location.directives["path"] = path
  BY <1>1, <1>2 DEF WithPath
<1>6. Q # {} => Min(Q) \in Q /\ \A j \in Q : Min(Q) <= j
  BY <1>2, <1>3, FirstIsMember
<1>7. P # {} => Min(P) \in P /\ \A j \in P : Min(P) <= j
  BY <1>1, <1>3, FirstIsMember
<1> HIDE DEF P, Q
<1>8. P # {} => Q # {} /\ Min(Q) = Min(P) /\ Min(P) \in 1..n
  <2> SUFFICES ASSUME P # {} PROVE Q # {} /\ Min(Q) = Min(P) /\ Min(P) \in 1..n
    OBVIOUS
  <2>1. Min(P) \in P /\ Min(P) \in 1..n /\ Min(P) \in Q
    BY <1>3, <1>4, <1>7
  <2>2. Min(Q) \in Q /\ Min(Q) \in 1..n + 1 /\ Min(Q) <= Min(P)
    BY <1>3, <1>6, <2>1
  <2>3. Min(Q) \in 1..n
    BY <1>1, <2>1, <2>2
  <2>4. Min(P) <= Min(Q)
    BY <1>4, <1>7, <2>2, <2>3
  <2> QED BY <1>1, <2>1, <2>2, <2>3, <2>4
<1>9. P = {} /\ Q # {} => n + 1 \in Q /\ Min(Q) = n + 1
  <2> SUFFICES ASSUME P = {}, Q # {} PROVE n + 1 \in Q /\ Min(Q) = n + 1
    OBVIOUS
  <2>1. Min(Q) \in Q /\ Min(Q) \in 1..n + 1 /\ Min(Q) \notin 1..n
    BY <1>3, <1>4, <1>6
  <2>2. Min(Q) = n + 1
    BY <1>1, <2>1
  <2> QED BY <2>1, <2>2
<1>10. /\ P # {} => other.locations[Min(Q)] = server.locations[Min(P)]
       /\ P = {} /\ Q # {} => other.locations[Min(Q)] = location
  BY <1>2, <1>8, <1>9
<1> QED BY <1>5, <1>8, <1>9, <1>10 DEF HasLocation, GetLocationContext, First, P, Q

(* A server block starts without returns. *)
LEMMA NewServerKnowsReturns == ReturnsKnown(NewServerContext)
<1>1. NewServerContext.locations = <<>> /\ NewServerContext.returnLocations = <<>>
  BY DEF NewServerContext
<1> QED BY <1>1 DEF ReturnsKnown

(* What is looked up of the returns depends on two fields of a server. *)
LEMMA SameReturns ==
  ASSUME NEW server, ReturnsKnown(server), NEW other,
         other.locations = server.locations, other.returnLocations = server.returnLocations
  PROVE  ReturnsKnown(other)
<1>1. \A path : /\ HasLocation(other, path) <=> HasLocation(server, path)
                /\ GetLocationContext(other, path) = GetLocationContext(server, path)
  BY DEF HasLocation, GetLocationContext, WithPath, First
<1>2. ASSUME NEW i \in DOMAIN server.locations PROVE KnowsReturn(other, PathOf(other, i))
  BY <1>1 DEF ReturnsKnown, KnowsReturn, PathOf
<1> QED BY <1>1, <1>2 DEF ReturnsKnown

(* addLocationContext keeps the first return of a path, as the lookup does. *)
LEMMA AddLocationKnowsReturns ==
  ASSUME NEW server, IsServer(server), ReturnsKnown(server),
         NEW location, IsLocation(location), HasPaths(location)
  PROVE  ReturnsKnown(AddLocationContext(server, location))
<1> DEFINE other == AddLocationContext(server, location)
           own == location.directives["path"]
           to == location.directives["return"]
           n == Len(server.locations)
           returns == IF HasDirective(location, "return")
                      THEN Inserted(server.returnLocations, {own}, to)
                      ELSE server.returnLocations
<1>1. DOMAIN server = {"listen", "serverNames", "maxBodySize", "errorPages",
                       "directives", "locations", "returnLocations", "cgi"}
  BY ServerFields
<1>2. other.locations = Append(server.locations, location) /\ other.returnLocations = returns
  BY <1>1 DEF AddLocationContext
<1>3. IsServer(other)
  BY AddLocationKeepsServer
<1>4. /\ DOMAIN other.locations = 1..n + 1
      /\ \A i \in 1..n : other.locations[i] = server.locations[i]
      /\ other.locations[n + 1] = location
      /\ n \in Nat /\ DOMAIN server.locations = 1..n
  BY <1>2, AppendFacts, SequenceFacts DEF IsServer, IsSequence
<1>5. /\ DOMAIN returns = DOMAIN server.returnLocations
                            \cup (IF HasDirective(location, "return") THEN {own} ELSE {})
      /\ \A path \in DOMAIN server.returnLocations : returns[path] = server.returnLocations[path]
      /\ HasDirective(location, "return") /\ own \notin DOMAIN server.returnLocations =>
           returns[own] = to
  BY DEF Inserted
<1> HIDE DEF other, returns
<1>6. \A path :
        /\ HasLocation(server, path) =>
             HasLocation(other, path) /\ GetLocationContext(other, path) = GetLocationContext(server, path)
        /\ ~HasLocation(server, path) /\ HasLocation(other, path) =>
             own = path /\ GetLocationContext(other, path) = location
  BY ZenonT(60), <1>2, <1>3, LookupAfterAppend
<1>7. HasLocation(other, own)
  BY <1>4 DEF HasLocation, WithPath
<1>8. ASSUME NEW i \in DOMAIN other.locations PROVE HasPaths(other.locations[i])
  <2>1. i \in 1..n \/ i = n + 1
    BY <1>4
  <2> QED BY <1>4, <2>1 DEF ReturnsKnown
<1>9. ASSUME NEW path, HasLocation(other, path) PROVE KnowsReturn(other, path)
  <2>1. CASE HasLocation(server, path)
    <3>1. PICK i \in DOMAIN server.locations : PathOf(server, i) = path
      BY <2>1 DEF HasLocation, WithPath, PathOf
    <3>2. KnowsReturn(server, path)
      BY <3>1 DEF ReturnsKnown
    <3> QED BY <1>2, <1>5, <1>6, <2>1, <3>2 DEF KnowsReturn
  <2>2. CASE ~HasLocation(server, path)
    <3>1. own = path /\ GetLocationContext(other, path) = location
      BY <1>6, <1>9, <2>2
    <3>2. own \notin DOMAIN server.returnLocations
      BY <2>2, <3>1 DEF ReturnsKnown
    <3> QED BY <1>2, <1>5, <3>1, <3>2 DEF KnowsReturn
  <2> QED BY <2>1, <2>2
<1>10. ASSUME NEW i \in DOMAIN other.locations PROVE HasLocation(other, PathOf(other, i))
  BY <1>10 DEF HasLocation, WithPath, PathOf
<1>11. ASSUME NEW path \in DOMAIN other.returnLocations PROVE HasLocation(other, path)
  <2>1. path \in DOMAIN server.returnLocations \/ path = own
    BY <1>2, <1>5
  <2> QED BY <1>6, <1>7, <2>1 DEF ReturnsKnown
<1>12. ReturnsKnown(other)
  BY <1>8, <1>9, <1>10, <1>11 DEF ReturnsKnown
<1> QED BY <1>12 DEF other

(* The parser starts without returns. *)
LEMMA InitReturnInv == ParserInit => ReturnInv
<1> SUFFICES ASSUME ParserInit PROVE ReturnInv
  OBVIOUS
<1>1. locationContext.directives = [path |-> Home]
  BY DEF ParserInit, NewLocationContext
<1>2. Home \in Path
  BY EmptySeq DEF Home, Dir, Path
<1>3. HasPaths(locationContext)
  BY <1>1, <1>2 DEF HasPaths, HasDirective
<1>4. ReturnsKnown(serverContext)
  BY NewServerKnowsReturns DEF ParserInit
<1>5. servers = <<>>
  BY DEF ParserInit
<1> QED BY <1>3, <1>4, <1>5 DEF ReturnInv

(* The location block has the paths that were written in it. *)
LEMMA LocationHasPaths ==
  ASSUME ParserInv, HasPaths(locationContext), ParserNext
  PROVE  HasPaths(locationContext')
<1> USE DEF blocks
<1>0. PlaceInv /\ LocationInv
  BY DEF ParserInv
<1>1. CASE locationContext' = locationContext
  BY <1>1
<1>2. CASE OpenLocation /\ ~Refuse
  <2>1. Word = "location" /\ ~AtEnd
    BY <1>2 DEF OpenLocation, Reads
  <2>2. locationContext' = [directives |-> [path |-> Arg], allowedMethods |-> {}]
    BY <1>2 DEF OpenLocation, NewLocationContext
  <2>3. Arg \in Path
    BY <1>0, <2>1, LineFacts
  <2>4. DOMAIN locationContext'.directives = {"path"} /\ locationContext'.directives["path"] = Arg
    BY <2>2
  <2> QED BY <2>3, <2>4 DEF HasPaths, HasDirective
<1>3. CASE LimitExcept
  <2> DEFINE methods == locationContext.allowedMethods \cup Range(Line.args)
  <2>1. locationContext' = [locationContext EXCEPT !.allowedMethods = methods]
    BY <1>3 DEF LimitExcept
  <2> HIDE DEF methods
  <2>2. locationContext'.directives = locationContext.directives
    BY <1>0, <2>1 DEF LocationInv
  <2> QED BY <2>2 DEF HasPaths, HasDirective
<1>4. CASE LocationDirective /\ ~Refuse
  <2> DEFINE directives == Inserted(locationContext.directives, {Word}, Arg)
  <2>1. /\ locationContext' = [locationContext EXCEPT !.directives = directives]
        /\ Word \in Allowed["location"] \ {"limit_except"} /\ ~AtEnd
    BY <1>4 DEF LocationDirective, Reads
  <2>2. Word = "return" => Arg \in Path
    BY <1>0, <2>1, LineFacts
  <2>3. /\ directives["path"] = locationContext.directives["path"]
        /\ "return" \in DOMAIN directives => directives["return"] \in Path
    BY <1>0, <2>2 DEF LocationInv, Inserted, HasPaths, HasDirective
  <2> HIDE DEF directives
  <2>4. locationContext'.directives = directives
    BY <1>0, <2>1 DEF LocationInv
  <2> QED BY <2>3, <2>4 DEF HasPaths, HasDirective
<1>5. CASE Refuse
  BY <1>1, <1>5 DEF Refuse
<1> QED BY <1>1, <1>2, <1>3, <1>4, <1>5
        DEF ParserNext, Comment, NotAllowedDirective, OpenServer, ServerDirective, CloseServer,
            CloseLocation, OpenCgi, CgiDirective, CloseCgi, EndOfFile

(* The server block knows the returns of its locations. *)
LEMMA ServerKnowsReturns ==
  ASSUME ParserInv, ReturnInv, ParserNext
  PROVE  ReturnsKnown(serverContext')
<1> USE DEF blocks
<1>0. PlaceInv /\ IsServer(serverContext) /\ LocationInv /\ ReturnsKnown(serverContext)
  BY DEF ParserInv, ReturnInv
<1>1. CASE serverContext' = serverContext
  BY <1>0, <1>1
<1>2. CASE OpenServer
  BY <1>2, NewServerKnowsReturns DEF OpenServer
<1>3. ASSUME serverContext'.locations = serverContext.locations,
             serverContext'.returnLocations = serverContext.returnLocations
      PROVE  ReturnsKnown(serverContext')
  BY <1>0, <1>3, SameReturns
<1>s. DOMAIN serverContext = {"listen", "serverNames", "maxBodySize", "errorPages",
                              "directives", "locations", "returnLocations", "cgi"}
  BY <1>0, ServerFields
<1>4. CASE ServerDirective /\ ~Refuse
  <2> DEFINE server == WithServerDirective(serverContext)
  <2>1. /\ Word \in {"listen", "server_names", "client_max_body_size", "error_page"}
        /\ serverContext' = [server EXCEPT !.directives = @ \cup {Word}]
    BY <1>4 DEF ServerDirective, Allowed
  <2>2. /\ DOMAIN server = DOMAIN serverContext
        /\ server.locations = serverContext.locations
        /\ server.returnLocations = serverContext.returnLocations
    BY <1>s, <2>1 DEF WithServerDirective
  <2> HIDE DEF server
  <2>3. /\ serverContext'.locations = server.locations
        /\ serverContext'.returnLocations = server.returnLocations
    BY <1>s, <2>1, <2>2
  <2> QED BY <1>3, <2>2, <2>3
<1>5. CASE CloseLocation /\ ~Refuse
  <2>1. IsLocation(locationContext) /\ HasPaths(locationContext)
    BY <1>0, <1>5 DEF CloseLocation, LocationInv, IsLocation, ReturnInv
  <2> QED BY <1>0, <1>5, <2>1, AddLocationKnowsReturns DEF CloseLocation
<1>6. CASE CloseCgi
  <2>1. serverContext' = [serverContext EXCEPT !.cgi = cgiContext]
    BY <1>6 DEF CloseCgi
  <2> QED BY <1>s, <1>3, <2>1
<1>7. CASE Refuse
  BY <1>1, <1>7 DEF Refuse
<1> QED BY <1>1, <1>2, <1>4, <1>5, <1>6, <1>7
        DEF ParserNext, Comment, NotAllowedDirective, CloseServer, OpenLocation, LimitExcept,
            LocationDirective, OpenCgi, CgiDirective, EndOfFile

(* A turn of the parser keeps what is known of the returns; a server is handed to
   Config only when they form no cycle. *)
LEMMA ParserKeepsReturnInv ==
  ASSUME ParserInv, ReturnInv, ParserNext
  PROVE  ReturnInv'
<1>1. HasPaths(locationContext') /\ ReturnsKnown(serverContext')
  BY LocationHasPaths, ServerKnowsReturns DEF ReturnInv
<1>2. CASE servers' = servers
  BY <1>1, <1>2 DEF ReturnInv
<1>3. CASE CloseServer /\ ~Refuse
  <2> DEFINE keys == Range(PortsAndHosts(serverContext))
  <2>0. servers' = Inserted(servers, keys, serverContext)
    BY <1>3 DEF CloseServer
  <2> HIDE DEF keys
  <2>1. /\ DOMAIN servers' = DOMAIN servers \cup keys
        /\ \A pair \in DOMAIN servers : servers'[pair] = servers[pair]
        /\ \A pair \in keys \ DOMAIN servers : servers'[pair] = serverContext
    BY <2>0 DEF Inserted
  <2>2. ReturnsKnown(serverContext) /\ ~HasReturnCycle(serverContext.returnLocations)
    BY <1>3 DEF CloseServer, ReturnInv
  <2> QED BY <1>1, <2>1, <2>2 DEF ReturnInv
<1>4. CASE Refuse
  BY <1>2, <1>4 DEF Refuse, config
<1> QED BY <1>2, <1>3, <1>4
        DEF ParserNext, config, Comment, NotAllowedDirective, OpenServer, ServerDirective,
            CloseServer, OpenLocation, LimitExcept, LocationDirective, CloseLocation, OpenCgi,
            CgiDirective, CloseCgi, EndOfFile

(* Requests leave the configuration as it was read. *)
LEMMA ReturnsStayKnown == SiteInv /\ ReturnInv /\ [Next]_vars => ReturnInv'
<1> SUFFICES ASSUME SiteInv, ReturnInv, [Next]_vars PROVE ReturnInv'
  OBVIOUS
<1>1. CASE UNCHANGED <<locationContext, serverContext, servers>>
  BY <1>1 DEF ReturnInv
<1>2. CASE Loaded
  BY <1>2, ParserKeepsReturnInv DEF Loaded, SiteInv
<1>3. CASE UNCHANGED vars
  BY <1>1, <1>3 DEF vars, parserVars, blocks, config
<1>4. CASE ConfigKept
  BY <1>1, <1>4 DEF ConfigKept, blocks, config
<1> QED BY <1>2, <1>3, <1>4, Steps DEF Continued, Handled

-----------------------------------------------------------------------------
(* Following answers 302 *)

(* The paths a peer comes to one after the other. *)
Chain(server, segs, n) ==
  CHOOSE path : path = [i \in 0..n |-> IF i = 0 THEN segs ELSE SentTo(server, path[i - 1])]

(* There are such paths, so the recursive function says what it seems to. *)
LEMMA ChainExists ==
  ASSUME NEW server, NEW segs, NEW n \in Nat
  PROVE  \E path : path = [i \in 0..n |-> IF i = 0 THEN segs ELSE SentTo(server, path[i - 1])]
<1> DEFINE IsChain(path, m) ==
             path = [i \in 0..m |-> IF i = 0 THEN segs ELSE SentTo(server, path[i - 1])]
           Missing == {m \in Nat : ~ \E path : IsChain(path, m)}
<1> SUFFICES Missing = {}
  OBVIOUS
<1> SUFFICES ASSUME Missing # {} PROVE FALSE
  OBVIOUS
<1>1. Missing \in SUBSET Nat /\ Min(Missing) \in Missing /\ \A m \in Missing : Min(Missing) <= m
  BY MinIsMember
<1>2. PICK m \in Nat : m = Min(Missing) /\ (~ \E path : IsChain(path, m)) /\ \A k \in Missing : m <= k
  BY <1>1
<1>3. m # 0
  <2> SUFFICES ASSUME m = 0 PROVE FALSE
    OBVIOUS
  <2> DEFINE start == [i \in 0..0 |-> segs]
  <2>1. IsChain(start, 0)
    OBVIOUS
  <2> HIDE DEF start, IsChain
  <2> QED BY <1>2, <2>1
<1>4. m - 1 \in Nat /\ ~ (m <= m - 1)
  BY <1>3
<1>5. PICK before : IsChain(before, m - 1)
  <2> HIDE DEF IsChain
  <2> QED BY <1>2, <1>4 DEF Missing
<1> DEFINE after == [i \in 0..m |-> IF i = m THEN SentTo(server, before[m - 1]) ELSE before[i]]
<1>6. IsChain(after, m)
  <2>1. DOMAIN before = 0..m - 1 /\ before[0] = segs
        /\ \A i \in 1..m - 1 : before[i] = SentTo(server, before[i - 1])
    <3>1. 0 \in 0..m - 1 /\ \A i \in 1..m - 1 : i \in 0..m - 1 /\ i # 0
      BY <1>4
    <3> QED BY <1>5, <3>1
  <2>2. ASSUME NEW i \in 0..m
        PROVE  after[i] = IF i = 0 THEN segs ELSE SentTo(server, after[i - 1])
    <3>1. CASE i = 0
      BY <1>3, <2>1, <3>1
    <3>2. CASE i = m
      <4>1. after[m] = SentTo(server, before[m - 1]) /\ after[m - 1] = before[m - 1]
        BY <1>4
      <4> QED BY <1>3, <3>2, <4>1
    <3>3. CASE i \in 1..m - 1
      <4>1. i # 0 /\ i # m /\ i - 1 \in 0..m /\ i - 1 # m
        BY <3>3
      <4>2. after[i] = before[i] /\ after[i - 1] = before[i - 1]
        BY <4>1
      <4> HIDE DEF after
      <4> QED BY <2>1, <3>3, <4>1, <4>2
    <3>4. i = 0 \/ i = m \/ i \in 1..m - 1
      BY <1>2
    <3> QED BY <3>1, <3>2, <3>3, <3>4
  <2> DEFINE value(i) == IF i = 0 THEN segs ELSE SentTo(server, after[i - 1])
  <2>3. \A i \in 0..m : after[i] = value(i)
    BY <2>2
  <2>4. after = [i \in 0..m |-> after[i]]
    OBVIOUS
  <2> HIDE DEF after, value
  <2>5. after = [i \in 0..m |-> value(i)]
    BY <2>3, <2>4
  <2> QED BY <2>5 DEF value
<1> HIDE DEF IsChain, after
<1> QED BY <1>2, <1>6

(* What the chain is. *)
LEMMA ChainFacts ==
  ASSUME NEW server, NEW segs, NEW n \in Nat
  PROVE  /\ Followed(server, segs, n) = Chain(server, segs, n)[n]
         /\ Chain(server, segs, n)[0] = segs
         /\ \A i \in 1..n :
              Chain(server, segs, n)[i] = SentTo(server, Chain(server, segs, n)[i - 1])
<1> DEFINE path == Chain(server, segs, n)
<1>1. path = [i \in 0..n |-> IF i = 0 THEN segs ELSE SentTo(server, path[i - 1])]
  BY ChainExists DEF Chain
<1>2. Followed(server, segs, n) = path[n]
  BY DEF Followed, Chain
<1> HIDE DEF path
<1>3. 0 \in 0..n /\ \A i \in 1..n : i \in 0..n /\ i # 0
  OBVIOUS
<1>4. path[0] = segs /\ \A i \in 1..n : path[i] = SentTo(server, path[i - 1])
  BY <1>1, <1>3
<1> QED BY <1>2, <1>4 DEF path

(* A peer that is sent on comes from the directory of a location that returns. *)
LEMMA SentByReturn ==
  ASSUME NEW server, IsServer(server), ReturnsKnown(server), ReturnsAreDirectories(server),
         NEW segs \in Seq(STRING), SentTo(server, segs) # segs
  PROVE  LET directory == Directory(segs)
             to == server.returnLocations[directory]
         IN /\ segs # <<>> /\ segs[1] \notin Dotted
            /\ HasLocation(server, directory) /\ directory \in DOMAIN server.returnLocations
            /\ to = Dir(to.segs) /\ to.segs \in Seq(STRING)
            /\ \A i \in DOMAIN to.segs : to.segs[i] \notin Dotted
            /\ SentTo(server, segs) = to.segs \o LeftOver(segs)
<1> DEFINE url == [segs |-> segs, query |-> "none"]
           result == ParseUrl(server, url)
           directory == Directory(segs)
           location == GetLocationContext(server, directory)
           a == ProcessRequest(server, "GET", url, <<>>).answer
<1>1. url.segs = segs
  OBVIOUS
<1>2. a.status = 302 /\ a.to.abs /\ SentTo(server, segs) = a.to.segs \o a.rest
  BY DEF SentTo
<1> HIDE DEF url
<1>3. result.status = 302 /\ a = result
  <2> DEFINE found == GetLocationContext(server, result.directory)
  <2> HIDE DEF result, found
  <2>1. GetMethod(server, found, result).status # 302
    BY DEF GetMethod, Error
  <2>2. a = result \/ a = Error(405) \/ a = GetMethod(server, found, result)
    BY DEF ProcessRequest, Unchanged, result, found
  <2>3. result.status = 200 \/ a = result
    BY DEF ProcessRequest, Unchanged, result
  <2>4. Error(405).status # 302
    BY DEF Error
  <2> HIDE DEF a
  <2> QED BY <1>2, <2>1, <2>2, <2>3, <2>4
<1>4. /\ segs # <<>> /\ segs[1] \notin Dotted /\ HasLocation(server, directory)
      /\ HasDirective(location, "return")
      /\ result = [status |-> 302, to |-> location.directives["return"], rest |-> LeftOver(segs)]
  <2> USE DEF Found, Failed, Throws
  <2>1. ParseHomeDirectory(server, url.query).status # 302
    BY DEF ParseHomeDirectory
  <2>2. ParseFileOfHome(server, segs).status # 302
    BY DEF ParseFileOfHome
  <2>3. GetFile(location, segs).status # 302
    BY DEF GetFile
  <2> HIDE DEF location, directory
  <2> QED BY <1>1, <1>3, <2>1, <2>2, <2>3 DEF ParseUrl, location, directory
<1> DEFINE to == location.directives["return"]
<1>5. /\ a.to = to /\ a.rest = LeftOver(segs)
  BY <1>3, <1>4
<1>6. PICK i \in DOMAIN server.locations :
        location = server.locations[i] /\ PathOf(server, i) = directory
  BY <1>4, LocationFound DEF PathOf
<1>7. /\ directory \in DOMAIN server.returnLocations /\ server.returnLocations[directory] = to
      /\ to \in Path
  BY <1>4, <1>6 DEF ReturnsKnown, KnowsReturn, HasPaths
<1> HIDE DEF directory, location, to
<1>8. to.slash /\ \A j \in DOMAIN to.segs : to.segs[j] \notin Dotted
  <2>1. to.abs
    BY <1>2, <1>5
  <2>2. \A p \in DOMAIN server.returnLocations :
          server.returnLocations[p].abs =>
            /\ server.returnLocations[p].slash
            /\ \A j \in DOMAIN server.returnLocations[p].segs :
                 server.returnLocations[p].segs[j] \notin Dotted
    BY DEF ReturnsAreDirectories
  <2> HIDE DEF a, result
  <2> QED BY <1>7, <2>1, <2>2
<1>9. to = Dir(to.segs) /\ to.segs \in Seq(STRING)
  BY <1>2, <1>5, <1>7, <1>8 DEF Path, Dir
<1>10. SentTo(server, segs) = to.segs \o LeftOver(segs)
  BY <1>2, <1>5
<1> QED BY <1>4, <1>7, <1>8, <1>9, <1>10 DEF directory

(* What is left over of a path starts with a file. *)
LEMMA LeftOverFacts ==
  ASSUME NEW segs \in Seq(STRING), segs # <<>>
  PROVE  /\ LeftOver(segs) \in Seq(STRING)
         /\ Len(LeftOver(segs)) > 0 => LeftOver(segs)[1] \in Dotted
<1> DEFINE k == DirectoryLength(segs)
           n == Len(segs)
           rest == LeftOver(segs)
<1>1. n \in Nat /\ IsSequence(segs)
  BY SequenceFacts
<1>2. k \in 1..n /\ (k < n => segs[k + 1] \in Dotted)
  BY <1>1, DirectoryLengthFacts
<1>3. rest = SubSeq(segs, k + 1, n)
  BY DEF LeftOver
<1> HIDE DEF k, rest
<1>4. \A i \in k + 1..n : segs[i] \in STRING
  <2> TAKE i \in k + 1..n
  <2>1. i \in 1..n
    BY <1>1, <1>2
  <2> QED BY <2>1, ElementOfSeq
<1>5. k + 1 \in Int /\ n \in Int
  BY <1>1, <1>2
<1> DEFINE m == k + 1
<1>6. m \in Int /\ \A i \in m..n : segs[i] \in STRING
  BY <1>4, <1>5
<1> HIDE DEF n, m
<1>7. /\ SubSeq(segs, m, n) \in Seq(STRING)
      /\ Len(SubSeq(segs, m, n)) = IF m <= n THEN n - m + 1 ELSE 0
      /\ \A i \in 1..n - m + 1 : SubSeq(segs, m, n)[i] = segs[m + i - 1]
  BY <1>5, <1>6, SubSeqProperties
<1>8. Len(rest) > 0 => m <= n
  BY <1>3, <1>7 DEF m
<1>9. m <= n => k < n /\ 1 \in 1..n - m + 1 /\ m + 1 - 1 = m /\ m = k + 1
  BY <1>1, <1>2 DEF m, n
<1>10. Len(rest) > 0 => rest[1] = segs[m] /\ k < n /\ m = k + 1
  BY <1>3, <1>7, <1>8, <1>9 DEF m
<1> QED BY <1>2, <1>3, <1>7, <1>10 DEF rest, m

(* A path sent to by a return, which is sent on, lies in the directory the return
   named. *)
LEMMA DirectoryReturnedTo ==
  ASSUME NEW t \in Seq(STRING), \A i \in DOMAIN t : t[i] \notin Dotted,
         NEW rest \in Seq(STRING), Len(rest) > 0 => rest[1] \in Dotted,
         t \o rest # <<>>, (t \o rest)[1] \notin Dotted
  PROVE  Directory(t \o rest) = Dir(t)
<1> DEFINE m == Len(t)
           n == Len(rest)
           segs == t \o rest
           k == DirectoryLength(segs)
<1>1. m \in Nat /\ n \in Nat /\ DOMAIN t = 1..m /\ \A i \in 1..m : t[i] \in STRING
  BY LenProperties, ElementOfSeq
<1>2. /\ segs \in Seq(STRING) /\ Len(segs) = m + n
      /\ \A i \in 1..m + n : segs[i] = IF i <= m THEN t[i] ELSE rest[i - m]
  BY ConcatProperties
<1>3. /\ k \in 1..m + n
      /\ \A i \in 2..k : segs[i] \notin Dotted
      /\ k < m + n => segs[k + 1] \in Dotted
  BY <1>2, SequenceFacts, DirectoryLengthFacts
<1> HIDE DEF segs, k
<1>4. \A i \in 1..m : segs[i] = t[i] /\ segs[i] \notin Dotted
  BY <1>1, <1>2
<1>5. n > 0 => segs[m + 1] \in Dotted
  <2> SUFFICES ASSUME n > 0 PROVE segs[m + 1] \in Dotted
    OBVIOUS
  <2>1. m + 1 \in 1..m + n /\ ~ (m + 1 <= m) /\ m + 1 - m = 1
    BY <1>1
  <2>2. segs[m + 1] = rest[m + 1 - m]
    BY <1>2, <2>1
  <2> QED BY <2>1, <2>2
<1>6. m # 0
  <2> SUFFICES ASSUME m = 0 PROVE FALSE
    OBVIOUS
  <2>1. n > 0
    BY <1>1, <1>3
  <2>2. segs[1] \in Dotted
    BY <1>5, <2>1
  <2> QED BY <2>2 DEF segs
<1>7. k = m
  <2>1. k \in Nat /\ 1 <= k /\ k <= m + n /\ m >= 1
    BY <1>1, <1>3, <1>6
  <2>2. ASSUME k > m PROVE FALSE
    <3>1. m + 1 \in 2..k /\ n > 0
      BY <1>1, <2>1, <2>2
    <3> QED BY <1>3, <1>5, <3>1
  <2>3. ASSUME k < m PROVE FALSE
    <3>1. k + 1 \in 1..m /\ k < m + n
      BY <1>1, <2>1, <2>3
    <3> QED BY <1>3, <1>4, <3>1
  <2>4. m \in Nat /\ k \in Nat
    BY <1>1, <2>1
  <2> HIDE DEF m
  <2> QED BY <2>2, <2>3, <2>4
<1>8. SubSeq(segs, 1, m) = t
  <2>1. \A i \in 1..m : segs[i] \in STRING
    BY <1>1, <1>4
  <2>2. /\ SubSeq(segs, 1, m) \in Seq(STRING) /\ Len(SubSeq(segs, 1, m)) = m
        /\ \A i \in 1..m : SubSeq(segs, 1, m)[i] = segs[i]
    <3>1. 1 \in Int /\ m \in Int /\ m - 1 + 1 = m /\ (1 <= m) /\ \A i \in 1..m : 1 + i - 1 = i
      BY <1>1, <1>6
    <3> QED BY <2>1, <3>1, SubSeqProperties
  <2>3. \A i \in 1..m : SubSeq(segs, 1, m)[i] = t[i]
    BY <1>4, <2>2
  <2> QED BY <2>2, <2>3, SeqEqual
<1> QED BY <1>7, <1>8 DEF Directory, segs, k

(* A peer that follows as many answers as there are locations, and one more, is
   sent no further: two of the paths would lie in one directory, and the
   directories between them return to each other. *)
LEMMA ChainEnds ==
  ASSUME NEW server, IsServer(server), ReturnsKnown(server), ReturnsAreDirectories(server),
         ~HasReturnCycle(server.returnLocations),
         NEW segs \in Seq(STRING), NEW n \in Nat, n = Len(server.locations) + 1,
         NEW path, path[0] = segs, \A i \in 1..n : path[i] = SentTo(server, path[i - 1])
  PROVE  SentTo(server, path[n]) = path[n]
<1> SUFFICES ASSUME SentTo(server, path[n]) # path[n] PROVE FALSE
  OBVIOUS
<1> DEFINE returns == server.returnLocations
           directory == [i \in 0..n |-> Directory(path[i])]
           Still == { i \in 0..n : SentTo(server, path[i]) = path[i] }
           Strange == { i \in 0..n : path[i] \notin Seq(STRING) }
<1>1. Still = {}
  <2> DEFINE Left == { d \in 0..n : n - d \in Still }
  <2> SUFFICES ASSUME Still # {} PROVE FALSE
    OBVIOUS
  <2>1. PICK i \in Still : TRUE
    OBVIOUS
  <2>2. n - i \in Left
    <3>1. i \in 0..n
      BY <2>1
    <3>2. n - i \in 0..n /\ n - (n - i) = i
      BY <3>1
    <3> QED BY <2>1, <3>2
  <2>3. Left \in SUBSET Nat /\ Left # {}
    <3>1. Left \in SUBSET Nat
      OBVIOUS
    <3> HIDE DEF Left
    <3> QED BY <2>2, <3>1
  <2>4. PICK d \in Left : \A e \in Left : d <= e
    <3> HIDE DEF Left
    <3> QED BY <2>3, MinIsMember, Zenon
  <2>5. d \in 0..n /\ SentTo(server, path[n - d]) = path[n - d]
    BY <2>4
  <2>6. d # 0
    BY <2>5
  <2>7. n - d + 1 \in 1..n /\ n - d + 1 - 1 = n - d /\ d - 1 \in 0..n /\ n - (d - 1) = n - d + 1
    BY <2>5, <2>6
  <2>8. path[n - d + 1] = path[n - d]
    <3>1. PICK k : k = n - d + 1
      OBVIOUS
    <3>2. k \in 1..n /\ k - 1 = n - d
      BY <2>7, <3>1
    <3>3. path[k] = SentTo(server, path[k - 1])
      BY <3>2, ZenonT(60)
    <3>4. path[k] = SentTo(server, path[n - d])
      BY <3>2, <3>3, Zenon
    <3> QED BY <2>5, <3>1, <3>4, Zenon
  <2>9. n - (d - 1) \in Still
    <3>1. SentTo(server, path[n - d + 1]) = path[n - d + 1]
      BY <2>5, <2>8, Zenon
    <3>2. n - (d - 1) \in 0..n
      BY <2>5, <2>6
    <3>3. SentTo(server, path[n - (d - 1)]) = path[n - (d - 1)]
      BY <2>7, <3>1, Zenon
    <3> QED BY <3>2, <3>3
  <2>10. d - 1 \in Left /\ ~ (d <= d - 1)
    BY <2>7, <2>9
  <2> QED BY <2>4, <2>10
<1>2. \A i \in 0..n : SentTo(server, path[i]) # path[i]
  BY <1>1
<1> HIDE DEF Still
<1>3. ASSUME NEW i \in 0..n, path[i] \in Seq(STRING), i + 1 \in 1..n
      PROVE  path[i + 1] \in Seq(STRING)
  <2>1. path[i + 1] = SentTo(server, path[i])
    BY <1>3
  <2>2. path[i] # <<>> /\ returns[Directory(path[i])].segs \in Seq(STRING)
        /\ SentTo(server, path[i]) = returns[Directory(path[i])].segs \o LeftOver(path[i])
    BY ZenonT(60), <1>2, <1>3, SentByReturn
  <2>3. LeftOver(path[i]) \in Seq(STRING)
    BY <1>3, <2>2, LeftOverFacts
  <2> QED BY SMTT(60), <2>1, <2>2, <2>3, ConcatProperties
<1>4. Strange = {}
  <2> SUFFICES ASSUME Strange # {} PROVE FALSE
    OBVIOUS
  <2>1. Strange \in SUBSET Nat
    OBVIOUS
  <2>2. PICK i \in Strange : \A j \in Strange : i <= j
    <3> HIDE DEF Strange
    <3> QED BY <2>1, MinIsMember, Zenon
  <2>3. i \in 0..n /\ path[i] \notin Seq(STRING) /\ i # 0
    BY <2>2
  <2>4. i - 1 \in 0..n /\ ~ (i <= i - 1) /\ i - 1 + 1 = i /\ i \in 1..n
    BY <2>3
  <2>5. path[i - 1] \in Seq(STRING)
    BY <2>2, <2>4
  <2> QED BY <1>3, <2>3, <2>4, <2>5
<1>5. \A i \in 0..n : path[i] \in Seq(STRING)
  BY <1>4
<1> HIDE DEF Strange
<1>6. ASSUME NEW i \in 0..n
      PROVE  /\ path[i] # <<>> /\ path[i][1] \notin Dotted
             /\ HasLocation(server, directory[i]) /\ directory[i] \in DOMAIN returns
             /\ returns[directory[i]] = Dir(returns[directory[i]].segs)
             /\ returns[directory[i]].segs \in Seq(STRING)
             /\ \A j \in DOMAIN returns[directory[i]].segs : returns[directory[i]].segs[j] \notin Dotted
             /\ SentTo(server, path[i]) = returns[directory[i]].segs \o LeftOver(path[i])
  <2>1. path[i] \in Seq(STRING) /\ SentTo(server, path[i]) # path[i]
    BY <1>2, <1>5
  <2>2. directory[i] = Directory(path[i])
    OBVIOUS
  <2> DEFINE names == path[i]
             to == returns[Directory(names)]
  <2> HIDE DEF directory, names
  <2>3. /\ names # <<>> /\ names[1] \notin Dotted
        /\ HasLocation(server, Directory(names)) /\ Directory(names) \in DOMAIN returns
        /\ to = Dir(to.segs) /\ to.segs \in Seq(STRING)
        /\ \A j \in DOMAIN to.segs : to.segs[j] \notin Dotted
        /\ SentTo(server, names) = to.segs \o LeftOver(names)
    BY <2>1, SentByReturn DEF names
  <2>4. returns[directory[i]] = to
    BY <2>2 DEF names
  <2> HIDE DEF to
  <2> QED BY <2>2, <2>3, <2>4 DEF names
<1>7. ASSUME NEW i \in 0..n, i + 1 \in 0..n
      PROVE  directory[i + 1] = returns[directory[i]]
  <2> DEFINE t == returns[directory[i]].segs
             rest == LeftOver(path[i])
  <2>1. i + 1 \in 1..n /\ i + 1 - 1 = i
    BY <1>7
  <2>2. path[i + 1] = SentTo(server, path[i])
    BY <2>1
  <2>3. directory[i + 1] = Directory(path[i + 1])
    BY <1>7
  <2> HIDE DEF directory
  <2>4. path[i + 1] = t \o rest /\ t \in Seq(STRING) /\ returns[directory[i]] = Dir(t)
        /\ \A j \in DOMAIN t : t[j] \notin Dotted
    BY <1>6, <2>2
  <2>5. rest \in Seq(STRING) /\ (Len(rest) > 0 => rest[1] \in Dotted)
    BY <1>5, <1>6, LeftOverFacts
  <2>6. t \o rest # <<>> /\ (t \o rest)[1] \notin Dotted
    BY <1>6, <1>7, <2>4
  <2> HIDE DEF t, rest
  <2>7. Directory(t \o rest) = Dir(t)
    BY <2>4, <2>5, <2>6, DirectoryReturnedTo
  <2> QED BY <2>3, <2>4, <2>7
<1> HIDE DEF directory
<1> DEFINE L == Len(server.locations)
           place == [i \in 1..n |-> Min(WithPath(server, directory[i]))]
<1>8. L \in Nat /\ DOMAIN server.locations = 1..L /\ n = L + 1
  BY SequenceFacts DEF IsServer, IsSequence
<1>9. ASSUME NEW i \in 1..n
      PROVE  place[i] \in 1..L /\ PathOf(server, place[i]) = directory[i]
  <2>0. i \in 0..n
    BY <1>9
  <2>1. HasLocation(server, directory[i])
    BY <1>6, <2>0
  <2>2. Min(WithPath(server, directory[i])) \in WithPath(server, directory[i])
    BY <2>1, FirstIsMember DEF HasLocation, WithPath
  <2> QED BY <1>8, <2>2 DEF WithPath, PathOf
<1>10. \E i, j \in 1..n : i # j /\ place[i] = place[j]
  <2>1. place \in [1..n -> 1..L]
    BY <1>9
  <2>2. IsFiniteSet(1..n) /\ IsFiniteSet(1..L) /\ Cardinality(1..L) < Cardinality(1..n)
    <3>1. /\ IsFiniteSet(1..n) /\ Cardinality(1..n) = IF 1 > n THEN 0 ELSE n - 1 + 1
          /\ IsFiniteSet(1..L) /\ Cardinality(1..L) = IF 1 > L THEN 0 ELSE L - 1 + 1
      <4>1. 1 \in Int /\ n \in Int /\ L \in Int
        BY <1>8
      <4> HIDE DEF L
      <4> QED BY <4>1, FS_Interval
    <3>2. L < n /\ n - 1 + 1 = n /\ L - 1 + 1 = L /\ ~ (1 > n) /\ L \in Nat /\ n \in Nat
      BY <1>8
    <3>3. Cardinality(1..n) = n /\ (Cardinality(1..L) = 0 \/ Cardinality(1..L) = L)
      BY <3>1, <3>2
    <3> HIDE DEF L
    <3> QED BY <3>1, <3>2, <3>3
  <2> HIDE DEF place, L
  <2>3. \E i, j \in 1..n : i # j /\ place[i] = place[j]
    <3> DEFINE S == 1..n
               T == 1..L
    <3>1. place \in [S -> T] /\ IsFiniteSet(S) /\ IsFiniteSet(T) /\ Cardinality(T) < Cardinality(S)
      BY <2>1, <2>2
    <3> SUFFICES \E i, j \in S : i # j /\ place[i] = place[j]
      OBVIOUS
    <3> HIDE DEF S, T
    <3> QED BY <3>1, FS_PigeonHole
  <2> QED BY <2>3
<1>11. PICK i \in 1..n, j \in 1..n : i < j /\ directory[i] = directory[j]
  <2>1. PICK a \in 1..n, b \in 1..n : a # b /\ place[a] = place[b]
    BY <1>10
  <2>2. directory[a] = directory[b]
    <3> HIDE DEF place
    <3> QED BY <1>9, <2>1
  <2>3. a < b \/ b < a
    BY <2>1
  <2> QED BY <2>2, <2>3
<1> DEFINE cycle == { directory[k] : k \in i..j - 1 }
<1>12. cycle # {} /\ cycle \in SUBSET DOMAIN returns
  <2>1. i \in i..j - 1 /\ \A k \in i..j - 1 : k \in 0..n
    BY <1>11
  <2>2. \A k \in i..j - 1 : directory[k] \in DOMAIN returns
    BY <1>6, <2>1
  <2> QED BY <2>1, <2>2
<1>13. ASSUME NEW p \in cycle PROVE returns[p] \in cycle
  <2>1. PICK k \in i..j - 1 : p = directory[k]
    OBVIOUS
  <2>2. k \in 0..n /\ k + 1 \in 0..n /\ (k + 1 \in i..j - 1 \/ k + 1 = j) /\ i \in i..j - 1
    BY <1>11, <2>1
  <2>3. returns[p] = directory[k + 1]
    BY <1>7, <2>1, <2>2
  <2>4. k + 1 = j => returns[p] = directory[i]
    BY <1>11, <2>3
  <2> QED BY <2>2, <2>3, <2>4
<1> HIDE DEF cycle
<1> QED BY <1>12, <1>13 DEF HasReturnCycle

(* Redirects of a file that was accepted end, for every file. *)
THEOREM RedirectsAlwaysEnd == Spec => []RedirectsEnd
<1>1. Init => ReturnInv
  BY InitReturnInv DEF Init
<1>2. SiteInv /\ ReturnInv => RedirectsEnd
  <2> SUFFICES ASSUME SiteInv, ReturnInv,
                      NEW pair \in DOMAIN servers, ReturnsAreDirectories(servers[pair]),
                      NEW i \in DOMAIN servers[pair].locations
               PROVE  LET server == servers[pair]
                          n == Len(server.locations) + 1
                          end == Followed(server, server.locations[i].directives["path"].segs, n)
                      IN Followed(server, end, 1) = end
    BY DEF RedirectsEnd
  <2> DEFINE server == servers[pair]
             n == Len(server.locations) + 1
             segs == PathOf(server, i).segs
             path == Chain(server, segs, n)
             end == path[n]
  <2>1. IsServer(server) /\ ReturnsKnown(server) /\ ~HasReturnCycle(server.returnLocations)
    BY DEF SiteInv, ParserInv, ServedInv, ReturnInv
  <2> HIDE DEF server
  <2>2. n \in Nat
    BY <2>1, SequenceFacts DEF IsServer, IsSequence
  <2>3. segs \in Seq(STRING)
    BY <2>1 DEF ReturnsKnown, HasPaths, PathOf, Path, server
  <2>4. ReturnsAreDirectories(server)
    BY DEF server
  <2> HIDE DEF segs, n
  <2>5. Followed(server, segs, n) = end /\ path[0] = segs
        /\ \A k \in 1..n : path[k] = SentTo(server, path[k - 1])
    BY <2>2, ChainFacts
  <2> HIDE DEF path
  <2>6. SentTo(server, end) = end
    BY <2>1, <2>2, <2>3, <2>4, <2>5, ChainEnds DEF n
  <2>7. Followed(server, end, 1) = SentTo(server, end)
    <3> HIDE DEF end
    <3>1. /\ Followed(server, end, 1) = Chain(server, end, 1)[1]
          /\ Chain(server, end, 1)[0] = end
          /\ \A k \in 1..1 : Chain(server, end, 1)[k] = SentTo(server, Chain(server, end, 1)[k - 1])
      BY ChainFacts
    <3>2. Chain(server, end, 1)[1] = SentTo(server, Chain(server, end, 1)[0])
      BY <3>1
    <3> QED BY <3>1, <3>2
  <2> QED BY <2>5, <2>6, <2>7 DEF server, segs, n, PathOf
<1> QED BY <1>1, <1>2, ReturnsStayKnown, Invariance, PTL DEF Spec

-----------------------------------------------------------------------------
(* What is declared is served: the text of a server block *)

(* The lines up to e that open a server block; whether s is the last of them; the
   text of the block it opens, as far as line e; and the lines of one word in it. *)
ServerLines(f, e) == { s \in 1..e : f[s].word = "server" }
IsLastServer(f, s, e) == \A j \in s + 1..e : f[j].word # "server"
TextOf(f, s, e) == { i \in s..e : IsLastServer(f, s, i) }
LinesOf(f, s, e, word) == { i \in TextOf(f, s, e) : f[i].word = word }

(* What the text says of the port and the hosts of the block. *)
ListenIn(f, s, e) ==
  LET lines == LinesOf(f, s, e, "listen")
  IN IF lines = {} THEN DEFAULT_LISTEN ELSE f[Min(lines)].args[1]
HostsIn(f, s, e) ==
  LET lines == LinesOf(f, s, e, "server_names")
  IN IF lines = {} THEN {Localhost} ELSE Range(f[Min(lines)].args)

(* Line o opens the block inside the server block that line n stands in. *)
Opens(f, o, n) ==
  /\ f[o].word \in {"location", "cgi"}
  /\ \A j \in o + 1..n : f[j].word \notin {"location", "cgi"}

(* How many locations the block has up to line n. *)
Place(f, s, n) == Cardinality({ i \in s..n : f[i].word = "location" })

(* A location has the path of its first line o and what line n says. *)
HasLine(location, f, o, n) ==
  /\ location.directives["path"] = f[o].args[1]
  /\ IF f[n].word = "limit_except"
     THEN Range(f[n].args) \subseteq location.allowedMethods
     ELSE /\ HasDirective(location, f[n].word)
          /\ location.directives[f[n].word] = f[n].args[1]

(* The locations have what the text says of each. *)
Keeps(locations, f, s, e) ==
  \A n \in TextOf(f, s, e) : \A o \in 1..n :
    /\ f[n].word \in Allowed["location"]
    /\ Opens(f, o, n) /\ f[o].word = "location"
    => /\ Place(f, s, n) \in 1..Len(locations)
       /\ HasLine(locations[Place(f, s, n)], f, o, n)

(* The last line that was read; and the locations of the server block being read,
   with the one that is not closed. *)
LastRead == IF lineNumber > Len(file) THEN Len(file) ELSE lineNumber - 1
Locations ==
  IF contextType = "location"
  THEN Append(serverContext.locations, locationContext)
  ELSE serverContext.locations
NamesOf(server) ==
  IF server.serverNames = <<>> THEN {Localhost} ELSE Range(server.serverNames)

(* The server block being read has what its text says so far. *)
Agrees(server, locations, f, s, e) ==
  /\ server.listen = ListenIn(f, s, e)
  /\ HostsIn(f, s, e) \subseteq NamesOf(server)
  /\ \A word \in {"listen", "server_names"} :
       word \notin server.directives => LinesOf(f, s, e, word) = {}
  /\ Len(locations) = Place(f, s, e)
  /\ Keeps(locations, f, s, e)

(* A server block that was handed to Config is found under all its hosts. *)
IsServed(map, f, s, e) ==
  \A host \in HostsIn(f, s, e) :
    LET pair == <<ListenIn(f, s, e), host>>
    IN pair \in DOMAIN map /\ Keeps(map[pair].locations, f, s, e)

(* The last server block of the text is the one being read, if one is. *)
TextServed ==
  \A s \in ServerLines(file, LastRead) :
    IF contextType # "http" /\ IsLastServer(file, s, LastRead)
    THEN Agrees(serverContext, Locations, file, s, LastRead)
    ELSE IsServed(servers, file, s, LastRead)

InServer ==
  contextType # "http" => \E s \in ServerLines(file, LastRead) : IsLastServer(file, s, LastRead)

InLocation ==
  contextType \in {"location", "cgi"} =>
    \E o \in 1..LastRead :
      /\ Opens(file, o, LastRead) /\ file[o].word = contextType
      /\ contextType = "location" => locationContext.directives["path"] = file[o].args[1]

LinesStandInBlocks ==
  \A n \in 1..LastRead :
    file[n].word \in Allowed["location"] =>
      /\ \E s \in 1..n : file[s].word = "server"
      /\ \E o \in 1..n : file[o].word \in {"location", "cgi"}

TextInv == TextServed /\ InServer /\ InLocation /\ LinesStandInBlocks

(* How the text of a block grows by a line. *)
LEMMA TextGrows ==
  ASSUME NEW f, NEW s \in Nat, NEW e \in Nat, s <= e
  PROVE  /\ IsLastServer(f, s, e + 1) <=> IsLastServer(f, s, e) /\ f[e + 1].word # "server"
         /\ IsLastServer(f, s, e + 1) => TextOf(f, s, e + 1) = TextOf(f, s, e) \cup {e + 1}
         /\ ~IsLastServer(f, s, e + 1) => TextOf(f, s, e + 1) = TextOf(f, s, e)
<1>1. /\ s + 1..e + 1 = (s + 1..e) \cup {e + 1}
      /\ s..e + 1 = (s..e) \cup {e + 1}
      /\ e + 1 \notin s..e
  OBVIOUS
<1>2. IsLastServer(f, s, e + 1) <=> IsLastServer(f, s, e) /\ f[e + 1].word # "server"
  BY <1>1 DEF IsLastServer
<1> DEFINE m == e + 1
<1>3. m = e + 1 /\ s..m = (s..e) \cup {m} /\ m \notin s..e
  BY <1>1
<1> HIDE DEF m
<1>4. /\ IsLastServer(f, s, m) => TextOf(f, s, m) = TextOf(f, s, e) \cup {m}
      /\ ~IsLastServer(f, s, m) => TextOf(f, s, m) = TextOf(f, s, e)
  BY <1>3 DEF TextOf
<1> QED BY <1>2, <1>3, <1>4

(* The lines of the other words stay the same; those of a block that is not the
   last one all do. *)
LEMMA LinesGrow ==
  ASSUME NEW f, NEW s \in Nat, NEW e \in Nat, s <= e, NEW word
  PROVE  /\ f[e + 1].word # word \/ ~IsLastServer(f, s, e + 1) =>
              LinesOf(f, s, e + 1, word) = LinesOf(f, s, e, word)
         /\ f[e + 1].word = word /\ IsLastServer(f, s, e + 1) =>
              LinesOf(f, s, e + 1, word) = LinesOf(f, s, e, word) \cup {e + 1}
<1> DEFINE m == e + 1
<1>1. /\ IsLastServer(f, s, m) => TextOf(f, s, m) = TextOf(f, s, e) \cup {m}
      /\ ~IsLastServer(f, s, m) => TextOf(f, s, m) = TextOf(f, s, e)
  BY TextGrows
<1> HIDE DEF m
<1>2. /\ f[m].word # word \/ ~IsLastServer(f, s, m) => LinesOf(f, s, m, word) = LinesOf(f, s, e, word)
      /\ f[m].word = word /\ IsLastServer(f, s, m) =>
           LinesOf(f, s, m, word) = LinesOf(f, s, e, word) \cup {m}
  BY <1>1 DEF LinesOf
<1> QED BY <1>2 DEF m

(* So does what they say. *)
LEMMA PairsGrow ==
  ASSUME NEW f, NEW s \in Nat, NEW e \in Nat, s <= e
  PROVE  /\ f[e + 1].word # "listen" \/ ~IsLastServer(f, s, e + 1) =>
              ListenIn(f, s, e + 1) = ListenIn(f, s, e)
         /\ f[e + 1].word # "server_names" \/ ~IsLastServer(f, s, e + 1) =>
              HostsIn(f, s, e + 1) = HostsIn(f, s, e)
<1> DEFINE m == e + 1
           Same(word) == LinesOf(f, s, m, word) = LinesOf(f, s, e, word)
<1>1. /\ f[m].word # "listen" \/ ~IsLastServer(f, s, m) => Same("listen")
      /\ f[m].word # "server_names" \/ ~IsLastServer(f, s, m) => Same("server_names")
  <2>1. /\ IsLastServer(f, s, m) => TextOf(f, s, m) = TextOf(f, s, e) \cup {m}
        /\ ~IsLastServer(f, s, m) => TextOf(f, s, m) = TextOf(f, s, e)
    BY TextGrows
  <2> HIDE DEF m
  <2> QED BY <2>1 DEF LinesOf
<1> HIDE DEF m
<1>2. /\ f[m].word # "listen" \/ ~IsLastServer(f, s, m) => ListenIn(f, s, m) = ListenIn(f, s, e)
      /\ f[m].word # "server_names" \/ ~IsLastServer(f, s, m) => HostsIn(f, s, m) = HostsIn(f, s, e)
  BY <1>1 DEF ListenIn, HostsIn
<1> QED BY <1>2 DEF m

(* The number of the locations up to a line. *)
LEMMA PlaceGrows ==
  ASSUME NEW f, NEW s \in Nat, NEW e \in Nat, s <= e
  PROVE  /\ Place(f, s, e) \in Nat
         /\ f[e + 1].word = "location" => Place(f, s, e + 1) = Place(f, s, e) + 1
         /\ f[e + 1].word # "location" => Place(f, s, e + 1) = Place(f, s, e)
<1> DEFINE m == e + 1
           before == { i \in s..e : f[i].word = "location" }
           after == { i \in s..m : f[i].word = "location" }
<1>1. m = e + 1 /\ s..m = (s..e) \cup {m} /\ m \notin s..e
  OBVIOUS
<1>2. IsFiniteSet(before)
  <2>1. s \in Int /\ e \in Int
    OBVIOUS
  <2>2. IsFiniteSet(s..e)
    BY <2>1, FS_Interval
  <2> QED BY <2>2, FS_Subset
<1> HIDE DEF m
<1>3. /\ f[m].word = "location" => after = before \cup {m}
      /\ f[m].word # "location" => after = before
      /\ m \notin before
  BY <1>1
<1> HIDE DEF before, after
<1>4. Cardinality(before) \in Nat
  BY <1>2, FS_CardinalityType
<1>5. f[m].word = "location" => Cardinality(after) = Cardinality(before) + 1
  BY <1>2, <1>3, FS_AddElement
<1>6. f[m].word # "location" => Cardinality(after) = Cardinality(before)
  BY <1>3
<1> QED BY <1>4, <1>5, <1>6 DEF Place, m, before, after

(* There is none before the line that opens the block. *)
LEMMA PlaceAtFirst ==
  ASSUME NEW f, NEW s \in Nat, f[s].word = "server"
  PROVE  Place(f, s, s) = 0
<1>1. { i \in s..s : f[i].word = "location" } = {}
  OBVIOUS
<1> QED BY <1>1, FS_EmptySet DEF Place

(* A line that is no directive of a location, or belongs to another block, asks
   nothing of the locations. *)
LEMMA KeepsGrows ==
  ASSUME NEW f, NEW s \in Nat, NEW e \in Nat, s <= e, NEW locations, Keeps(locations, f, s, e),
         f[e + 1].word \notin Allowed["location"] \/ ~IsLastServer(f, s, e + 1)
  PROVE  Keeps(locations, f, s, e + 1)
<1> DEFINE m == e + 1
<1>1. /\ IsLastServer(f, s, m) => TextOf(f, s, m) = TextOf(f, s, e) \cup {m}
      /\ ~IsLastServer(f, s, m) => TextOf(f, s, m) = TextOf(f, s, e)
      /\ f[m].word \notin Allowed["location"] \/ ~IsLastServer(f, s, m)
  BY TextGrows
<1> HIDE DEF m
<1>2. \A n \in TextOf(f, s, m) : f[n].word \in Allowed["location"] => n \in TextOf(f, s, e)
  BY <1>1
<1>3. Keeps(locations, f, s, m)
  BY <1>2, Zenon DEF Keeps
<1> QED BY <1>3 DEF m

(* The block a line opens has no other line yet. *)
LEMMA FirstLine ==
  ASSUME NEW f, NEW s \in Nat, f[s].word = "server"
  PROVE  /\ IsLastServer(f, s, s) /\ TextOf(f, s, s) = {s}
         /\ \A word : word # "server" => LinesOf(f, s, s, word) = {}
         /\ ListenIn(f, s, s) = DEFAULT_LISTEN /\ HostsIn(f, s, s) = {Localhost}
         /\ \A locations : Keeps(locations, f, s, s)
<1>1. s..s = {s} /\ s + 1..s = {}
  OBVIOUS
<1>2. IsLastServer(f, s, s) /\ TextOf(f, s, s) = {s}
  BY <1>1 DEF IsLastServer, TextOf
<1>3. \A word : word # "server" => LinesOf(f, s, s, word) = {}
  BY <1>2 DEF LinesOf
<1>4. "server" \notin Allowed["location"]
  BY DEF Allowed
<1> QED BY <1>2, <1>3, <1>4 DEF ListenIn, HostsIn, Keeps

(* A line stands in one block only. *)
LEMMA OneOpens ==
  ASSUME NEW f, NEW n \in Nat, NEW o \in 1..n, NEW p \in 1..n, Opens(f, o, n), Opens(f, p, n)
  PROVE  o = p
<1>1. ASSUME NEW a \in 1..n, NEW b \in 1..n, a < b, Opens(f, a, n), Opens(f, b, n)
      PROVE  FALSE
  <2>1. b \in a + 1..n
    BY <1>1
  <2> QED BY <1>1, <2>1 DEF Opens
<1>2. o < p \/ p < o \/ o = p
  OBVIOUS
<1> QED BY <1>1, <1>2

(* The line after the last one stands in the same block or opens one. *)
LEMMA OpensGrows ==
  ASSUME NEW f, NEW o \in Nat, NEW e \in Nat, o <= e
  PROVE  /\ Opens(f, o, e) /\ f[e + 1].word \notin {"location", "cgi"} => Opens(f, o, e + 1)
         /\ f[e + 1].word \in {"location", "cgi"} => Opens(f, e + 1, e + 1)
<1>1. /\ o + 1..e + 1 = (o + 1..e) \cup {e + 1}
      /\ e + 1 + 1..e + 1 = {}
  OBVIOUS
<1> QED BY <1>1 DEF Opens

(* Locations keep what they have, and the last of them gets the line that is read. *)
LEMMA KeepsStep ==
  ASSUME NEW f, NEW s \in Nat, NEW e \in Nat, s <= e,
         NEW before, NEW after, Keeps(before, f, s, e),
         Len(before) \in Nat, Len(after) \in Nat, Len(before) <= Len(after),
         \A i \in 1..Len(before) : \A o, n :
           f[n].word \in Allowed["location"] /\ HasLine(before[i], f, o, n) => HasLine(after[i], f, o, n),
         \A o \in 1..e + 1 :
           /\ f[e + 1].word \in Allowed["location"]
           /\ Opens(f, o, e + 1) /\ f[o].word = "location"
           => /\ Place(f, s, e + 1) \in 1..Len(after)
              /\ HasLine(after[Place(f, s, e + 1)], f, o, e + 1)
  PROVE  Keeps(after, f, s, e + 1)
<1> SUFFICES ASSUME NEW n \in TextOf(f, s, e + 1), NEW o \in 1..n,
                    f[n].word \in Allowed["location"], Opens(f, o, n), f[o].word = "location"
             PROVE  /\ Place(f, s, n) \in 1..Len(after)
                    /\ HasLine(after[Place(f, s, n)], f, o, n)
  BY DEF Keeps
<1>1. n \in TextOf(f, s, e) \/ n = e + 1
  <2> DEFINE m == e + 1
  <2>1. /\ IsLastServer(f, s, m) => TextOf(f, s, m) = TextOf(f, s, e) \cup {m}
        /\ ~IsLastServer(f, s, m) => TextOf(f, s, m) = TextOf(f, s, e)
    BY ZenonT(60), TextGrows
  <2> HIDE DEF m
  <2>2. n \in TextOf(f, s, m) => n \in TextOf(f, s, e) \/ n = m
    BY <2>1
  <2> QED BY <2>2 DEF m
<1>2. CASE n \in TextOf(f, s, e)
  <2>1. Place(f, s, n) \in 1..Len(before) /\ HasLine(before[Place(f, s, n)], f, o, n)
    BY <1>2 DEF Keeps
  <2>2. HasLine(after[Place(f, s, n)], f, o, n)
    BY <2>1
  <2>3. \A i \in 1..Len(before) : i \in 1..Len(after)
    OBVIOUS
  <2> QED BY <2>1, <2>2, <2>3
<1>3. CASE n = e + 1
  BY <1>3
<1> QED BY <1>1, <1>2, <1>3

(* The place of the last line among the lines that were read. *)
LEMMA LastReadFacts ==
  ASSUME PlaceInv
  PROVE  /\ LastRead \in Nat /\ LastRead <= Len(file)
         /\ lineNumber <= Len(file) => lineNumber = LastRead + 1
         /\ ~AtEnd => lineNumber <= Len(file)
<1>1. Len(file) \in Nat /\ lineNumber \in Nat \ {0}
  BY FileAssumption DEF PlaceInv
<1>2. ~AtEnd => ~ (lineNumber > Len(file))
  BY DEF AtEnd, Word
<1> QED BY <1>1, <1>2 DEF LastRead

(* A turn of the parser's loops reads one more line, or ends a block behind the
   last one. *)
LEMMA ReadsALine ==
  ASSUME PlaceInv, Advance
  PROVE  /\ file' = file
         /\ \/ LastRead' = LastRead /\ AtEnd
            \/ LastRead' = LastRead + 1 /\ Line = file[LastRead + 1] /\ Word = file[LastRead + 1].word
         /\ ~AtEnd => LastRead' = LastRead + 1
<1>1. Len(file) \in Nat /\ lineNumber \in Nat \ {0}
  BY FileAssumption DEF PlaceInv
<1>2. file' = file /\ lineNumber' = lineNumber + 1
  BY DEF Advance
<1>3. CASE lineNumber > Len(file)
  <2>1. lineNumber + 1 > Len(file)
    BY <1>1, <1>3
  <2>2. LastRead' = Len(file) /\ LastRead = Len(file)
    BY <1>2, <1>3, <2>1 DEF LastRead
  <2> QED BY <1>2, <1>3, <2>2 DEF AtEnd, Word
<1>4. CASE ~ (lineNumber > Len(file))
  <2>1. lineNumber + 1 > Len(file) => lineNumber = Len(file)
    BY <1>1, <1>4
  <2>2. LastRead' = lineNumber /\ LastRead = lineNumber - 1
    <3>1. lineNumber + 1 - 1 = lineNumber
      BY <1>1
    <3>2. LastRead' = IF lineNumber + 1 > Len(file) THEN Len(file) ELSE lineNumber + 1 - 1
      BY <1>1, <1>2 DEF LastRead
    <3> QED BY <1>4, <2>1, <3>1, <3>2 DEF LastRead
  <2>3. LastRead + 1 = lineNumber
    BY <1>1, <2>2
  <2> QED BY <1>2, <1>4, <2>2, <2>3 DEF Line, Word
<1> QED BY <1>3, <1>4

(* A line that says nothing of the server and its locations. *)
LEMMA OtherLineAgrees ==
  ASSUME NEW f, NEW s \in Nat, NEW e \in Nat, s <= e, NEW server, NEW locations,
         Agrees(server, locations, f, s, e),
         f[e + 1].word \notin {"listen", "server_names", "location"} \cup Allowed["location"],
         NEW other, other.listen = server.listen, other.serverNames = server.serverNames,
         server.directives \subseteq other.directives
  PROVE  Agrees(other, locations, f, s, e + 1)
<1>1. ListenIn(f, s, e + 1) = ListenIn(f, s, e) /\ HostsIn(f, s, e + 1) = HostsIn(f, s, e)
  BY PairsGrow
<1>2. ASSUME NEW word \in {"listen", "server_names"}
      PROVE  LinesOf(f, s, e + 1, word) = LinesOf(f, s, e, word)
  BY LinesGrow
<1>3. Place(f, s, e + 1) = Place(f, s, e)
  BY PlaceGrows
<1>4. Keeps(locations, f, s, e + 1)
  BY KeepsGrows DEF Agrees
<1>5. NamesOf(other) = NamesOf(server)
  BY DEF NamesOf
<1> QED BY <1>1, <1>2, <1>3, <1>4, <1>5 DEF Agrees

(* No line at all. *)
LEMMA NoLineAgrees ==
  ASSUME NEW f, NEW s, NEW e, NEW server, NEW locations,
         Agrees(server, locations, f, s, e),
         NEW other, other.listen = server.listen, other.serverNames = server.serverNames,
         server.directives \subseteq other.directives
  PROVE  Agrees(other, locations, f, s, e)
<1>1. NamesOf(other) = NamesOf(server)
  BY DEF NamesOf
<1> QED BY <1>1 DEF Agrees

(* The block being read, as far as it is read. *)
Reading(s) ==
  /\ s \in ServerLines(file, LastRead) /\ IsLastServer(file, s, LastRead)
  /\ Agrees(serverContext, Locations, file, s, LastRead)

(* It starts at one of the lines that were read. *)
LEMMA ReadingFacts ==
  ASSUME PlaceInv, NEW s, Reading(s)
  PROVE  s \in Nat /\ LastRead \in Nat /\ s <= LastRead
BY LastReadFacts DEF Reading, ServerLines

(* The first line "listen" of a block, and the first "server_names", are the only
   ones. *)
LEMMA DirectiveAgrees ==
  ASSUME ParserInv, NEW s, Reading(s), ServerDirective, ~Refuse
  PROVE  Agrees(serverContext', Locations', file, s, LastRead')
<1> DEFINE e == LastRead
           m == e + 1
           server == WithServerDirective(serverContext)
           locations == serverContext.locations
<1>1. /\ contextType = "server" /\ contextType' = "server" /\ ~AtEnd /\ Advance /\ ServerDirectiveIsGood
      /\ Word \in {"listen", "server_names", "client_max_body_size", "error_page"}
      /\ serverContext' = [server EXCEPT !.directives = @ \cup {Word}]
  BY DEF ServerDirective, Reads, Allowed
<1>2. /\ s \in Nat /\ e \in Nat /\ s <= e /\ m = e + 1
      /\ LastRead' = m /\ Line = file[m] /\ Word = file[m].word
  BY <1>1, ReadingFacts, ReadsALine DEF ParserInv
<1>3. DOMAIN serverContext = {"listen", "serverNames", "maxBodySize", "errorPages",
                              "directives", "locations", "returnLocations", "cgi"}
  BY ServerFields DEF ParserInv
<1>4. /\ DOMAIN server = DOMAIN serverContext
      /\ server.locations = locations /\ server.directives = serverContext.directives
      /\ server.listen = IF Word = "listen" THEN Arg ELSE serverContext.listen
      /\ server.serverNames = IF Word = "server_names" THEN Line.args ELSE serverContext.serverNames
  BY <1>1, <1>3 DEF WithServerDirective
<1> HIDE DEF server
<1>5. /\ serverContext'.locations = locations
      /\ serverContext'.directives = serverContext.directives \cup {Word}
      /\ serverContext'.listen = IF Word = "listen" THEN Arg ELSE serverContext.listen
      /\ serverContext'.serverNames = IF Word = "server_names" THEN Line.args ELSE serverContext.serverNames
  BY <1>1, <1>3, <1>4
<1>6. Locations = locations /\ Locations' = locations
  BY <1>1, <1>5 DEF Locations
<1>7. Agrees(serverContext, locations, file, s, e)
  BY <1>6 DEF Reading
<1>8. Word \notin Allowed["location"]
  BY <1>1 DEF Allowed
<1> HIDE DEF e
<1>9. CASE Word \in {"client_max_body_size", "error_page"}
  <2>1. Agrees(serverContext', locations, file, s, e + 1)
    BY <1>2, <1>5, <1>7, <1>8, <1>9, OtherLineAgrees
  <2> QED BY <1>2, <1>6, <2>1
<1>10. CASE Word \in {"listen", "server_names"}
  <2>1. LinesOf(file, s, e, Word) = {}
    BY <1>1, <1>7, <1>10 DEF ServerDirectiveIsGood, Agrees
  <2>2. IsLastServer(file, s, m)
    <3>1. IsLastServer(file, s, e) /\ file[m].word # "server"
      BY <1>2, <1>10 DEF Reading, e
    <3> QED BY <1>2, <3>1, TextGrows
  <2>3. LinesOf(file, s, m, Word) = {m}
    <3>1. LinesOf(file, s, e + 1, Word) = LinesOf(file, s, e, Word) \cup {e + 1}
      BY SMTT(40), <1>2, <2>2, LinesGrow
    <3> QED BY <2>1, <3>1
  <2>4. Min({m}) = m
    <3>1. {m} \in SUBSET Nat /\ {m} # {}
      BY <1>2
    <3> QED BY <3>1, MinIsMember
  <2>5. /\ Place(file, s, m) = Place(file, s, e) /\ Keeps(locations, file, s, m)
    <3>1. file[e + 1].word # "location" /\ file[e + 1].word \notin Allowed["location"]
      BY <1>2, <1>8, <1>10
    <3> QED BY <1>2, <1>7, <3>1, PlaceGrows, KeepsGrows DEF Agrees
  <2>6. ASSUME NEW word \in {"listen", "server_names"}, word # Word
        PROVE  LinesOf(file, s, m, word) = LinesOf(file, s, e, word)
    <3>1. file[e + 1].word # word
      BY <1>2, <2>6
    <3> QED BY <1>2, <3>1, LinesGrow
  <2>7. CASE Word = "listen"
    <3>1. ListenIn(file, s, m) = Arg
      BY <1>2, <2>3, <2>4, <2>7 DEF ListenIn, Arg
    <3>2. HostsIn(file, s, m) = HostsIn(file, s, e) /\ NamesOf(serverContext') = NamesOf(serverContext)
      BY <1>5, <2>6, <2>7 DEF HostsIn, NamesOf
    <3> HIDE DEF m
    <3> QED BY <1>2, <1>5, <1>6, <1>7, <2>5, <2>6, <2>7, <3>1, <3>2 DEF Agrees
  <2>8. CASE Word = "server_names"
    <3>1. ListenIn(file, s, m) = ListenIn(file, s, e)
      BY <2>6, <2>8 DEF ListenIn
    <3>2. HostsIn(file, s, m) = Range(Line.args)
      BY <1>2, <2>3, <2>4, <2>8 DEF HostsIn
    <3>3. HostsIn(file, s, m) \subseteq NamesOf(serverContext')
      BY <1>5, <2>8, <3>2 DEF NamesOf, Range
    <3> HIDE DEF m
    <3> QED BY <1>2, <1>5, <1>6, <1>7, <2>5, <2>6, <2>8, <3>1, <3>3 DEF Agrees
  <2> QED BY <1>10, <2>7, <2>8
<1> QED BY <1>1, <1>9, <1>10

(* A location takes the next place. *)
LEMMA OpenLocationAgrees ==
  ASSUME ParserInv, NEW s, Reading(s), OpenLocation, ~Refuse
  PROVE  Agrees(serverContext', Locations', file, s, LastRead')
<1> DEFINE e == LastRead
           m == e + 1
           locations == serverContext.locations
           added == Append(locations, locationContext')
<1>1. /\ contextType = "server" /\ contextType' = "location" /\ ~AtEnd /\ Advance
      /\ Word = "location" /\ serverContext' = serverContext
  BY DEF OpenLocation, Reads
<1>2. /\ s \in Nat /\ e \in Nat /\ s <= e /\ m = e + 1
      /\ LastRead' = m /\ Line = file[m] /\ file[m].word = "location"
  BY <1>1, ReadingFacts, ReadsALine DEF ParserInv
<1>3. Locations = locations /\ Locations' = added
  BY <1>1 DEF Locations
<1>4. Agrees(serverContext, locations, file, s, e)
  BY <1>3 DEF Reading
<1> HIDE DEF e
<1>5. IsSequence(locations) /\ Len(locations) \in Nat /\ DOMAIN locations = 1..Len(locations)
  BY SequenceFacts DEF ParserInv, IsServer, IsSequence
<1>6. /\ Len(added) = Len(locations) + 1
      /\ \A i \in 1..Len(locations) : added[i] = locations[i]
  <2>1. /\ IsSequence(added) /\ DOMAIN added = 1..Len(locations) + 1
        /\ \A i \in 1..Len(locations) : added[i] = locations[i]
    BY <1>5, AppendFacts
  <2>2. Len(added) \in Nat /\ DOMAIN added = 1..Len(added)
    BY <2>1, SequenceFacts DEF IsSequence
  <2> HIDE DEF added
  <2> QED BY <1>5, <2>1, <2>2
<1> HIDE DEF added, locations
<1>7. file[e + 1].word \notin Allowed["location"] /\ file[e + 1].word \notin {"listen", "server_names"}
  BY <1>2 DEF Allowed
<1>8. Keeps(locations, file, s, e) /\ Len(locations) = Place(file, s, e)
  BY <1>4 DEF Agrees
<1>9. Keeps(added, file, s, e + 1)
  <2>1. Len(added) \in Nat /\ Len(locations) <= Len(added)
    BY <1>5, <1>6
  <2> QED BY <1>2, <1>5, <1>6, <1>7, <1>8, <2>1, KeepsStep
<1>10. Place(file, s, e + 1) = Place(file, s, e) + 1
  BY <1>2, PlaceGrows
<1>11. ListenIn(file, s, e + 1) = ListenIn(file, s, e) /\ HostsIn(file, s, e + 1) = HostsIn(file, s, e)
  BY <1>2, <1>7, PairsGrow
<1>12. ASSUME NEW word \in {"listen", "server_names"}
       PROVE  LinesOf(file, s, e + 1, word) = LinesOf(file, s, e, word)
  <2>1. file[e + 1].word # word
    BY <1>7
  <2> QED BY <1>2, <2>1, LinesGrow
<1>13. Agrees(serverContext, added, file, s, e + 1)
  BY <1>4, <1>6, <1>8, <1>9, <1>10, <1>11, <1>12 DEF Agrees
<1> QED BY <1>1, <1>2, <1>3, <1>13

(* A block of scripts takes none. *)
LEMMA OpenCgiAgrees ==
  ASSUME ParserInv, NEW s, Reading(s), OpenCgi
  PROVE  Agrees(serverContext', Locations', file, s, LastRead')
<1> DEFINE e == LastRead
<1>1. /\ contextType = "server" /\ contextType' = "cgi" /\ ~AtEnd /\ Advance
      /\ Word = "cgi" /\ serverContext' = serverContext
  BY DEF OpenCgi, Reads
<1>2. /\ s \in Nat /\ e \in Nat /\ s <= e
      /\ LastRead' = e + 1 /\ file[e + 1].word = "cgi"
  BY <1>1, ReadingFacts, ReadsALine DEF ParserInv
<1>3. Locations' = Locations
  BY <1>1 DEF Locations
<1>4. file[e + 1].word \notin {"listen", "server_names", "location"} \cup Allowed["location"]
  BY <1>2 DEF Allowed
<1>5. Agrees(serverContext, Locations, file, s, e)
  BY DEF Reading
<1> HIDE DEF e
<1>6. Agrees(serverContext, Locations, file, s, e + 1)
  BY <1>2, <1>4, <1>5, OtherLineAgrees
<1> QED BY <1>1, <1>2, <1>3, <1>6

(* The end of a block inside a server block, with a line "}" or without one. *)
LEMMA InnerEndAgrees ==
  ASSUME ParserInv, NEW s, Reading(s), (CloseLocation /\ ~Refuse) \/ CloseCgi
  PROVE  Agrees(serverContext', Locations', file, s, LastRead')
<1> DEFINE e == LastRead
           locations == Locations
<1>1. AtEnd /\ Advance /\ contextType' = "server"
  BY DEF CloseLocation, CloseCgi, Ends
<1>2. /\ s \in Nat /\ e \in Nat /\ s <= e
      /\ LastRead' = e \/ (LastRead' = e + 1 /\ file[e + 1].word = "}")
  BY <1>1, ReadingFacts, ReadsALine DEF ParserInv, AtEnd
<1>3. DOMAIN serverContext = {"listen", "serverNames", "maxBodySize", "errorPages",
                              "directives", "locations", "returnLocations", "cgi"}
  BY ServerFields DEF ParserInv
<1>4. /\ Locations' = locations
      /\ serverContext'.listen = serverContext.listen
      /\ serverContext'.serverNames = serverContext.serverNames
      /\ serverContext'.directives = serverContext.directives
  <2>1. CASE CloseLocation /\ ~Refuse
    <3>1. /\ contextType = "location"
          /\ serverContext' = AddLocationContext(serverContext, locationContext)
      BY <2>1 DEF CloseLocation, Ends
    <3>2. serverContext'.locations = Append(serverContext.locations, locationContext)
      BY <1>3, <3>1 DEF AddLocationContext
    <3>3. /\ serverContext'.listen = serverContext.listen
          /\ serverContext'.serverNames = serverContext.serverNames
          /\ serverContext'.directives = serverContext.directives
      BY <1>3, <3>1 DEF AddLocationContext
    <3> QED BY <1>1, <3>1, <3>2, <3>3 DEF Locations
  <2>2. CASE CloseCgi
    <3>1. contextType = "cgi" /\ serverContext' = [serverContext EXCEPT !.cgi = cgiContext]
      BY <2>2 DEF CloseCgi, Ends
    <3>2. /\ serverContext'.listen = serverContext.listen
          /\ serverContext'.serverNames = serverContext.serverNames
          /\ serverContext'.directives = serverContext.directives
          /\ serverContext'.locations = serverContext.locations
      BY <1>3, <3>1
    <3> QED BY <1>1, <3>1, <3>2 DEF Locations
  <2> QED BY <2>1, <2>2
<1>5. Agrees(serverContext, locations, file, s, e)
  BY DEF Reading
<1>6. "}" \notin {"listen", "server_names", "location"} \cup Allowed["location"]
  BY DEF Allowed
<1> HIDE DEF e, locations
<1>7. Agrees(serverContext', locations, file, s, e)
  BY <1>4, <1>5, NoLineAgrees
<1>8. file[e + 1].word = "}" => Agrees(serverContext', locations, file, s, e + 1)
  <2> SUFFICES ASSUME file[e + 1].word = "}"
               PROVE  Agrees(serverContext', locations, file, s, e + 1)
    OBVIOUS
  <2> QED BY <1>2, <1>4, <1>5, <1>6, OtherLineAgrees
<1> QED BY <1>2, <1>4, <1>7, <1>8

(* A comment. *)
LEMMA CommentAgrees ==
  ASSUME ParserInv, NEW s, Reading(s), Comment
  PROVE  Agrees(serverContext', Locations', file, s, LastRead')
<1> DEFINE e == LastRead
<1>1. ~AtEnd /\ Advance /\ Word = "#" /\ UNCHANGED <<contextType, blocks>>
  BY DEF Comment
<1>2. /\ s \in Nat /\ e \in Nat /\ s <= e
      /\ LastRead' = e + 1 /\ file[e + 1].word = "#"
  BY <1>1, ReadingFacts, ReadsALine DEF ParserInv
<1>3. Locations' = Locations /\ serverContext' = serverContext
  BY <1>1 DEF Locations, blocks
<1>4. file[e + 1].word \notin {"listen", "server_names", "location"} \cup Allowed["location"]
  BY <1>2 DEF Allowed
<1>5. Agrees(serverContext, Locations, file, s, e)
  BY DEF Reading
<1> HIDE DEF e
<1>6. Agrees(serverContext, Locations, file, s, e + 1)
  BY <1>2, <1>4, <1>5, OtherLineAgrees
<1> QED BY <1>2, <1>3, <1>6

(* The words of directives in a location are none of a server block. *)
LEMMA LocationWords ==
  ASSUME NEW word \in Allowed["location"]
  PROVE  word \notin {"listen", "server_names", "location", "cgi", "server", "path"}
BY DEF Allowed

(* Directives of locations say nothing of the server's port, hosts and places. *)
LEMMA InnerLineAgrees ==
  ASSUME NEW f, NEW s \in Nat, NEW e \in Nat, s <= e, NEW server, NEW before, NEW after,
         Agrees(server, before, f, s, e), f[e + 1].word \in Allowed["location"],
         Len(after) = Len(before), Keeps(after, f, s, e + 1)
  PROVE  Agrees(server, after, f, s, e + 1)
<1>1. f[e + 1].word \notin {"listen", "server_names", "location"}
  BY LocationWords
<1>2. ListenIn(f, s, e + 1) = ListenIn(f, s, e) /\ HostsIn(f, s, e + 1) = HostsIn(f, s, e)
  BY <1>1, PairsGrow
<1>3. Place(f, s, e + 1) = Place(f, s, e)
  BY <1>1, PlaceGrows
<1>4. ASSUME NEW word \in {"listen", "server_names"}
      PROVE  LinesOf(f, s, e + 1, word) = LinesOf(f, s, e, word)
  <2>1. f[e + 1].word # word
    BY <1>1
  <2> QED BY <2>1, LinesGrow
<1> QED BY <1>2, <1>3, <1>4 DEF Agrees

(* A directive of the location being read is kept in the last of the locations. *)
LEMMA LocationLineAgrees ==
  ASSUME ParserInv, NEW s, Reading(s), InLocation,
         contextType = "location", contextType' = "location", ~AtEnd, Advance,
         Word \in Allowed["location"], serverContext' = serverContext,
         \A o, n : file[n].word \in Allowed["location"] /\ HasLine(locationContext, file, o, n) =>
                     HasLine(locationContext', file, o, n),
         \A o : locationContext.directives["path"] = file[o].args[1] =>
                  HasLine(locationContext', file, o, LastRead + 1)
  PROVE  Agrees(serverContext', Locations', file, s, LastRead')
<1> DEFINE e == LastRead
           locations == serverContext.locations
           k == Len(locations) + 1
           before == Append(locations, locationContext)
           after == Append(locations, locationContext')
<1>1. /\ s \in Nat /\ e \in Nat /\ s <= e
      /\ LastRead' = e + 1 /\ file[e + 1].word \in Allowed["location"]
  BY ReadingFacts, ReadsALine DEF ParserInv
<1>2. Locations = before /\ Locations' = after
  BY DEF Locations
<1>3. Agrees(serverContext, before, file, s, e)
  BY <1>2 DEF Reading
<1>4. PICK p \in 1..e : /\ Opens(file, p, e) /\ file[p].word = "location"
                        /\ locationContext.directives["path"] = file[p].args[1]
  BY DEF InLocation
<1>5. HasLine(locationContext', file, p, e + 1)
  BY <1>4
<1> HIDE DEF e
<1>6. IsSequence(locations) /\ Len(locations) \in Nat /\ DOMAIN locations = 1..Len(locations)
  BY SequenceFacts DEF ParserInv, IsServer, IsSequence
<1>7. ASSUME NEW last
      PROVE  /\ Len(Append(locations, last)) = k
             /\ \A i \in 1..Len(locations) : Append(locations, last)[i] = locations[i]
             /\ Append(locations, last)[k] = last
  <2>1. /\ IsSequence(Append(locations, last)) /\ DOMAIN Append(locations, last) = 1..Len(locations) + 1
        /\ \A i \in 1..Len(locations) : Append(locations, last)[i] = locations[i]
        /\ Append(locations, last)[Len(locations) + 1] = last
    BY <1>6, AppendFacts
  <2>2. Len(Append(locations, last)) \in Nat /\ DOMAIN Append(locations, last) = 1..Len(Append(locations, last))
    BY <2>1, SequenceFacts DEF IsSequence
  <2> DEFINE n == Len(Append(locations, last))
  <2> HIDE DEF n
  <2>3. n \in Nat /\ 1..n = 1..Len(locations) + 1
    BY <2>1, <2>2 DEF n
  <2>4. n = Len(locations) + 1
    BY <1>6, <2>3
  <2> QED BY <2>1, <2>4 DEF n
<1>8. /\ Len(before) = k /\ Len(after) = k /\ k \in Nat /\ k \in 1..k
      /\ \A i \in 1..k :
           \/ /\ i # k
              /\ after[i] = before[i]
           \/ /\ i = k
              /\ after[i] = locationContext'
              /\ before[i] = locationContext
  <2>1. \A i \in 1..k : i = k \/ (i # k /\ i \in 1..Len(locations))
    BY <1>6
  <2>2. k \in Nat /\ k \in 1..k
    BY <1>6
  <2>3. /\ Len(before) = k /\ before[k] = locationContext
        /\ \A i \in 1..Len(locations) : before[i] = locations[i]
    BY <1>7
  <2>4. /\ Len(after) = k /\ after[k] = locationContext'
        /\ \A i \in 1..Len(locations) : after[i] = locations[i]
    BY <1>7
  <2> HIDE DEF k, before, after
  <2> QED BY <2>1, <2>2, <2>3, <2>4
<1> HIDE DEF before, after, k
<1>9. Keeps(before, file, s, e) /\ Place(file, s, e) = k
  BY <1>3, <1>8 DEF Agrees
<1>10. Place(file, s, e + 1) = k
  BY <1>1, <1>9, PlaceGrows, LocationWords
<1>11. Opens(file, p, e + 1)
  BY <1>1, <1>4, OpensGrows, LocationWords
<1>12. ASSUME NEW o \in 1..e + 1, Opens(file, o, e + 1)
       PROVE  HasLine(locationContext', file, o, e + 1)
  <2>1. e + 1 \in Nat /\ p \in 1..e + 1
    BY <1>1
  <2>2. o = p
    BY <1>11, <1>12, <2>1, OneOpens
  <2> QED BY <1>5, <2>2
<1>13. ASSUME NEW i \in 1..Len(before), NEW o, NEW n,
              file[n].word \in Allowed["location"], HasLine(before[i], file, o, n)
       PROVE  HasLine(after[i], file, o, n)
  BY <1>8, <1>13
<1>14. Keeps(after, file, s, e + 1)
  <2>1. Len(before) \in Nat /\ Len(after) \in Nat /\ Len(before) <= Len(after)
    BY <1>8
  <2>2. Place(file, s, e + 1) \in 1..Len(after) /\ after[Place(file, s, e + 1)] = locationContext'
    BY <1>8, <1>10
  <2> QED BY <1>1, <1>9, <1>12, <1>13, <2>1, <2>2, KeepsStep
<1>15. Agrees(serverContext, after, file, s, e + 1)
  BY <1>1, <1>3, <1>8, <1>14, InnerLineAgrees
<1> QED BY <1>1, <1>2, <1>15

(* limit_except adds methods. *)
LEMMA LimitExceptAgrees ==
  ASSUME ParserInv, NEW s, Reading(s), InLocation, LimitExcept
  PROVE  Agrees(serverContext', Locations', file, s, LastRead')
<1> DEFINE methods == locationContext.allowedMethods \cup Range(Line.args)
<1>1. /\ contextType = "location" /\ contextType' = "location" /\ ~AtEnd /\ Advance
      /\ Word = "limit_except" /\ serverContext' = serverContext
      /\ locationContext' = [locationContext EXCEPT !.allowedMethods = methods]
  BY DEF LimitExcept, Reads
<1>2. Line = file[LastRead + 1] /\ file[LastRead + 1].word = "limit_except"
  BY <1>1, ReadsALine, LastReadFacts DEF ParserInv
<1>3. /\ locationContext'.directives = locationContext.directives
      /\ locationContext'.allowedMethods = methods
  BY <1>1 DEF ParserInv, LocationInv
<1>4. Word \in Allowed["location"]
  BY <1>1 DEF Allowed
<1>5. Range(file[LastRead + 1].args) \subseteq locationContext'.allowedMethods
  BY <1>2, <1>3
<1>6. locationContext.allowedMethods \subseteq locationContext'.allowedMethods
  BY <1>3
<1> HIDE DEF methods
<1>7. ASSUME NEW o, NEW n, HasLine(locationContext, file, o, n)
      PROVE  HasLine(locationContext', file, o, n)
  BY <1>3, <1>6, <1>7 DEF HasLine, HasDirective
<1>8. ASSUME NEW o, locationContext.directives["path"] = file[o].args[1]
      PROVE  HasLine(locationContext', file, o, LastRead + 1)
  BY <1>2, <1>3, <1>5, <1>8 DEF HasLine
<1> QED BY <1>1, <1>4, <1>7, <1>8, LocationLineAgrees

(* The other directives are new to the location. *)
LEMMA LocationDirectiveAgrees ==
  ASSUME ParserInv, NEW s, Reading(s), InLocation, LocationDirective, ~Refuse
  PROVE  Agrees(serverContext', Locations', file, s, LastRead')
<1> DEFINE directives == Inserted(locationContext.directives, {Word}, Arg)
<1>1. /\ contextType = "location" /\ contextType' = "location" /\ ~AtEnd /\ Advance
      /\ Word \in Allowed["location"] \ {"limit_except"} /\ serverContext' = serverContext
      /\ ~HasDirective(locationContext, Word)
      /\ locationContext' = [locationContext EXCEPT !.directives = directives]
  BY DEF LocationDirective, LocationDirectiveIsGood, Reads
<1>2. Line = file[LastRead + 1] /\ file[LastRead + 1].word = Word
  BY <1>1, ReadsALine, LastReadFacts DEF ParserInv
<1>3. /\ locationContext'.directives = directives
      /\ locationContext'.allowedMethods = locationContext.allowedMethods
  <2> HIDE DEF directives
  <2> QED BY <1>1 DEF ParserInv, LocationInv
<1>4. /\ DOMAIN directives = DOMAIN locationContext.directives \cup {Word}
      /\ \A word \in DOMAIN locationContext.directives : directives[word] = locationContext.directives[word]
      /\ directives[Word] = Arg
  BY <1>1 DEF Inserted, HasDirective
<1>5. "path" \in DOMAIN locationContext.directives
  BY DEF ParserInv, LocationInv
<1> HIDE DEF directives
<1>6. directives["path"] = locationContext.directives["path"]
  BY <1>4, <1>5
<1>7. ASSUME NEW o, NEW n, HasLine(locationContext, file, o, n)
      PROVE  HasLine(locationContext', file, o, n)
  BY <1>3, <1>4, <1>6, <1>7 DEF HasLine, HasDirective
<1>8. ASSUME NEW o, locationContext.directives["path"] = file[o].args[1]
      PROVE  HasLine(locationContext', file, o, LastRead + 1)
  BY <1>1, <1>2, <1>3, <1>4, <1>6, <1>8 DEF HasLine, HasDirective, Arg
<1> QED BY <1>1, <1>7, <1>8, LocationLineAgrees

(* A directive of a cgi block belongs to no location. *)
LEMMA CgiDirectiveAgrees ==
  ASSUME ParserInv, NEW s, Reading(s), InLocation, CgiDirective, ~Refuse
  PROVE  Agrees(serverContext', Locations', file, s, LastRead')
<1> DEFINE e == LastRead
<1>1. /\ contextType = "cgi" /\ contextType' = "cgi" /\ ~AtEnd /\ Advance
      /\ Word \in Allowed["cgi"] /\ serverContext' = serverContext
  BY DEF CgiDirective, Reads
<1>2. /\ s \in Nat /\ e \in Nat /\ s <= e
      /\ LastRead' = e + 1 /\ file[e + 1].word \in Allowed["location"]
  BY <1>1, ReadingFacts, ReadsALine DEF ParserInv, Allowed
<1>3. Locations = serverContext.locations /\ Locations' = serverContext.locations
  BY <1>1 DEF Locations
<1>4. Agrees(serverContext, serverContext.locations, file, s, e)
  BY <1>3 DEF Reading
<1>5. PICK p \in 1..e : Opens(file, p, e) /\ file[p].word = "cgi"
  BY <1>1 DEF InLocation
<1> HIDE DEF e
<1>6. Opens(file, p, e + 1)
  <2>1. file[e + 1].word \notin {"location", "cgi"}
    BY <1>2, LocationWords
  <2>2. p \in Nat /\ p <= e
    BY <1>2
  <2> QED BY <1>2, <1>5, <2>1, <2>2, OpensGrows
<1>7. ASSUME NEW o \in 1..e + 1, Opens(file, o, e + 1) PROVE file[o].word # "location"
  <2>1. e + 1 \in Nat /\ p \in 1..e + 1
    BY <1>2
  <2>2. o = p
    BY <1>6, <1>7, <2>1, OneOpens
  <2> QED BY <1>5, <2>2
<1>8. Keeps(serverContext.locations, file, s, e + 1)
  <2>1. Len(serverContext.locations) \in Nat
    BY SequenceFacts DEF ParserInv, IsServer, IsSequence
  <2>2. Keeps(serverContext.locations, file, s, e)
    BY <1>4 DEF Agrees
  <2> DEFINE n == Len(serverContext.locations)
  <2>3. n <= n
    BY <2>1
  <2> QED BY <1>2, <1>7, <2>1, <2>2, <2>3, KeepsStep
<1>9. Agrees(serverContext, serverContext.locations, file, s, e + 1)
  BY <1>2, <1>4, <1>8, InnerLineAgrees
<1> QED BY <1>1, <1>2, <1>3, <1>9

(* A block that is closed is still found when Config gets more servers. *)
LEMMA ServedStays ==
  ASSUME NEW f, NEW s, NEW e, NEW map, IsServed(map, f, s, e),
         NEW other, \A pair \in DOMAIN map : pair \in DOMAIN other /\ other[pair] = map[pair]
  PROVE  IsServed(other, f, s, e)
BY DEF IsServed

(* And when the text grows by a line of another block, or one that says nothing of it. *)
LEMMA ServedGrows ==
  ASSUME NEW f, NEW s \in Nat, NEW e \in Nat, s <= e, NEW map, IsServed(map, f, s, e),
         \/ ~IsLastServer(f, s, e + 1)
         \/ f[e + 1].word \notin {"listen", "server_names"} \cup Allowed["location"]
  PROVE  IsServed(map, f, s, e + 1)
<1>1. ListenIn(f, s, e + 1) = ListenIn(f, s, e) /\ HostsIn(f, s, e + 1) = HostsIn(f, s, e)
  BY PairsGrow
<1>2. ASSUME NEW locations, Keeps(locations, f, s, e) PROVE Keeps(locations, f, s, e + 1)
  BY <1>2, KeepsGrows
<1> QED BY <1>1, <1>2 DEF IsServed

(* The blocks up to the next line. *)
LEMMA ServerLinesGrow ==
  ASSUME NEW f, NEW e \in Nat
  PROVE  /\ f[e + 1].word # "server" => ServerLines(f, e + 1) = ServerLines(f, e)
         /\ f[e + 1].word = "server" => ServerLines(f, e + 1) = ServerLines(f, e) \cup {e + 1}
         /\ \A s \in ServerLines(f, e) : s \in Nat /\ s <= e
<1> DEFINE m == e + 1
<1>1. 1..m = (1..e) \cup {m} /\ \A s \in 1..e : s \in Nat /\ s <= e
  OBVIOUS
<1> HIDE DEF m
<1>2. /\ f[m].word # "server" => ServerLines(f, m) = ServerLines(f, e)
      /\ f[m].word = "server" => ServerLines(f, m) = ServerLines(f, e) \cup {m}
      /\ \A s \in ServerLines(f, e) : s \in Nat /\ s <= e
  BY <1>1 DEF ServerLines
<1> QED BY <1>2 DEF m

(* Between two lines of the file that are no server block's first. *)
LEMMA InnerTextServed ==
  ASSUME PlaceInv, TextServed, contextType # "http", contextType' # "http", Advance,
         Word # "server", servers' = servers,
         \A s : Reading(s) => Agrees(serverContext', Locations', file, s, LastRead')
  PROVE  TextServed'
<1> DEFINE e == LastRead
<1>1. e \in Nat /\ file' = file
  BY LastReadFacts, ReadsALine
<1>2. LastRead' = e \/ (LastRead' = e + 1 /\ file[e + 1].word # "server")
  BY ReadsALine
<1>3. ASSUME NEW s \in ServerLines(file, e)
      PROVE  IF IsLastServer(file, s, e) THEN Reading(s) ELSE IsServed(servers, file, s, e)
  BY DEF TextServed, Reading
<1>4. \A s \in ServerLines(file, e) :
        IF IsLastServer(file, s, e) THEN Agrees(serverContext', Locations', file, s, LastRead')
        ELSE IsServed(servers, file, s, e)
  BY <1>3
<1> HIDE DEF e
<1>5. ASSUME NEW s \in ServerLines(file, LastRead')
      PROVE  IF IsLastServer(file, s, LastRead')
             THEN Agrees(serverContext', Locations', file, s, LastRead')
             ELSE IsServed(servers, file, s, LastRead')
  <2>1. CASE LastRead' = e
    BY <1>4, <2>1
  <2>2. CASE LastRead' = e + 1 /\ file[e + 1].word # "server"
    <3>1. s \in ServerLines(file, e) /\ s \in Nat /\ s <= e
      BY <1>1, <2>2, ServerLinesGrow
    <3>2. IsLastServer(file, s, e + 1) <=> IsLastServer(file, s, e)
      BY <1>1, <2>2, <3>1, TextGrows
    <3>3. ~IsLastServer(file, s, e) => IsServed(servers, file, s, e + 1)
      BY <1>1, <1>4, <3>1, <3>2, ServedGrows
    <3> QED BY <1>4, <2>2, <3>1, <3>2, <3>3
  <2> QED BY <1>2, <2>1, <2>2
<1> QED BY <1>1, <1>5 DEF TextServed

(* A comment between the server blocks. *)
LEMMA OuterTextServed ==
  ASSUME PlaceInv, TextServed, contextType = "http", contextType' = "http", Advance,
         ~AtEnd, Word = "#", servers' = servers
  PROVE  TextServed'
<1> DEFINE e == LastRead
<1>1. e \in Nat /\ file' = file /\ LastRead' = e + 1 /\ file[e + 1].word = "#"
  BY LastReadFacts, ReadsALine
<1>2. \A s \in ServerLines(file, e) : IsServed(servers, file, s, e)
  BY DEF TextServed
<1>3. "#" \notin {"server", "listen", "server_names"} \cup Allowed["location"]
  BY DEF Allowed
<1> HIDE DEF e
<1>4. ASSUME NEW s \in ServerLines(file, e + 1) PROVE IsServed(servers, file, s, e + 1)
  <2>1. s \in ServerLines(file, e) /\ s \in Nat /\ s <= e
    BY <1>1, ServerLinesGrow
  <2> QED BY <1>1, <1>2, <1>3, <2>1, ServedGrows
<1> QED BY <1>1, <1>4 DEF TextServed

(* The line that opens a server block. *)
LEMMA OpenServerServed == PlaceInv /\ TextServed /\ OpenServer => TextServed'
<1> SUFFICES ASSUME PlaceInv, TextServed, OpenServer PROVE TextServed'
  OBVIOUS
<1> DEFINE e == LastRead
<1>1. /\ contextType = "http" /\ contextType' = "server" /\ ~AtEnd /\ Advance /\ Word = "server"
      /\ serverContext' = NewServerContext /\ servers' = servers
  BY DEF OpenServer, Reads, config
<1>2. e \in Nat /\ file' = file /\ LastRead' = e + 1 /\ file[e + 1].word = "server"
  BY <1>1, LastReadFacts, ReadsALine
<1>3. \A s \in ServerLines(file, e) : IsServed(servers, file, s, e)
  BY <1>1 DEF TextServed
<1>4. Locations' = <<>>
  BY <1>1 DEF Locations, NewServerContext
<1> HIDE DEF e
<1>5. ASSUME NEW s \in ServerLines(file, e)
      PROVE  ~IsLastServer(file, s, e + 1) /\ IsServed(servers, file, s, e + 1)
  <2>1. s \in Nat /\ s <= e
    BY <1>2, ServerLinesGrow
  <2>2. ~IsLastServer(file, s, e + 1)
    BY <1>2, <2>1, TextGrows
  <2> QED BY <1>2, <1>3, <2>1, <2>2, ServedGrows
<1>6. Agrees(NewServerContext, <<>>, file, e + 1, e + 1)
  <2> DEFINE m == e + 1
  <2>1. m \in Nat /\ file[m].word = "server"
    BY <1>2
  <2> HIDE DEF m
  <2>2. /\ \A word : word # "server" => LinesOf(file, m, m, word) = {}
        /\ ListenIn(file, m, m) = DEFAULT_LISTEN /\ HostsIn(file, m, m) = {Localhost}
        /\ Keeps(<<>>, file, m, m) /\ Place(file, m, m) = 0
    BY <2>1, FirstLine, PlaceAtFirst
  <2>3. NewServerContext.listen = DEFAULT_LISTEN /\ NewServerContext.serverNames = <<>>
    BY DEF NewServerContext
  <2>4. NamesOf(NewServerContext) = {Localhost}
    BY <2>3 DEF NamesOf
  <2>5. Agrees(NewServerContext, <<>>, file, m, m)
    BY <2>2, <2>3, <2>4 DEF Agrees
  <2> QED BY <2>5 DEF m
<1>7. ASSUME NEW s \in ServerLines(file, e + 1)
      PROVE  IF IsLastServer(file, s, e + 1) THEN Agrees(NewServerContext, <<>>, file, s, e + 1)
             ELSE IsServed(servers, file, s, e + 1)
  <2>1. s \in ServerLines(file, e) \/ s = e + 1
    <3>1. ServerLines(file, e + 1) = ServerLines(file, e) \cup {e + 1}
      BY <1>2, ServerLinesGrow
    <3> QED BY <3>1
  <2>2. IsLastServer(file, e + 1, e + 1)
    <3> DEFINE m == e + 1
    <3>1. m \in Nat /\ file[m].word = "server"
      BY <1>2
    <3> HIDE DEF m
    <3>2. IsLastServer(file, m, m)
      BY <3>1, FirstLine
    <3> QED BY <3>2 DEF m
  <2> QED BY <1>5, <1>6, <2>1, <2>2
<1> QED BY <1>1, <1>2, <1>4, <1>7 DEF TextServed

(* What addServer makes of a server: the pairs of its port and its names are new,
   and each is given to it. *)
LEMMA AddedPairs ==
  ASSUME ParserInv, CloseServer, ~Refuse
  PROVE  /\ \A host \in NamesOf(serverContext) :
              LET pair == <<serverContext.listen, host>>
              IN pair \in DOMAIN servers' /\ servers'[pair] = serverContext
         /\ \A pair \in DOMAIN servers : pair \in DOMAIN servers' /\ servers'[pair] = servers[pair]
<1> DEFINE pairs == PortsAndHosts(serverContext)
           n == Len(portAndHostVecAll)
<1>1. ServedInv /\ IsServer(serverContext)
  BY DEF ParserInv
<1>2. servers' = Inserted(servers, Range(pairs), serverContext) /\ ~AddsDuplicates(pairs)
  BY DEF CloseServer
<1>3. pairs \in Seq(Nat \X Nat) /\ portAndHostVecAll \in Seq(Nat \X Nat)
  BY <1>1, PortsAndHostsFacts DEF ServedInv
<1> HIDE DEF pairs
<1>4. /\ DOMAIN servers' = DOMAIN servers \cup Range(pairs)
      /\ \A pair \in DOMAIN servers : servers'[pair] = servers[pair]
      /\ \A pair \in Range(pairs) \ DOMAIN servers : servers'[pair] = serverContext
  BY <1>2 DEF Inserted
<1>5. ASSUME NEW pair \in Range(pairs), pair \in DOMAIN servers PROVE FALSE
  <2>1. PICK i \in DOMAIN portAndHostVecAll : portAndHostVecAll[i] = pair
    BY <1>1, <1>5 DEF ServedInv, Range
  <2>2. PICK j \in DOMAIN pairs : pairs[j] = pair
    BY DEF Range
  <2>3. /\ n \in Nat /\ DOMAIN portAndHostVecAll = 1..n
        /\ Len(pairs) \in Nat /\ DOMAIN pairs = 1..Len(pairs)
    BY <1>3, LenProperties
  <2>4. /\ Len(portAndHostVecAll \o pairs) = n + Len(pairs)
        /\ \A k \in 1..n + Len(pairs) :
             (portAndHostVecAll \o pairs)[k] =
               IF k <= n THEN portAndHostVecAll[k] ELSE pairs[k - n]
        /\ portAndHostVecAll \o pairs \in Seq(Nat \X Nat)
    BY <1>3, ConcatProperties
  <2> DEFINE both == portAndHostVecAll \o pairs
  <2>5. DOMAIN both = 1..n + Len(pairs)
    BY <2>4, LenProperties
  <2>6. \A k \in 1..n + Len(pairs) :
          both[k] = IF k <= n THEN portAndHostVecAll[k] ELSE pairs[k - n]
    BY <2>4
  <2>7. IsInjective(both)
    BY <1>2 DEF AddsDuplicates
  <2> HIDE DEF both, n
  <2>8. PICK k : k = n + j
    OBVIOUS
  <2>9. /\ i \in 1..n + Len(pairs) /\ i <= n /\ i # k
        /\ k \in 1..n + Len(pairs) /\ ~ (k <= n) /\ k - n = j
    BY <2>1, <2>2, <2>3, <2>8
  <2>10. both[i] = pair /\ both[k] = pair
    <3>1. both[i] = portAndHostVecAll[i]
      BY <2>6, <2>9
    <3>2. both[k] = pairs[k - n]
      BY <2>6, <2>9
    <3> QED BY <2>1, <2>2, <2>9, <3>1, <3>2
  <2>11. \A a, b \in DOMAIN both : both[a] = both[b] => a = b
    BY <2>7, Zenon DEF IsInjective
  <2> QED BY <2>5, <2>9, <2>10, <2>11
<1>6. ASSUME NEW host \in NamesOf(serverContext)
      PROVE  <<serverContext.listen, host>> \in Range(pairs)
  <2> DEFINE names == IF serverContext.serverNames = <<>> THEN <<Localhost>>
                      ELSE serverContext.serverNames
  <2>1. pairs = [i \in DOMAIN names |-> <<serverContext.listen, names[i]>>]
    BY DEF pairs, PortsAndHosts
  <2>2. host \in Range(names)
    BY DEF NamesOf, Range
  <2> HIDE DEF names
  <2> QED BY <2>1, <2>2 DEF Range
<1>7. ASSUME NEW host \in NamesOf(serverContext)
      PROVE  /\ <<serverContext.listen, host>> \in DOMAIN servers'
             /\ servers'[<<serverContext.listen, host>>] = serverContext
  BY <1>4, <1>5, <1>6
<1> QED BY <1>4, <1>7

(* The server block that is closed is found under its names. *)
LEMMA ClosedIsServed ==
  ASSUME ParserInv, CloseServer, ~Refuse, NEW s, Reading(s)
  PROVE  IsServed(servers', file, s, LastRead)
<1>1. contextType = "server"
  BY DEF CloseServer, Ends
<1>2. Agrees(serverContext, serverContext.locations, file, s, LastRead)
  BY <1>1 DEF Reading, Locations
<1>3. ASSUME NEW host \in HostsIn(file, s, LastRead)
      PROVE  LET pair == <<ListenIn(file, s, LastRead), host>>
             IN pair \in DOMAIN servers' /\ Keeps(servers'[pair].locations, file, s, LastRead)
  <2>1. host \in NamesOf(serverContext) /\ ListenIn(file, s, LastRead) = serverContext.listen
    BY <1>2 DEF Agrees
  <2>2. Keeps(serverContext.locations, file, s, LastRead)
    BY <1>2 DEF Agrees
  <2>3. /\ <<serverContext.listen, host>> \in DOMAIN servers'
        /\ servers'[<<serverContext.listen, host>>] = serverContext
    BY <2>1, AddedPairs
  <2> QED BY <2>1, <2>2, <2>3
<1> QED BY <1>3 DEF IsServed

(* The end of a server block. *)
LEMMA CloseServerServed ==
  ASSUME ParserInv, TextServed, CloseServer, ~Refuse
  PROVE  TextServed'
<1> DEFINE e == LastRead
<1>1. contextType = "server" /\ contextType' = "http" /\ AtEnd /\ Advance
  BY DEF CloseServer, Ends
<1>2. /\ e \in Nat /\ file' = file
      /\ LastRead' = e \/ (LastRead' = e + 1 /\ file[e + 1].word = "}")
  BY <1>1, LastReadFacts, ReadsALine DEF ParserInv, AtEnd
<1>3. ASSUME NEW s \in ServerLines(file, e) PROVE IsServed(servers', file, s, e)
  <2>1. CASE IsLastServer(file, s, e)
    <3>1. Reading(s)
      BY <1>1, <2>1 DEF TextServed, Reading
    <3> QED BY <3>1, ClosedIsServed
  <2>2. CASE ~IsLastServer(file, s, e)
    <3>1. IsServed(servers, file, s, e)
      BY <2>2 DEF TextServed
    <3>2. \A pair \in DOMAIN servers : pair \in DOMAIN servers' /\ servers'[pair] = servers[pair]
      BY AddedPairs
    <3> QED BY <3>1, <3>2, ServedStays
  <2> QED BY <2>1, <2>2
<1>4. "}" \notin {"server", "listen", "server_names"} \cup Allowed["location"]
  BY DEF Allowed
<1> HIDE DEF e
<1>5. ASSUME NEW s \in ServerLines(file, LastRead') PROVE IsServed(servers', file, s, LastRead')
  <2>1. CASE LastRead' = e
    BY <1>3, <2>1
  <2>2. CASE LastRead' = e + 1 /\ file[e + 1].word = "}"
    <3>1. s \in ServerLines(file, e) /\ s \in Nat /\ s <= e
      BY <1>2, <2>2, ServerLinesGrow
    <3>2. IsServed(servers', file, s, e + 1)
      BY <1>2, <1>3, <1>4, <2>2, <3>1, ServedGrows
    <3> QED BY <2>2, <3>2
  <2> QED BY <1>2, <2>1, <2>2
<1> QED BY <1>1, <1>2, <1>5 DEF TextServed

(* A file that is refused, and the end of one, change nothing that was read. *)
LEMMA NothingRead ==
  ASSUME TextInv, UNCHANGED <<file, lineNumber, contextType, serverContext, locationContext, servers>>
  PROVE  TextInv'
<1>1. LastRead' = LastRead /\ Locations' = Locations
  BY DEF LastRead, Locations
<1>2. TextServed'
  BY <1>1 DEF TextInv, TextServed
<1>3. InServer'
  BY <1>1 DEF TextInv, InServer
<1>4. InLocation' /\ LinesStandInBlocks'
  BY <1>1 DEF TextInv, InLocation, LinesStandInBlocks
<1> QED BY <1>2, <1>3, <1>4 DEF TextInv

(* Every turn of the parser keeps what was read of the server blocks. *)
LEMMA TextServedStep ==
  ASSUME ParserInv, TextInv, ParserNext, ~Refuse, ~EndOfFile
  PROVE  TextServed'
<1>0. PlaceInv /\ TextServed /\ InLocation
  BY DEF ParserInv, TextInv
<1>1. CASE OpenServer
  BY <1>0, <1>1, OpenServerServed
<1>2. CASE CloseServer
  BY <1>0, <1>2, CloseServerServed
<1>3. CASE Comment /\ contextType = "http"
  <2>1. /\ contextType' = "http" /\ Advance /\ ~AtEnd /\ Word = "#" /\ servers' = servers
    BY <1>3 DEF Comment, config
  <2> QED BY <1>0, <1>3, <2>1, OuterTextServed
<1>4. CASE ServerDirective \/ OpenLocation \/ OpenCgi \/ (Comment /\ contextType # "http")
           \/ LimitExcept \/ LocationDirective \/ CgiDirective \/ CloseLocation \/ CloseCgi
  <2>1. /\ contextType # "http" /\ contextType' # "http" /\ Advance /\ servers' = servers
        /\ Word # "server"
    BY <1>4 DEF ServerDirective, OpenLocation, OpenCgi, Comment, LimitExcept, LocationDirective,
                CgiDirective, CloseLocation, CloseCgi, Reads, Ends, Allowed, AtEnd, config
  <2>2. ASSUME NEW s, Reading(s) PROVE Agrees(serverContext', Locations', file, s, LastRead')
    BY <1>0, <1>4, <2>2, DirectiveAgrees, OpenLocationAgrees, OpenCgiAgrees, CommentAgrees,
       LimitExceptAgrees, LocationDirectiveAgrees, CgiDirectiveAgrees, InnerEndAgrees
  <2> QED BY <1>0, <2>1, <2>2, InnerTextServed
<1>5. ~NotAllowedDirective
  BY DEF NotAllowedDirective
<1> QED BY <1>1, <1>2, <1>3, <1>4, <1>5 DEF ParserNext

(* What a turn of the parser does to the place of the last line. *)
LEMMA PlaceTurns ==
  ASSUME ParserInv, ParserNext, ~Refuse, ~EndOfFile
  PROVE  /\ Advance /\ LastRead \in Nat /\ file' = file
         /\ LastRead' = LastRead \/ LastRead' = LastRead + 1
         /\ LastRead' = LastRead + 1 => Word = file[LastRead + 1].word /\ Line = file[LastRead + 1]
         /\ ~AtEnd => LastRead' = LastRead + 1
<1>1. ~NotAllowedDirective
  BY DEF NotAllowedDirective
<1>2. Advance
  BY <1>1 DEF ParserNext, Comment, OpenServer, ServerDirective, CloseServer, OpenLocation,
              LimitExcept, LocationDirective, CloseLocation, OpenCgi, CgiDirective, CloseCgi
<1>3. LastRead \in Nat
  BY LastReadFacts DEF ParserInv
<1>4. LastRead # LastRead + 1
  BY <1>3
<1> QED BY <1>2, <1>3, <1>4, ReadsALine DEF ParserInv

(* A server block is open from its line on. *)
LEMMA InServerStep ==
  ASSUME ParserInv, TextInv, ParserNext, ~Refuse, ~EndOfFile
  PROVE  InServer'
<1> DEFINE e == LastRead
<1> SUFFICES ASSUME contextType' # "http"
             PROVE  \E s \in ServerLines(file, LastRead') : IsLastServer(file, s, LastRead')
  BY PlaceTurns DEF InServer
<1>1. /\ Advance /\ e \in Nat
      /\ LastRead' = e \/ (LastRead' = e + 1 /\ Word = file[e + 1].word)
      /\ ~AtEnd => LastRead' = e + 1
  BY PlaceTurns
<1>2. CASE OpenServer
  <2> DEFINE m == e + 1
  <2>1. LastRead' = m /\ file[m].word = "server" /\ m \in Nat
    BY <1>1, <1>2 DEF OpenServer, Reads
  <2>2. m \in 1..m
    BY <1>1
  <2> HIDE DEF m
  <2>3. IsLastServer(file, m, m)
    BY <2>1, FirstLine
  <2>4. m \in ServerLines(file, m)
    BY <2>1, <2>2 DEF ServerLines
  <2> QED BY <2>1, <2>3, <2>4
<1>3. CASE contextType # "http" /\ Word # "server"
  <2>1. PICK s \in ServerLines(file, e) : IsLastServer(file, s, e)
    BY <1>3 DEF TextInv, InServer
  <2> HIDE DEF e
  <2>2. CASE LastRead' = e
    BY <2>1, <2>2
  <2>3. CASE LastRead' = e + 1 /\ Word = file[e + 1].word
    <3>1. s \in Nat /\ s <= e /\ s \in ServerLines(file, e + 1)
      BY <1>1, <1>3, <2>3, ServerLinesGrow
    <3>2. IsLastServer(file, s, e + 1)
      BY <1>1, <1>3, <2>1, <2>3, <3>1, TextGrows
    <3> QED BY <2>3, <3>1, <3>2
  <2> QED BY <1>1, <2>2, <2>3
<1>4. OpenServer \/ (contextType # "http" /\ Word # "server")
  BY DEF ParserNext, NotAllowedDirective, Comment, ServerDirective, CloseServer, OpenLocation,
         LimitExcept, LocationDirective, CloseLocation, OpenCgi, CgiDirective, CloseCgi,
         Reads, Ends, Allowed, AtEnd
<1> QED BY <1>2, <1>3, <1>4

(* So is a block inside it, and a location has the path it was opened with. *)
LEMMA InLocationStep ==
  ASSUME ParserInv, TextInv, ParserNext, ~Refuse, ~EndOfFile
  PROVE  InLocation'
<1> DEFINE e == LastRead
<1> SUFFICES ASSUME contextType' \in {"location", "cgi"}
             PROVE  \E o \in 1..LastRead' :
                      /\ Opens(file, o, LastRead') /\ file[o].word = contextType'
                      /\ contextType' = "location" =>
                           locationContext'.directives["path"] = file[o].args[1]
  BY PlaceTurns DEF InLocation
<1>1. CASE OpenLocation \/ OpenCgi
  <2> DEFINE m == e + 1
  <2>1. e \in Nat /\ LastRead' = m /\ Word = file[m].word /\ Line = file[m]
    BY <1>1, PlaceTurns DEF OpenLocation, OpenCgi, Reads
  <2>2. /\ contextType' = Word /\ Word \in {"location", "cgi"}
        /\ contextType' = "location" => locationContext' = NewLocationContext(Arg)
    BY <1>1 DEF OpenLocation, OpenCgi
  <2>3. m \in 1..m /\ Opens(file, m, m)
    <3>1. file[e + 1].word \in {"location", "cgi"}
      BY <2>1, <2>2
    <3>2. e + 1 + 1..e + 1 = {} /\ e + 1 \in 1..e + 1
      BY <2>1
    <3> QED BY <3>1, <3>2 DEF Opens
  <2> HIDE DEF m
  <2>4. NewLocationContext(Arg).directives["path"] = file[m].args[1]
    BY <2>1 DEF NewLocationContext, Arg
  <2> QED BY <2>1, <2>2, <2>3, <2>4
<1>2. CASE Comment \/ LimitExcept \/ LocationDirective \/ CgiDirective
  <2>1. /\ contextType' = contextType /\ ~AtEnd
        /\ Word \in {"#"} \cup Allowed["location"]
    BY <1>2 DEF Comment, LimitExcept, LocationDirective, CgiDirective, Reads, Allowed
  <2>2. e \in Nat /\ LastRead' = e + 1 /\ Word = file[e + 1].word
    BY <2>1, PlaceTurns
  <2>3. contextType = "location" =>
          locationContext'.directives["path"] = locationContext.directives["path"]
    <3>1. CASE locationContext' = locationContext
      BY <3>1
    <3>2. CASE LimitExcept
      <4>1. locationContext'.directives = locationContext.directives
        BY <3>2 DEF LimitExcept, ParserInv, LocationInv
      <4> QED BY <4>1
    <3>3. CASE LocationDirective
      <4> DEFINE directives == Inserted(locationContext.directives, {Word}, Arg)
      <4>1. locationContext' = [locationContext EXCEPT !.directives = directives]
        BY <3>3 DEF LocationDirective
      <4>2. "path" \in DOMAIN locationContext.directives
        BY DEF ParserInv, LocationInv
      <4>3. directives["path"] = locationContext.directives["path"]
        BY <4>2 DEF Inserted
      <4> HIDE DEF directives
      <4>4. locationContext'.directives = directives
        BY <4>1 DEF ParserInv, LocationInv
      <4> QED BY <4>3, <4>4
    <3> QED BY <1>2, <3>1, <3>2, <3>3 DEF Comment, CgiDirective, blocks
  <2>4. PICK o \in 1..e : /\ Opens(file, o, e) /\ file[o].word = contextType
                          /\ contextType = "location" =>
                               locationContext.directives["path"] = file[o].args[1]
    BY <2>1 DEF TextInv, InLocation
  <2> HIDE DEF e
  <2>5. o \in 1..e + 1 /\ o \in Nat /\ o <= e
    BY <2>2
  <2>6. Opens(file, o, e + 1)
    <3>1. file[e + 1].word \notin {"location", "cgi"}
      BY <2>1, <2>2 DEF Allowed
    <3> QED BY <2>2, <2>4, <2>5, <3>1, OpensGrows
  <2> QED BY <2>1, <2>2, <2>3, <2>4, <2>5, <2>6
<1>3. ~NotAllowedDirective
  BY DEF NotAllowedDirective
<1>4. ~ (OpenServer \/ CloseServer \/ CloseLocation \/ CloseCgi \/ ServerDirective)
  BY DEF OpenServer, CloseServer, CloseLocation, CloseCgi, ServerDirective, Reads
<1> QED BY <1>1, <1>2, <1>3, <1>4 DEF ParserNext

(* A line that is a directive of a location stands in a block of one, or of scripts. *)
LEMMA LinesStandStep ==
  ASSUME ParserInv, TextInv, ParserNext, ~Refuse, ~EndOfFile
  PROVE  LinesStandInBlocks'
<1> DEFINE e == LastRead
           Stands(n) == /\ \E s \in 1..n : file[s].word = "server"
                        /\ \E o \in 1..n : file[o].word \in {"location", "cgi"}
<1>1. /\ e \in Nat /\ file' = file
      /\ LastRead' = e \/ (LastRead' = e + 1 /\ Word = file[e + 1].word)
  BY PlaceTurns
<1>2. \A n \in 1..e : file[n].word \in Allowed["location"] => Stands(n)
  BY DEF TextInv, LinesStandInBlocks
<1>3. Word \in Allowed["location"] => contextType \in {"location", "cgi"}
  BY DEF ParserNext, NotAllowedDirective, Comment, OpenServer, ServerDirective, CloseServer,
         OpenLocation, LimitExcept, LocationDirective, CloseLocation, OpenCgi, CgiDirective,
         CloseCgi, Reads, Ends, Allowed, AtEnd
<1>4. contextType \in {"location", "cgi"} => Stands(e + 1)
  <2> SUFFICES ASSUME contextType \in {"location", "cgi"} PROVE Stands(e + 1)
    OBVIOUS
  <2>1. PICK s \in ServerLines(file, e) : IsLastServer(file, s, e)
    BY DEF TextInv, InServer
  <2>2. PICK o \in 1..e : Opens(file, o, e)
    BY DEF TextInv, InLocation
  <2>3. s \in 1..e + 1 /\ file[s].word = "server"
    BY <1>1, <2>1 DEF ServerLines
  <2>4. o \in 1..e + 1 /\ file[o].word \in {"location", "cgi"}
    BY <1>1, <2>2 DEF Opens
  <2> QED BY <2>3, <2>4
<1> HIDE DEF e, Stands
<1>5. ASSUME NEW n \in 1..LastRead', file[n].word \in Allowed["location"] PROVE Stands(n)
  <2>1. n \in 1..e \/ (n = e + 1 /\ Word = file[n].word)
    BY <1>1
  <2> QED BY <1>2, <1>3, <1>4, <1>5, <2>1
<1> QED BY <1>1, <1>5 DEF LinesStandInBlocks, Stands

(* The invariant of the text, from the first line to the last and behind it. *)
LEMMA ParserKeepsText == ParserInv /\ TextInv /\ ParserNext => TextInv'
<1> SUFFICES ASSUME ParserInv, TextInv, ParserNext PROVE TextInv'
  OBVIOUS
<1>1. CASE Refuse \/ EndOfFile
  <2>1. UNCHANGED <<file, lineNumber, contextType, serverContext, locationContext, servers>>
    BY <1>1 DEF Refuse, EndOfFile, blocks, config
  <2> QED BY <2>1, NothingRead
<1>2. CASE ~Refuse /\ ~EndOfFile
  BY <1>2, TextServedStep, InServerStep, InLocationStep, LinesStandStep DEF TextInv
<1> QED BY <1>1, <1>2

(* Before the first line there is no text. *)
LEMMA InitTextInv == ParserInit => TextInv
<1> SUFFICES ASSUME ParserInit PROVE TextInv
  OBVIOUS
<1>1. contextType = "http" /\ lineNumber = 1 /\ Len(file) \in Nat
  BY FileAssumption DEF ParserInit
<1>2. LastRead = 0
  BY <1>1 DEF LastRead
<1>3. 1..LastRead = {} /\ ServerLines(file, LastRead) = {}
  BY <1>2 DEF ServerLines
<1> QED BY <1>1, <1>3 DEF TextInv, TextServed, InServer, InLocation, LinesStandInBlocks

(* Requests leave what was read alone. *)
LEMMA TextStaysServed == SiteInv /\ TextInv /\ [Next]_vars => TextInv'
<1> SUFFICES ASSUME SiteInv, TextInv, [Next]_vars PROVE TextInv'
  OBVIOUS
<1>1. CASE UNCHANGED <<file, lineNumber, contextType, serverContext, locationContext, servers>>
  BY <1>1, NothingRead
<1>2. CASE Loaded
  BY <1>2, ParserKeepsText DEF Loaded, SiteInv
<1>3. CASE UNCHANGED vars
  BY <1>1, <1>3 DEF vars, parserVars, blocks, config
<1>4. CASE ConfigKept
  BY <1>1, <1>4 DEF ConfigKept, blocks, config
<1> QED BY <1>2, <1>3, <1>4, Steps DEF Continued, Handled

(* The greatest of some numbers up to n is one of them. *)
LEMMA MaxIsMember ==
  ASSUME NEW n \in Nat, NEW S \in SUBSET (1..n), S # {}
  PROVE  Max(S) \in S /\ \A y \in S : Max(S) >= y
<1> DEFINE T == { n - y : y \in S }
<1>1. T \in SUBSET Nat /\ T # {}
  <2>1. \A y \in S : y \in 1..n
    OBVIOUS
  <2>2. \A y \in S : n - y \in Nat
    BY <2>1
  <2> QED BY <2>2
<1> HIDE DEF T
<1>2. Min(T) \in T /\ \A t \in T : Min(T) <= t
  BY <1>1, MinIsMember
<1>3. PICK x \in S : Min(T) = n - x
  BY <1>2 DEF T
<1>4. \A y \in S : n - x <= n - y
  BY <1>2, <1>3 DEF T
<1>5. \A y \in S : x >= y
  <2> TAKE y \in S
  <2>1. x \in 1..n /\ y \in 1..n /\ n - x <= n - y
    BY <1>4
  <2> QED BY <2>1
<1> QED BY <1>3, <1>5 DEF Max

(* The line that opens a block is the last one with such a word. *)
LEMMA OpenedByFacts ==
  ASSUME NEW n \in Nat, NEW words, \E i \in 1..n : file[i].word \in words
  PROVE  /\ OpenedBy(n, words) \in 1..n /\ file[OpenedBy(n, words)].word \in words
         /\ \A i \in 1..n : i > OpenedBy(n, words) => file[i].word \notin words
<1> DEFINE S == { i \in 1..n : file[i].word \in words }
<1>1. S \in SUBSET (1..n) /\ S # {}
  OBVIOUS
<1> HIDE DEF S
<1>2. Max(S) \in S /\ \A y \in S : Max(S) >= y
  BY <1>1, MaxIsMember
<1>3. ASSUME NEW i \in 1..n, i > Max(S) PROVE i \notin S
  <2>1. Max(S) \in 1..n
    BY <1>1, <1>2
  <2> QED BY <1>2, <1>3, <2>1
<1> QED BY <1>2, <1>3 DEF OpenedBy, S

(* What was read of the file, when it was. *)
LEMMA LastReadIsMin ==
  ASSUME PlaceInv
  PROVE  Min({lineNumber - 1, Len(file)}) = LastRead
<1>1. Len(file) \in Nat /\ lineNumber \in Nat \ {0}
  BY FileAssumption DEF PlaceInv
<1> DEFINE S == {lineNumber - 1, Len(file)}
<1>2. S \in SUBSET Nat /\ S # {}
  BY <1>1
<1> HIDE DEF S
<1>3. Min(S) \in S /\ \A y \in S : Min(S) <= y
  BY <1>2, MinIsMember
<1>4. Min(S) <= lineNumber - 1 /\ Min(S) <= Len(file) /\ (Min(S) = lineNumber - 1 \/ Min(S) = Len(file))
  BY <1>3 DEF S
<1>5. Min(S) = LastRead
  BY <1>1, <1>4 DEF LastRead
<1> QED BY <1>5 DEF S

(* The block of a line, told from the text, is the text of the block it opens. *)
LEMMA BlockIsText ==
  ASSUME PlaceInv, NEW n \in 1..LastRead, \E i \in 1..n : file[i].word = "server"
  PROVE  LET s == OpenedBy(n, {"server"})
         IN /\ s \in 1..n /\ file[s].word = "server" /\ IsLastServer(file, s, n)
            /\ Block(n) = TextOf(file, s, LastRead)
<1> DEFINE s == OpenedBy(n, {"server"})
           next == { i \in n + 1..Len(file) : file[i].word = "server" }
           b == Min(next \cup {Len(file) + 1, lineNumber})
<1>1. Len(file) \in Nat /\ lineNumber \in Nat \ {0} /\ LastRead \in Nat /\ n \in Nat
  <2>1. Len(file) \in Nat /\ lineNumber \in Nat \ {0}
    BY FileAssumption DEF PlaceInv
  <2>2. LastRead \in Nat
    BY LastReadFacts
  <2> QED BY <2>1, <2>2
<1>2. /\ s \in 1..n /\ file[s].word = "server"
      /\ \A i \in 1..n : i > s => file[i].word # "server"
  <2>1. \E i \in 1..n : file[i].word \in {"server"}
    OBVIOUS
  <2>2. /\ OpenedBy(n, {"server"}) \in 1..n /\ file[OpenedBy(n, {"server"})].word \in {"server"}
        /\ \A i \in 1..n : i > OpenedBy(n, {"server"}) => file[i].word \notin {"server"}
    BY <1>1, <2>1, OpenedByFacts
  <2> QED BY <2>2
<1>3. Block(n) = s..b - 1
  BY DEF Block
<1>4. /\ b \in Nat /\ b <= Len(file) + 1 /\ b <= lineNumber
      /\ b = Len(file) + 1 \/ b = lineNumber
         \/ (b \in n + 1..Len(file) /\ file[b].word = "server")
      /\ \A i \in n + 1..Len(file) : file[i].word = "server" => b <= i
  <2> DEFINE S == next \cup {Len(file) + 1, lineNumber}
  <2>1. S \in SUBSET Nat /\ S # {}
    BY <1>1
  <2> HIDE DEF S
  <2>2. Min(S) \in S /\ \A y \in S : Min(S) <= y
    BY <2>1, MinIsMember
  <2>3. Len(file) + 1 \in S /\ lineNumber \in S
    BY DEF S
  <2>4. \A i \in n + 1..Len(file) : file[i].word = "server" => i \in S
    BY DEF S
  <2>5. b = Min(S)
    BY DEF S
  <2> HIDE DEF b
  <2>6. b \in S
    BY <2>2, <2>5
  <2>7. b \in Nat
    BY <2>1, <2>6
  <2>8. b = Len(file) + 1 \/ b = lineNumber
         \/ (b \in n + 1..Len(file) /\ file[b].word = "server")
    BY <2>6 DEF S
  <2> QED BY <2>2, <2>3, <2>4, <2>5, <2>7, <2>8
<1> HIDE DEF s, next, b
<1>5. LastRead = (IF lineNumber > Len(file) THEN Len(file) ELSE lineNumber - 1)
  BY DEF LastRead
<1>6. LastRead <= Len(file) /\ LastRead <= lineNumber - 1 /\ b - 1 <= LastRead
  BY <1>1, <1>4, <1>5
<1>7. IsLastServer(file, s, n)
  <2>1. ASSUME NEW j \in s + 1..n PROVE j \in 1..n /\ j > s
    BY <1>1, <1>2
  <2> QED BY <1>2, <2>1 DEF IsLastServer
<1>8. ASSUME NEW i \in s..b - 1 PROVE i \in s..LastRead /\ IsLastServer(file, s, i)
  <2>1. i \in s..LastRead
    BY <1>1, <1>2, <1>4, <1>6
  <2>2. ASSUME NEW j \in s + 1..i PROVE file[j].word # "server"
    <3>1. j \in Nat /\ j <= b - 1 /\ j <= LastRead /\ s < j
      BY <1>1, <1>2, <1>4, <1>6
    <3>2. CASE j <= n
      BY <1>1, <1>2, <3>1, <3>2
    <3>3. CASE j > n
      <4>1. j \in n + 1..Len(file) /\ ~ (b <= j)
        BY <1>1, <1>4, <1>6, <3>1, <3>3
      <4> QED BY <1>4, <4>1
    <3> QED BY <1>1, <3>1, <3>2, <3>3
  <2> QED BY <2>1, <2>2 DEF IsLastServer
<1>9. ASSUME NEW i \in s..LastRead, IsLastServer(file, s, i) PROVE i \in s..b - 1
  <2>1. i \in Nat /\ s <= i /\ i <= LastRead /\ s \in Nat /\ s <= n
    BY <1>1, <1>2
  <2> SUFFICES ASSUME b <= i PROVE FALSE
    BY <1>4, <2>1
  <2>2. CASE b \in n + 1..Len(file) /\ file[b].word = "server"
    <3>1. b \in s + 1..i
      BY <1>1, <1>4, <2>1, <2>2
    <3> QED BY <1>9, <2>2, <3>1 DEF IsLastServer
  <2>3. CASE b = Len(file) + 1 \/ b = lineNumber
    BY <1>1, <1>6, <2>1, <2>3
  <2> QED BY <1>4, <2>2, <2>3
<1>10. Block(n) = TextOf(file, s, LastRead)
  BY <1>3, <1>8, <1>9 DEF TextOf
<1> QED BY <1>2, <1>7, <1>10 DEF s

(* So what the text of the block says, is what was said of it while it was read. *)
LEMMA SameText ==
  ASSUME PlaceInv, NEW n \in 1..LastRead, \E i \in 1..n : file[i].word = "server"
  PROVE  LET s == OpenedBy(n, {"server"})
         IN /\ s \in ServerLines(file, LastRead) /\ n \in TextOf(file, s, LastRead)
            /\ ListenOf(n) = ListenIn(file, s, LastRead)
            /\ HostsOfBlock(n) = HostsIn(file, s, LastRead)
            /\ Cardinality({ i \in Lines(n, "location") : i <= n }) = Place(file, s, n)
<1> DEFINE s == OpenedBy(n, {"server"})
           L == LastRead
<1>1. /\ s \in 1..n /\ file[s].word = "server" /\ IsLastServer(file, s, n)
      /\ Block(n) = TextOf(file, s, L)
  BY BlockIsText
<1>2. L \in Nat
  BY LastReadFacts
<1> HIDE DEF s, L
<1>3. s \in Nat /\ n \in Nat /\ s <= n /\ n <= L /\ n \in s..L /\ s \in 1..L
  BY <1>1, <1>2 DEF L
<1>4. s \in ServerLines(file, L) /\ n \in TextOf(file, s, L)
  BY <1>1, <1>3 DEF ServerLines, TextOf
<1>5. \A word : Lines(n, word) = LinesOf(file, s, L, word)
  BY <1>1 DEF Lines, LinesOf
<1>6. ListenOf(n) = ListenIn(file, s, L) /\ HostsOfBlock(n) = HostsIn(file, s, L)
  BY <1>5 DEF ListenOf, HostsOfBlock, ListenIn, HostsIn
<1>7. ASSUME NEW i \in s..n PROVE i \in TextOf(file, s, L) /\ i <= n
  <2>1. i \in s..L /\ i <= n /\ \A j \in s + 1..i : j \in s + 1..n
    BY <1>2, <1>3
  <2> QED BY <1>1, <2>1 DEF TextOf, IsLastServer
<1>8. ASSUME NEW i \in TextOf(file, s, L), i <= n PROVE i \in s..n
  <2>1. i \in s..L
    BY DEF TextOf
  <2> QED BY <1>2, <1>3, <1>8, <2>1
<1>9. { i \in Lines(n, "location") : i <= n } = { i \in s..n : file[i].word = "location" }
  BY <1>5, <1>7, <1>8 DEF LinesOf
<1> QED BY <1>4, <1>6, <1>9 DEF Place, s, L

(* What is declared is served, for every file: each directive of a location is
   found under all names of its server, in the location at its place. *)
THEOREM DeclaredIsAlwaysServed == Spec => []DeclaredIsServed
<1>1. Init => TextInv
  BY InitTextInv DEF Init
<1>2. SiteInv /\ TextInv => DeclaredIsServed
  <2> DEFINE o(n) == OpenedBy(n, {"location", "cgi"})
             k(n) == Cardinality({ i \in Lines(n, "location") : i <= n })
  <2> SUFFICES ASSUME SiteInv, TextInv, IsRead,
                      NEW n \in 1..Min({lineNumber - 1, Len(file)}),
                      file[n].word \in Allowed["location"], file[o(n)].word = "location",
                      NEW host \in HostsOfBlock(n)
               PROVE  LET location == servers[<<ListenOf(n), host>>].locations[k(n)]
                      IN /\ location.directives["path"] = file[OpenedBy(n, {"location"})].args[1]
                         /\ IF file[n].word = "limit_except"
                            THEN Range(file[n].args) \subseteq location.allowedMethods
                            ELSE location.directives[file[n].word] = file[n].args[1]
    BY Zenon DEF DeclaredIsServed
  <2>1. PlaceInv /\ contextType = "http" /\ LastRead \in Nat
    BY LastReadFacts DEF SiteInv, ParserInv, PlaceInv, IsRead, IsReached
  <2>2. n \in 1..LastRead /\ n \in Nat
    BY <2>1, LastReadIsMin
  <2>3. /\ \E i \in 1..n : file[i].word = "server"
        /\ \E i \in 1..n : file[i].word \in {"location", "cgi"}
    BY <2>2 DEF TextInv, LinesStandInBlocks
  <2> DEFINE s == OpenedBy(n, {"server"})
             p == OpenedBy(n, {"location"})
             q == o(n)
             pair == <<ListenOf(n), host>>
  <2>4. /\ s \in ServerLines(file, LastRead) /\ n \in TextOf(file, s, LastRead)
        /\ ListenOf(n) = ListenIn(file, s, LastRead)
        /\ HostsOfBlock(n) = HostsIn(file, s, LastRead)
        /\ k(n) = Place(file, s, n)
    BY <2>1, <2>2, <2>3, SameText
  <2>5. IsServed(servers, file, s, LastRead)
    BY <2>1, <2>4 DEF TextInv, TextServed
  <2>6. /\ q \in 1..n /\ file[q].word \in {"location", "cgi"}
        /\ \A i \in 1..n : i > q => file[i].word \notin {"location", "cgi"}
    BY <2>2, <2>3, OpenedByFacts
  <2>7. file[q].word = "location"
    OBVIOUS
  <2>8. /\ p \in 1..n /\ file[p].word \in {"location"}
        /\ \A i \in 1..n : i > p => file[i].word \notin {"location"}
    <3> HIDE DEF q
    <3>1. \E i \in 1..n : file[i].word \in {"location"}
      BY <2>6, <2>7
    <3> QED BY <2>2, <3>1, OpenedByFacts
  <2> HIDE DEF q, p, s
  <2>9. p = q
    <3>1. ~ (p > q) /\ ~ (q > p)
      BY <2>6, <2>7, <2>8
    <3> QED BY <2>6, <2>8, <3>1
  <2>10. Opens(file, q, n)
    <3>1. ASSUME NEW j \in q + 1..n PROVE j \in 1..n /\ j > q
      BY <2>2, <2>6
    <3> QED BY <2>6, <3>1 DEF Opens
  <2>11. Keeps(servers[pair].locations, file, s, LastRead)
    BY <2>4, <2>5 DEF IsServed
  <2>12. HasLine(servers[pair].locations[k(n)], file, q, n)
    <3> HIDE DEF pair, k
    <3> QED BY <2>4, <2>6, <2>7, <2>10, <2>11 DEF Keeps
  <2> QED BY <2>9, <2>12 DEF HasLine, p
<1> QED BY <1>1, <1>2, TextStaysServed, Invariance, PTL DEF Spec
=============================================================================

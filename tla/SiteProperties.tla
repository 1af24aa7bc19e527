--------------------------- MODULE SiteProperties ---------------------------
(***************************************************************************)
(* What the owner of a configuration file and the peers may rely on.       *)
(***************************************************************************)
EXTENDS Site

IsReached == outcome \in {"up", "down"}

(* The end of the file; what was read from it is not changed by requests. *)
IsRead == outcome = "up" /\ asked = 0

(* The state has its shape, and the server terminates only after it was up. *)
TypeOK ==
  /\ file \in File
  /\ lineNumber \in 1..Len(file) + 3
  /\ contextType \in DOMAIN Allowed
  /\ IsReached => contextType = "http"
  /\ outcome \in {"loading", "refused", "up", "down"}
  /\ DOMAIN disk \subseteq DOMAIN Disk
  /\ request \in Request \cup {NoRequest} \/ request.host = 0
  /\ session.st \in {"none", "body", "exec", "running", "ended", "read"}
  /\ session.st # "none" => session.redirects \in 0..MAX_LOCAL_REDIRECT_COUNT
  /\ asked \in 0..MaxRequests

(* Every port that gets a socket has a server that was declared with this port,
   so the fallback of getServerContext finds one and never runs off the map. *)
PortsServed ==
  /\ \A port \in Ports : HostsOf(servers, port) # {}
  /\ \A pair \in DOMAIN servers : servers[pair].listen = pair[1]

(* The server block a line stands in, told from the text alone, with its port
   and its hosts; and the last line before it that opens a block of such words. *)
OpenedBy(n, words) == Max({ i \in 1..n : file[i].word \in words })
Block(n) ==
  LET next == { i \in n + 1..Len(file) : file[i].word = "server" }
  IN OpenedBy(n, {"server"})..Min(next \cup {Len(file) + 1, lineNumber}) - 1
Lines(n, word) == { i \in Block(n) : file[i].word = word }
ListenOf(n) ==
  IF Lines(n, "listen") = {} THEN DEFAULT_LISTEN ELSE file[Min(Lines(n, "listen"))].args[1]
HostsOfBlock(n) ==
  IF Lines(n, "server_names") = {} THEN {Localhost}
  ELSE Range(file[Min(Lines(n, "server_names"))].args)

(* Every directive of a location that was read is found under all names of its
   server, in the location that comes at its place, with its value: the shared
   line counter, the nested blocks and the maps of Config take nothing away and
   mix nothing up. *)
DeclaredIsServed ==
  IsRead =>
    \A n \in 1..Min({lineNumber - 1, Len(file)}) :
      /\ file[n].word \in Allowed["location"]
      /\ file[OpenedBy(n, {"location", "cgi"})].word = "location"
      => LET k == Cardinality({ i \in Lines(n, "location") : i <= n })
         IN \A host \in HostsOfBlock(n) :
              LET location == servers[<<ListenOf(n), host>>].locations[k]
              IN /\ location.directives["path"] = file[OpenedBy(n, {"location"})].args[1]
                 /\ IF file[n].word = "limit_except"
                    THEN Range(file[n].args) \subseteq location.allowedMethods
                    ELSE location.directives[file[n].word] = file[n].args[1]

-----------------------------------------------------------------------------

(* Where a peer that asks for segs goes on, if it follows an answer 302; it stays
   where it gets another answer.  And where n such steps lead to. *)
SentTo(server, segs) ==
  LET a == ProcessRequest(server, "GET", [segs |-> segs, query |-> "none"], <<>>).answer
  IN IF a.status = 302 /\ a.to.abs THEN a.to.segs \o a.rest ELSE segs
Followed(server, segs, n) ==
  LET path[i \in 0..n] == IF i = 0 THEN segs ELSE SentTo(server, path[i - 1])
  IN path[n]

ReturnsAreDirectories(server) ==
  \A p \in DOMAIN server.returnLocations :
    LET to == server.returnLocations[p]
    IN to.abs => to.slash /\ \A i \in DOMAIN to.segs : to.segs[i] \notin Dotted

(* Redirects of a file that was accepted end: a peer that follows them is not
   sent in a circle, if what return names is written as a location is.  The
   check at the end of a server block looks at texts, requests are looked up by
   the pieces of their path. *)
RedirectsEnd ==
  IsRead =>
    \A pair \in DOMAIN servers :
      LET server == servers[pair]
          n == Len(server.locations) + 1
      IN ReturnsAreDirectories(server) =>
           \A i \in DOMAIN server.locations :
             LET end == Followed(server, server.locations[i].directives["path"].segs, n)
             IN Followed(server, end, 1) = end

-----------------------------------------------------------------------------

(* What GET would be answered now. *)
Got(segs) == ProcessRequest(Server, "GET", [segs |-> segs, query |-> "none"], <<>>).answer

(* The Location of an answer 201 leads to what was stored, unless GET is not
   allowed there or the path is one of a script. *)
PostedIsServed ==
  answer.status = 201 /\ "location" \in DOMAIN answer /\ ~IsCgi(Server, answer.location) =>
    Got(answer.location) \in {[status |-> 200, data |-> FileData(request.body)], Error(405)}

(* Paths a request can come to: with a slash at both ends, and without a '.',
   where a url's directory would end before its names do; none is declared
   twice. *)
IsPlain(path) == path = Dir(path.segs) /\ Range(path.segs) \cap Dotted = {}
PathsArePlain(server) ==
  LET paths == [i \in DOMAIN server.locations |-> server.locations[i].directives["path"]]
  IN IsInjective(paths) /\ \A i \in DOMAIN paths : IsPlain(paths[i])

(* What a listing links to can be had, in a server with plain paths, unless GET
   is not allowed there, the location returns or runs scripts. *)
ListedIsServed ==
  "links" \in DOMAIN answer /\ PathsArePlain(Server) =>
    \A link \in answer.links :
      Last(link) \in Dotted /\ ~IsCgi(Server, link) => Got(link).status \in {200, 302, 405}

(* The source of a script is not served from a location that runs scripts and
   lies directly under "/": RequestParser and CoreHandler take the path of a
   request apart differently, and must agree here. *)
ScriptsAreRun ==
  "data" \in DOMAIN answer /\ request.url.segs # <<>> =>
    ~IsCgiOn(Server, Directory(request.url.segs).segs[1])

(* A configuration no request makes the server look for a directive that is
   not there: "/" serves files, locations of scripts have an alias, and there is
   no cgi block, whose lookup reads beyond the names of the url.  A location of
   scripts has no '.' in its name. *)
IsComplete(server) ==
  /\ server.cgi = <<>>
  /\ \A i \in DOMAIN server.locations :
       LET location == server.locations[i]
       IN /\ location.directives["path"] = Home =>
               /\ HasDirective(location, "alias")
               /\ HasDirective(location, "index") \/ HasDirective(location, "autoindex")
          /\ HasDirective(location, "cgi_on") =>
               /\ HasDirective(location, "alias")
               /\ Range(location.directives["path"].segs) \cap Dotted = {}

(* With such configurations the server ends only at an empty query, of a peer or
   of a script's redirect (ParseRequestUrl.cpp:136, Cgi.cpp:135), or at what a
   script that ends well prints: nothing, or a status without a text last. *)
SurvivesRequests ==
  outcome = "down" /\ (\A pair \in DOMAIN servers : IsComplete(servers[pair])) =>
    \/ request.url.query = "empty"
    \/ session.st = "read" /\ CgiResponseType(session.program) = "throws"

-----------------------------------------------------------------------------

(* A file changes only when its directory is the alias of a location that allows
   the method of the request, in the server the request was for. *)
Changed == { dir \in DOMAIN disk : dir \notin DOMAIN disk' \/ disk'[dir] # disk[dir] }
ChangesAsAllowed ==
  \A dir \in Changed :
    LET server == GetServerContext(servers, request'.port, request'.host)
    IN \E i \in DOMAIN server.locations :
         /\ HasDirective(server.locations[i], "alias") /\ Alias(server.locations[i]) = dir
         /\ IsAllowedMethod(server.locations[i], request'.method)
LimitExceptHolds == [][ChangesAsAllowed]_vars

(* The files as a store: an answer 201 created one file under a new name, 204
   removed one, anything else changed nothing.  A script's answer is its own. *)
Store == INSTANCE FileStore WITH
           status <- IF "document" \in DOMAIN answer THEN 0 ELSE answer.status
StoresFiles == Store!Spec

(* A session that cannot go on: the body fills the pipe of a script that does not
   run yet, or its output fills the pipe that is read only after its end. *)
IsStuck ==
  \/ session.st = "body" /\ session.body + session.stdin >= PipeSize
  \/ session.st = "running" /\ session.program.size > PipeSize

(* A request for a script comes to its answer, a redirect of the script or the
   end of the server, unless the script's session is stuck. *)
ScriptsAnswer ==
  \A r \in 0..MAX_LOCAL_REDIRECT_COUNT :
    session.st # "none" /\ session.redirects = r
      ~> \/ session.st = "none" \/ session.redirects # r
         \/ IsStuck \/ outcome = "down"
=============================================================================

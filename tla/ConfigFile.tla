----------------------------- MODULE ConfigFile -----------------------------
(***************************************************************************)
(* Class ConfigParser with the objects it fills: Config, ServerContext,    *)
(* LocationContext and CGIContext.  One action takes one line of the file, *)
(* in the block that lineNumber has come to; parseLines, setServerContext, *)
(* setLocationContext and setCGIContext share that counter, and the end of *)
(* the file ends every block as a line "}" does.                           *)
(*                                                                         *)
(* A line is its first word and its arguments without the ";" behind them  *)
(* (splitLine); every directive has an argument.  A line that is empty or  *)
(* a comment has the word "#".                                             *)
(***************************************************************************)
EXTENDS Contexts

CONSTANT File  \* the files the server may be started with: sequences of lines

ASSUME FileAssumption ==
  /\ Localhost \in Nat
  /\ \A f \in File :
       /\ Len(f) \in Nat /\ DOMAIN f = 1..Len(f)
       /\ \A i \in DOMAIN f :
            /\ f[i].word = "listen" => f[i].args[1] \in Int
            /\ f[i].word = "server_names" => f[i].args \in Seq(Nat)
            /\ f[i].word \in {"location", "return"} => f[i].args[1] \in Path
            /\ f[i].word = "location" => "" \notin Range(f[i].args[1].segs)

VARIABLES
  file,              \* _lines
  lineNumber,        \* _lineNumber, counted from 1
  contextType,       \* _contextType: the block that is open
  serverContext,     \* the server block being read
  locationContext,   \* the location block being read
  cgiContext,        \* the cgi block being read
  servers,           \* Config::_servers, by port and host
  portAndHostVecAll, \* Config::_portAndHostVecAll
  outcome            \* "loading", "refused" (a ConfigError), "up"

blocks == <<serverContext, locationContext, cgiContext>>
config == <<servers, portAndHostVecAll>>
parserVars == <<file, lineNumber, contextType, blocks, config, outcome>>

(* The end of the file ends the block as "}" does. *)
Line == file[lineNumber]
Word == IF lineNumber > Len(file) THEN "}" ELSE Line.word
Arg == Line.args[1]
AtEnd == Word = "}"

(* isAllowedDirective *)
Allowed ==
  [http     |-> {"server"},
   server   |-> {"listen", "server_names", "client_max_body_size", "error_page", "location", "cgi"},
   location |-> {"alias", "index", "limit_except", "command", "cgi_on", "return", "autoindex"},
   cgi      |-> {"alias", "index", "limit_except", "command"}]

ParserInit ==
  /\ file \in File
  /\ lineNumber = 1
  /\ contextType = "http"
  /\ serverContext = NewServerContext
  /\ locationContext = NewLocationContext(Home)
  /\ cgiContext = <<>>
  /\ servers = <<>>
  /\ portAndHostVecAll = <<>>
  /\ outcome = "loading"

-----------------------------------------------------------------------------

(* Turns of the parser's loops. *)
Reads(context) == outcome = "loading" /\ contextType = context /\ ~AtEnd
Ends(context) == outcome = "loading" /\ contextType = context /\ AtEnd
Advance == lineNumber' = lineNumber + 1 /\ UNCHANGED <<file, outcome>>

(* throw ConfigError, which main() reports. *)
Refuse ==
  /\ outcome' = "refused"
  /\ UNCHANGED <<file, lineNumber, contextType, blocks, config>>

Comment ==
  /\ outcome = "loading" /\ ~AtEnd /\ Word = "#"
  /\ Advance
  /\ UNCHANGED <<contextType, blocks, config>>

NotAllowedDirective ==
  /\ outcome = "loading" /\ ~AtEnd /\ Word # "#"
  /\ Word \notin Allowed[contextType]
  /\ Refuse

OpenServer ==
  /\ Reads("http") /\ Word = "server"
  /\ serverContext' = NewServerContext
  /\ contextType' = "server"
  /\ Advance
  /\ UNCHANGED <<locationContext, cgiContext, config>>

-----------------------------------------------------------------------------
(* Inside a server block *)

(* addDirectives, setListen (a port is a number in a range), setErrorPage (a
   status is a number; -1 stands for what std::stoi refuses). *)
ServerDirectiveIsGood ==
  /\ Word \in serverContext.directives => Word = "error_page"
  /\ Word = "listen" => 1024 <= Arg /\ Arg <= 65535
  /\ Word = "error_page" => Arg # -1

WithServerDirective(server) ==
  CASE Word = "listen" -> [server EXCEPT !.listen = Arg]
    [] Word = "server_names" -> [server EXCEPT !.serverNames = Line.args]
    [] Word = "client_max_body_size" -> [server EXCEPT !.maxBodySize = Arg]
    [] Word = "error_page" -> [server EXCEPT !.errorPages = Inserted(@, {Arg}, Line.args[2])]

ServerDirective ==
  /\ Reads("server")
  /\ Word \in Allowed["server"] \ {"location", "cgi"}
  /\ \/ ~ServerDirectiveIsGood /\ Refuse
     \/ /\ ServerDirectiveIsGood
        /\ serverContext' =
             [WithServerDirective(serverContext) EXCEPT !.directives = @ \cup {Word}]
        /\ Advance
        /\ UNCHANGED <<contextType, locationContext, cgiContext, config>>

OpenLocation ==
  /\ Reads("server") /\ Word = "location"
  /\ \/ ~Arg.slash /\ Refuse
     \/ /\ Arg.slash
        /\ locationContext' = NewLocationContext(Arg)
        /\ contextType' = "location"
        /\ Advance
        /\ UNCHANGED <<serverContext, cgiContext, config>>

OpenCgi ==
  /\ Reads("server") /\ Word = "cgi"
  /\ cgiContext' = [extension |-> Arg]
  /\ contextType' = "cgi"
  /\ Advance
  /\ UNCHANGED <<serverContext, locationContext, config>>

(* Mutant: the pairs are formed before "listen" is read. *)
PortsAndHostsByDefault(server) ==
  LET names == IF server.serverNames = <<>> THEN <<Localhost>> ELSE server.serverNames
  IN [i \in DOMAIN names |-> <<DEFAULT_LISTEN, names[i]>>]

(* setPortAndHostVec *)
PortsAndHosts(server) ==
  LET names == IF server.serverNames = <<>> THEN <<Localhost>> ELSE server.serverNames
  IN [i \in DOMAIN names |-> <<server.listen, names[i]>>]

(* Mutant: duplicates are looked for among the names of one server only. *)
AddsDuplicatesOfItsOwn(pairs) == ~IsInjective(pairs)

(* Config::addPortAndHostVecAll throws for a pair that is there. *)
AddsDuplicates(pairs) == ~IsInjective(portAndHostVecAll \o pairs)

(* The end of setServerContext, and parseLines with what it returns. *)
CloseServer ==
  LET pairs == PortsAndHosts(serverContext)
  IN /\ Ends("server")
     /\ \/ /\ HasReturnCycle(serverContext.returnLocations) \/ AddsDuplicates(pairs)
           /\ Refuse
        \/ /\ ~HasReturnCycle(serverContext.returnLocations) /\ ~AddsDuplicates(pairs)
           /\ servers' = Inserted(servers, Range(pairs), serverContext)
           /\ portAndHostVecAll' = portAndHostVecAll \o pairs
           /\ contextType' = "http"
           /\ Advance
           /\ UNCHANGED blocks

-----------------------------------------------------------------------------
(* Inside a location block *)

LimitExcept ==
  /\ Reads("location") /\ Word = "limit_except"
  /\ locationContext' = [locationContext EXCEPT !.allowedMethods = @ \cup Range(Line.args)]
  /\ Advance
  /\ UNCHANGED <<contextType, serverContext, cgiContext, config>>

LocationDirectiveIsGood ==
  /\ ~HasDirective(locationContext, Word)
  /\ Word = "return" => Arg # locationContext.directives["path"]

LocationDirective ==
  /\ Reads("location") /\ Word \in Allowed["location"] \ {"limit_except"}
  /\ \/ ~LocationDirectiveIsGood /\ Refuse
     \/ /\ LocationDirectiveIsGood
        /\ locationContext' = [locationContext EXCEPT !.directives = Inserted(@, {Word}, Arg)]
        /\ Advance
        /\ UNCHANGED <<contextType, serverContext, cgiContext, config>>

IsCompleteLocation(location) ==
  \/ HasDirective(location, "return")
  \/ /\ HasDirective(location, "alias")
     /\ HasDirective(location, "index") \/ HasDirective(location, "autoindex")

(* addLocationContext; the first return of a path is kept. *)
AddLocationContext(server, location) ==
  [server EXCEPT
     !.locations = Append(@, location),
     !.returnLocations =
       IF HasDirective(location, "return")
       THEN Inserted(@, {location.directives["path"]}, location.directives["return"])
       ELSE @]

CloseLocation ==
  /\ Ends("location")
  /\ \/ ~IsCompleteLocation(locationContext) /\ Refuse
     \/ /\ IsCompleteLocation(locationContext)
        /\ serverContext' = AddLocationContext(serverContext, locationContext)
        /\ contextType' = "server"
        /\ Advance
        /\ UNCHANGED <<locationContext, cgiContext, config>>

-----------------------------------------------------------------------------
(* Inside a cgi block: limit_except is a directive like the others there. *)

CgiDirective ==
  /\ Reads("cgi") /\ Word \in Allowed["cgi"]
  /\ \/ Word \in DOMAIN cgiContext /\ Refuse
     \/ /\ Word \notin DOMAIN cgiContext
        /\ cgiContext' = Inserted(cgiContext, {Word}, Arg)
        /\ Advance
        /\ UNCHANGED <<contextType, serverContext, locationContext, config>>

(* addCGIContext: a second block takes the place of the first. *)
CloseCgi ==
  /\ Ends("cgi")
  /\ serverContext' = [serverContext EXCEPT !.cgi = cgiContext]
  /\ contextType' = "server"
  /\ Advance
  /\ UNCHANGED <<locationContext, cgiContext, config>>

-----------------------------------------------------------------------------

(* parseLines ends with the file, or at a "}" that closes nothing. *)
EndOfFile ==
  /\ Ends("http")
  /\ outcome' = "up"
  /\ UNCHANGED <<file, lineNumber, contextType, blocks, config>>

ParserNext ==
  \/ Comment \/ NotAllowedDirective
  \/ OpenServer \/ ServerDirective \/ CloseServer
  \/ OpenLocation \/ LimitExcept \/ LocationDirective \/ CloseLocation
  \/ OpenCgi \/ CgiDirective \/ CloseCgi
  \/ EndOfFile

(* Config::getPorts: a socket is opened for each of them. *)
Ports == { portAndHostVecAll[i][1] : i \in DOMAIN portAndHostVecAll }
=============================================================================

------------------------------ MODULE Contexts ------------------------------
(***************************************************************************)
(* What a configuration file leaves behind and how requests look it up:    *)
(* ServerContext, LocationContext and CGIContext, with the maps            *)
(* _returnLocations, _serverPathMap and _pathMap of a server.              *)
(*                                                                         *)
(* A name is a piece of a path between two slashes.  A path is a record:   *)
(* the pieces, and whether the text starts and ends with a slash.  Paths   *)
(* are compared as texts, so all three fields count.                       *)
(***************************************************************************)
EXTENDS Integers, FiniteSets, SequencesExt

CONSTANTS
  Dotted,     \* the names that contain a '.', which the code takes for files
  Extension,  \* what follows the last '.' of a name, by name
  Localhost   \* the host "localhost"; hosts are numbers in the order of
              \*   std::map, a missing Host header is 0

Path == [abs : BOOLEAN, segs : Seq(STRING), slash : BOOLEAN]
Dir(segs) == [abs |-> TRUE, segs |-> segs, slash |-> TRUE]
Home == Dir(<<>>)

(* std::map::insert: a key that is there keeps its value. *)
Inserted(map, keys, value) ==
  [k \in DOMAIN map \cup keys |-> IF k \in DOMAIN map THEN map[k] ELSE value]

DEFAULT_LISTEN == 65535
DEFAULT_MAX_BODY_SIZE == 1048576

(* ServerContext(), LocationContext(), and the absence of a cgi block. *)
NewServerContext ==
  [listen |-> DEFAULT_LISTEN, serverNames |-> <<>>, maxBodySize |-> DEFAULT_MAX_BODY_SIZE,
   errorPages |-> <<>>, directives |-> {}, locations |-> <<>>, returnLocations |-> <<>>,
   cgi |-> <<>>]
NewLocationContext(path) == [directives |-> [path |-> path], allowedMethods |-> {}]

HasDirective(context, word) == word \in DOMAIN context.directives
Alias(location) == location.directives["alias"]
HasAutoindexOn(location) ==
  HasDirective(location, "autoindex") /\ location.directives["autoindex"] = "on"
IsAllowedMethod(location, method) ==
  location.allowedMethods = {} \/ method \in location.allowedMethods

-----------------------------------------------------------------------------
(* Lookups in one server.  Of several entries with one key the first counts. *)

WithPath(server, path) ==
  { i \in DOMAIN server.locations : server.locations[i].directives["path"] = path }
WithAlias(server) ==
  { i \in DOMAIN server.locations : HasDirective(server.locations[i], "alias") }
First(server, indices) == server.locations[Min(indices)]

(* getLocationContext: the whole path must be the location's; otherwise it throws. *)
HasLocation(server, path) == WithPath(server, path) # {}
GetLocationContext(server, path) == First(server, WithPath(server, path))

GetServerPath(server, path) ==
  Alias(First(server, WithPath(server, path) \cap WithAlias(server)))

GetClientPath(server, alias) ==
  First(server, { i \in WithAlias(server) : Alias(server.locations[i]) = alias })
    .directives["path"]

(* Mutant: a location may not return to itself, but others are not followed. *)
HasReturnToItself(returns) == \E p \in DOMAIN returns : returns[p] = p

(* verifyReturnLocations: following the returns from some location comes back
   to where it was, that is, some of the locations return to each other. *)
HasReturnCycle(returns) ==
  \E S \in SUBSET DOMAIN returns : S # {} /\ \A p \in S : returns[p] \in S

-----------------------------------------------------------------------------
(* Config::getServerContext(port, host): the pair itself, or else the first of
   the port in the order of the map. *)
HostsOf(servers, port) == { pair[2] : pair \in { p \in DOMAIN servers : p[1] = port } }
GetServerContext(servers, port, host) ==
  IF <<port, host>> \in DOMAIN servers
  THEN servers[<<port, host>>]
  ELSE servers[<<port, Min(HostsOf(servers, port))>>]

-----------------------------------------------------------------------------
(* utils/cgi.cpp: which requests are for a script.  tokens are the pieces of
   the path, of which isCgiDir looks at the first two. *)

IsCgiOn(server, name) ==
  /\ HasLocation(server, Dir(<<name>>))
  /\ LET location == GetLocationContext(server, Dir(<<name>>))
     IN HasDirective(location, "cgi_on") /\ location.directives["cgi_on"] = "on"

(* Mutant: the empty token before the first slash is not skipped. *)
IsCgiDirOfFirst(server, tokens) == IsCgiOn(server, tokens[1])

IsCgiDir(server, tokens) ==
  IF HasLocation(server, Dir(<<tokens[1]>>))
  THEN IsCgiOn(server, tokens[1])
  ELSE Len(tokens) > 1 /\ IsCgiOn(server, tokens[2])

(* tokens[1] is read where there is only tokens[0]. *)
ReadsBeyond(server, tokens) ==
  Len(tokens) = 1 /\ ~HasLocation(server, Dir(<<tokens[1]>>))

IsScriptName(server, name) ==
  "extension" \in DOMAIN server.cgi /\ Extension[name] = server.cgi["extension"]
IsCgiBlockPath(server, names) == \E i \in DOMAIN names : IsScriptName(server, names[i])

(* RequestParser::parse: its tokens start with the empty one before the first slash. *)
IsCgi(server, segs) ==
  /\ segs # <<>>
  /\ IsCgiDir(server, <<"">> \o segs) \/ IsCgiBlockPath(server, segs)
=============================================================================

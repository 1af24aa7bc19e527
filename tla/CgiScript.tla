----------------------------- MODULE CgiScript ------------------------------
(***************************************************************************)
(* Class Cgi, class CgiParser and the handlers of SocketInterface that feed *)
(* a script and read it, for one request.  SocketInterface models the same *)
(* handlers for several connections; here the script's file is looked up,  *)
(* its pipes have a capacity, and what it prints is taken apart.           *)
(*                                                                         *)
(* A script is a file whose data is in Program.  Amounts of data in pipes  *)
(* are counted in units of what a body has per line.                       *)
(***************************************************************************)
EXTENDS CoreHandler

CONSTANTS
  Program,   \* what the scripts do, by the data of their file:
             \*   reads  it reads all of its input before it prints
             \*   size   the units it prints
             \*   ok     it exits with 0
             \*   status its header Status: 0 none, -1 a number without a text
             \*          behind it in the last header, or else the number
             \*   type   it prints a Content-Type
             \*   location  <<>> or its header Location, and its query
             \*   body   the lines behind the headers
  PipeSize   \* what a pipe holds

ASSUME ProgramAssumption ==
  \A data \in DOMAIN Program :
    /\ Program[data].location # <<>> => Program[data].location[1].segs \in Seq(STRING)
    /\ Program[data].query \in Query

VARIABLE session

NoSession == [st |-> "none"]

-----------------------------------------------------------------------------
(* Cgi::parseUrl.  A plan names the file to run, and whether there is anything
   to execute it with; "?" is a name no file has. *)

Plan(dir, name, executable) ==
  [status |-> 200, dir |-> dir, name |-> name, executable |-> executable]

(* Mutant: the index is asked for without a catch. *)
GetCgiPathOfIndex(server, method, segs) ==
  LET directory == Dir(<<segs[1]>>)
      location == GetLocationContext(server, directory)
      files == { i \in DOMAIN segs : segs[i] \in Dotted }
      end == Min((files \ {1}) \cup {Len(segs)})
  IN IF ~HasLocation(server, directory) THEN Throws
     ELSE IF ~IsAllowedMethod(location, method) THEN Failed(405)
     ELSE IF ~HasDirective(location, "alias") THEN Throws
     ELSE IF files = {}
          THEN IF HasDirective(location, "index")
               THEN Plan(Alias(location), location.directives["index"], TRUE)
               ELSE Throws
     ELSE IF Len(segs) = 1 THEN Throws
     ELSE Plan(Alias(location), IF end = 2 THEN segs[2] ELSE "?", TRUE)

(* getCgiPath: the file is the first name behind the location's that has a '.',
   or all of them, or the index if no name of the url has one.  A location
   without alias, or none, is an exception; so is replacing the "//" that an
   empty file leaves out. *)
GetCgiPath(server, method, segs) ==
  LET directory == Dir(<<segs[1]>>)
      location == GetLocationContext(server, directory)
      files == { i \in DOMAIN segs : segs[i] \in Dotted }
      end == Min((files \ {1}) \cup {Len(segs)})
  IN IF ~HasLocation(server, directory) THEN Throws
     ELSE IF ~IsAllowedMethod(location, method) THEN Failed(405)
     ELSE IF ~HasDirective(location, "alias") THEN Throws
     ELSE IF files = {}
          THEN Plan(Alias(location),
                    IF HasDirective(location, "index") THEN location.directives["index"] ELSE "",
                    TRUE)
     ELSE IF Len(segs) = 1 THEN Throws
     ELSE Plan(Alias(location), IF end = 2 THEN segs[2] ELSE "?", TRUE)

(* parseCgiBlock: the file ends with the first name that has the extension.
   Without a command nothing is executed. *)
ParseCgiBlock(server, segs) ==
  IF "alias" \in DOMAIN server.cgi
  THEN Plan(server.cgi["alias"],
            IF IsScriptName(server, segs[1]) THEN segs[1] ELSE "?",
            "command" \in DOMAIN server.cgi)
  ELSE Throws

(* What parseUrl may come to: reading tokens[1] of a single token finds no
   location or ends the process, and so does the last character of an empty
   query. *)
Plans(server, method, url) ==
  IF url.query = "empty" THEN {Throws}
  ELSE { IF IsCgiDir(server, url.segs)
         THEN GetCgiPath(server, method, url.segs)
         ELSE ParseCgiBlock(server, url.segs) }
       \cup (IF ReadsBeyond(server, url.segs) THEN {Throws} ELSE {})

-----------------------------------------------------------------------------
(* A session: body and stdin count what is to be written and what lies in the
   script's input, printed and out the same for its output. *)

NewSession(plan, method, size, redirects) ==
  [st |-> IF method = "POST" THEN "body" ELSE "exec", plan |-> plan, body |-> size,
   stdin |-> 0, program |-> <<>>, printed |-> 0, out |-> 0, redirects |-> redirects]

(* Mutant: EXEC_CGI is not set at the end of the body. *)
ExecWriteCgiBodyOnly ==
  /\ session.st = "body" /\ session.stdin < PipeSize
  /\ LET n == Min({session.body, PipeSize - session.stdin})
     IN session' = [session EXCEPT !.body = @ - n, !.stdin = @ + n]

(* execWriteCGIBody: poll() reports a pipe that has room; a write puts in what
   fits, and one of nothing starts the script. *)
ExecWriteCgiBody ==
  /\ session.st = "body" /\ session.stdin < PipeSize
  /\ LET n == Min({session.body, PipeSize - session.stdin})
     IN session' = IF session.body = 0
                   THEN [session EXCEPT !.st = "exec"]
                   ELSE [session EXCEPT !.body = @ - n, !.stdin = @ + n]

(* execve fails: the child exits with 1. *)
Failing ==
  [reads |-> FALSE, size |-> 0, ok |-> FALSE, status |-> 0, type |-> FALSE,
   location |-> <<>>, query |-> "none", body |-> <<>>]

(* execCGI: what it runs.  For a file that does not exist validatePath looks at
   a stat buffer nothing was written to. *)
Executed(plan) ==
  IF FileExists(plan.dir, plan.name)
  THEN LET data == disk[plan.dir][plan.name]
       IN {IF plan.executable /\ data \in DOMAIN Program THEN Program[data] ELSE Failing}
  ELSE IF plan.name = "" /\ DirExists(plan.dir) THEN {} ELSE {Failing}

(* The statuses it refuses to run anything with. *)
RefusedWith(plan) ==
  IF plan.status # 200 THEN {plan.status}
  ELSE IF FileExists(plan.dir, plan.name) THEN {} ELSE {404}

ScriptReads ==
  /\ session.st = "running" /\ session.program.reads /\ session.stdin > 0
  /\ session' = [session EXCEPT !.stdin = 0]

HasRead == session.program.reads => session.stdin = 0

ScriptPrints ==
  /\ session.st = "running" /\ HasRead
  /\ session.printed < session.program.size /\ session.out < PipeSize
  /\ session' = [session EXCEPT !.printed = @ + 1, !.out = @ + 1]

ScriptExits ==
  /\ session.st = "running" /\ HasRead
  /\ session.printed = session.program.size
  /\ session' = [session EXCEPT !.st = "ended"]

ScriptNext == ScriptReads \/ ScriptPrints \/ ScriptExits

(* execWaitCgiChild, for a script that ended well. *)
ExecWaitCgiChild ==
  /\ session.st = "ended" /\ session.program.ok
  /\ session' = [session EXCEPT !.st = "read"]

ExecReadCgi ==
  /\ session.st = "read" /\ session.out > 0
  /\ session' = [session EXCEPT !.out = @ - 1]

-----------------------------------------------------------------------------
(* CgiParser, and parseCgiResponse for what has no headers at all. *)
CgiResponseType(program) ==
  IF program.size = 0 \/ program.status = -1 THEN "throws"
  ELSE IF program.location = <<>> \/ (program.type /\ program.body # <<>>)
       THEN "Document"
  ELSE IF program.location[1].abs THEN "Server_Redirect" ELSE "Client_Redirect"

DocumentResponse(program) ==
  [status |-> IF program.status = 0 THEN 200 ELSE program.status, document |-> program.body]
ClientRedirectResponse(program) ==
  [status |-> 302, to |-> program.location[1], rest |-> <<>>]
=============================================================================

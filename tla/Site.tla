-------------------------------- MODULE Site --------------------------------
(***************************************************************************)
(* The server from its configuration file to its answers: ConfigFile reads *)
(* the file, then requests are handed one after the other to CoreHandler   *)
(* or to a script (CgiScript), by the server their port and Host select.   *)
(* Every request comes on a connection of its own; what connections do to  *)
(* each other is the subject of SocketInterface.                           *)
(***************************************************************************)
EXTENDS ConfigFile, CgiScript

CONSTANTS
  Disk,         \* the directories and files there are at the start
  Request,      \* what peers may ask: [method, port, host, url, body]
  MAX_LOCAL_REDIRECT_COUNT, \* SocketInterface.hpp:25 (10)
  MaxRequests   \* bound: requests that are asked

ASSUME RequestAssumption ==
  /\ \A r \in Request :
       /\ DOMAIN r = {"method", "port", "host", "url", "body"}
       /\ r.url.segs \in Seq(STRING) /\ r.url.query \in Query
  /\ MAX_LOCAL_REDIRECT_COUNT \in Nat
  /\ MaxRequests \in Nat

VARIABLES
  request,  \* the request that is handled, or was last
  answer,   \* its answer; status 0 while there is none
  asked     \* the number of requests so far

vars == <<parserVars, disk, session, request, answer, asked>>

NoRequest ==
  [method |-> "", port |-> 0, host |-> 0, url |-> [segs |-> <<>>, query |-> "none"], body |-> <<>>]
NoAnswer == [status |-> 0]

Server == GetServerContext(servers, request.port, request.host)

Init ==
  /\ ParserInit
  /\ disk = Disk
  /\ session = NoSession
  /\ request = NoRequest
  /\ answer = NoAnswer
  /\ asked = 0

LoadConfig ==
  /\ ParserNext
  /\ UNCHANGED <<disk, session, request, answer, asked>>

-----------------------------------------------------------------------------

(* An exception that leaves eventLoop ends the process; there is no answer. *)
Terminate ==
  /\ outcome' = "down"
  /\ answer' = NoAnswer
  /\ UNCHANGED <<disk, session>>

Reply(a) == answer' = a /\ session' = NoSession /\ UNCHANGED <<disk, outcome>>

(* execCoreHandler *)
ExecCoreHandler(server, r) ==
  LET done == ProcessRequest(server, r.method, r.url, r.body)
  IN /\ NamesAreLeft
     /\ IF done.answer.status = 0
        THEN Terminate
        ELSE answer' = done.answer /\ disk' = done.disk /\ session' = NoSession /\ UNCHANGED outcome

(* The constructor of Cgi, which throws for some plans, and setCgiBody. *)
StartSession(plan, r, redirects) ==
  \/ plan.status = 0 /\ Terminate
  \/ /\ plan.status # 0
     /\ session' = NewSession(plan, r.method, Len(r.body), redirects)
     /\ answer' = NoAnswer
     /\ UNCHANGED <<disk, outcome>>

(* execParseRequest, with RequestParser::parse for a request of good form. *)
ExecParseRequest(r, redirects) ==
  LET server == GetServerContext(servers, r.port, r.host)
  IN /\ request' = r
     /\ \/ Len(r.body) > server.maxBodySize /\ Reply(Error(413))
        \/ /\ Len(r.body) <= server.maxBodySize /\ IsCgi(server, r.url.segs)
           /\ \E plan \in Plans(server, r.method, r.url) :
                StartSession(plan, r, redirects)
        \/ /\ Len(r.body) <= server.maxBodySize /\ ~IsCgi(server, r.url.segs)
           /\ ExecCoreHandler(server, r)

(* A request from a peer. *)
Ask(r) ==
  /\ outcome = "up" /\ session.st = "none" /\ asked < MaxRequests
  /\ r.port \in Ports
  /\ asked' = asked + 1
  /\ ExecParseRequest(r, 0)
  /\ UNCHANGED <<file, lineNumber, contextType, blocks, config>>

-----------------------------------------------------------------------------
(* A script's session *)

InSession ==
  outcome = "up" /\ UNCHANGED <<file, lineNumber, contextType, blocks, config, asked>>
NothingElse == InSession /\ UNCHANGED <<outcome, disk, request, answer>>

ExecCgi ==
  /\ session.st = "exec"
  /\ \/ \E status \in RefusedWith(session.plan) : Reply(Error(status))
     \/ /\ session.plan.status = 200
        /\ \E program \in Executed(session.plan) :
             session' = [session EXCEPT !.st = "running", !.program = program]
        /\ UNCHANGED <<outcome, disk, answer>>
  /\ InSession /\ UNCHANGED request

(* execWaitCgiChild, for a script that failed. *)
ScriptFailed ==
  /\ session.st = "ended" /\ ~session.program.ok
  /\ Reply(Error(500))
  /\ InSession /\ UNCHANGED request

(* The request generateServerRedirectResponse makes: the script's body, and no
   Host. *)
ServerRedirect(program) ==
  [request EXCEPT !.host = 0, !.body = program.body,
                  !.url = [segs |-> program.location[1].segs, query |-> program.query]]

(* Mutant: the count is compared before it is raised. *)
TooManyRedirectsBefore(count) == count - 1 > MAX_LOCAL_REDIRECT_COUNT

TooManyRedirects(count) == count > MAX_LOCAL_REDIRECT_COUNT

(* execReadCgi at the end of the output, with parseCgiResponse. *)
ParseCgiResponse ==
  /\ session.st = "read" /\ session.out = 0
  /\ LET program == session.program
         type == CgiResponseType(program)
         count == session.redirects + 1
     IN \/ type = "throws" /\ Terminate /\ UNCHANGED request
        \/ type = "Document" /\ Reply(DocumentResponse(program)) /\ UNCHANGED request
        \/ type = "Client_Redirect" /\ Reply(ClientRedirectResponse(program)) /\ UNCHANGED request
        \/ /\ type = "Server_Redirect" /\ TooManyRedirects(count)
           /\ Reply(Error(500)) /\ UNCHANGED request
        \/ /\ type = "Server_Redirect" /\ ~TooManyRedirects(count)
           /\ ExecParseRequest(ServerRedirect(program), count)
  /\ InSession

(* deleteClient closes a connection that waited too long, without an answer,
   and kills its script. *)
Timeout ==
  /\ session.st # "none"
  /\ Reply(Error(-1))
  /\ InSession /\ UNCHANGED request

ServerStep ==
  \/ (ExecWriteCgiBody \/ ExecWaitCgiChild \/ ExecReadCgi) /\ NothingElse
  \/ ExecCgi \/ ScriptFailed \/ ParseCgiResponse

ScriptStep == ScriptNext /\ NothingElse

Next ==
  \/ LoadConfig
  \/ \E r \in Request : Ask(r)
  \/ ServerStep
  \/ ScriptStep
  \/ Timeout

Spec == Init /\ [][Next]_vars

(* The loop comes back to a session that can go on, and scripts run. *)
Fairness == WF_vars(ServerStep) /\ WF_vars(ScriptStep)
FairSpec == Spec /\ Fairness
=============================================================================

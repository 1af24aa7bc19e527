# Neuro-webserv: a TLA+ model of the server

Neuro-webserv is an HTTP/1.1 server in C++98: one process, one thread, one
`poll()`, with CGI scripts as child processes. Everything hard about it sits in
class `SocketInterface` (`src/srcs/SocketInterface/SocketInterface.cpp`): a
connection, its script and the script's pipes are tied together by descriptor
*numbers* kept in four places (`_pollFds`, `_clients`, `cgiFd`, `clientFd`),
numbers that the kernel hands out again as soon as they are closed. The rest is
sequential and full of lookups: a configuration file becomes maps, and three
parsers take the same url apart in three ways to find a location, a file or a
script in them. This directory models both: the event loop with the processes
around it and the way it cuts requests out of a byte stream, and the path from
the configuration file over a request to its answer.

Paths below are relative to `src/srcs/` unless they start with `src/`.

## 1. Inventory

| Component | State | Operations | Properties that make it correct |
|---|---|---|---|
| Event loop, `SocketInterface` | `_pollFds`, `_addPollFds`, `_delIndex`, `_numClients`, `_clients` (a `RequestBuffer` per descriptor) | `eventLoop` calls one handler per ready descriptor (`acceptConnection`, `execReadRequest`, `execCoreHandler`, `execWriteResponse`, `execCgi`, `execWriteCGIBody`, `execWaitCgiChild`, `execReadCgi`, `execWriteCgi`, `execWriteError`), then `deleteClient`, then adds the queued entries | answers go to who asked, in order, once; connections end only for a cause; every request is answered; every descriptor is watched or closed |
| Poll bookkeeping | the first four of those members | `createClient`, `pushDelPollFd`, the sort, unique and erase of `deleteClient`, the final append | the counter is exact, listeners stay in front, erasures hit the right entry |
| CGI processes, `Cgi` | `pipe_stdin`, the child, its output pipe | constructor (`pipe`), `execCGI` (`pipe`, `fork`, `execve`), `waitpid`, `kill` | each script serves the connection it was started for, is waited for, and ends with its client |
| Request framing | `request`, `isChunked`, `chunkedSize`, `chunkedBody` | `parseLine`, `parseChunkedRequest`, `execParseRequest` | the request does not depend on how the bytes were split into reads |
| Request parser, CGI response parser | none | `RequestParser::parse`, `CgiParser::generateCgiResponse` | refuse what is malformed, hand scripts and files to who runs or serves them, classify the response |
| Core handler | the file system | `processRequest`: GET, POST, DELETE, autoindex, redirects | files change only where the method is allowed; the status says what happened to them; locations and links handed out can be asked for; sources of scripts are not served |
| Configuration | `_lineNumber`, `_contextType`; `Config` with its `ServerContext`s, `LocationContext`s and `CGIContext`s | `parseLines`, `setServerContext`, `setLocationContext`, `setCGIContext`, `getServerContext`, `getLocationContext`, `getReturnPath`, `getPorts` | what is declared is what is looked up later; every port has a server; no redirect cycle |
| Utilities, `main` | none | string helpers, `isTimeout`, start-up | |

Interaction: `main` builds `Config` and one `SocketInterface` and calls
`eventLoop`, which never returns. The loop calls the request parser and the core
handler as plain functions. Scripts talk to the loop through two pipes, their
exit status and signals; peers talk to it through sockets. Nothing runs
concurrently inside the process, so every interleaving is one of handlers with
the environment: a peer or a script acts between two handlers of the same pass,
after `poll()` reported and before the report is used.

What is hard here, with its source line, is the list `hazards` in
`PROJECT.json`: stale numbers (`SocketInterface.cpp` 554, 588, 596, 599, 615),
deferred deletion by index (608-618), scripts that end, fail or say nothing at
the wrong time (443, 494, 534), timeouts (590), partial failures that keep pipes
open (`Cgi/Cgi.cpp` 196), framing that depends on segmentation (118), one line
counter under three nested parsers (`Config/ConfigParser.cpp` 160), and urls that
are looked up with different rules (`utils/cgi.cpp` 26, `Cgi/Cgi.cpp` 56,
`CoreHandler/ParseRequestUrl.cpp` 95).

## 2. Modules

| Module | Models | Notes |
|---|---|---|
| `WatchList` | what the bookkeeping promises | abstract: an ordered list, each change immediate |
| `PollSet` | `_pollFds`, `_addPollFds`, `_delIndex`, `_numClients` | what handlers decide is left open |
| `SortedIndexes` | the sort, unique and erase of indexes in `deleteClient` | operators, used by `PollSet`, `SocketInterface` and the refinement mapping |
| `SequenceLemmas` | | what removing an entry does to a sequence, what sorting an index set leaves of it |
| `PollSetProofs` | | theorems about `PollSet` for all constants, and that it implements `WatchList` |
| `RequestExchange` | what reading requests promises | abstract: one verdict per request, in order, whole |
| `RequestFraming` | `parseLine`, `parseChunkedRequest`, `execParseRequest`, `RequestParser::parse`, the resets between requests | one connection |
| `RequestFramingProofs` | | theorems about `RequestFraming` for all requests and cuts, and that it implements `RequestExchange` for requests without chunks |
| `Descriptors` | descriptor table of the operating system | external |
| `SocketInterface` | the whole event loop, its handlers, scripts, peers, clock | composes the above |
| `SocketInterfaceProperties` | | what peers and scripts are owed; the refinement to `PollSet` |
| `SocketInterfaceProofs` | | the invariant `SocketInv` of the event loop, what each handler leaves, theorems about the loop for all constants, and that it implements `PollSet` |
| `SocketInterfaceWorkloads` | | theorem about the loop when no script redirects; the stages a single peer goes through, and its turns while no script runs for it |
| `SocketInterfaceOnePeer` | | theorems about the loop with a single peer that runs scripts |
| `SocketInterfaceStatic` | | theorems about the loop when only files are asked for |
| `Contexts` | `ServerContext`, `LocationContext`, `CGIContext`, the lookups of `Config`, `utils/cgi.cpp` | operators only |
| `ConfigFile` | `ConfigParser` and the objects it fills | one action per line of the file |
| `CoreHandler` | `CoreHandler`, `ParseRequestUrl.cpp`, `DataProcessor`, `StaticFileReader` | a request as an operator: answer and new disk |
| `CgiScript` | `Cgi`, `CgiParser`, the handlers that feed and read a script | one session, with pipes of a capacity |
| `Site` | `main`, `execParseRequest`, `execCoreHandler`, `execCgi`, `parseCgiResponse` | composes the four |
| `FileStore` | what the answers say of the files | abstract: created by 201, removed by 204 |
| `SiteProperties` | | what the owner of a configuration and the peers rely on; the refinement to `FileStore` |
| `SiteProofs` | | theorems about `Site` for all files, directories, requests and scripts |
| `MCPollSet`, `MCSocketInterface`, `MCRequestFraming`, `MCSite` | | the workloads of the configurations |

### PollSet

`pc` is the part of `eventLoop` that runs: `poll`, `handle` (the handler loop),
`scan` (the loop of `deleteClient`, lines 586-607) and `erase` (611-618).
`CreateClient(fd)` and `PushDelPollFd(k)` may happen in any order and number
(TLC's bounds, `MaxEntries` and `MaxMarks`, are in `MCPollSet`, whose `BoundedSpec`
the run checks); the guards of `PushDelPollFd` say where the code calls it from
(a handler with its own index, the scan with its own index or its CGI's).
Indexes count from 1. `delIndex` is emptied from its head, so it stands for the
indexes that are still to be erased. The implementation `PollSet => WatchList`
maps `watched` to the entries not queued for deletion followed by the entries
queued for addition: deferring is invisible.

### SocketInterface

`cur` is the loop variable `i`, `pollFds[i]` has `fd`, `events`, `revents`, and
`clients` is the map `_clients`, a partial function of descriptors, with the two
ways the code writes to it: `operator[]` (operators `Buffer`, `Touch`, `Put`)
inserts a zero buffer, and `insert` (operator `Insert`) keeps the buffer that is
there. Each handler is one action. A turn of the handler loop for an entry with
nothing to report changes nothing, so `NextTurn` skips those. `deleteClient` is
`ScanKeep`, `ScanDrop`, and `ScanKill` followed by `ScanReap` when a CGI goes
with its client, because the process blocks in `waitpid` between the two.

Data is reduced to what decides control: a request is `static`, `bad`, `get`,
`post` or `nocgi` with or without `Connection: close`; an answer carries the
connection and the number of the request it answers; a script prints a document,
a local redirect to a file or to a script, or nothing. A response takes at most
`Writes` writes, a POST body too. A local redirect is parsed again with the method
of the client's request (`RedirectKinds`; `CgiParser.cpp` 95, `SocketInterface.cpp`
539): a POST script that redirects to a script makes another stdin pipe, is queued
for `WRITE_CGI_BODY` and waits, like the request before it. The redirect counter
counts on above its limit (448-454). `waitpid` with a leftover pid of 0 or -1 takes
any process that has ended, in `execWaitCgiChild` as in `deleteClient` (`Named`,
`Ended`).

The environment moves between handlers: `Connect`, `Send`, `SendPart` (half a
request), `Finish` (end of stream), `Reset`, `ChildWrite`, `ChildExit`, `Tick`.
Two reductions keep the state space small. Between the scan and `poll()` only a
script the loop waits for may move, since nothing reads the environment there;
and the clock moves only while the loop is in `poll()` or blocked in `waitpid`,
since a pass takes far less than a second.

Platform assumption: the code needs `std::stoi` in C++98 mode, which libc++
offers; `poll()` reports as it does there (end of stream is POLLIN with POLLHUP,
an entry with no events is told only POLLNVAL). A write to a connection that was
reset is either SIGPIPE (the process ends, `ServerDies`) or an error.

Left out of the model: request framing (a read yields a finished request, an
unfinished one or nothing new; module `RequestFraming` models which), pipelining, the capacity of pipes, descriptors a
script inherits from its parent, `pipe()` and `fork()` failing, the bytes read by
`execReadCgi` from a number that is no pipe any more (it reads nothing), and the
garbage a never-constructed `Cgi` holds (such an entry is answered 404).

### RequestFraming

One connection. `unread` is what its peer has sent and the server has not read;
`client` holds the members `request`, `isChunked`, `chunkedSize` and
`chunkedBody` of its `RequestBuffer`, `phase` the member `state`, and `handed`
what `execParseRequest` made of the requests so far (`isRequestFinished` is FALSE
between two handlers, so it is a field of a parser step's result). A byte is a
record; only the bytes framing looks at are told apart, and a header is two of
them, its lines and its blank line.

`ExecReadRequest` is `execReadRequest` with everything it calls; `k` is where the
read ends. `ParseLine`, `ParseHeader`, `ParseChunkedRequest` with `AddChunk`, and
`Parse` are the functions it runs, branch by branch. `ExecWriteResponse`,
`ExecWriteCgi` and `ParseCgiRedirect` are the three ways back to the next
request; each resets something else. `terminated` is an exception out of
`substr()`, for a request without a header or in `parseLine`.

A POST without `Content-Length` is `ParseNoLength`. The code adds 16 to what `find`
returned, which is `npos`, and so looks for the length at the 16th character of the
header (`SocketInterface.cpp` 234). The field `place` of a request says what a header
has there: nothing because it ends before (`substr` throws), nothing because it ends
just there (411, as in `POST / HTTP/1.1`), a number (`seen`; `POST /a HTTP/1.1` has
the last digit of its version there, and one byte of a body is waited for), or
something else (400).

Abstractions: sizes of chunks are one digit and no byte of a body is a
hexadecimal digit; the error pages' own writes and the closing of the connection
are in `SocketInterface`; peers wait for each answer and give a body to POST only.

### ConfigFile and Contexts

The parser's three nested loops (`setServerContext` in `parseLines`,
`setLocationContext` and `setCGIContext` in that) are one state machine: they
share `lineNumber`, and `contextType` says which of them runs. A line is its first
word and its arguments; the end of the file acts as a line `}` in every loop, and a
`}` in the outermost one ends the file. Each `throw ConfigError` is a disjunct that
leads to `refused`. `servers` is `Config::_servers`, a function of pairs of port
and host; `serverContext` and `locationContext` are the blocks being filled.
`std::map::insert` keeps the value that is there (`Inserted`). The maps of aliases
and paths of a server hold nothing its locations do not, so they are the lookups
`GetServerPath` and `GetClientPath`.

A path is a record of the names between its slashes and of the slashes at its
ends, because the code compares texts: `/old` is not `/old/`. A host is a number
in the order of `std::map`, since `getServerContext` falls back to the first server
of the port.

### CoreHandler, CgiScript and Site

`ProcessRequest` is `processRequest` with `parseUrl`, branch by branch; a request
is the names of its url, and `Dotted`, the names with a `.`, are what the code takes
for files, and its query, which may be `"empty"`: `GET /??` has a second token
without a last character to erase (`ParseRequestUrl.cpp` 136, and once more
`Cgi/Cgi.cpp` 135). A result keeps what later steps look at: the location's path, the
file, and whether a slash stayed behind the name, for which `remove()` fails. Status 0 is
an exception nothing catches below `main`. `disk` maps directories to their
files.

`GetCgiPath`, `ParseCgiBlock` and `Plans` are the second lookup of a url, in the
constructor of `Cgi`; where `isCgiDir` reads `tokens[1]` of one token, `Plans` has
both outcomes, and for a file that does not exist `validatePath` may see either
(`Executed`, `RefusedWith`): both are undefined behaviour in the code. A session
goes `body` (the body is written to the script's input), `exec`, `running`,
`ended`, `read`; amounts in pipes are units of at most `PipeSize`. What the
`SocketInterface` module leaves out of a script is here: the capacity of its pipes,
when it reads and prints, and what its output is taken for.

`Site` is the composition: `LoadConfig` until the file is read, then `Ask(r)` with
one request at a time, every one on a connection of its own. `ExecParseRequest`
chooses the server, refuses a body over its limit, and goes to `CoreHandler` or
starts a session; a local redirect of a script comes back to it without a host. What
several connections do to each other is `SocketInterface`'s subject, how a request
is cut out of the stream is `RequestFraming`'s.

One bound stands in the model itself: `NamesAreLeft`, a guard of `ExecCoreHandler`,
keeps a name free for an upload in every directory, since `Uploaded` lists only
finitely many of the names the code tries. `UploadedAssumption` says that each has a
`.`, as they do in the code.

`FileStore` is what clients of the uploads may believe: an answer 201 created one
file under a new name, 204 removed one (or an empty directory), and any other
answer changed nothing. `StoresFiles` says that `Site` implements it, with the
answer's status as its `status`.

## 3. Runs

`TIMEOUT` is 1 second and `MAX_LOCAL_REDIRECT_COUNT` 1 in every run: the code
compares both with one `>`, so one step below, at and above the limit is what
there is to see. `MaxNow` is 1 where no timeout should strike.

| Run | Instance | Shows |
|---|---|---|
| `poll_set` | 1 listener, 3 numbers that may repeat, 5 entries, 4 queued indexes | `TypeOK`, `CountExact`, `ListenersFirst`, `EraseInRange`; `DeferredIsWatchList` |
| `serve_static` | 3 peers, 2 free descriptors, 1 request each, halves, 2 writes per answer, fair | `AnswersMatch`, `ClosedForCause`, `Answered`; `accept()` fails when the table is full |
| `cgi_one_client` | 1 peer, 2 requests, 3 scripts, GET and POST, redirects, failures, end of stream, clock to 3, fair | `ZombiesAwaited`, `StaysUp`, `NothingLeaks`, `NoOrphans`, `Answered` |
| `cgi_timeouts` | 2 peers, 2 scripts, 2 requests, 2 writes per answer, end of stream, clock to 3 | `AnswersMatch`, `KillTargets`, `CgiServesItsClient` |
| `mixed` | 2 peers, 1 script, all kinds, end of stream, resets, silent scripts | `TypeOK`, `WatchedDescriptors`, `StaysUp`; `KeepsBookkeeping` |
| `framing_exchange` | 3 requests: GET, also after an empty line, POST with 0 to 3 bytes (limit 2), POST without length and each kind of `place`, POST with 0 to 2 chunks; chunked requests are cut where protocol elements end, the others anywhere (`FreeCut`); fair | `ExchangeKept` |
| `framing_any_cut` | 2 requests with up to 2 chunks, a zero byte, answers by the core handler, scripts and redirects, a POST without length and a short header; any cut | `TypeOK`, `ChunkIncomplete`, `HandedAtItsEnd`, `OnlyShortTerminates` |
| `site` | 17 configuration files, of which 5 are accepted; 2 requests out of 173 (GET and DELETE of 28 urls, POST to 10 with bodies of 1 to 3 lines, an unknown method; 2 hosts), 11 scripts, pipes of 2 units, a redirect limit of 1, fair | `TypeOK`, `PortsServed`, `DeclaredIsServed`, `RedirectsEnd`, `PostedIsServed`, `ListedIsServed`, `ScriptsAreRun`, `SurvivesRequests`; `LimitExceptHolds`, `StoresFiles`, `ScriptsAnswer` |
| `stale_buffer`, `foreign_close`, `wrong_reap`, `framing_terminator` | see findings | each violates one property |

Why the bounds are enough: number reuse needs one object to close and another to
open, which two peers with a script, or three peers on two descriptors, do in
every order; deletions of several entries in one pass need two entries; a queued
duplicate needs one client with its script. A third peer is what the foreign
close needs: a victim besides the two that exchange the number.

Two requests on a connection show what one leaves for the next, three what two
different ones leave. Chunks of one to three bytes and bodies below, at and above
the limit are all the comparisons of sizes distinguish, and a read may end after
every byte.

In `site` two requests show what the first left on the disk; the limit of one
redirect puts a script that redirects to itself below, at and above it. The files
have two hosts on one port, a server without a name, a server without a port,
locations with one and two names, a return, a location of scripts, a cgi block,
comments, a `}` too many and one too few, and one file per way to be refused. A
body of three lines does not fit a pipe of two.

`CHECK_DEADLOCK FALSE` in the configurations of `SocketInterface`,
`RequestFraming` and `Site`: peers may
have nothing left to do, and then the server rests in `poll()`; it may also have
died, or refused its configuration.

Each workload is part of its property's claim. `CgiServesItsClient` fails with
POST next to error pages (`stale_buffer`); `ZombiesAwaited` and `NoOrphans` are
claimed for one peer, since `foreign_close` and `wrong_reap` break them for two,
and only as long as `Undisturbed` holds: the entry of a POST's stdin pipe stays
under poll after the pipe was closed, and when its time is over its deletion
closes whatever got its number (`SocketInterface.cpp` 734, 615), an output pipe
for instance. `NothingLeaks` excepts the stdin pipe of a script that was never
started because its client left, and is not claimed for `nocgi` requests, whose
stdin pipe stays open too (`Cgi/Cgi.cpp` 196-205). `StaysUp` names the two things
that do end the process, a reset (SIGPIPE) and a script that prints nothing and exits
with 0, and says that nothing else does; `mixed` has both, `cgi_one_client` the
failing and redirecting scripts of a single peer. `Answered` speaks of connections the server has
accepted and, for several peers, of static requests only; it ends where the clock
has come far enough for a timeout.

The properties of `Site` say in the same way what the code does keep.
`PostedIsServed` and `ListedIsServed` except paths of scripts, and a listing
excepts names without a `.` and servers whose locations are not `PathsArePlain`: a
path twice, a path without its slashes, or one with a `.` in it, where the
directory of a linked url ends at the location and its file is looked for one
directory too high. (The last two became visible when the theorem was to be proved:
no configuration of the run has them.) `RedirectsEnd` speaks
of returns that are written as locations are: a return to `/up` passes the check of
`verifyReturnLocations`, which compares it with `/up/`, and sends a peer in a
circle. `ScriptsAreRun` speaks of locations of scripts directly under `/`: for one
below (`/deep/cgi/`) the source is served. `SurvivesRequests` is claimed for
complete configurations (`IsComplete`): `/` serves files, locations of scripts have
an alias and no `.` in their name, there is no cgi block; otherwise the lookups of
`Cgi` and `CoreHandler` throw, or read beyond the names of the url. Even then an empty
query ends the process, a peer's or that of a script's redirect (the run has
both), and so does a script that prints nothing or a last header `Status` without a
text; the property says that these are all. `ScriptsAnswer` excepts sessions that
are stuck for good (`IsStuck`): a body that fills the pipe of a script that does not
run yet, an output that fills the pipe that is read after its end. Those are the
only two.

`ExchangeKept` for chunked requests is claimed only when reads end with protocol
elements and the core handler answers: elsewhere the code drops what follows a
size line in the same read, and `isChunked` (after a script's answer) or
`chunkedSize = 0` (after a local redirect) survives into the next request.
`HandedAtItsEnd` is what remains true for any cut, up to the first local
redirect of a connection; `ChunkIncomplete` holds after it too.

A POST without length has a claim of its own in both. `ExchangeKept` lets it be
handed on or refused as `place` says, and does not promise a verdict (`IsOwed`) where
the code waits for bytes nobody announced, or ends.
`OnlyShortTerminates` says that the process ends at no other request than one whose
header is too short for the place (`IsShort`). The other way to end, in
`RequestParser` for want of a header, does not occur when a connection carries no
chunks, or asks no scripts, or no script of it redirects and the chunks are as they
should be (section 4), and in the run
`framing_any_cut`, where no chunk sent to a script holds a zero byte. Without all of
these it does: a redirect leaves `chunkedSize` 0, so the next chunked request
to a script is finished in its middle; `isChunked` outlives the script's answer; a
read that ends at a zero byte (`std::string(buf)`) resets `chunkedSize`; then the
rest of the last chunk finishes a request that has no header, and `substr()` throws.

`KillTargets` is claimed where no script redirects, as in `cgi_timeouts`.
`RedirectKill.cfg`, which is no run of the list because nothing in the
repository says otherwise, shows why
(`tlc -config RedirectKill.cfg MCSocketInterface`, about 12 seconds): the stale
`close` of `execWriteCgi` (554) closes the connection of a third peer,
`createClient`'s `insert` keeps that peer's buffer, its script's redirect is parsed
into the buffer of the first peer (468-471), `execWriteResponse` resets `cgiPid` but
not `cgiFd` (339), and `deleteClient` calls `kill(-1, SIGKILL)` (598).

### Fairness

`Fairness` is `WF_vars(Server)`: the loop has no lock to wait for and
takes its next step whenever it has one (`poll()` returns as soon as an entry has
something to report). `SF_vars(Child(j))`: a script is a process of its own that
the scheduler runs, and ends; strong because the model lets it move only in some
parts of the loop, which come round again and again. In
`RequestFraming` fairness is `WF_vars(Server)`: what was sent arrives, and the
loop comes back to a connection with something to do; what it implements is
`WF_vars(HandOwed)`, a verdict for every request that is owed one. Peers and the clock owe
nothing, so `Answered` asks the server only for what a peer that stays has sent. In
`Site` it is `WF_vars(ServerStep)` and `WF_vars(ScriptStep)`, for the same
reasons: the loop comes back to a session that can go on, and scripts run.
`Timeout`, which closes the connection of a session, owes nothing.

### Findings

* `stale_buffer` (`SocketInterface.cpp` 588, 738): `deleteClient` looks `_clients`
  up with `operator[]` for an entry that a handler deleted earlier in the pass.
  That inserts a zero buffer under the closed number, and `createClient`'s
  `insert` keeps it when the number is used again. The new descriptor is served
  with a buffer whose state is `READ_REQUEST` and whose client is 0.
* `foreign_close` (554): the pipe of a finished script is closed by
  `deleteClient` in the pass that read its end; `execWriteCgi` closes the same
  number later, and a connection accepted in between is closed under its peer.
* `wrong_reap` (599): `waitpid(_clients[i].cgiPid, ...)` uses the index `i` where
  the line above uses `_pollFds[i].fd`. The pid is then usually 0 or -1, any
  script is reaped, and the one that was killed stays a zombie; if none has ended
  the server blocks.
* `framing_terminator` (145): the last chunk finishes a request only if its empty
  line is read alone (`body == "\r\n"`); the comment above it says that a read that
  contains `\r\n\r\n` does. Sent in one piece, `0 CR LF CR LF` leaves the request
  waiting until the connection times out.

## 4. Proofs

Every theorem holds for all values of the constants that satisfy the named
assumptions; a hypothesis beyond them stands in the theorem as `ASSUME`, and a run
has a workload that satisfies it unless the text says otherwise.

| Module | Theorems |
|---|---|
| `PollSetProofs` | `PollSetTypeOK`, `PollSetCountExact`, `PollSetListenersFirst`, `PollSetEraseInRange`, `DeferringIsInvisible` |
| `SocketInterfaceProofs` | `TypeCorrect` (`TypeOK`), `NothingForgotten` (`WatchedDescriptors`), `LoopKeepsBookkeeping` (`KeepsBookkeeping`) |
| `SocketInterfaceWorkloads` | `KillsOnlyScripts` (`KillTargets`), when no script redirects |
| `SocketInterfaceOnePeer` | `OnePeerNoOrphans` (`NoOrphans`), `OnePeerZombiesAwaited` (`ZombiesAwaited`), `OnePeerServed` (`CgiServesItsClient`), for a single peer without POST |
| `SocketInterfaceStatic` | `OwnAnswersOnly` (`AnswersMatch`), `NeverCutOff` (`ClosedForCause`), `NothingKept` (`NothingLeaks`), `OnlyResetsKill` (`StaysUp`), when only files are asked for |
| `RequestFramingProofs` | `FramingTypeOK`, `FramingChunkIncomplete`, `HandedOnlyAtItsEnd` (`HandedAtItsEnd`), `HeadersNeverMissing` (`OnlyShortTerminates`), `UnchunkedExchanged` |
| `SiteProofs` | `TypeCorrectness`, `PortsServedHolds`, `LimitExceptIsKept`, `ScriptsAreOnlyRun`, `ServerSurvivesRequests`, `FilesAreStored` (`StoresFiles`), `UploadsAreServed` (`PostedIsServed`), `ListingsAreServed` (`ListedIsServed`), `DeclaredIsAlwaysServed` (`DeclaredIsServed`), `RedirectsAlwaysEnd` (`RedirectsEnd`) |

### PollSet

Assumption: `Ports` is a sequence of descriptors (`PortsAssumption`). The
inductive invariant `IInv` is the conjunction of `TypeOK`, `CountExact`,
`ListenersFirst` and `EraseInRange`. None is inductive
alone: an erasure keeps the listeners in front only because the index is beyond
them (`EraseInRange`), it lies inside the shorter vector only because the
remaining indexes are smaller (`IsDescending`, part of `EraseInRange`), and the
handlers' indexes lie in the vector only because the counter is exact
(`CountExact`). One lemma per action that changes the vector or the queue
(`MarkPreserves`, `SortPreserves`, `ErasePreserves`, `AddPreserves`) rests on
`RemoveAtProperties` of `SequenceLemmas`.

`DeferringIsInvisible` is the implementation of `WatchList`. The list that is
watched is the vector without the marked entries, so the proof needs what a
sequence is without a *set* of indexes: entry `n` of it is entry `Nth(S, n)` of the
vector, `S` the indexes kept. `Nth` lists a finite set in ascending order
(`AscendsIsNth`); marking takes one index out of `S`, sorting leaves `S` alone, and
erasing index `k` moves the members of `S` above `k` down by one, which leaves the
listed entries as they are.

### The event loop

Assumptions: `PortsAssumption`, `MaxFdAssumption`, `NumbersAssumption` (connections
and scripts have positive numbers), and `RequestAssumption`, `ScriptAssumption` and
`BoundsAssumption`, which say what a workload is made of.

`SocketInv` (`SocketInterfaceProofs`) is the inductive invariant of the whole
loop: types; the counter and the indexes of the vectors (`VectorsOK`); listening
sockets stay open, are asked only about new connections and are named by no
client's entry (`ListenersOK`); a connection that `poll()` reported is still waiting
when its listener's turn comes (`BacklogOK`); where the loop variable can be
(`CursorOK`); `WatchedDescriptors`; and, through `INSTANCE`, `PollSet`'s `IInv` of
the descriptors in the vectors. `WatchedDescriptors` needs the others: a handler
that closes a number marks its entry, the marked ones are erased in the same pass,
and that no other entry has moved in between is `PollSet`'s part. One lemma per
handler says what it leaves of `_pollFds`, the queues and the descriptor table.

`LoopKeepsBookkeeping` maps each step of the loop to a step of `PollSet` or to
none. A handler may reach `createClient` through another one's end: `execReadCgi` of a
POST script that redirects makes the next script's pipe, one more
`CreateClient` of `PollSet` in the same turn. With it the theorems of `PollSetProofs`, `DeferringIsInvisible` among them,
are theorems about the event loop.

`KillsOnlyScripts` adds `KillInv`: whoever has a script has its pid. Its hypothesis
`NoRedirects` is needed, as `RedirectKill.cfg` shows (section 3).

`SocketInterfaceOnePeer` proves what a script and its client owe each other when there
is one peer that asks for nothing by POST (`OnePeer`), for any number of requests,
scripts, redirects, descriptors and ports, any timeouts, ends of stream and resets.
`NoOrphans` and `ZombiesAwaited` are proved without their condition `Undisturbed`. The
run `cgi_one_client` checks the first two for such a peer that also sends POSTs; with
POST they need the condition, and two peers break all three (section 3). Between
two steps of the loop the peer is in one of a few stages, and their disjunction
`OneInv` is the inductive invariant. It ties the descriptors, the buffers, the
entries and the script together, in every position of the pass:

* `Nobody` and `Over`: not accepted yet; closed, and whatever is left under its
  number, or under 0, is in no state in which a script is run or waited for;
* `Alone(F)`: connection `F`, its entry behind the listeners' or queued, and no
  live script. The buffer under `F` is the only one in use (`Only`), so the zero
  buffers that `deleteClient` leaves elsewhere do no harm. After a script the entry
  of its pipe, free and marked, may still be behind it (`Listed`);
* `Piped(F, s, j)`: script `j` and its output `s`, whose entry is the second or is
  queued. Either the script's end is waited for (`Awaited`), and both buffers
  know its pid; or it was waited for and its output is being read (`BeingRead`); or
  the answer is made and only the pipe is left to be deleted (`Finished`), which
  happens in the same pass, before the peer's next turn;
* `Dropping(F)`: between the `kill` of the peer's script and the deletion of its
  own entry.

Not inductive without each other: a timeout deletes the client and its script
together only because both buffers took their time in the same step (`b.last =
p.last` in `Awaited`) and the client's entry comes first; `waitpid` with the wrong
pid (line 599) still reaps this script, because with one peer it is the only one that
lives, and `cur - 1` is the peer's buffer, the pipe's or a zero one; the pipe of a finished
script goes in the pass that read its end because `poll()` reports a script that was
waited for as hung up (`BeingRead`); and a client is not deleted in the pass that
starts its script, while the script's entry is still queued, only because `Reported`
holds: `poll()` never reports both that an entry can be written and that it has hung
up. A redirect keeps the method of its client, so both stages of a script say that the
client asked for it by GET (`AsksScript`); a POST that is redirected would leave them. One lemma per step
of the pass (`HandleStage` with the handlers below it, `ScanKillStage`,
`ScanReapStage`, `ScanDropStage`, `EraseStage`, ...) says where each stage leads.

`SocketInterfaceStatic` proves what peers are owed for any number of ports, peers
and descriptors, any writes per answer, timeouts, ends of stream and resets, as long
as requests are for files or malformed (`OnlyFiles`, the workload of
`serve_static`; `OnlyResetsKill` also needs that no peer resets, since a `write`
after a reset is SIGPIPE). Its invariant `StaticInv` is about reuse of numbers:

* `NoScripts`: `deleteClient` has nothing to kill and does not block;
* `OneDescriptor`, `OneEntry`: a connection has one descriptor, a descriptor one
  entry; a marked entry's number is free and is not handed out before the erasure,
  because the listeners' turns come first: nothing is marked at or after `cur`;
* `Exchanges`: the buffer under a connection's number is that connection's, its
  answer to the last request not yet answered; under every other number there is
  the zero buffer, so `createClient`'s `insert` never keeps an old one;
* `Reasons`: an entry that may be deleted has a cause: its peer is gone, wanted
  the connection closed, was told an error, or its time was over.

With scripts the last three do not hold: `stale_buffer` and `foreign_close` are
traces to it.

### RequestFraming

Assumptions: `RequestAssumption` (what a request is made of) and
`BoundsAssumption`. `TypeOK` and `ChunkIncomplete` hold for all requests, limits and
cuts; their conjunction `IInv` is inductive: types need the sizes, because the data
taken out of `chunkedBody` lies inside it only when they add up. The lemmas follow
the calls: `FirstIsMember` (what `find` returns), `HeaderParts`, `AddChunkGood`,
`ParseChunkedRequestGood`, `ParseHeaderGood`, `ParseLineGood` for the parser,
`HttpType` for its verdict, then one lemma per kind of step.

`HandedOnlyAtItsEnd` is for requests that are `Coded`: a size 0 is only the last
chunk's, and a request without chunks has no body. `EndInv` says where the parser
stands in the stream, up to the first local redirect: before the header
(`HeaderAwaited`: nothing read or unread is anything but line ends and the header
of the last request, before a blank line), behind the last chunk (`Rest`: at most its
two line ends are left), behind an answer by redirect (`NothingAwaited`), or waiting
for a body that the place of a missing length announced (`BodyAwaited`). The
size 0 has to be followed through every cut: it can be read with its header, with
the chunk before it, or be dropped.

`HeadersNeverMissing` has the hypothesis `Unmixed`: no chunks, or no scripts, or no
redirects and `Coded`. That is where the attempt to prove `OnlyShortTerminates` without
one ended: the invariant `HeaderInv` says that `isChunked` is set between requests
only when it is stale and harmless (`Stale`: what comes next is an empty line or a
header, and neither parses as a size), and a redirect followed by a chunked request
to a script is the case in which it is not (section 3). Chunks are refused and never
thrown (`ChunksNeverThrow`), and every other end of the process has its header in the
buffer, which is the short one of `IsShort`. The run `framing_any_cut`
mixes the three; what it leaves out is a zero byte sent to a script.

`UnchunkedExchanged` is the safety part of `ExchangeKept` (the implementation of
`RequestExchange`) for requests that are `Measured`: no chunks, a body as long as the
header says, if it says so, and without a zero byte, only a POST with a body, an
empty line only before a GET. A POST without length has at most one verdict, like any
request; that it may have none is not safety. `ExchangeInv` says that no byte is lost: the buffer followed by what is
unread is the request (`Follows`), with at most its leading empty line dropped, until
the verdict, and nothing is left of it afterwards. It holds wherever the
reads end and whoever answers. The requests of `framing_exchange` are `Measured` but
for the chunked ones and a POST after an empty line.

### Site

Assumptions: what a file may contain (`FileAssumption`: ports and hosts are
numbers, what follows `location` and `return` is a path, and that of a location
has no empty name), what a request consists of (`RequestAssumption`), that a script redirects to a path
with or without a query (`ProgramAssumption`), and `UploadedAssumption`.

* `TypeCorrectness` (`TypeOK`), with the limit of redirects;
* `PortsServedHolds` (`PortsServed`): the lookup of a server always finds one;
* `LimitExceptIsKept` (`LimitExceptHolds`): files change only where a location
  allows the method;
* `ScriptsAreOnlyRun` (`ScriptsAreRun`);
* `ServerSurvivesRequests` (`SurvivesRequests`): in a complete configuration
  neither the core handler nor the constructor of `Cgi` throws but at an empty query;
* `FilesAreStored` (`StoresFiles`): the implementation of `FileStore`;
* `UploadsAreServed` (`PostedIsServed`) and `ListingsAreServed`
  (`ListedIsServed`): what an answer points to can be had;
* `DeclaredIsAlwaysServed` (`DeclaredIsServed`): each directive of a location is
  found under all names of its server, in the location at its place;
* `RedirectsAlwaysEnd` (`RedirectsEnd`): a peer that follows redirects is not sent
  in a circle.

They share the inductive invariant `SiteInv`. Its first part, `ParserInv`, says
of the parser that the line counter fits the open block (`PlaceInv`), that the
server block and every server in `servers` is well-formed (`IsServer`: each
location has a path without empty names, and a return or an alias with an index or
autoindex) and that `servers` has exactly the pairs collected in
`portAndHostVecAll`, each with a server of that port (`ServedInv`). The rest says
that a session has its fields and a redirect count within the limit
(`SessionShape`), that the request, the peer's or a script's, has its parts, its query among
them, and a port that is served. Lookups are partial in the code, so every theorem needs
`IsServer` at the server the request is handed to, and that needs the whole
parser. The lemma `Steps` sorts the steps of `Next` into loading, continuing a
session and handling one request (`Handled`); after it each property is a
statement about `ProcessRequest` and `Plans` alone
(`RequestChangesAsAllowed`, `CompleteAnswers`, `FirstPieceCounts`,
`CompletePlans`).

For `FilesAreStored` each method's result is one of `FileStore`'s outcomes
(`Stores`, one lemma per branch of `processRequest`), and such a result is a step of
it (`StoresIsStep`); steps that continue a session map to a stutter. For the last
two, `AnswerInv` says what an answer claims of the disk (`Shows` of a 201, `Lists`
of a listing) as long as it is there, and `LinkIsServed` that a GET of a link takes
the three lookups, of the location, of its alias and of the file, to the same
place. For a listing that is true only for `PathsArePlain`.

`DeclaredIsAlwaysServed` compares the state with the text that was read. Its
invariant `TextInv` says of each server block in that text: if it is the one that
is open, the context being filled has the port, the hosts, the number of locations
and the directives that its lines say (`Agrees`, which counts the open location in),
and otherwise the block is in `servers` under all its hosts (`IsServed`). It is
inductive because a line adds to the text of one block only (`TextGrows`), because
each word is read once in a block, so the first line of a word is the one that
counts, and because a block that is handed over finds its pairs free:
`portAndHostVecAll` refuses a pair that is there, so `Inserted` never keeps an older
server in the place of a declared one. `InServer`, `InLocation` and
`LinesStandInBlocks` tie `contextType` to the
last line that opened a block.

`RedirectsAlwaysEnd` starts from `ReturnInv`: what `returnLocations` knows of a path
is the return of its first location, the one a request is looked up to, and no
server that was handed over has a cycle in it. The rest is about data: if a chain of
answers were longer than there are locations, every path in it would lie in a
directory that returns, two of these would be the same location (the pigeonhole
principle), and the directories between them a circle of texts, which
`HasReturnCycle` would have found (`ChainEnds`). Where a chain stops it stays, so the first
stop is looked for among the numbers of steps that are left.

### Only model-checked

* Liveness, which is out of the prover's reach: `Answered`, `ScriptsAnswer`, the
  fairness of `ExchangeKept`.
* `ExchangeKept` for chunked requests, claimed only for certain cuts (`FreeCut`).
* `ZombiesAwaited`, `NoOrphans` and `CgiServesItsClient` with POST or with several
  peers, and with scripts `AnswersMatch`, `ClosedForCause`, `NothingLeaks` and
  `StaysUp`: they hold for some workloads only (one peer, or no POST next to error
  pages), and an invariant for these has to follow what each script printed and was
  asked, and the stdin pipe that stays under poll after a POST.

## 5. Not modelled

* `SocketInterface`: pipelining, descriptors a script inherits, `pipe()` and
  `fork()` failing, the capacity of pipes (in `CgiScript`).
* `CoreHandler`: directories inside directories, doubled slashes in a url, the
  contents of error pages, media types. A listing of a directory with
  subdirectories is therefore not covered.
* `CgiScript`: files of scripts below the alias of their location, the argument
  and environment vectors (`initEnv`, `mapToChar`, `vectorToChar`; the last
  character of a query is lost there), the `\r` that header values keep at their
  end (`CgiParser`, `RequestParser`), a `Content-Length` printed by a script that
  contradicts its body.
* `ConfigFile`: directives without an argument, which read beyond the line's
  words, and values that are no numbers where `std::stoi` throws something else
  than `ConfigError`; both end the process before it serves anything.
* `Site`: several connections at once and several requests on one connection,
  which are in `SocketInterface` and `RequestFraming`; the two are not composed
  with `Site`, since a request there is only its kind.
* `utils/split.cpp`, `utils/defaultError.cpp`: pure text.

## 6. Plan

1. Proofs: `AnswersMatch` and `StaysUp` of `SocketInterface` with the scripts of
   a single peer, for which `OneInv` needs which request the script in each stage
   is for and what it printed; `UnchunkedExchanged` for chunked requests that are
   read element by element.
2. `SocketInterface` with POST sessions of several peers: what the `EXEC_CGI` that
   `execWriteCGIBody` leaves under the number of a client that left does to the
   next connection, as a property of its own.
3. Directories inside directories for `CoreHandler` and its listings.

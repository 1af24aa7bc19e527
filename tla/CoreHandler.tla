---------------------------- MODULE CoreHandler -----------------------------
(***************************************************************************)
(* Class CoreHandler with ParseRequestUrl.cpp, DataProcessor and           *)
(* StaticFileReader: a request for a file is answered from the directories *)
(* the locations name as their alias.                                      *)
(*                                                                         *)
(* disk maps the directories that exist to the files in them; directories  *)
(* lie beside each other, and an alias ends with a slash.  The url of a    *)
(* request is the names of its path and its query: "none", "text", or      *)
(* "empty" where another '?' follows the first.  Doubled slashes are left  *)
(* out.  An answer is a record with a status and what the properties look  *)
(* at of its content; an error page is its status alone.                   *)
(***************************************************************************)
EXTENDS Contexts

CONSTANTS
  Uploaded,  \* the names uploaded_file_1.txt, uploaded_file_2.txt, ... in order;
             \*   bound: there is no more of them than this sequence is long
  Hidden,    \* the names that start with a '.'
  ReadOnly   \* the directories the server may not write to

ASSUME UploadedAssumption == Uploaded \in Seq(STRING) /\ Range(Uploaded) \subseteq Dotted

VARIABLE disk

DirExists(dir) == dir \in DOMAIN disk
FileExists(dir, name) == DirExists(dir) /\ name \in DOMAIN disk[dir]

(* parseUrl takes the last character from a query that has one. *)
Query == {"none", "text", "empty"}

Error(status) == [status |-> status]

-----------------------------------------------------------------------------
(* parseUrl.  A result names the location's path (directory) and the file:
   fullpath is the alias and a name, "" for the directory itself and "?" for
   a name no file has.  A slash behind a name survives in some results. *)

Failed(status) == [status |-> status]

(* An exception that ends the process: the location has not the directive that
   is asked for, or there is no last character to take from a query. *)
Throws == Failed(0)

Found(directory, dir, name, autoindex) ==
  [status |-> 200, directory |-> directory, dir |-> dir, name |-> name,
   autoindex |-> autoindex, slash |-> FALSE]

(* parseHomeDirectory, for the path "/".  A query makes the url another than
   "/", and all of it is taken for the name of a file. *)
ParseHomeDirectory(server, query) ==
  LET location == GetLocationContext(server, Home)
      index == location.directives["index"]
      on == HasAutoindexOn(location)
  IN IF ~HasLocation(server, Home) THEN Failed(404)
     ELSE IF ~HasDirective(location, "alias") THEN Throws
     ELSE IF query # "none" THEN Found(Home, Alias(location), "?", FALSE)
     ELSE IF HasDirective(location, "index")
          THEN Found(Home, Alias(location), index, on /\ ~FileExists(Alias(location), index))
     ELSE IF ~HasDirective(location, "autoindex") THEN Throws
     ELSE IF on THEN Found(Home, Alias(location), "?", TRUE)
     ELSE Failed(403)

(* The directory of a url: its first name and those behind it up to the first
   file.  The other names are left over. *)
DirectoryLength(segs) ==
  Min({ i \in 2..Len(segs) : segs[i] \in Dotted } \cup {Len(segs) + 1}) - 1
Directory(segs) == Dir(SubSeq(segs, 1, DirectoryLength(segs)))
LeftOver(segs) == SubSeq(segs, DirectoryLength(segs) + 1, Len(segs))

(* A url that starts with a file lies in the location "/"; the slash that
   parseUrl put behind the name stays there. *)
ParseFileOfHome(server, segs) ==
  LET location == GetLocationContext(server, Home)
  IN IF ~HasLocation(server, Home) THEN Failed(404)
     ELSE IF ~HasDirective(location, "alias") THEN Throws
     ELSE [Found(Home, Alias(location),
                 IF DirectoryLength(segs) = 1 THEN segs[1] ELSE "?", FALSE)
             EXCEPT !.slash = TRUE]

(* getFile, and what parseUrl makes of it. *)
GetFile(location, segs) ==
  LET alias == Alias(location)
      In(name, autoindex) == Found(location.directives["path"], alias, name, autoindex)
      index == location.directives["index"]
      last == Last(segs)
      isFileIncluded == \E i \in 1..Len(segs) - 1 : segs[i] \in Dotted
  IN IF last \in Dotted \/ ~DirExists(alias) THEN In(last, FALSE)
     ELSE IF HasDirective(location, "index")
          THEN In(index, HasDirective(location, "autoindex") /\ ~FileExists(alias, index))
     ELSE IF ~HasAutoindexOn(location) THEN Failed(403)
     ELSE IF Len(segs) > 2 /\ isFileIncluded /\ ~FileExists(alias, last) THEN Failed(404)
     ELSE In("", TRUE)

ParseUrl(server, url) ==
  LET directory == Directory(url.segs)
      location == GetLocationContext(server, directory)
  IN IF url.query = "empty" THEN Throws
     ELSE IF url.segs = <<>> THEN ParseHomeDirectory(server, url.query)
     ELSE IF url.segs[1] \in Dotted THEN ParseFileOfHome(server, url.segs)
     ELSE IF ~HasLocation(server, directory) THEN Failed(404)
     ELSE IF HasDirective(location, "return")
          THEN [status |-> 302, to |-> location.directives["return"], rest |-> LeftOver(url.segs)]
     ELSE GetFile(location, url.segs)

-----------------------------------------------------------------------------
(* The methods: each is the answer and what becomes of the disk. *)

Unchanged(answer) == [answer |-> answer, disk |-> disk]

(* Mutant: a link is the name alone. *)
GetAutoIndexHtmlOfNames(server, alias) ==
  IF DirExists(alias) THEN { <<name>> : name \in DOMAIN disk[alias] \ Hidden } ELSE {}

(* getAutoIndexHtml: a link per file, under the path of the first location
   with this alias.  In ./docs/ a name without '.' is looked up like a
   directory, which no location has for its alias. *)
GetAutoIndexHtml(server, alias) ==
  LET Link(name) == IF alias = "./docs/" /\ name \notin Dotted
                    THEN <<"docs", name>>
                    ELSE Append(GetClientPath(server, alias).segs, name)
  IN IF DirExists(alias) THEN { Link(name) : name \in DOMAIN disk[alias] \ Hidden } ELSE {}

(* validatePath, getMethod and readFile. *)
GetMethod(server, location, result) ==
  IF FileExists(result.dir, result.name)
  THEN [status |-> 200, data |-> disk[result.dir][result.name]]
  ELSE IF result.autoindex /\ HasAutoindexOn(location)
       THEN [status |-> 200, links |-> GetAutoIndexHtml(server, Alias(location))]
       ELSE Error(404)

(* The data processPostData keeps of a body, which is a sequence of lines: all
   of it if there is no line break, or else the second line with the line feed
   before it. *)
FileData(body) ==
  IF Len(body) > 1 THEN [lf |-> TRUE, lines |-> <<body[2]>>] ELSE [lf |-> FALSE, lines |-> body]

(* The files of a directory once one more of them is written. *)
Stored(files, name, data) ==
  [n \in DOMAIN files \cup {name} |-> IF n = name THEN data ELSE files[n]]

(* Mutant: the next name is taken from the number of uploads. *)
FreeUploadsByCount(dir) == { Cardinality(DOMAIN disk[dir] \cap Range(Uploaded)) + 1 }

FreeUploads(dir) == { i \in DOMAIN Uploaded : ~FileExists(dir, Uploaded[i]) }

(* Bound: there is a name left for an upload. *)
NamesAreLeft == \A dir \in DOMAIN disk : FreeUploads(dir) # {}

(* Mutant: the Location is the name alone. *)
PostMethodNamed(server, directory, body) ==
  LET dir == GetServerPath(server, directory)
      name == Uploaded[Min(FreeUploads(dir))]
  IN IF ~DirExists(dir) THEN Unchanged(Error(404))
     ELSE IF dir \in ReadOnly THEN Unchanged(Error(500))
     ELSE [answer |-> [status |-> 201, location |-> <<name>>],
           disk |-> [disk EXCEPT ![dir] = Stored(@, name, FileData(body))]]

(* processPostData *)
PostMethod(server, directory, body) ==
  LET dir == GetServerPath(server, directory)
      name == Uploaded[Min(FreeUploads(dir))]
  IN IF ~DirExists(dir) THEN Unchanged(Error(404))
     ELSE IF dir \in ReadOnly THEN Unchanged(Error(500))
     ELSE [answer |-> [status |-> 201, location |-> Append(directory.segs, name)],
           disk |-> [disk EXCEPT ![dir] = Stored(@, name, FileData(body))]]

(* deleteMethod: remove(3), which also removes a directory that is empty. *)
DeleteMethod(result) ==
  IF FileExists(result.dir, result.name) /\ ~result.slash /\ result.dir \notin ReadOnly
  THEN [answer |-> [status |-> 204],
        disk |-> [disk EXCEPT ![result.dir] = Restrict(@, DOMAIN @ \ {result.name})]]
  ELSE IF result.name = "" /\ DirExists(result.dir) /\ disk[result.dir] = <<>>
       THEN [answer |-> [status |-> 204], disk |-> Restrict(disk, DOMAIN disk \ {result.dir})]
  ELSE Unchanged(Error(404))

(* Mutant: limit_except is not looked at. *)
ProcessRequestAllowsAll(server, method, url, body) ==
  LET result == ParseUrl(server, url)
      location == GetLocationContext(server, result.directory)
  IN IF result.status # 200 THEN Unchanged(result)
     ELSE CASE method = "GET" -> Unchanged(GetMethod(server, location, result))
            [] method = "POST" -> PostMethod(server, result.directory, body)
            [] method = "DELETE" -> DeleteMethod(result)
            [] OTHER -> Unchanged(Error(405))

(* processRequest *)
ProcessRequest(server, method, url, body) ==
  LET result == ParseUrl(server, url)
      location == GetLocationContext(server, result.directory)
  IN IF result.status # 200 THEN Unchanged(result)
     ELSE IF ~IsAllowedMethod(location, method) THEN Unchanged(Error(405))
     ELSE CASE method = "GET" -> Unchanged(GetMethod(server, location, result))
            [] method = "POST" -> PostMethod(server, result.directory, body)
            [] method = "DELETE" -> DeleteMethod(result)
            [] OTHER -> Unchanged(Error(405))
=============================================================================

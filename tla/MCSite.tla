------------------------------- MODULE MCSite -------------------------------
(* Files a server may be started with, and requests to it. *)
EXTENDS SiteProperties, TLC

L(word, args) == [word |-> word, args |-> args]
Close == L("}", <<>>)
Text(segs) == [abs |-> TRUE, segs |-> segs, slash |-> FALSE]
Away == [abs |-> FALSE, segs |-> <<"example.com">>, slash |-> FALSE]

ALocation(path, lines) == <<L("location", <<path>>)>> \o lines \o <<Close>>
Returns(path, to) == ALocation(path, <<L("return", <<to>>)>>)
Serves(path, dir, lines) == ALocation(path, <<L("alias", <<dir>>)>> \o lines)
AServer(lines) == <<L("server", <<>>)>> \o lines \o <<Close>>
On == L("autoindex", <<"on">>)
Index(name) == L("index", <<name>>)

MCUploaded == <<"uploaded_file_1.txt", "uploaded_file_2.txt", "uploaded_file_3.txt",
                "uploaded_file_4.txt">>
Scripts == {"x.py", "up.py", "long.py", "home.py", "self.py", "loop.py", "big.py", "fail.py", "empty.py",
            "bare.py", "away.py", "query.py"}
MCDotted == {"index.html", ".profile"} \cup Range(MCUploaded) \cup Scripts
MCExtension == [name \in MCDotted \cup {"up", "old", "cgi", "deep", "sub", "none"} |->
                  IF name \in Scripts THEN "py" ELSE "other"]

Data(line) == [lf |-> FALSE, lines |-> <<line>>]
MCDisk ==
  ("./docs/" :> ("index.html" :> Data("home") @@ ".profile" :> Data("hidden")
                 @@ "none" :> Data("undotted")))
  @@ ("./up/" :> ("uploaded_file_2.txt" :> Data("old upload")))
  @@ ("./empty/" :> <<>>)
  @@ ("./cgi/" :> [name \in Scripts |-> Data(name)])

AScript ==
  [reads |-> TRUE, size |-> 2, ok |-> TRUE, status |-> 0, type |-> TRUE, location |-> <<>>,
   query |-> "none", body |-> <<"page">>]
Redirecting(path) == [AScript EXCEPT !.type = FALSE, !.location = <<path>>]
MCProgram ==
  Data("x.py") :> AScript
  @@ Data("up.py") :> [Redirecting(Dir(<<"up">>)) EXCEPT !.reads = FALSE]
  @@ Data("long.py") :> [Redirecting(Dir(<<"up">>)) EXCEPT !.body = <<"a", "b", "c">>]
  @@ Data("home.py") :> Redirecting(Home)
  @@ Data("self.py") :> Redirecting(Text(<<"self.py">>))
  @@ Data("loop.py") :> Redirecting(Text(<<"cgi", "loop.py">>))
  @@ Data("big.py") :> [AScript EXCEPT !.size = 3]
  @@ Data("fail.py") :> [AScript EXCEPT !.size = 0, !.ok = FALSE]
  @@ Data("empty.py") :> [AScript EXCEPT !.size = 0]
  @@ Data("bare.py") :> [AScript EXCEPT !.status = -1]
  @@ Data("query.py") :> [Redirecting(Dir(<<"up">>)) EXCEPT !.query = "empty"]
  @@ Data("away.py") :> [Redirecting(Away) EXCEPT !.status = 404]

Docs == Serves(Home, "./docs/", <<Index("index.html"), L("limit_except", <<"GET", "POST">>)>>)
Up == Serves(Dir(<<"up">>), "./up/", <<On>>)
Cgi == Serves(Dir(<<"cgi">>), "./cgi/", <<Index("x.py"), L("cgi_on", <<"on">>)>>)

(* Two hosts on one port and a server without a name; a comment in between. *)
Whole ==
  AServer(<<L("listen", <<8080>>), L("server_names", <<2, 3>>),
            L("client_max_body_size", <<2>>), L("error_page", <<404, "e">>),
            L("error_page", <<500, "e">>)>>
          \o Docs \o Up \o Returns(Dir(<<"old">>), Dir(<<"up">>)) \o Cgi
          \o Serves(Dir(<<"deep", "sub">>), "./empty/", <<On, L("limit_except", <<"GET">>)>>)
          \o Serves(Dir(<<"deep">>), "./up/", <<Index("index.html"), L("limit_except", <<"POST">>)>>))
  \o <<L("#", <<>>)>>
  \o AServer(<<L("listen", <<8080>>), L("client_max_body_size", <<2>>)>>
          \o Serves(Home, "./up/", <<On, Index("none")>>)
          \o Serves(Dir(<<"deep", "sub">>), "./empty/", <<On>>)
          \o Serves(Dir(<<"cgi">>), "./cgi/", <<On, L("cgi_on", <<"on">>)>>))
  \o AServer(<<>>)

(* Scripts by extension, beside a location of scripts. *)
ByExtension ==
  AServer(<<L("listen", <<8080>>)>> \o Docs \o Cgi
          \o <<L("cgi", <<"py">>), L("alias", <<"./cgi/">>), L("command", <<"python">>), Close>>)

(* "/" returns, and so does a location in a text that is no location's. *)
Returning ==
  AServer(<<L("listen", <<8080>>)>> \o Returns(Home, Away)
          \o Returns(Dir(<<"old">>), Text(<<"up">>)) \o Returns(Dir(<<"up">>), Dir(<<"old">>)) \o Cgi)

(* A "}" too many: the second server is not read; and no "}" at the end. *)
Stray == AServer(<<L("listen", <<8080>>)>> \o Up) \o <<Close>> \o Whole
Unclosed == <<L("server", <<>>), L("listen", <<8080>>), L("location", <<Home>>),
              L("alias", <<"./docs/">>), L("autoindex", <<"off">>)>>

MCFile ==
  {Whole, ByExtension, Returning, Stray, Unclosed,
   <<L("listen", <<8080>>)>>,
   AServer(<<L("listen", <<80>>)>>),
   AServer(<<L("listen", <<8080>>), L("listen", <<8081>>)>>),
   AServer(<<L("error_page", <<-1, "e">>)>>),
   AServer(<<L("location", <<Text(<<"up">>)>>)>>),
   AServer(Returns(Home, Home)),
   AServer(ALocation(Home, <<Index("index.html")>>)),
   AServer(Serves(Home, "./docs/", <<>>)),
   AServer(Serves(Home, "./docs/", <<L("alias", <<"./up/">>), On>>)),
   AServer(Returns(Dir(<<"up">>), Dir(<<"old">>)) \o Returns(Dir(<<"old">>), Dir(<<"up">>))),
   AServer(<<L("server_names", <<2>>)>> \o Docs) \o AServer(<<L("server_names", <<3, 2>>)>> \o Up),
   AServer(<<L("cgi", <<"py">>), L("alias", <<"./cgi/">>), L("alias", <<"./up/">>)>>)}

Url(segs) == [segs |-> segs, query |-> "none"]
Urls ==
  { Url(segs) : segs \in
      {<<>>, <<"index.html">>, <<"up">>, <<"up", "uploaded_file_1.txt">>,
       <<"up", "uploaded_file_2.txt">>, <<"old">>, <<"old", "index.html">>, <<"none">>,
       <<"deep", "sub">>, <<"deep">>, <<"deep", "sub", "index.html", "none">>, <<"cgi">>, <<"x.py">>,
       <<"deep", "x.py">>, <<"none", "cgi", "x.py">>}
      \cup { <<"cgi", name>> : name \in Scripts \cup {"index.html"} } }
  \cup {[segs |-> <<>>, query |-> "text"]}
  \cup { [segs |-> segs, query |-> "empty"] : segs \in {<<>>, <<"up">>, <<"cgi", "x.py">>} }

Asked(method, host, url, body) ==
  [method |-> method, port |-> 8080, host |-> host, url |-> url, body |-> body]
PostUrls ==
  { Url(segs) : segs \in {<<>>, <<"index.html">>, <<"up">>, <<"deep">>, <<"deep", "sub">>, <<"old">>}
                         \cup { <<"cgi", name>> : name \in {"x.py", "up.py", "long.py", "loop.py"} } }
MCRequest ==
  { Asked(method, host, url, <<>>) : method \in {"GET", "DELETE"}, host \in {0, 3}, url \in Urls }
  \cup { Asked("POST", host, url, body) : host \in {0, 3}, url \in PostUrls,
                                          body \in {<<"a">>, <<"a", "b">>, <<"a", "b", "c">>} }
  \cup {Asked("PUT", 3, Url(<<"up">>), <<>>)}
=============================================================================

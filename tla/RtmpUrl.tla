------------------------------ MODULE RtmpUrl ------------------------------
(***************************************************************************)
(* How an RTMP URL travels: the client splits it in two (splitPath in      *)
(* format/rtmp/url.go), sends one part with connect and the other with     *)
(* publish or play, and the server puts them together again (createURL).   *)
(*                                                                         *)
(* A request URI is a sequence of tokens: "/", "?" and names.  It begins   *)
(* with "/"; what follows the first "?" is the query, slashes included.    *)
(***************************************************************************)
EXTENDS Naturals, Sequences, FiniteSets

URI(u) == u \in Seq(STRING) /\ u # <<>> /\ u[1] = "/"

SlashesUpTo(uri, i) == Cardinality({j \in 1..i : uri[j] = "/"})

Slashes(uri) == SlashesUpTo(uri, Len(uri))

Slash(uri, k) == CHOOSE i \in DOMAIN uri : uri[i] = "/" /\ SlashesUpTo(uri, i) = k

\* The application has one segment of two, or two of more than two; the query
\* is not looked at.
SplitPath(uri) ==
    IF Slashes(uri) = 1 THEN [app |-> Tail(uri), stream |-> <<>>]
    ELSE LET i == Slash(uri, IF Slashes(uri) = 2 THEN 2 ELSE 3)
         IN  [app |-> SubSeq(uri, 2, i - 1), stream |-> SubSeq(uri, i + 1, Len(uri))]

\* createURL, of whose result only the request URI matters.
CreateURL(app, play) == <<"/">> \o app \o <<"/">> \o play

\* u.Path of net/url: what precedes the query.
URLPath(uri) ==
    IF \E i \in DOMAIN uri : uri[i] = "?"
    THEN SubSeq(uri, 1, (CHOOSE i \in DOMAIN uri :
                            uri[i] = "?" /\ \A j \in 1..(i - 1) : uri[j] # "?") - 1)
    ELSE uri

\* What a path names: application and stream, which may be empty.
Named(p) == IF Slashes(p) = 1 THEN Append(p, "/") ELSE p

\* Deviation: streams are found by all of the URL.
ServerPathWithQuery(uri) == LET p == SplitPath(uri) IN CreateURL(p.app, p.stream)

\* c.URL.Path on the server, of a connection whose client was given uri.
ServerPath(uri) == LET p == SplitPath(uri) IN URLPath(CreateURL(p.app, p.stream))
=============================================================================

--------------------------------- MODULE URI ---------------------------------
(***************************************************************************)
(* The addresses of src/common/URI.cpp, and the request HTTPRequestFactory *)
(* makes of one: its only use in the service is the hook HttpNotifier      *)
(* reads from the configuration and posts to.                              *)
(*                                                                         *)
(* A text is a sequence of tokens: the delimiters one by one, a %-escape   *)
(* as one token, and every longest run of other characters as a word, to   *)
(* which "." and ".." belong.  A word is opaque but for its lower case and *)
(* the number it spells.  Two more characters are tokens of their own, one *)
(* for each kind there is outside the delimiters: ";", which encode leaves *)
(* as it is, and " ", which it escapes, as it does all that are illegal or *)
(* not printable.                                                          *)
(*                                                                         *)
(* A call that throws a SyntaxException leaves the object as far as it got *)
(* (ok says whether the last call came to its end).                        *)
(***************************************************************************)
EXTENDS Integers, Sequences, SequencesExt

CONSTANTS Lower,       \* the lower case of the words that have capitals
          Number,      \* the numbers of the words that are one
          schemeToPort,
          Urls,        \* what may be assigned, in parts
          References,  \* what may be resolved: texts
          Words, Ports, Paths, Queries,   \* arguments of the setters
          MaxCalls     \* bound: calls after the first

VARIABLES uri,    \* the object
          url,    \* the parts it was assigned, unless it has changed since
          ok,
          calls

uriVars == <<uri, url, ok, calls>>

Empty == [scheme |-> <<>>, userInfo |-> <<>>, host |-> <<>>, port |-> 0,
          path |-> <<>>, query |-> <<>>, fragment |-> <<>>]
NoUrl == [scheme |-> <<>>, user |-> <<>>, host |-> <<>>, port |-> <<>>,
          path |-> <<>>, query |-> <<>>, fragment |-> <<>>]
-----------------------------------------------------------------------------
(* Texts. *)

Has(text, tokens) == Range(text) \cap tokens # {}
Stop(text, tokens) ==
    IF Has(text, tokens) THEN SelectInSeq(text, LAMBDA t : t \in tokens)
    ELSE Len(text) + 1
Before(text, tokens) == SubSeq(text, 1, Stop(text, tokens) - 1)
From(text, tokens) == SubSeq(text, Stop(text, tokens), Len(text))
Starts(text, tokens) == text # <<>> /\ Head(text) \in tokens
Ends(text, token) == text # <<>> /\ Last(text) = token

\* What lies between the separators, and what getPathSegments keeps of it
Split(text, separator) ==
    FoldLeft(LAMBDA parts, t : IF t = separator THEN Append(parts, <<>>)
                               ELSE Front(parts) \o <<Append(Last(parts), t)>>,
             << <<>> >>, text)
Segments(path) == SelectSeq(Split(path, "/"), LAMBDA s : s # <<>>)

toLower(text) ==
    [i \in DOMAIN text |-> IF text[i] \in DOMAIN Lower THEN Lower[text[i]] ELSE text[i]]

\* toNumber reads the digits a text begins with.
toNumber(text) == IF Head(text) \in DOMAIN Number THEN Number[Head(text)] ELSE 0
Digits(port) == CHOOSE word \in DOMAIN Number : Number[word] = port

\* The escape encode writes for a character
Escapes == [t \in {"/", "?", "#", "%", ":", "@", ";", " "} |->
               CASE t = "/" -> "%2F" [] t = "?" -> "%3F" [] t = "#" -> "%23"
                 [] t = "%" -> "%25" [] t = ":" -> "%3A" [] t = "@" -> "%40"
                 [] t = ";" -> "%3B" [] t = " " -> "%20"]

\* What decode reads an escape as; its hex digits may be small.
Meaning == [e \in Range(Escapes) \cup {"%3f"} |->
               IF e = "%3f" THEN "?" ELSE CHOOSE t \in DOMAIN Escapes : Escapes[t] = e]

Malformed == {"%zz"}
ILLEGAL == {"%", " "}
\* A slip: no more than the illegal characters
RESERVED_NONE == {}
RESERVED_PATH == {"?", "#"}
RESERVED_QUERY == {"#"}
RESERVED_FRAGMENT == {}

encode(text, reserved) ==
    [i \in DOMAIN text |-> IF text[i] \in reserved \cup ILLEGAL
                           THEN Escapes[text[i]] ELSE text[i]]

Decodes(text) == ~ Has(text, Malformed)
\* What decode has appended when it ends or throws
decode(text) ==
    LET read == Before(text, Malformed)
    IN [i \in DOMAIN read |->
           IF read[i] \in DOMAIN Meaning THEN Meaning[read[i]] ELSE read[i]]
-----------------------------------------------------------------------------
(* Parsing.  An operator returns the object, and whether it came to the    *)
(* end.                                                                    *)

Done(u) == [uri |-> u, ok |-> TRUE]
Thrown(u) == [uri |-> u, ok |-> FALSE]

getWellKnownPort(u) ==
    IF u.scheme \in DOMAIN schemeToPort THEN schemeToPort[u.scheme] ELSE 0
getPort(u) == IF u.port = 0 THEN getWellKnownPort(u) ELSE u.port

setScheme(u, scheme) ==
    LET named == [u EXCEPT !.scheme = toLower(scheme)]
    IN [named EXCEPT !.port = getPort(named)]

\* A slip: brackets are not looked for.
AnyHost(text) == Before(text, {":"})

\* In brackets a host may have colons.
HostOf(text) == IF Starts(text, {"["}) THEN Before(Tail(text), {"]"})
                ELSE Before(text, {":"})
AfterHost(text) == IF Starts(text, {"["}) THEN Tail(From(text, {"]"}))
                   ELSE From(text, {":"})

parseHostAndPort(u, text) ==
    IF text = <<>> THEN Done(u)
    ELSE IF Starts(text, {"["}) /\ ~ Has(text, {"]"}) THEN Thrown(u)
    ELSE LET rest == AfterHost(text)
             given == Starts(rest, {":"}) /\ Tail(rest) # <<>>
             port == IF given THEN toNumber(Tail(rest)) ELSE getWellKnownPort(u)
         IN IF given /\ port \notin 1 .. 65535 THEN Thrown(u)
            ELSE Done([u EXCEPT !.port = port, !.host = toLower(HostOf(text))])

\* The user-info is kept only if what follows it throws: at the end it is
\* overwritten by a variable that stays empty.
parseAuthority(u, text) ==
    LET parts == Split(text, "@")
        info == IF Len(parts) > 1 THEN parts[Len(parts) - 1] ELSE u.userInfo
        parsed == parseHostAndPort([u EXCEPT !.userInfo = info], Last(parts))
    IN IF parsed.ok THEN Done([parsed.uri EXCEPT !.userInfo = <<>>]) ELSE parsed

parsePathEtc(u, text) ==
    LET path == Before(text, {"?", "#"})
        etc == From(text, {"?", "#"})
        fragment == From(etc, {"#"})
        withPath == [u EXCEPT !.path = @ \o decode(path)]
        withQuery == IF Starts(etc, {"?"})
                     THEN [withPath EXCEPT !.query = Before(Tail(etc), {"#"})]
                     ELSE withPath
        whole == IF fragment # <<>>
                 THEN [withQuery EXCEPT !.fragment = @ \o decode(Tail(fragment))]
                 ELSE withQuery
    IN IF ~ Decodes(path) THEN Thrown(withPath)
       ELSE [uri |-> whole, ok |-> Decodes(fragment)]

parse(u, text) ==
    LET rest == Tail(From(text, {":"}))
        hasScheme == /\ ~ Starts(text, {"/", ".", "..", "?", "#"})
                     /\ Starts(From(text, {":", "?", "#", "/"}), {":"})
        named == setScheme(u, Before(text, {":"}))
        hasAuthority == Len(rest) > 1 /\ rest[1] = "/" /\ rest[2] = "/"
        afterSlashes == SubSeq(rest, 3, Len(rest))
        authority == parseAuthority(named, Before(afterSlashes, {"/", "?", "#"}))
    IN CASE ~ hasScheme -> parsePathEtc(u, text)
         [] hasScheme /\ rest = <<>> -> Thrown(u)
         [] hasScheme /\ rest # <<>> /\ ~ hasAuthority -> parsePathEtc(named, rest)
         [] hasScheme /\ hasAuthority ->
               IF authority.ok
               THEN parsePathEtc(authority.uri, From(afterSlashes, {"/", "?", "#"}))
               ELSE authority
-----------------------------------------------------------------------------
(* Printing. *)

getAuthority(u) ==
    (IF u.userInfo # <<>> THEN u.userInfo \o <<"@">> ELSE <<>>)
    \o (IF Has(u.host, {":"}) THEN <<"[">> \o u.host \o <<"]">> ELSE u.host)
    \o (IF u.port # 0 /\ u.port # getWellKnownPort(u) THEN <<":", Digits(u.port)>>
        ELSE <<>>)

\* An object of neither query nor fragment may have an empty path.
MissingSlash(u) ==
    IF /\ u.scheme # <<>>
       /\ \/ u.path # <<>> /\ getAuthority(u) # <<>> /\ ~ Starts(u.path, {"/"})
          \/ u.path = <<>> /\ (u.query # <<>> \/ u.fragment # <<>>)
    THEN <<"/">> ELSE <<>>

getPathAndQuery(u) ==
    encode(u.path, RESERVED_PATH) \o (IF u.query # <<>> THEN <<"?">> \o u.query ELSE <<>>)

toString(u) ==
    (IF u.scheme = <<>> THEN <<>>
     ELSE u.scheme \o <<":">>
          \o (IF getAuthority(u) # <<>> \/ u.scheme = <<"file">>
              THEN <<"/", "/">> \o getAuthority(u) ELSE <<>>)
          \o MissingSlash(u))
    \o getPathAndQuery(u)
    \o (IF u.fragment # <<>>
        THEN <<"#">> \o encode(u.fragment, RESERVED_FRAGMENT) ELSE <<>>)

equals(u, v) == getPort(u) = getPort(v) /\ [u EXCEPT !.port = 0] = [v EXCEPT !.port = 0]
-----------------------------------------------------------------------------
(* Resolving. *)

buildPath(u, segments, leading, trailing) ==
    LET prefix == CASE segments = <<>> -> <<>>
                    [] segments # <<>> /\ leading -> <<"/">>
                    [] segments # <<>> /\ ~ leading
                          /\ u.scheme = <<>> /\ Has(segments[1], {":"}) -> <<".", "/">>
                    [] OTHER -> <<>>
        joined == FoldLeft(LAMBDA path, s : IF path = <<>> THEN s ELSE path \o <<"/">> \o s,
                           <<>>, segments)
    IN [u EXCEPT !.path = prefix \o joined \o (IF trailing THEN <<"/">> ELSE <<>>)]

removeDotSegments(u, removeLeading) ==
    LET step(kept, s) ==
            CASE s = <<".">> -> kept
              [] s = <<"..">> /\ kept # <<>> /\ Last(kept) # <<"..">> -> Front(kept)
              [] s = <<"..">> /\ kept = <<>> /\ removeLeading -> kept
              [] OTHER -> Append(kept, s)
    IN IF u.path = <<>> THEN u
       ELSE buildPath(u, FoldLeft(step, <<>>, Segments(u.path)),
                      Starts(u.path, {"/"}), Ends(u.path, "/"))

normalize(u) == removeDotSegments(u, u.scheme # <<>>)

\* mergePath calls its parameter path, as the member: but for the segments of
\* the object, every test of the path is one of the parameter.
mergePath(u, path) ==
    LET own == Segments(u.path)
        base == IF ~ Ends(path, "/") /\ own # <<>> THEN Front(own) ELSE own
        segments == base \o Segments(path)
        step(kept, s) ==
            CASE s = <<".">> -> kept
              [] s = <<"..">> -> IF kept = <<>> THEN kept ELSE Front(kept)
              [] OTHER -> Append(kept, s)
        dotLast == segments # <<>> /\ Last(segments) \in {<<".">>, <<"..">>}
    IN buildPath(u, FoldLeft(step, <<>>, segments), Starts(path, {"/"}),
                 Ends(path, "/") \/ dotLast)

\* A reference with nothing but a query or a fragment keeps the path.
QueryOnly(u, r) == IF r.query # <<>> THEN [u EXCEPT !.query = r.query] ELSE u

WithPath(u, r) ==
    CASE r.path = <<>> -> QueryOnly(u, r)
      [] Starts(r.path, {"/"}) ->
            [removeDotSegments([u EXCEPT !.path = r.path], TRUE) EXCEPT !.query = r.query]
      [] OTHER -> [mergePath(u, r.path) EXCEPT !.query = r.query]

resolve(u, r) ==
    LET absolute == removeDotSegments([r EXCEPT !.fragment = <<>>], TRUE)
        target == CASE r.scheme # <<>> -> absolute
                    [] r.scheme = <<>> /\ r.host # <<>> ->
                          removeDotSegments([r EXCEPT !.scheme = u.scheme], TRUE)
                    [] OTHER -> WithPath(u, r)
    IN [target EXCEPT !.fragment = r.fragment]
-----------------------------------------------------------------------------
(* HTTPRequestFactory::Post *)

Request(u) == [scheme |-> u.scheme, host |-> u.host, port |-> getPort(u),
               target |-> getPathAndQuery(u)]
-----------------------------------------------------------------------------
(* The object and the calls on it. *)

\* A text in parts, each with its delimiters but for the slashes of an authority
Text(p) == p.scheme
           \o (IF p.host # <<>> THEN <<"/", "/">> \o p.user \o p.host \o p.port ELSE <<>>)
           \o p.path \o p.query \o p.fragment

AddressInit ==
    /\ uri = Empty
    /\ url = NoUrl
    /\ ok = TRUE
    /\ calls = 0

Becomes(result) == uri' = result.uri /\ ok' = result.ok

\* The constructor from a text, or operator= after clear()
Assign(p) ==
    /\ Becomes(parse(Empty, Text(p)))
    /\ url' = p

Call(result) == Becomes(result) /\ url' = NoUrl

SetScheme(text) == Call(Done(setScheme(uri, text)))
SetUserInfo(text) ==
    Call([uri |-> [uri EXCEPT !.userInfo = decode(text)], ok |-> Decodes(text)])
SetHost(text) == Call(Done([uri EXCEPT !.host = text]))
SetPort(port) == Call(Done([uri EXCEPT !.port = port]))
SetAuthority(text) ==
    Call(parseAuthority([uri EXCEPT !.userInfo = <<>>, !.host = <<>>, !.port = 0],
                        Before(text, {"/", "?", "#"})))
SetPath(text) ==
    Call([uri |-> [uri EXCEPT !.path = decode(text)], ok |-> Decodes(text)])
SetRawQuery(text) == Call(Done([uri EXCEPT !.query = text]))
SetQuery(text) == Call(Done([uri EXCEPT !.query = encode(text, RESERVED_QUERY)]))
SetFragment(text) ==
    Call([uri |-> [uri EXCEPT !.fragment = decode(text)], ok |-> Decodes(text)])
SetPathEtc(text) ==
    Call(parsePathEtc([uri EXCEPT !.path = <<>>, !.query = <<>>, !.fragment = <<>>], text))
Normalize == Call(Done(normalize(uri)))
\* resolve(const std::string &) throws before it has touched the object.
Resolve(text) ==
    LET r == parse(Empty, text)
    IN Call(IF r.ok THEN Done(resolve(uri, r.uri)) ELSE Thrown(uri))

\* What is set is given as the header says: a scheme that is one, a raw query
\* encoded.
Calls ==
    \/ \E text \in References : Resolve(text) \/ SetPathEtc(text)
    \/ \E text \in Words : \/ ~ Has(text, {":", "/"}) /\ SetScheme(text)
                           \/ SetUserInfo(text) \/ SetHost(text)
                           \/ SetAuthority(text) \/ SetFragment(text)
    \/ \E port \in Ports : SetPort(port)
    \/ \E text \in Paths : SetPath(text)
    \/ \E text \in Queries : \/ SetQuery(text)
                             \/ ~ Has(text, {"#"}) /\ SetRawQuery(text)
    \/ Normalize

\* An address is assigned, then called on; not after a call that threw.
AddressNext ==
    /\ ok /\ calls <= MaxCalls
    /\ \/ calls = 0 /\ \E p \in Urls : Assign(p)
       \/ calls > 0 /\ Calls
    /\ calls' = calls + 1
-----------------------------------------------------------------------------
RFC == INSTANCE RFC3986

\* Objects whose text says something else: parts of an authority that a relative
\* reference does not print, a colon that makes a scheme of a path's beginning, a
\* path that begins where an authority is looked for, a scheme alone, a host that
\* only setHost leaves, with capitals or delimiters, and a user-info, which
\* parseAuthority loses, whatever it is.
Ambiguous(u) ==
    \/ u.scheme = <<>> /\ (u.host # <<>> \/ u.port # 0)
    \/ /\ u.scheme = <<>> /\ ~ Starts(u.path, {".", ".."})
       /\ Has(Before(u.path, {"/"}), {":"})
    \/ /\ u.scheme # <<>> /\ getAuthority(u) = <<>>
       /\ \/ Len(u.path) > 1 /\ u.path[1] = "/" /\ u.path[2] = "/" /\ u.scheme # <<"file">>
          \/ u.scheme = <<"file">> /\ ~ Starts(u.path, {"/"})
          \/ u.path = <<>> /\ u.query = <<>> /\ u.fragment = <<>>
    \/ toLower(u.host) # u.host \/ Has(u.host, {"/", "?", "#", "@", "[", "]"})
    \/ u.userInfo # <<>>

\* Unless it is Ambiguous, parse reads an object back as toString prints it: the
\* same object but for a slash printed where the path has none, whichever of the
\* texts and arguments made it.  What a path or a fragment has decoded comes back
\* through encode, whose reserved characters differ from part to part.
RoundTrip ==
    ok /\ ~ Ambiguous(uri) =>
        LET read == parse(Empty, toString(uri))
        IN read.ok /\ equals(read.uri, [uri EXCEPT !.path = MissingSlash(uri) \o uri.path])

\* What encode makes of the decoded path is the path again if it has no illegal
\* character and no escape but those encode would write there.
Restored(path) ==
    /\ ~ Has(path, ILLEGAL)
    /\ \A i \in DOMAIN path :
           path[i] \in DOMAIN Meaning =>
               /\ Meaning[path[i]] \in RESERVED_PATH \cup ILLEGAL
               /\ path[i] = Escapes[Meaning[path[i]]]

\* A request goes to the server the address names, and its target is the query of
\* the address behind a path that holds no delimiter of its own and decodes to
\* the same characters; it is that of the address, letter by letter, if that is
\* Restored.  (Any other escape is sent as the character it stands for: that of a
\* slash makes two segments of one.  An address without a path is left out: its
\* request has no target, or a query alone.)
RequestFollowsUrl ==
    ok /\ url.scheme # <<>> /\ url.host # <<>> /\ url.path # <<>> =>
        LET scheme == toLower(Front(url.scheme))
            host == SelectSeq(toLower(url.host), LAMBDA t : t \notin {"[", "]"})
            default == IF scheme \in DOMAIN schemeToPort THEN schemeToPort[scheme] ELSE 0
            request == Request(uri)
            path == Before(request.target, {"?", "#"})
        IN /\ request.scheme = scheme /\ request.host = host
           /\ request.port = IF Len(url.port) < 2 THEN default ELSE Number[url.port[2]]
           /\ From(request.target, {"?", "#"}) = url.query
           /\ decode(path) = decode(url.path)
           /\ Restored(url.path) => path = url.path

\* "See section 5.2 of RFC 3986 for the algorithm used" (URI.h:154, 158): an
\* absolute address with an authority resolves a reference without one to the
\* target that section names.
ResolvesAsRFC ==
    /\ ok
    /\ uri.scheme # <<>> /\ getAuthority(uri) # <<>>
    /\ uri.path = <<>> \/ Starts(uri.path, {"/"})
    => \A text \in References :
          LET r == parse(Empty, text)
          IN /\ r.ok /\ r.uri.host = <<>> /\ SubSeq(text, 1, 2) # <<"/", "/">>
             /\ r.uri.scheme # <<>> => r.uri.path = <<>> \/ Starts(r.uri.path, {"/"})
             => toString(resolve(uri, r.uri)) = toString(RFC!Target(uri, r.uri))
=============================================================================

------------------------------ MODULE ApiLinks ------------------------------
(***************************************************************************)
(* Discovery: a client that knows an address of the service follows the    *)
(* links and actions its answers carry.  Between them there may be a proxy *)
(* that takes a prefix off the path or puts another in its place, and says *)
(* in headers what the client asked for; the service builds the links of   *)
(* an answer from these headers and picks the handler of a request by the  *)
(* order of its routes.  Neither knows of the other: that a link leads     *)
(* back, through the same proxy, to the handler it was meant for depends   *)
(* on both.                                                                *)
(*                                                                         *)
(* A path is the sequence of its segments; the empty segment at the end is *)
(* a trailing slash.  No segment is a part of another one.                 *)
(***************************************************************************)
EXTENDS Naturals, SequencesExt

CONSTANTS
    Words,               \* the texts that URLs and headers are made of
    Setups,              \* how the service may be reached (SetupType)
    Entries              \* the paths clients start from

VARIABLES
    setup,               \* how it is reached in this behaviour
    links                \* the links of the answer the client has come to

vars == <<setup, links>>

Methods == {"GET", "POST"}

\* No port, no query, and what comes after a trailing slash.
Blank == ""

HostType == [name : Words, port : Words]

UrlType == [scheme : Words, host : HostType, path : Seq(Words), query : Words]

\* The address clients use, what the proxy does to a path, and what it says in its
\* headers: the URL that was asked for, or X-Forwarded-Proto, -Host and -Port.
SetupType ==
    [front : [scheme : Words, host : HostType],
     rules : Seq([from : Seq(Words), to : Seq(Words)]),
     host : HostType, sendsUrl : BOOLEAN, proto : Seq(Words),
     forwardedHost : Seq(HostType), forwardedPort : Seq(Words)]

ASSUME SetupAssumption == Setups \subseteq SetupType

\* The root, too, has a segment: the empty one.
ASSUME EntriesAssumption == Entries \subseteq Seq(Words) \ {<< >>}

\* The schemas of the catalog that can be listed, with their plural names.
Plurals ==
    [apiVersion |-> "apiversions", schema |-> "schemas", secret |-> "secrets",
     secretInput |-> "secretinputs", encryptedSecret |-> "encryptedsecrets",
     rewrappedSecret |-> "rewrappedsecrets", bulkSecretInput |-> "bulksecretinputs",
     bulkEncryptedSecret |-> "bulkencryptedsecrets",
     bulkRewrappedSecret |-> "bulkrewrappedsecrets"]

Listable == DOMAIN Plurals

\* The error schema has no collection to GET.
SchemaIds == Listable \union {"error"}

Operations == {"create", "rewrap", "purge"}

ASSUME WordsAssumption ==
    /\ {Blank, "http", "bulk", "v1-secrets", "secrets"} \union Operations \subseteq Words
    /\ SchemaIds \union {Plurals[id] : id \in Listable} \subseteq Words

-----------------------------------------------------------------------------
(* The proxy. *)

\* The port a URL leads to.
PortOf(url) ==
    IF url.host.port # Blank THEN url.host.port
    ELSE IF url.scheme = "https" THEN "443" ELSE "80"

\* The first rule whose prefix the path has; a rule puts to in the place of from.
RuleFor(path) ==
    LET fits == {i \in DOMAIN setup.rules : IsPrefix(setup.rules[i].from, path)}
    IN  IF fits = {} THEN {} ELSE {setup.rules[CHOOSE i \in fits : \A j \in fits : i <= j]}

\* The URL is one of the address clients reach the service under.
AtFront(url) ==
    /\ url.scheme = setup.front.scheme
    /\ url.host.name = setup.front.host.name
    /\ PortOf(url) = PortOf(setup.front)
    /\ RuleFor(url.path) # {}

\* The request the service receives when the client sends one to the URL.
Received(method, url) ==
    LET rule == CHOOSE r \in RuleFor(url.path) : TRUE
    IN  [method |-> method, query |-> url.query, host |-> setup.host,
         path |-> rule.to \o SubSeq(url.path, Len(rule.from) + 1, Len(url.path)),
         requestUrl |-> IF setup.sendsUrl THEN <<url>> ELSE << >>,
         proto |-> setup.proto, forwardedHost |-> setup.forwardedHost,
         forwardedPort |-> setup.forwardedPort]

-----------------------------------------------------------------------------
(* Proxies that links come back through: with any other, they need not. *)

\* It passes paths on as they are, all of them or those under one segment.
Keeping(rules) ==
    \A i \in DOMAIN rules : rules[i].to = rules[i].from /\ Len(rules[i].from) <= 1

\* It takes prefixes off, none of which is the beginning of another one.
Stripping(rules) ==
    \A i, j \in DOMAIN rules :
        /\ rules[i].to = << >>
        /\ IsPrefix(rules[i].from, rules[j].from) => rules[i].from = rules[j].from

\* It puts the service's own prefix in the place of another, and passes on the rest.
Renaming(rules) ==
    /\ Len(rules) = 2
    /\ rules[1].from # << >> /\ "v1-secrets" \notin ToSet(rules[1].from)
    /\ rules[1].to = <<"v1-secrets">>
    /\ rules[2].from = << >> /\ rules[2].to = << >>

\* What the headers say of scheme, host and port is what clients ask for, and the
\* host has no port but that one when X-Forwarded-Port is a default port or missing.
Truthful(s) ==
    LET host == IF s.forwardedHost = << >> THEN s.host ELSE Head(s.forwardedHost)
        port == IF s.forwardedPort = << >> THEN Blank ELSE Head(s.forwardedPort)
    IN  IF s.proto = << >>
        THEN /\ s.front.scheme = "http" /\ s.front.host.name = s.host.name
             /\ PortOf([scheme |-> "http", host |-> s.host]) = PortOf(s.front)
        ELSE /\ s.front.scheme = Head(s.proto) /\ s.front.host.name = host.name
             /\ IF port \in {Blank, "80", "443"}
                THEN PortOf([scheme |-> s.front.scheme, host |-> host]) = PortOf(s.front)
                ELSE port = PortOf(s.front)

\* Only a proxy that says what URL was asked for may change paths.
Transparent(s) ==
    \/ s.sendsUrl /\ (Keeping(s.rules) \/ Stripping(s.rules) \/ Renaming(s.rules))
    \/ ~s.sendsUrl /\ Keeping(s.rules) /\ Truthful(s)

-----------------------------------------------------------------------------
(* The routes. *)

Secrets == <<"v1-secrets", "secrets">>
\* A path given with and without its trailing slash.
Is(req, path) == req.path \in {path, Append(path, Blank)}

Single == [create |-> "CreateSecret", rewrap |-> "RewrapSecret", purge |-> "DeleteSecret"]
Bulk == [create |-> "BulkCreateSecret", rewrap |-> "BulkRewrapSecret",
         purge |-> "BulkDeleteSecret"]

PostHandlers == {Single[o] : o \in Operations} \union {Bulk[o] : o \in Operations}

\* Mutant: the routes without a query come first.
PostedSingleFirst(op, req) == Single[op]

\* The routes with action=bulk come before the ones for any query.
Posted(op, req) == IF req.query = "bulk" THEN Bulk[op] ELSE Single[op]

\* The handler of a GET.  The operations lead to the list again, save for purge.
Got(req) ==
    IF Is(req, <<"v1-secrets">>) THEN "VersionHandler"
    ELSE IF Is(req, <<"v1-secrets", "schemas">>) THEN "SchemasHandler"
    ELSE IF \E id \in SchemaIds \union {"other"} : Is(req, <<"v1-secrets", "schemas", id>>)
        THEN "SchemaHandler"
    ELSE IF \E rest \in {<< >>, <<"create">>, <<"rewrap">>} : Is(req, Secrets \o rest)
        THEN "ListSecrets"
    ELSE "NotFoundHandler"

HandlerOf(req) ==
    IF req.method = "GET" THEN Got(req)
    ELSE IF \E op \in Operations : req.path = Append(Secrets, op)
        THEN Posted(Last(req.path), req)
    ELSE "NotFoundHandler"

-----------------------------------------------------------------------------
(* The URLs of an answer. *)

\* Headers that several proxies have added to start with the outermost's word.
Override(header) == Head(header)

\* Mutant: the port of the host is left where it is.
ForwardedAddressKeepsPort(req) ==
    LET host == IF req.forwardedHost = << >> THEN req.host ELSE Override(req.forwardedHost)
        port == IF req.forwardedPort = << >> THEN Blank ELSE Override(req.forwardedPort)
    IN  IF port \in {Blank, "80", "443"} \/ host.port # Blank THEN host
        ELSE [host EXCEPT !.port = port]

\* A port that is some scheme's default is not put into the URL, and any other
\* one takes the place of the port of the host.
ForwardedAddress(req) ==
    LET host == IF req.forwardedHost = << >> THEN req.host ELSE Override(req.forwardedHost)
        port == IF req.forwardedPort = << >> THEN Blank ELSE Override(req.forwardedPort)
    IN  IF port \in {Blank, "80", "443"} THEN host ELSE [host EXCEPT !.port = port]

\* parseRequestUrl: the URL a proxy says was asked for, or the one its X-Forwarded
\* headers describe, or the one the service was asked for itself.
RequestUrl(req) ==
    IF req.requestUrl # << >> THEN [Override(req.requestUrl) EXCEPT !.query = Blank]
    ELSE IF req.proto # << >>
        THEN [scheme |-> Override(req.proto), host |-> ForwardedAddress(req),
              path |-> req.path, query |-> Blank]
    ELSE [scheme |-> "http", host |-> req.host, path |-> req.path, query |-> Blank]

\* Where the text of path occurs in url's path: whole segments, but an empty
\* segment at its end is only a slash.
Occurrences(path, url) ==
    {i \in 0..(Len(url.path) - Len(path)) :
        /\ SubSeq(url.path, i + 1, i + Len(path) - 1) = Front(path)
        /\ Last(path) \in {Blank, url.path[i + Len(path)]}}

\* Mutant: everything before the first occurrence of the request's path.
BaseBeforeFirst(req) ==
    LET url == RequestUrl(req)
        at == Occurrences(req.path, url)
    IN  [url EXCEPT !.path = IF at = {} THEN << >>
            ELSE SubSeq(url.path, 1, CHOOSE i \in at : \A j \in at : i <= j)]

\* Everything before the last occurrence of the request's path in the URL, or the
\* root when a proxy has put something else in its place.
ResponseUrlBase(req) ==
    LET url == RequestUrl(req)
        at == Occurrences(req.path, url)
    IN  [url EXCEPT !.path = IF at = {} THEN << >> ELSE SubSeq(url.path, 1, Max(at))]

\* The first segment of the request's path, whatever it is.
Version(req) == Head(req.path)

Url(req, rest) ==
    [ResponseUrlBase(req) EXCEPT !.path = @ \o <<Version(req)>> \o rest]

Collection(req, type) == Url(req, <<Plurals[type]>>)

\* ReferenceByIdLink.
ById(req, type, id) == Url(req, <<Plurals[type], id>>)

Operation(req, op, query) == [Url(req, <<"secrets", op>>) EXCEPT !.query = query]

-----------------------------------------------------------------------------
(* What a client learns from an answer: links, what they lead to, their URL. *)

Link(rel, of, url) == [rel |-> rel, of |-> of, url |-> url]

\* An answer that is no error names the schemas in a header.
SchemasHeader(req) == Link("schemas", HandlerOf(req), Collection(req, "schema"))

\* It names itself by the URL it was asked under, or by its id when it has one.
Basics(req, self) == {SchemasHeader(req), Link("self", HandlerOf(req), self)}

\* An error names only itself: its status is written before the header is set.
ErrorLinks(req) == {Link("self", HandlerOf(req), RequestUrl(req))}

Collections(req, types) == {Link("collection", t, Collection(req, t)) : t \in types}

VersionLinks(req) ==
    Basics(req, ById(req, "apiVersion", "v1-secrets")) \union Collections(req, Listable)

\* One schema: its own link is that of the schema with its id.
SchemaLinks(req, id) ==
    Collections(req, {id} \intersect Listable)
    \union {Link("self", "SchemaHandler", ById(req, "schema", id))}

SchemasLinks(req) ==
    Basics(req, RequestUrl(req)) \union UNION {SchemaLinks(req, id) : id \in SchemaIds}

\* ListSecrets: every operation, on one secret and on many.
ActionLinks(req) ==
    Basics(req, RequestUrl(req))
    \union {Link("action", Single[o], Operation(req, o, Blank)) : o \in Operations}
    \union {Link("action", Bulk[o], Operation(req, o, "bulk")) : o \in Operations}

-----------------------------------------------------------------------------
(* The steps: one exchange of a request and its answer. *)

\* How the client asks for the paths it starts from.
EntryUrls ==
    UNION {{[scheme |-> setup.front.scheme, host |-> setup.front.host, query |-> q,
             path |-> rule.from \o SubSeq(path, Len(rule.to) + 1, Len(path))] :
                q \in {Blank, "bulk"}, path \in {p \in Entries : IsPrefix(rule.to, p)}} :
            rule \in ToSet(setup.rules)}

Init ==
    /\ setup \in Setups
    /\ links = {Link("entry", "none", url) : url \in EntryUrls}

\* The client sends a request, handler gets it and answers with these links.
Exchange(method, url, handler, answer) ==
    /\ HandlerOf(Received(method, url)) = handler
    /\ links' = answer
    /\ UNCHANGED setup

GetVersion(url) ==
    Exchange("GET", url, "VersionHandler", VersionLinks(Received("GET", url)))

GetSchemas(url) ==
    Exchange("GET", url, "SchemasHandler", SchemasLinks(Received("GET", url)))

\* A schema that is not in the catalog is answered with an empty resource.
GetSchema(url) ==
    LET req == Received("GET", url)
        id == IF Last(req.path) = Blank THEN req.path[Len(req.path) - 1] ELSE Last(req.path)
    IN  Exchange("GET", url, "SchemaHandler",
            IF id \in SchemaIds
            THEN SchemaLinks(req, id) \union Basics(req, ById(req, "schema", id))
            ELSE Basics(req, RequestUrl(req)))

ListSecrets(url) ==
    Exchange("GET", url, "ListSecrets", ActionLinks(Received("GET", url)))

\* An operation answers with secrets or an error, or a purge without any links, so
\* that the client goes on with the ones it has.
Operate(url) ==
    LET req == Received("POST", url)
    IN  \E answer \in {links, Basics(req, RequestUrl(req)), ErrorLinks(req)} :
            \E handler \in PostHandlers : Exchange("POST", url, handler, answer)

\* No route: the error of NotFoundHandler, or the bare 405 of the router.
NotFound(method, url) ==
    LET req == Received(method, url)
    IN  \E answer \in {links, ErrorLinks(req)} :
            Exchange(method, url, "NotFoundHandler", answer)

Next ==
    \E link \in links :
        /\ AtFront(link.url)
        /\ \/ GetVersion(link.url) \/ GetSchemas(link.url) \/ GetSchema(link.url)
           \/ ListSecrets(link.url) \/ Operate(link.url)
           \/ \E method \in Methods : NotFound(method, link.url)

Spec == Init /\ [][Next]_vars

-----------------------------------------------------------------------------
\* What a link should lead to, where something is promised: the answer it came in
\* with, the list for an operation, the catalog for the link in the header.
\* Collections without a route, and the link of the version to itself, lead
\* nowhere; a request that was not understood is promised nothing.
Promised(link) ==
    CASE link.rel = "action" -> {<<"POST", link.of>>}
      [] link.rel = "schemas" -> {<<"GET", "SchemasHandler">>}
      [] link.rel = "collection" /\ link.of = "schema" -> {<<"GET", "SchemasHandler">>}
      [] link.rel = "collection" /\ link.of = "secret" -> {<<"GET", "ListSecrets">>}
      [] link.rel = "self" /\ link.of \in {"SchemasHandler", "SchemaHandler", "ListSecrets"}
            -> {<<"GET", link.of>>}
      [] link.rel = "self" /\ link.of \in PostHandlers \ {"DeleteSecret", "BulkDeleteSecret"}
            -> {<<"GET", "ListSecrets">>}
      [] OTHER -> {}

\* Every link the client is given is one of the address it uses, however many links
\* it followed and whatever the proxy does to a path: the service never leads a
\* client past the proxy.
LinksComeBack == \A link \in links : AtFront(link.url)

\* A link leads to the handler it was meant for, through the same proxy: an action
\* on many secrets to the bulk handler of that operation and never to the one for
\* a single secret, a link of an answer to itself to the handler that gave it.
LinksLeadWhereTheySay ==
    \A link \in links : \A p \in Promised(link) :
        HandlerOf(Received(p[1], link.url)) = p[2]

\* When a proxy names a port, that port is in every link.
ForwardedPortIsUsed ==
    setup.forwardedPort # << >> =>
        \A link \in links : PortOf(link.url) = Override(setup.forwardedPort)
=============================================================================

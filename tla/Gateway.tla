------------------------------ MODULE Gateway -------------------------------
(***************************************************************************)
(* A request from the bytes a client sends to the handler that gets it:    *)
(* handle_request (src/lib.rs), between a listing that named an entry to a *)
(* client and the address that names it to Graph.  Clients (external) are  *)
(* davfs2, which knows an entry by the href of a PROPFIND, the plugin,     *)
(* which knows it by the path in a _tree, the timer, and others, who spell *)
(* paths oddly.  All that they ask is also asked by who does not have the  *)
(* password.  The configuration loads; if not, every request is answered   *)
(* 500.                                                                    *)
(***************************************************************************)
EXTENDS Encoding

CONSTANTS
    Items,      \* entries of drives: path, dir, stamp (its lastModifiedDateTime)
    Targets,    \* the paths that a MOVE goes to
    Endings,    \* what a client may add to a path it spells oddly
    Loopbacks,  \* the hosts is_loopback_hostport accepts
    Foreign,    \* another host
    Secret,     \* config.basic_auth_secret
    Logins,     \* the credentials that are tried, None among them
    Suspects    \* bound: the entries about which they are tried

(***************************************************************************)
(* Graph (external) has names that are text, none of them a dot segment,   *)
(* without slashes and control characters, and dates of the calendar.      *)
(***************************************************************************)
Byte == 0..255
Name(s) == /\ s \in Seq(Byte \ ((0..31) \cup {Slash, 127})) /\ FromUtf8(s) = s
           /\ s \notin {<<>>, <<Dot>>, <<Dot, Dot>>}
DrivePath(path) == path \in Seq(Seq(Byte)) /\ \A k \in DOMAIN path : Name(path[k])

LeapYear(y) == y % 4 = 0 /\ (y % 100 = 0 => y % 400 = 0)
MonthDays(y, m) ==
    CASE m = 2 -> IF LeapYear(y) THEN 29 ELSE 28
      [] m \in {4, 6, 9, 11} -> 30
      [] OTHER -> 31
RealDate(stamp) ==
    /\ stamp \in Seq(Nat) /\ Len(stamp) = 6
    /\ stamp[2] \in 1..12 /\ stamp[3] \in 1..MonthDays(stamp[1], stamp[2])
    /\ stamp[4] \in 0..23 /\ stamp[5] \in 0..59 /\ stamp[6] \in 0..59

ASSUME ItemsAssumption ==
    \A x \in Items : DrivePath(x.path) /\ x.dir \in BOOLEAN /\ RealDate(x.stamp)
ASSUME TargetsAssumption == \A to \in Targets : DrivePath(to)

(***************************************************************************)
(* Targets of requests are ASCII, and the secret is text.  Credentials may *)
(* be any bytes, in a header of any scheme.                                *)
(***************************************************************************)
Forms == {"padded", "bare", "spaced", "broken"}
ASSUME EndingsAssumption == Endings \subseteq Seq(0..127)
ASSUME SecretAssumption == Secret \in Seq(Byte) /\ FromUtf8(Secret) = Secret
ASSUME LoginsAssumption ==
    \A login \in Logins \ {None} : login.bytes \in Seq(Byte) /\ login.form \in Forms
ASSUME HostsAssumption == Foreign \notin Loopbacks /\ None \notin Loopbacks \cup {Foreign}
\* A header that is there is not one that is missing.
ASSUME DestinationsAssumption ==
    None \notin [host : Loopbacks \cup {None, Foreign}, path : Seq(Int)]

VARIABLES
    item,       \* the entry of the drive this is about
    entry,      \* what PROPFIND answered about it
    request,    \* what a client sent
    knows,      \* history: whether it has the password
    meant,      \* the answer it must get if it has (None: no particular one)
    outcome     \* the answer it got
vars == <<item, entry, request, knows, meant, outcome>>

Outcome(handler, path, destination) ==
    [handler |-> handler, path |-> path, destination |-> destination]
Fails(status) == Outcome(status, None, None)

Init ==
    /\ item \in Items
    /\ entry = None /\ request = None /\ knows = FALSE /\ meant = None /\ outcome = None

-----------------------------------------------------------------------------
(***************************************************************************)
(* handle_request                                                          *)
(***************************************************************************)
DavHandlers ==
    [OPTIONS |-> "options", HEAD |-> "head", GET |-> "get", PUT |-> "put", DELETE |-> "delete",
     PROPFIND |-> "propfind", MKCOL |-> "mkcol", LOCK |-> "lock", UNLOCK |-> "unlock"]

StatusTarget == <<47, 95, 115, 116, 97, 116, 117, 115>>
TreeTarget == <<47, 95, 116, 114, 101, 101>>
SearchTarget == <<47, 95, 115, 101, 97, 114, 99, 104>>
PathKey == <<112, 97, 116, 104>>
QKey == <<113>>

\* tree: one directory; the path is "/" where the query names none.
Tree(query) ==
    LET raw == query_param(query, PathKey)
        path == sanitize_path(IF raw = None THEN <<Slash>> ELSE raw)
    IN  IF path = None THEN Fails("400") ELSE Outcome("tree", path, None)

\* Mutant of ForPlugin: the header is not looked at.
ForPluginAnyone(r) == r.method = "GET" /\ r.target \in {StatusTarget, TreeTarget, SearchTarget}

ForPlugin(r) ==
    r.method = "GET" /\ r.plugin /\ r.target \in {StatusTarget, TreeTarget, SearchTarget}
Plugin(r) ==
    CASE r.target = StatusTarget -> Outcome("status", None, None)
      [] r.target = TreeTarget   -> Tree(r.query)
      [] r.target = SearchTarget -> Outcome("search", query_param(r.query, QKey), None)

\* The Destination header, sanitized; None if it is bad.
DestinationOf(r) ==
    LET path == destination_path(r.destination, Loopbacks)
    IN  IF path = None THEN None ELSE sanitize_path(path)

Dav(r, path) ==
    CASE r.method = "PUT" /\ r.body # "read" ->
            Fails(IF r.body = "too large" THEN "413" ELSE "400")
      [] r.method = "MOVE" ->
            IF r.destination = None THEN Fails("400") ELSE Outcome("move", path, DestinationOf(r))
      [] r.method \in DOMAIN DavHandlers /\ (r.method = "PUT" => r.body = "read") ->
            Outcome(DavHandlers[r.method], path, None)
      [] OTHER -> Fails("405")

\* Mutant of handle_request: OPTIONS, which only tells what the server can do, is let through.
handle_request_open(r) ==
    LET path == sanitize_path(r.target)
    IN  IF r.method # "OPTIONS" /\ ~check_basic_auth(Secret, r.login) THEN Fails("401")
        ELSE IF r.method = "POST" THEN (IF r.sync THEN Outcome("sync", None, None) ELSE Fails("405"))
        ELSE IF ForPlugin(r) THEN Plugin(r)
        ELSE IF path = None THEN Fails("400")
        ELSE IF r.destination # None /\ DestinationOf(r) = None THEN Fails("400")
        ELSE Dav(r, path)

handle_request(r) ==
    LET path == sanitize_path(r.target)
    IN  IF ~check_basic_auth(Secret, r.login) THEN Fails("401")
        ELSE IF r.method = "POST" THEN (IF r.sync THEN Outcome("sync", None, None) ELSE Fails("405"))
        ELSE IF ForPlugin(r) THEN Plugin(r)
        ELSE IF path = None THEN Fails("400")
        ELSE IF r.destination # None /\ DestinationOf(r) = None THEN Fails("400")
        ELSE Dav(r, path)

Handle ==
    /\ request # None /\ outcome = None
    /\ outcome' = handle_request(request)
    /\ UNCHANGED <<item, entry, request, knows, meant>>

\* The next request comes on its own.
Answered ==
    /\ outcome # None
    /\ request' = None /\ knows' = FALSE /\ meant' = None /\ outcome' = None
    /\ UNCHANGED <<item, entry>>

\* propfind: the D:response of the entry.
Propfind ==
    /\ entry = None /\ request = None
    /\ entry' = [href |-> Href(item.path, item.dir),
                 modified |-> http_date(parse_iso8601_to_unix(item.stamp))]
    /\ UNCHANGED <<item, request, knows, meant, outcome>>

-----------------------------------------------------------------------------
(***************************************************************************)
(* Clients (external).  They escape what a URL must not have, and whatever *)
(* else they like, in either case of hex digits.                           *)
(***************************************************************************)
Styles == {"least", "more", "all"}
Delimiters == {33, 36, 38, 39, 40, 41, 42, 43, 44, 58, 59, 61, 64}
Spared(style) ==
    CASE style = "least" -> Unreserved \cup Delimiters
      [] style = "more"  -> Unreserved
      [] style = "all"   -> {}
LowerHex(n) == IF n < 10 THEN 48 + n ELSE 87 + n
Spelled(style, s) ==
    FlattenSeq([i \in DOMAIN s |->
        IF s[i] \in Spared(style) \cup {Slash} THEN <<s[i]>>
        ELSE IF style = "all" THEN <<Percent, LowerHex(s[i] \div 16), LowerHex(s[i] % 16)>>
        ELSE Escape(s[i])])

\* RFC 4648: a whole text for `s`, with or without padding.
Base64(s, padded) ==
    LET bits(i) == IF i \in DOMAIN s THEN s[i] ELSE 0
        group(k) == <<bits(3 * k - 2) \div 4,
                      16 * (bits(3 * k - 2) % 4) + bits(3 * k - 1) \div 16,
                      4 * (bits(3 * k - 1) % 16) + bits(3 * k) \div 64,
                      bits(3 * k) % 64>>
        groups == (Len(s) + 2) \div 3
        symbols == FlattenSeq([k \in 1..groups |-> group(k)])
        spare == 3 * groups - Len(s)
    IN  SubSeq(symbols, 1, 4 * groups - spare) \o [k \in 1..(IF padded THEN spare ELSE 0) |-> Pad]

(***************************************************************************)
(* Credentials: the scheme, the bytes that are encoded, and how they are   *)
(* written: with padding, without, between spaces, or with a character     *)
(* that no base64 has.  None is a request without the header.              *)
(***************************************************************************)
Written(bytes, form) ==
    CASE form = "padded" -> Base64(bytes, TRUE)
      [] form = "bare"   -> Base64(bytes, FALSE)
      [] form = "spaced" -> <<White>> \o Base64(bytes, TRUE) \o <<White>>
      [] form = "broken" -> Append(Base64(bytes, TRUE), None)
Header(login) ==
    IF login = None THEN None
    ELSE [scheme |-> login.scheme, text |-> Written(login.bytes, login.form)]

\* RFC 7617: UTF-8, a user without a colon, a colon, the password.
HasPassword(login) ==
    /\ login # None
    /\ login.scheme = "Basic " /\ login.form # "broken"
    /\ FromUtf8(login.bytes) = login.bytes
    /\ \E k \in DOMAIN login.bytes :
          LET user == SubSeq(login.bytes, 1, k - 1)
          IN  Colon \notin ToSet(user) /\ login.bytes = user \o <<Colon>> \o Secret

Known == [scheme |-> "Basic ", bytes |-> <<117, Colon>> \o Secret, form |-> "padded"]
Tried == {Known} \cup (IF item \in Suspects THEN Logins ELSE {})
ASSUME HeadersAssumption ==
    /\ Known # None
    /\ \A login \in Logins \cup {Known} : login # None => Header(login) # None

Plain(method, target) ==
    [method |-> method, target |-> target, query |-> None, plugin |-> FALSE, sync |-> FALSE,
     login |-> None, destination |-> None, body |-> "read"]
\* Whatever is asked is asked with any credentials.
Asks(r, answer) ==
    /\ request = None
    /\ \E login \in Tried :
          request' = [r EXCEPT !.login = Header(login)] /\ knows' = HasPassword(login)
    /\ meant' = answer
    /\ UNCHANGED <<item, entry, outcome>>

\* davfs2 has the entry's path from its href.
DavTarget(style) == Spelled(style, Unescaped(entry.href))
DavAsks ==
    /\ entry # None
    /\ \E style \in Styles, method \in DOMAIN DavHandlers :
          Asks(Plain(method, DavTarget(style)), Outcome(DavHandlers[method], item.path, None))
DavPutsTooMuch ==
    /\ entry # None
    /\ \E body \in {"too large", "failed"} :
          Asks([Plain("PUT", DavTarget("more")) EXCEPT !.body = body],
               Fails(IF body = "failed" THEN "400" ELSE "413"))
DavMoves ==
    /\ entry # None
    /\ \E style \in Styles, to \in Targets, host \in Loopbacks \cup {None, Foreign} :
          Asks([Plain("MOVE", DavTarget(style)) EXCEPT
                   !.destination = [host |-> host, path |-> Spelled(style, Rendered(to))]],
               IF host = Foreign THEN Fails("400") ELSE Outcome("move", item.path, to))

\* The plugin asks for a folder that a _tree has shown it.
PluginAsks ==
    /\ item.dir
    /\ \E style \in {"more", "all"} :
          Asks([Plain("GET", TreeTarget) EXCEPT
                   !.plugin = TRUE,
                   !.query = PathKey \o <<Equal>> \o Spelled(style, Rendered(item.path))],
               Outcome("tree", item.path, None))

\* The timer's request, and the plugin's for the status.
TimerOrPlugin(header) ==
    IF header = "sync" THEN [Plain("POST", <<Slash>>) EXCEPT !.sync = TRUE]
    ELSE [Plain("GET", StatusTarget) EXCEPT !.plugin = TRUE]
TimerOrPluginAsks ==
    \E header \in {"sync", "status"} : Asks(TimerOrPlugin(header), Outcome(header, None, None))

\* A path that no listing gave.
OddlySpelled ==
    \E ending \in Endings : Asks(Plain("GET", Spelled("more", Rendered(item.path)) \o ending), None)

ClientAsks ==
    \/ DavAsks \/ DavPutsTooMuch \/ DavMoves \/ PluginAsks \/ TimerOrPluginAsks \/ OddlySpelled

Next == Propfind \/ ClientAsks \/ Handle \/ Answered

Spec == Init /\ [][Next]_vars

-----------------------------------------------------------------------------
(***************************************************************************)
(* Properties                                                              *)
(***************************************************************************)
\* An href has no byte but those a URL's path may have anywhere, and whole escapes.
TypeOK ==
    /\ entry # None => /\ ToSet(entry.href) \subseteq Unreserved \cup {Slash, Percent}
                       /\ Unescaped(entry.href) # None
    /\ request # None => FromUtf8(request.target) = request.target
    /\ outcome # None => request # None

(***************************************************************************)
(* xml.rs: pct_decode is the "Inverse of pct_encode"; README: folders      *)
(* named _status, _tree and _search "stay reachable as WebDAV".  A client  *)
(* that makes a request, of any method, from the href of an entry gets     *)
(* the handler of the method for that entry, and a MOVE goes where it      *)
(* said, however it escapes paths; a Destination elsewhere is refused.     *)
(***************************************************************************)
HrefsLeadBack ==
    (outcome # None /\ entry # None /\ knows /\ meant # None /\ ~request.plugin /\ ~request.sync)
        => outcome = meant

(***************************************************************************)
(* lib.rs: "requires a shared-secret Authorization: Basic password".  Of   *)
(* all requests, by every method, of the timer, the plugin and odd ones    *)
(* too: those that have the password are let through, however they write   *)
(* it and whoever they say they are, and the timer and the plugin get what *)
(* they ask for; all others are told 401, and nothing else.                *)
(***************************************************************************)
PasswordDecides ==
    outcome # None =>
        /\ (outcome = Fails("401")) <=> ~knows
        /\ (knows /\ (request.sync \/ request.target = StatusTarget) /\ meant # None)
              => outcome = meant

(***************************************************************************)
(* lib.rs: "so nothing odd is ever forwarded into a Graph root:/...:       *)
(* address".  Whatever a client spells, Graph, which reads an address up   *)
(* to its colon, finds in it the path that the handler was given, and the  *)
(* path has no empty, "." or ".." segment and no control character.        *)
(***************************************************************************)
GraphReads(address) ==
    LET body == SubSeq(address, 3, Len(address) - 1)
    IN  IF address = <<>> THEN <<>>
        ELSE IF ToSet(body) \cap {Colon, 63, 35} # {} THEN None
        ELSE LET segments == Split(body, Slash)
             IN  [k \in DOMAIN segments |-> pct_decode(segments[k])]
GraphGetsThePath ==
    (outcome # None /\ outcome.path # None /\ outcome.handler # "search") =>
        /\ GraphReads(item_path_segment(outcome.path)) = outcome.path
        /\ \A k \in DOMAIN outcome.path :
              /\ outcome.path[k] \notin {<<>>, <<Dot>>, <<Dot, Dot>>}
              /\ \A i \in DOMAIN outcome.path[k] : outcome.path[k][i] \notin (0..31) \cup {127}

(***************************************************************************)
(* xml.rs: getlastmodified "MUST be an IMF-fixdate".  The date of a        *)
(* PROPFIND is the drive's, with the weekday the calendar has for it; a    *)
(* date before 1970 reads as the epoch.  The calendar is counted here year *)
(* by year and month by month.                                             *)
(***************************************************************************)
DaysBefore(y, m) ==
    LET months[k \in 1..12] == IF k = 1 THEN 0 ELSE months[k - 1] + MonthDays(y, k - 1)
    IN  365 * (y - 1970) + Cardinality({x \in 1970..(y - 1) : LeapYear(x)}) + months[m]
CalendarDate(stamp) ==
    IF stamp[1] < 1970
    THEN [weekday |-> 4, date |-> <<1970, 1, 1>>, time |-> <<0, 0, 0>>]
    ELSE [weekday |-> (4 + DaysBefore(stamp[1], stamp[2]) + stamp[3] - 1) % 7,
          date |-> SubSeq(stamp, 1, 3),
          time |-> SubSeq(stamp, 4, 6)]
DatesSurvive == entry # None => entry.modified = CalendarDate(item.stamp)

(***************************************************************************)
(* README: "GET /_tree?path=/... -- one directory of the index".  The path *)
(* of a folder that a _tree has shown gives that folder.                   *)
(***************************************************************************)
TreePathsLeadBack ==
    (outcome # None /\ knows /\ request.target = TreeTarget /\ request.plugin) => outcome = meant
=============================================================================

------------------------------ MODULE Encoding ------------------------------
(***************************************************************************)
(* The conversions between what clients send and show (URLs, credentials,  *)
(* dates) and what handlers work on: src/lib.rs, src/xml.rs, src/api.rs    *)
(* and the addresses of src/graph.rs.                                      *)
(*                                                                         *)
(* A string is a sequence of bytes.  Characters of more than two bytes do  *)
(* not occur.  A sanitized path is the sequence of its segments: "/" is    *)
(* the empty one.                                                          *)
(***************************************************************************)
EXTENDS Integers, Sequences, FiniteSets, SequencesExt

CONSTANT None   \* Option::None, and every Err
ASSUME NoneAssumption == None \notin Int /\ None \notin Seq(Int) /\ None \notin Seq(Seq(Int))

Slash == 47
Dot == 46
Percent == 37
Colon == 58
Ampersand == 38
Equal == 61
Alphanumeric == (48..57) \cup (65..90) \cup (97..122)
Unreserved == Alphanumeric \cup {45, 46, 95, 126}

\* The first position of byte b in s; 0 if there is none.
Find(s, b) ==
    LET at == {i \in DOMAIN s : s[i] = b}
    IN  IF at = {} THEN 0 ELSE CHOOSE i \in at : \A j \in at : i <= j
Before(s, i) == SubSeq(s, 1, i - 1)
After(s, i) == SubSeq(s, i + 1, Len(s))

\* What a `continue`, or a filter, leaves of s: all that is not in `dropped`.
Without(s, dropped) == FlattenSeq([i \in DOMAIN s |-> IF s[i] \in dropped THEN <<>> ELSE <<s[i]>>])

\* str::split
Split(s, b) ==
    LET from[i \in 1..(Len(s) + 1)] ==
            LET rest == from[i + 1]
            IN  IF i > Len(s) THEN <<<<>>>>
                ELSE IF s[i] = b THEN <<<<>>>> \o rest
                ELSE <<<<s[i]>> \o Head(rest)>> \o Tail(rest)
    IN  from[1]

-----------------------------------------------------------------------------
\* to_digit(16)
HexValue(b) ==
    CASE b \in 48..57  -> b - 48
      [] b \in 65..70  -> b - 55
      [] b \in 97..102 -> b - 87
      [] OTHER -> None

\* format!("%{b:02X}")
Hex(n) == IF n < 10 THEN 48 + n ELSE 55 + n
Escape(b) == <<Percent, Hex(b \div 16), Hex(b % 16)>>

\* Mutant of pct_encode: a percent sign is left as it is.
pct_encode_once(s) ==
    FlattenSeq([i \in DOMAIN s |->
                   IF s[i] \in Unreserved \cup {Slash, Percent} THEN <<s[i]>> ELSE Escape(s[i])])

pct_encode(s) ==
    FlattenSeq([i \in DOMAIN s |-> IF s[i] \in Unreserved \cup {Slash} THEN <<s[i]>> ELSE Escape(s[i])])

\* String::from_utf8: two-byte characters are whole.
Leads == 194..223
Follows == 128..191
FromUtf8(s) ==
    IF \A i \in DOMAIN s :
          /\ s[i] \in (0..127) \cup Leads \cup Follows
          /\ s[i] \in Leads => i < Len(s) /\ s[i + 1] \in Follows
          /\ s[i] \in Follows => i > 1 /\ s[i - 1] \in Leads
    THEN s ELSE None

\* The loop of pct_decode, from position i on.
Unescaped(s) ==
    LET escape(i) == IF i + 2 > Len(s) THEN <<None>> ELSE <<HexValue(s[i + 1]), HexValue(s[i + 2])>>
        from[i \in 1..(Len(s) + 1)] ==
            LET width == IF s[i] = Percent THEN 3 ELSE 1
                byte == IF width = 1 THEN s[i] ELSE 16 * escape(i)[1] + escape(i)[2]
                rest == from[i + width]
            IN  IF i > Len(s) THEN <<>>
                ELSE IF width = 3 /\ None \in ToSet(escape(i)) THEN None
                ELSE IF rest = None THEN None
                ELSE <<byte>> \o rest
    IN  from[1]
pct_decode(s) ==
    LET bytes == Unescaped(s) IN IF bytes = None THEN None ELSE FromUtf8(bytes)

-----------------------------------------------------------------------------
\* Mutant of sanitize_path: the segments are looked at before they are decoded.
sanitize_path_raw(raw) ==
    LET segments == Split(raw, Slash)
        kept == Without(segments, {<<>>, <<Dot>>})
    IN  IF pct_decode(raw) = None THEN None
        ELSE IF <<Dot, Dot>> \in ToSet(segments) THEN None
        ELSE [k \in DOMAIN kept |-> pct_decode(kept[k])]

sanitize_path(raw) ==
    LET decoded == pct_decode(raw)
        segments == Split(decoded, Slash)
    IN  IF decoded = None THEN None
        ELSE IF \E i \in DOMAIN decoded : decoded[i] < 32 \/ decoded[i] = 127 THEN None
        ELSE IF <<Dot, Dot>> \in ToSet(segments) THEN None
        ELSE Without(segments, {<<>>, <<Dot>>})

\* A path as a string.
Rendered(path) ==
    IF path = <<>> THEN <<Slash>>
    ELSE FlattenSeq([k \in DOMAIN path |-> <<Slash>> \o path[k]])

\* response_xml of an entry: its D:href.
Href(path, dir) ==
    LET href == pct_encode(Rendered(path))
    IN  IF dir /\ Last(href) # Slash THEN Append(href, Slash) ELSE href

(***************************************************************************)
(* destination_path.  A Destination is where it points (None for a bare    *)
(* path, else the host of the URL) and the path, which may be empty.       *)
(***************************************************************************)
destination_path(dest, loopbacks) ==
    IF dest.host = None THEN dest.path
    ELSE IF dest.host \notin loopbacks THEN None
    ELSE IF dest.path = <<>> THEN <<Slash>>
    ELSE dest.path

\* query_param: the value of the first pair with the key, decoded if it decodes.
query_param(query, key) ==
    LET pairs == Split(query, Ampersand)
        hits == {i \in DOMAIN pairs :
                    Find(pairs[i], Equal) # 0 /\ Before(pairs[i], Find(pairs[i], Equal)) = key}
        pair == pairs[CHOOSE i \in hits : \A j \in hits : i <= j]
        value == After(pair, Find(pair, Equal))
    IN  IF query = None \/ hits = {} THEN None
        ELSE IF pct_decode(value) = None THEN value
        ELSE pct_decode(value)

\* item_path_segment, after ".../root"
item_path_segment(path) ==
    IF path = <<>> THEN <<>>
    ELSE <<Colon>> \o FlattenSeq([k \in DOMAIN path |-> <<Slash>> \o pct_encode(path[k])]) \o <<Colon>>

-----------------------------------------------------------------------------
(***************************************************************************)
(* base64_decode of a text whose symbols are their values 0..63, Pad,      *)
(* White or None (anything else).  The arithmetic is that of u8.           *)
(***************************************************************************)
Pad == 64     \* "="
White == 65   \* is_ascii_whitespace
U8(n) == n % 256

\* The bytes of a chunk of one to four symbols.
Octets(v) ==
    LET w == v \o <<0, 0, 0>>
        octets == <<U8(4 * w[1]) + w[2] \div 16, U8(16 * w[2]) + w[3] \div 4, U8(64 * w[3]) + w[4]>>
    IN  SubSeq(octets, 1, IF Len(v) = 1 THEN 1 ELSE Len(v) - 1)

base64_decode(text) ==
    LET clean == Without(text, {Pad, White})
        chunk(k) == SubSeq(clean, 4 * k - 3, IF 4 * k < Len(clean) THEN 4 * k ELSE Len(clean))
    IN  IF None \in ToSet(clean) THEN None
        ELSE FlattenSeq([k \in 1..((Len(clean) + 3) \div 4) |-> Octets(chunk(k))])

(***************************************************************************)
(* check_basic_auth: `secret` is config.basic_auth_secret, `header` the    *)
(* Authorization header, its scheme and its text.                          *)
(***************************************************************************)
check_basic_auth(secret, header) ==
    LET bytes == base64_decode(header.text)
        decoded == FromUtf8(bytes)
    IN  \/ secret = None
        \/ /\ header # None /\ header.scheme = "Basic "
           /\ bytes # None /\ decoded # None
           /\ Find(decoded, Colon) # 0
           /\ After(decoded, Find(decoded, Colon)) = secret

-----------------------------------------------------------------------------
(***************************************************************************)
(* Dates.  Unix seconds are a pair of days and seconds of the day.         *)
(***************************************************************************)
Unix(days, secs) == [days |-> days + secs \div 86400, secs |-> secs % 86400]

\* Mutant of Leaps: every fourth year is a leap year.
LeapsJulian(years) == years \div 4

\* The leap days of so many years, but for the 400th.
Leaps(years) == years \div 4 - years \div 100

days_from_civil(y0, m, d) ==
    LET y == IF m <= 2 THEN y0 - 1 ELSE y0
        era == y \div 400
        yoe == y - era * 400
        mp == IF m > 2 THEN m - 3 ELSE m + 9
        doy == (153 * mp + 2) \div 5 + d - 1
        doe == yoe * 365 + Leaps(yoe) + doy
    IN  era * 146097 + doe - 719468

\* parse_iso8601_to_unix of the numbers in a timestamp.
parse_iso8601_to_unix(stamp) ==
    IF Len(stamp) < 6 THEN Unix(0, 0)
    ELSE LET unix == Unix(days_from_civil(stamp[1], stamp[2], stamp[3]),
                          3600 * stamp[4] + 60 * stamp[5] + stamp[6])
         IN  IF unix.days < 0 THEN Unix(0, 0) ELSE unix

civil_from_days(z0) ==
    LET z == z0 + 719468
        era == z \div 146097
        doe == z - era * 146097
        yoe == (doe - doe \div 1460 + doe \div 36524 - doe \div 146096) \div 365
        doy == doe - (365 * yoe + Leaps(yoe))
        mp == (5 * doy + 2) \div 153
        m == IF mp < 10 THEN mp + 3 ELSE mp - 9
    IN  <<yoe + era * 400 + (IF m <= 2 THEN 1 ELSE 0), m, doy - (153 * mp + 2) \div 5 + 1>>

\* http_date: weekday (0 is Sunday), date and time.
http_date(unix) ==
    [weekday |-> ((unix.days % 7) + 11) % 7,
     date |-> civil_from_days(unix.days),
     time |-> <<unix.secs \div 3600, (unix.secs \div 60) % 60, unix.secs % 60>>]
=============================================================================

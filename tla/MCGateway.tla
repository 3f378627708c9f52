------------------------------ MODULE MCGateway -----------------------------
(***************************************************************************)
(* Names with what escaping has to get right: percent signs before hex     *)
(* digits, dots, spaces, delimiters of URLs and queries, a two-byte        *)
(* character, the names of the plugin's endpoints; and the days around     *)
(* which calendars go wrong.                                               *)
(***************************************************************************)
EXTENDS Gateway

\* a % 2 F . space & + # e-acute
Characters == {<<97>>, <<37>>, <<50>>, <<70>>, <<46>>, <<32>>, <<38>>, <<43>>, <<35>>, <<195, 169>>}
Dots == {<<46>>, <<46, 46>>}
ShortNames == (Characters \cup {c \o d : c, d \in Characters}) \ Dots
\* %2F, %2e, %25a, ..., _tree, _status, _search
LongNames == {<<37, 50, 70>>, <<37, 50, 101>>, <<37, 50, 53, 97>>, <<46, 46, 46>>,
              Tail(TreeTarget), Tail(StatusTarget), Tail(SearchTarget)}
DrivePaths ==
    {<<>>} \cup {<<name>> : name \in ShortNames \cup LongNames}
    \cup {<<c, d>> : c, d \in Characters \ Dots}

AnyDay == <<2026, 1, 12, 8, 30, 0>>
Years == {1, 1969, 1970, 1972, 2000, 2026, 2100, 2400}
Stamps ==
    {<<y, m, day, t[1], t[2], t[3]>> :
        y \in Years, m \in 1..12, day \in {1, 28, 29, 31}, t \in {<<0, 0, 0>>, <<23, 59, 59>>}}
RealStamps == {stamp \in Stamps : stamp[3] <= MonthDays(stamp[1], stamp[2])}

SmallItems ==
    {[path |-> path, dir |-> dir, stamp |-> AnyDay] : path \in DrivePaths, dir \in BOOLEAN}
    \cup {[path |-> <<>>, dir |-> TRUE, stamp |-> stamp] : stamp \in RealStamps}

MoveTargets == {<<<<97>>>>, <<<<37, 50, 53>>, <<46, 97>>>>, <<<<35, 32>>>>}

\* / // /. /.. /%2e. /%2F.. %00 %0A%7f %2 % %C3 %zz ? /a/..
OddEndings ==
    {<<47>>, <<47, 47>>, <<47, 46>>, <<47, 46, 46>>, <<47, 37, 50, 101, 46>>, <<37, 50, 70, 46, 46>>,
     <<37, 48, 48>>, <<37, 48, 65, 37, 55, 102>>, <<37, 50>>, <<37>>, <<37, 67, 51>>, <<37, 122, 122>>,
     <<47, 97, 47, 46, 46>>, <<47, 58, 47>>, <<37, 50, 53, 50, 101>>, <<37, 51, 70>>}

\* p:(e-acute)9, which has a colon and a two-byte character
SharedSecret == <<112, 58, 195, 169, 57>>
Passwords ==
    {SharedSecret, <<>>, <<112>>, SubSeq(SharedSecret, 1, 4), Append(SharedSecret, 57),
     <<58>> \o SharedSecret, <<112, 58, 195, 169, 56>>, <<195>>}
\* "", u, uv, u:, half a character; a login without a colon, too
UserPasswords ==
    {user \o <<58>> \o pass : user \in {<<>>, <<117>>, <<117, 118>>, <<117, 58>>, <<195>>},
                              pass \in Passwords}
    \cup {<<>>, <<117>>, <<57>>}
TriedLogins ==
    {None}
    \cup {[scheme |-> "Basic ", bytes |-> bytes, form |-> form] : bytes \in UserPasswords, form \in Forms}
    \cup {[scheme |-> scheme, bytes |-> <<117, 58>> \o SharedSecret, form |-> "padded"] :
            scheme \in {"Bearer ", "basic ", "Basic", ""}}

\* The root, a file "%2F" and a folder "_status"
SuspectItems ==
    {[path |-> <<>>, dir |-> TRUE, stamp |-> AnyDay],
     [path |-> <<<<37, 50, 70>>>>, dir |-> FALSE, stamp |-> AnyDay],
     [path |-> <<Tail(StatusTarget)>>, dir |-> TRUE, stamp |-> AnyDay]}
=============================================================================

------------------------------- MODULE Upload -------------------------------
(***************************************************************************)
(* PUT of a file's content (src/graph.rs put_content): one request for a   *)
(* small body, an upload session and a sequence of chunks for a large one. *)
(* Every request may fail before the drive acts on it or after, a small    *)
(* PUT may be carried out late, and the guest may be lost.  Bodies are     *)
(* told apart by the number of the PUT that brought them; only their sizes *)
(* are looked at.                                                          *)
(***************************************************************************)
EXTENDS Integers, FiniteSets

CONSTANTS
    Sizes,              \* of the bodies clients send
    MaxSimple,          \* MAX_SIMPLE_UPLOAD_BYTES
    Chunk,              \* UPLOAD_CHUNK_BYTES
    MaxUpload,          \* MAX_UPLOAD_BYTES
    Unit,               \* the drive takes chunks in multiples of it (external)
    MaxPuts, MaxFaults  \* bounds

ASSUME LimitsAssumption ==
    /\ Sizes \subseteq Nat
    /\ MaxSimple \in Nat /\ MaxUpload \in Nat
    /\ Chunk \in Nat \ {0} /\ Unit \in Nat \ {0} /\ Chunk % Unit = 0
    /\ MaxPuts \in Nat /\ MaxFaults \in Nat

VARIABLES
    drive,      \* the file: the PUT its content is of, and how many bytes of it
    sessions,   \* the upload sessions the drive holds open
    late,       \* simple PUTs the code gave up on and the drive has yet to carry out
    pc,         \* where put_content is
    put,        \* number of PUTs so far, the current one included
    size,       \* bytes.len()
    offset,
    faults,     \* requests and guests that failed
    leaks       \* ... those after which nobody is left to close a session
vars == <<drive, sessions, late, pc, put, size, offset, faults, leaks>>

File == [put : Nat, size : Nat]
Session == [put : Nat, got : Nat]
Stages == {"idle", "simple", "create", "chunk", "cancel", "stored", "failed", "too_large"}

TypeOK ==
    /\ drive \in File /\ sessions \subseteq Session /\ late \subseteq File
    /\ pc \in Stages
    /\ put \in Nat /\ size \in Nat /\ offset \in 0..size
    /\ faults \in Nat /\ leaks \in Nat

Before == [put |-> 0, size |-> 0]
Init ==
    /\ drive = Before /\ sessions = {} /\ late = {}
    /\ pc = "idle" /\ put = 0 /\ size = 0 /\ offset = 0
    /\ faults = 0 /\ leaks = 0

-----------------------------------------------------------------------------
(***************************************************************************)
(* A request: answered as it should be, done but not answered (or not with *)
(* what the code expects), or not done.                                    *)
(***************************************************************************)
Outcomes == {"answered", "unanswered", "undone"}
Costs(outcome) ==
    IF outcome = "answered" THEN UNCHANGED faults
    ELSE faults < MaxFaults /\ faults' = faults + 1
Content == [put |-> put, size |-> size]

\* Mutant of Route: the limit of a simple upload is not looked at.
RouteByOneLimit(bytes) == IF bytes > MaxUpload THEN "too_large" ELSE "simple"

\* dav::put, put_content.
Route(bytes) ==
    IF bytes > MaxUpload THEN "too_large"
    ELSE IF bytes > MaxSimple THEN "create"
    ELSE "simple"

Receive(bytes) ==
    /\ pc = "idle" /\ put < MaxPuts
    /\ put' = put + 1 /\ size' = bytes /\ offset' = 0
    /\ pc' = Route(bytes)
    /\ UNCHANGED <<drive, sessions, late, faults, leaks>>

(***************************************************************************)
(* put_simple; the drive (external) refuses more than MaxSimple bytes.  A  *)
(* request given up on ("late") may reach the drive after the next PUT.    *)
(***************************************************************************)
PutSimple(outcome) ==
    /\ pc = "simple"
    /\ Costs(outcome)
    /\ IF outcome \in {"answered", "unanswered"} /\ size <= MaxSimple
       THEN drive' = Content ELSE UNCHANGED drive
    /\ late' = IF outcome = "late" /\ size <= MaxSimple THEN late \cup {Content} ELSE late
    /\ pc' = IF outcome = "answered" /\ size <= MaxSimple THEN "stored" ELSE "failed"
    /\ UNCHANGED <<sessions, put, size, offset, leaks>>

\* The drive (external) carries out a request nobody waits for.
CarryOut(content) ==
    /\ content \in late
    /\ drive' = content /\ late' = late \ {content}
    /\ UNCHANGED <<sessions, pc, put, size, offset, faults, leaks>>

\* createUploadSession: if its answer is lost, so is the uploadUrl.
CreateSession(outcome) ==
    /\ pc = "create" /\ outcome \in Outcomes
    /\ Costs(outcome)
    /\ IF outcome # "undone"
       THEN sessions' = sessions \cup {[put |-> put, got |-> 0]} ELSE UNCHANGED sessions
    /\ leaks' = IF outcome = "unanswered" THEN leaks + 1 ELSE leaks
    /\ pc' = IF outcome = "answered" THEN "chunk" ELSE "failed"
    /\ UNCHANGED <<drive, late, put, size, offset>>

\* Mutants of End: not cut at the end of the body; of Total: the bytes sent so far.
EndPast(from, bytes) == from + Chunk
TotalSoFar(to, bytes) == to

\* The end of the chunk that begins at from, and the total its range states.
End(from, bytes) == IF from + Chunk < bytes THEN from + Chunk ELSE bytes
Total(to, bytes) == bytes

\* The drive (external) takes chunks in order, of whole units but for the last.
Takes(session, from, to, total) ==
    session \in sessions /\ session.got = from /\ (to = total \/ (to - from) % Unit = 0)

\* One turn of the loop: 202 for a chunk, 200 or 201 for the last.
SendChunk(outcome) ==
    /\ pc = "chunk" /\ outcome \in Outcomes
    /\ Costs(outcome)
    /\ LET to == End(offset, size)
           total == Total(to, size)
           session == [put |-> put, got |-> offset]
           taken == Takes(session, offset, to, total)
       IN  /\ IF outcome = "undone" \/ ~taken THEN UNCHANGED <<drive, sessions>>
              ELSE IF to = total
              THEN drive' = [Content EXCEPT !.size = to] /\ sessions' = sessions \ {session}
              ELSE /\ sessions' = (sessions \ {session}) \cup {[put |-> put, got |-> to]}
                   /\ UNCHANGED drive
           /\ IF outcome = "answered" /\ taken /\ (to = total <=> to = size)
              THEN offset' = to /\ pc' = IF to = size THEN "stored" ELSE "chunk"
              ELSE UNCHANGED offset /\ pc' = "cancel"
    /\ UNCHANGED <<late, put, size, leaks>>

\* Mutant of Cancel: the DELETE is left out.
CancelNothing(outcome) ==
    /\ pc = "cancel" /\ outcome = "answered"
    /\ pc' = "failed"
    /\ UNCHANGED <<drive, sessions, late, put, size, offset, faults, leaks>>

\* result.is_err(): the DELETE's own answer is not looked at.
Cancel(outcome) ==
    /\ pc = "cancel" /\ outcome \in Outcomes
    /\ Costs(outcome)
    /\ IF outcome = "undone"
       THEN leaks' = leaks + 1 /\ UNCHANGED sessions
       ELSE sessions' = {s \in sessions : s.put # put} /\ UNCHANGED leaks
    /\ pc' = "failed"
    /\ UNCHANGED <<drive, late, put, size, offset>>

\* 201, 502 or 413 (after a 201 the index is patched: IndexSync).
Reply ==
    /\ pc \in {"stored", "failed", "too_large"} /\ pc' = "idle"
    /\ UNCHANGED <<drive, sessions, late, put, size, offset, faults, leaks>>

LoseGuest ==
    /\ pc # "idle" /\ pc' = "idle"
    /\ faults < MaxFaults /\ faults' = faults + 1 /\ leaks' = leaks + 1
    /\ UNCHANGED <<drive, sessions, late, put, size, offset>>

\* The request that put_content is about to send has the outcome.
Request(outcome) ==
    PutSimple(outcome) \/ CreateSession(outcome) \/ SendChunk(outcome) \/ Cancel(outcome)

Step == Reply \/ \E outcome \in Outcomes \cup {"late"} : Request(outcome)
Next ==
    \/ \E bytes \in Sizes : Receive(bytes)
    \/ Step \/ LoseGuest
    \/ \E content \in late : CarryOut(content)

Spec == Init /\ [][Next]_vars

-----------------------------------------------------------------------------
(***************************************************************************)
(* dav.rs answers 201 only for what the drive has stored whole, whatever   *)
(* its size and however it was cut: a reader sees the old content or all   *)
(* of the new, chunks change nothing before the last, and a late PUT may   *)
(* only bring back an earlier body, as a whole.                            *)
(***************************************************************************)
Bodies == [put : 1..MaxPuts, size : Sizes]
UnderWay == \/ pc \in {"simple", "create"}
            \/ pc \in {"chunk", "cancel"} /\ \E s \in sessions : s.put = put
Files == INSTANCE FileStore
            WITH file <- drive,
                 open <- late \cup (IF UnderWay THEN {Content} ELSE {}),
                 done <- IF pc = "stored" THEN {Content} ELSE {}
PutsAreStores == Files!Spec

(***************************************************************************)
(* put_content and the drive agree on sizes, ranges and statuses: a PUT    *)
(* fails only if a request did, at every boundary of the three limits.     *)
(***************************************************************************)
OnlyFaultsFail == faults = 0 => pc \notin {"cancel", "failed"}

(***************************************************************************)
(* put_chunked: "if result.is_err()" closes the session.  One is left open *)
(* only where nobody could close it or the DELETE itself failed.           *)
(***************************************************************************)
SessionsClosed ==
    Cardinality(sessions) <= leaks + (IF pc \in {"chunk", "cancel"} THEN 1 ELSE 0)
=============================================================================

---------------------------- MODULE UploadProofs ----------------------------
(***************************************************************************)
(* Proofs about Upload and Outbound, for bodies of any size, any limits,   *)
(* any chunk size that is a multiple of the drive's unit, any number of    *)
(* failures, and any size of the guest's writes and of the pipe.           *)
(***************************************************************************)
EXTENDS Outbound, FiniteSetTheorems, TLAPS

(***************************************************************************)
(* How far put_content has come: the session of the PUT has exactly the    *)
(* bytes before offset, and something is left to send.                     *)
(***************************************************************************)
Progress ==
    /\ pc = "simple" => size <= MaxSimple
    /\ pc = "create" => offset = 0 /\ size > 0
    /\ pc = "chunk" => offset < size /\ [put |-> put, got |-> offset] \in sessions

Outcome == faults = 0 => pc \notin {"cancel", "failed"}

UploadInv == TypeOK /\ Progress /\ Outcome

-----------------------------------------------------------------------------
\* End: the next chunk is not empty, not beyond the body, and of whole units but for the last.
LEMMA ChunkFits ==
  ASSUME NEW bytes \in Nat, NEW from \in Nat, from < bytes
  PROVE  /\ End(from, bytes) \in Nat
         /\ from < End(from, bytes) /\ End(from, bytes) <= bytes
         /\ End(from, bytes) # bytes => (End(from, bytes) - from) % Unit = 0
<1>1. Chunk \in Nat \ {0} /\ Chunk % Unit = 0
  BY LimitsAssumption
<1>2. CASE from + Chunk < bytes
  <2>1. End(from, bytes) = from + Chunk
    BY <1>2 DEF End
  <2>2. (from + Chunk) - from = Chunk
    BY <1>1
  <2> QED
    BY <1>1, <1>2, <2>1, <2>2
<1>3. CASE ~(from + Chunk < bytes)
  BY <1>3 DEF End
<1> QED
  BY <1>2, <1>3

\* At the start nothing is under way.
LEMMA InitUpload == Init => UploadInv
  BY DEF Init, Before, UploadInv, TypeOK, Progress, Outcome, File, Session, Stages

\* An outcome other than an answer is a fault, and faults are not forgotten.
LEMMA CostsFaults ==
  ASSUME NEW outcome, Costs(outcome), faults \in Nat
  PROVE  faults' \in Nat /\ (outcome # "answered" => faults' # 0) /\ (faults' = 0 => faults = 0)
  BY DEF Costs

\* A new PUT starts at offset 0, without a session.
LEMMA ReceiveUpload ==
  ASSUME UploadInv, NEW bytes \in Sizes, Receive(bytes) PROVE UploadInv'
<1>1. bytes \in Nat
  BY LimitsAssumption
<1>2. Route(bytes) \in {"too_large", "create", "simple"}
      /\ (Route(bytes) = "simple" => bytes <= MaxSimple)
      /\ (Route(bytes) = "create" => bytes > 0)
  BY <1>1, LimitsAssumption DEF Route
<1>3. put' \in Nat /\ size' = bytes /\ offset' = 0 /\ pc' = Route(bytes)
  BY DEF Receive, UploadInv, TypeOK
<1>4. TypeOK'
  BY <1>1, <1>2, <1>3 DEF Receive, UploadInv, TypeOK, Stages
<1>5. Progress'
  BY <1>2, <1>3 DEF Progress
<1>6. Outcome'
  BY <1>2, <1>3 DEF Outcome
<1> QED
  BY <1>4, <1>5, <1>6 DEF UploadInv

\* A chunk that is answered takes the session to where the next one starts.
LEMMA SendChunkUpload ==
  ASSUME UploadInv, NEW outcome, SendChunk(outcome) PROVE UploadInv'
<1> DEFINE to == End(offset, size)
           session == [put |-> put, got |-> offset]
           next == [put |-> put, got |-> to]
<1>1. size \in Nat /\ offset \in Nat /\ put \in Nat /\ offset < size /\ session \in sessions
  BY DEF SendChunk, UploadInv, TypeOK, Progress
<1>2. to \in Nat /\ offset < to /\ to <= size /\ (to # size => (to - offset) % Unit = 0)
  BY <1>1, ChunkFits
<1>3. Total(to, size) = size /\ Takes(session, offset, to, size)
  BY <1>1, <1>2 DEF Total, Takes
<1>4. Content \in File /\ [Content EXCEPT !.size = to] \in File /\ next \in Session
  BY <1>1, <1>2 DEF Content, File, Session
<1>5. to = size => [Content EXCEPT !.size = to] = Content
  BY DEF Content
<1> HIDE DEF to, session, next
<1>6. /\ outcome \in Outcomes /\ Costs(outcome)
      /\ \/ outcome = "undone" /\ UNCHANGED <<drive, sessions>>
         \/ to = size /\ drive' = Content /\ sessions' = sessions \ {session}
         \/ to # size /\ UNCHANGED drive /\ sessions' = (sessions \ {session}) \cup {next}
      /\ \/ /\ outcome = "answered" /\ offset' = to
            /\ pc' = IF to = size THEN "stored" ELSE "chunk"
         \/ outcome # "answered" /\ UNCHANGED offset /\ pc' = "cancel"
  BY <1>3, <1>5 DEF SendChunk, to, session, next
<1>7. UNCHANGED <<late, put, size, leaks>>
  BY DEF SendChunk
<1>8. faults' \in Nat /\ (outcome # "answered" => faults' # 0) /\ (faults' = 0 => faults = 0)
  BY <1>6, CostsFaults DEF UploadInv, TypeOK
<1>9. TypeOK'
  BY <1>1, <1>2, <1>4, <1>6, <1>7, <1>8 DEF UploadInv, TypeOK, Stages
<1>10. Progress'
  <2>1. pc' \in {"stored", "chunk", "cancel"}
    BY <1>6
  <2>2. ASSUME pc' = "chunk" PROVE offset' < size' /\ [put |-> put', got |-> offset'] \in sessions'
    <3>1. to # size /\ offset' = to /\ sessions' = (sessions \ {session}) \cup {next}
      BY <1>6, <2>2
    <3> QED
      BY <1>2, <1>1, <1>7, <3>1 DEF next
  <2> QED
    BY <2>1, <2>2 DEF Progress
<1>11. Outcome'
  BY <1>6, <1>8 DEF Outcome
<1> QED
  BY <1>9, <1>10, <1>11 DEF UploadInv

\* Every step keeps the invariant.
LEMMA UploadStep == UploadInv /\ [Next]_vars => UploadInv'
<1> SUFFICES ASSUME UploadInv, [Next]_vars PROVE UploadInv'
  OBVIOUS
<1> USE DEF UploadInv, TypeOK, Progress, Outcome, Stages, Content
<1>1. ASSUME NEW bytes \in Sizes, Receive(bytes) PROVE UploadInv'
  BY <1>1, ReceiveUpload
<1>2. ASSUME NEW outcome \in Outcomes \cup {"late"}, PutSimple(outcome) PROVE UploadInv'
  <2>1. size <= MaxSimple /\ Content \in File
    BY <1>2 DEF PutSimple, File
  <2>2. /\ Costs(outcome)
        /\ drive' \in {drive, Content} /\ late' \in {late, late \cup {Content}}
        /\ pc' = IF outcome = "answered" THEN "stored" ELSE "failed"
    BY <1>2, <2>1 DEF PutSimple
  <2>3. faults' \in Nat /\ (outcome # "answered" => faults' # 0)
    BY <2>2, CostsFaults
  <2> QED
    BY <1>2, <2>1, <2>2, <2>3 DEF PutSimple, Outcomes
<1>3. ASSUME NEW outcome \in Outcomes \cup {"late"}, CreateSession(outcome) PROVE UploadInv'
  <2>1. /\ outcome \in Outcomes /\ Costs(outcome)
        /\ IF outcome # "undone"
           THEN sessions' = sessions \cup {[put |-> put, got |-> 0]} ELSE UNCHANGED sessions
        /\ leaks' = IF outcome = "unanswered" THEN leaks + 1 ELSE leaks
        /\ pc' = IF outcome = "answered" THEN "chunk" ELSE "failed"
    BY <1>3 DEF CreateSession
  <2>2. faults' \in Nat /\ (outcome # "answered" => faults' # 0)
    BY <2>1, CostsFaults
  <2>3. sessions' \subseteq Session /\ leaks' \in Nat
    BY <2>1 DEF Session
  <2>4. TypeOK'
    BY <1>3, <2>1, <2>2, <2>3 DEF CreateSession
  <2>5. Progress' /\ Outcome'
    BY <1>3, <2>1, <2>2 DEF CreateSession, Outcomes
  <2> QED
    BY <2>4, <2>5
<1>4. ASSUME NEW outcome \in Outcomes \cup {"late"}, SendChunk(outcome) PROVE UploadInv'
  BY <1>4, SendChunkUpload
<1>5. ASSUME NEW outcome \in Outcomes \cup {"late"}, Cancel(outcome) PROVE UploadInv'
  <2>1. /\ Costs(outcome)
        /\ IF outcome = "undone"
           THEN leaks' = leaks + 1 /\ UNCHANGED sessions
           ELSE sessions' = {s \in sessions : s.put # put} /\ UNCHANGED leaks
    BY <1>5 DEF Cancel
  <2>2. faults' \in Nat /\ (faults' = 0 => faults = 0)
    BY <2>1, CostsFaults
  <2>3. sessions' \subseteq Session /\ leaks' \in Nat
    BY <2>1
  <2> QED
    BY <1>5, <2>2, <2>3 DEF Cancel
<1>6. CASE Reply
  BY <1>6 DEF Reply
<1>7. CASE LoseGuest
  BY <1>7 DEF LoseGuest
<1>8. ASSUME NEW content \in late, CarryOut(content) PROVE UploadInv'
  BY <1>8 DEF CarryOut
<1>9. CASE UNCHANGED vars
  BY <1>9 DEF vars
<1> QED
  BY <1>1, <1>2, <1>3, <1>4, <1>5, <1>6, <1>7, <1>8, <1>9 DEF Next, Step, Request

\* So it holds in every state.
LEMMA UploadAlways == Spec => []UploadInv
  BY InitUpload, UploadStep, PTL DEF Spec

(***************************************************************************)
(* Type correctness; the slice of a chunk lies within the body.            *)
(***************************************************************************)
THEOREM UploadTypes == Spec => []TypeOK
  BY UploadAlways, PTL DEF UploadInv

(***************************************************************************)
(* put_content never asks for what the drive refuses: sizes, ranges and    *)
(* units fit at every boundary, so a PUT fails only if a request did.      *)
(***************************************************************************)
THEOREM FailuresAreFaults == Spec => []OnlyFaultsFail
<1>1. UploadInv => OnlyFaultsFail
  BY DEF UploadInv, Outcome, OnlyFaultsFail
<1> QED
  BY <1>1, UploadAlways, PTL

-----------------------------------------------------------------------------
(***************************************************************************)
(* Sessions of earlier PUTs are all leaked; the current PUT has one at     *)
(* most, and none before it is created.                                    *)
(***************************************************************************)
Others == {s \in sessions : s.put # put}
Open == pc \in {"chunk", "cancel"}

Accounted ==
    /\ IsFiniteSet(sessions)
    /\ \A s \in sessions : s.put <= put /\ (pc = "create" => s.put < put)
    /\ Open => /\ Cardinality(Others) <= leaks
               /\ \E got \in Nat : sessions \subseteq Others \cup {[put |-> put, got |-> got]}
    /\ ~Open => Cardinality(sessions) <= leaks

\* The number of sessions of a set and at most one more.
LEMMA OneMore ==
  ASSUME NEW S, NEW T, NEW x, IsFiniteSet(T), S \subseteq T \cup {x}
  PROVE  IsFiniteSet(S) /\ Cardinality(S) \in Nat /\ Cardinality(T) \in Nat
         /\ Cardinality(S) <= Cardinality(T) + 1
<1>1. IsFiniteSet(T \cup {x}) /\ Cardinality(T) \in Nat
      /\ Cardinality(T \cup {x}) <= Cardinality(T) + 1
  BY FS_AddElement, FS_CardinalityType
<1>2. IsFiniteSet(S) /\ Cardinality(S) <= Cardinality(T \cup {x}) /\ Cardinality(T \cup {x}) \in Nat
  BY <1>1, FS_Subset, FS_CardinalityType
<1>3. Cardinality(S) \in Nat
  BY <1>2, FS_CardinalityType
<1> QED
  BY <1>1, <1>2, <1>3

\* Sessions that are accounted for are closed, but for the leaks.
LEMMA AccountedIsClosed == UploadInv /\ Accounted => SessionsClosed
<1> SUFFICES ASSUME UploadInv, Accounted PROVE SessionsClosed
  OBVIOUS
<1>1. leaks \in Nat /\ IsFiniteSet(sessions)
  BY DEF UploadInv, TypeOK, Accounted
<1>2. CASE Open
  <2>1. PICK got \in Nat : sessions \subseteq Others \cup {[put |-> put, got |-> got]}
    BY <1>2 DEF Accounted
  <2>2. IsFiniteSet(Others)
    BY <1>1, FS_Subset DEF Others
  <2>3. /\ Cardinality(sessions) \in Nat /\ Cardinality(Others) \in Nat
        /\ Cardinality(sessions) <= Cardinality(Others) + 1
    BY <2>1, <2>2, OneMore
  <2>4. Cardinality(Others) <= leaks
    BY <1>2 DEF Accounted
  <2> QED
    BY <1>1, <1>2, <2>3, <2>4 DEF SessionsClosed, Open
<1>3. CASE ~Open
  BY <1>1, <1>3, FS_CardinalityType DEF Accounted, SessionsClosed, Open
<1> QED
  BY <1>2, <1>3

\* Every step that leaves a session behind counts it.
LEMMA AccountedStep == UploadInv /\ UploadInv' /\ Accounted /\ [Next]_vars => Accounted'
<1> SUFFICES ASSUME UploadInv, UploadInv', Accounted, [Next]_vars PROVE Accounted'
  OBVIOUS
<1>1. /\ leaks \in Nat /\ put \in Nat /\ offset \in Nat /\ sessions \subseteq Session
      /\ IsFiniteSet(sessions) /\ Cardinality(sessions) \in Nat
  BY FS_CardinalityType DEF UploadInv, TypeOK, Accounted
<1>2. Others \subseteq sessions /\ IsFiniteSet(Others) /\ Cardinality(Others) \in Nat
  BY <1>1, FS_Subset, FS_CardinalityType DEF Others
<1>3. \A s \in sessions : s.put \in Nat /\ s.put <= put
  BY <1>1 DEF Session, Accounted
<1>4. ASSUME NEW bytes \in Sizes, Receive(bytes) PROVE Accounted'
  <2>1. pc = "idle" /\ ~Open /\ ~Open'
    BY <1>4 DEF Receive, Route, Open
  <2> QED
    BY <1>1, <1>3, <1>4, <2>1 DEF Receive, Accounted
<1>5. ASSUME NEW outcome \in Outcomes \cup {"late"}, PutSimple(outcome) PROVE Accounted'
  BY <1>5 DEF PutSimple, Accounted, Open
<1>6. ASSUME NEW outcome \in Outcomes \cup {"late"}, CreateSession(outcome) PROVE Accounted'
  <2>1. \A s \in sessions : s.put < put /\ s.put # put
    BY <1>1, <1>3, <1>6 DEF CreateSession, Accounted
  <2>2. Cardinality(sessions) <= leaks /\ Others = sessions
    BY <1>6, <2>1 DEF CreateSession, Accounted, Open, Others
  <2>3. sessions' \subseteq sessions \cup {[put |-> put, got |-> 0]} /\ put' = put
    BY <1>6 DEF CreateSession
  <2>4. IsFiniteSet(sessions') /\ Cardinality(sessions') <= Cardinality(sessions) + 1
        /\ Cardinality(sessions') \in Nat
    BY <1>1, <2>3, OneMore
  <2>5. \A s \in sessions' : s.put <= put' /\ pc' # "create"
    BY <1>1, <1>3, <1>6, <2>3 DEF CreateSession
  <2>6. CASE pc' = "chunk"
    <3>1. leaks' = leaks
      BY <1>6, <2>6 DEF CreateSession
    <3>2. Others' = sessions
      <4>1. sessions' = sessions \cup {[put |-> put, got |-> 0]}
        BY <1>6, <2>6 DEF CreateSession
      <4> QED
        BY <2>1, <2>3, <4>1 DEF Others
    <3> QED
      BY <1>1, <2>2, <2>3, <2>4, <2>5, <2>6, <3>1, <3>2 DEF Accounted, Open
  <2>7. CASE pc' # "chunk"
    <3>1. pc' = "failed" /\ ((sessions' = sessions /\ leaks' = leaks) \/ leaks' = leaks + 1)
      BY <1>6, <2>7 DEF CreateSession, Outcomes
    <3> QED
      BY <1>1, <2>2, <2>4, <2>5, <3>1 DEF Accounted, Open
  <2> QED
    BY <2>6, <2>7
<1>7. ASSUME NEW outcome \in Outcomes \cup {"late"}, SendChunk(outcome) PROVE Accounted'
  <2>1. Open /\ put' = put /\ leaks' = leaks /\ pc' # "create"
    BY <1>7 DEF SendChunk, Open
  <2>2. PICK got \in Nat : sessions \subseteq Others \cup {[put |-> put, got |-> got]}
    BY <2>1 DEF Accounted
  <2>3. PICK sent \in Nat :
          \/ sessions' = sessions
          \/ sessions' = sessions \ {[put |-> put, got |-> offset]}
          \/ sessions' = (sessions \ {[put |-> put, got |-> offset]}) \cup {[put |-> put, got |-> sent]}
    <3>1. End(offset, size) \in Nat
      BY <1>7, ChunkFits DEF SendChunk, UploadInv, TypeOK, Progress
    <3> QED
      BY <1>7, <3>1 DEF SendChunk
  <2> DEFINE own == [put |-> put, got |-> offset]
             next == [put |-> put, got |-> sent]
  <2>4. own \in sessions /\ own \notin Others /\ own.put = put /\ next.put = put
    BY <1>7 DEF SendChunk, UploadInv, Progress, Others
  <2>5. own = [put |-> put, got |-> got]
    BY <2>2, <2>4
  <2> HIDE DEF own, next
  <2>6. sessions = Others \cup {own}
    BY <1>2, <2>2, <2>4, <2>5
  <2>7. /\ sessions' = Others \cup {own} \/ sessions' = Others \/ sessions' = Others \cup {next}
        /\ Others' = Others
    <3>1. sessions' = Others \cup {own} \/ sessions' = Others \/ sessions' = Others \cup {next}
      BY <2>3, <2>4, <2>6 DEF own, next
    <3>2. \A s \in Others : s.put # put
      BY DEF Others
    <3> QED
      BY <2>1, <2>4, <3>1, <3>2 DEF Others
  <2>8. IsFiniteSet(sessions')
    BY <1>2, <2>7, FS_AddElement
  <2>9. \A s \in sessions' : s.put <= put'
    BY <1>1, <1>2, <1>3, <2>1, <2>4, <2>7
  <2>10. \E g \in Nat : sessions' \subseteq Others' \cup {[put |-> put', got |-> g]}
    <3>1. CASE sessions' = Others \cup {next}
      BY <2>1, <2>7, <3>1 DEF next
    <3>2. CASE sessions' # Others \cup {next}
      BY <1>1, <2>1, <2>7, <3>2 DEF own
    <3> QED
      BY <3>1, <3>2
  <2>11. Cardinality(Others) <= leaks
    BY <2>1 DEF Accounted
  <2>12. ~Open' => pc' = "stored"
    BY <1>7 DEF SendChunk, Open
  <2>13. pc' = "stored" => sessions' = Others
    <3> SUFFICES ASSUME pc' = "stored" PROVE sessions' = sessions \ {own}
      BY <2>4, <2>6
    <3> QED
      BY <1>7 DEF SendChunk, Total, own
  <2> QED
    BY <2>1, <2>7, <2>8, <2>9, <2>10, <2>11, <2>12, <2>13 DEF Accounted
<1>8. ASSUME NEW outcome \in Outcomes \cup {"late"}, Cancel(outcome) PROVE Accounted'
  <2>1. Open /\ ~Open' /\ put' = put /\ pc' = "failed"
    BY <1>8 DEF Cancel, Open
  <2>2. Cardinality(Others) <= leaks
    BY <2>1 DEF Accounted
  <2>3. \/ sessions' = Others /\ leaks' = leaks
        \/ sessions' = sessions /\ leaks' = leaks + 1
    BY <1>8 DEF Cancel, Others
  <2>4. PICK got \in Nat : sessions \subseteq Others \cup {[put |-> put, got |-> got]}
    BY <2>1 DEF Accounted
  <2>5. Cardinality(sessions) <= Cardinality(Others) + 1
    BY <1>2, <2>4, OneMore
  <2> QED
    BY <1>1, <1>2, <1>3, <2>1, <2>2, <2>3, <2>5 DEF Accounted
<1>9. CASE Reply
  BY <1>9 DEF Reply, Accounted, Open
<1>10. CASE LoseGuest
  <2>1. Cardinality(sessions) <= leaks + 1
    BY <1>1, AccountedIsClosed DEF SessionsClosed
  <2> QED
    BY <1>1, <1>10, <2>1 DEF LoseGuest, Accounted, Open
<1>11. CASE UNCHANGED vars \/ \E content \in late : CarryOut(content)
  BY <1>11 DEF vars, CarryOut, Accounted, Open, Others
<1> QED
  BY <1>4, <1>5, <1>6, <1>7, <1>8, <1>9, <1>10, <1>11 DEF Next, Step, Request

(***************************************************************************)
(* However many PUTs, of whatever size, failed wherever: no session is     *)
(* left open but by a lost guest, a lost uploadUrl or a failed DELETE.     *)
(***************************************************************************)
THEOREM NoSessionForgotten == Spec => []SessionsClosed
<1>1. Init => Accounted
  BY FS_EmptySet DEF Init, Accounted, Open
<1> QED
  BY <1>1, AccountedStep, AccountedIsClosed, UploadAlways, PTL DEF Spec

-----------------------------------------------------------------------------
(***************************************************************************)
(* A late PUT is not the current one, unless that has failed already.      *)
(***************************************************************************)
LateBefore ==
    \A content \in late :
        /\ content.put \in Nat /\ content.put <= put
        /\ pc \notin {"failed", "idle"} => content.put < put

\* A body that becomes late is of a PUT that fails with it.
LEMMA LateStep == UploadInv /\ UploadInv' /\ LateBefore /\ [Next]_vars => LateBefore'
<1> SUFFICES ASSUME UploadInv, UploadInv', LateBefore, [Next]_vars PROVE LateBefore'
  OBVIOUS
<1>1. put \in Nat
  BY DEF UploadInv, TypeOK
<1>2. ASSUME NEW bytes \in Sizes, Receive(bytes) PROVE LateBefore'
  BY <1>1, <1>2 DEF Receive, LateBefore
<1>3. ASSUME NEW outcome \in Outcomes \cup {"late"}, PutSimple(outcome) PROVE LateBefore'
  <2>1. pc' \in {"stored", "failed"} /\ put' = put /\ pc = "simple"
    BY <1>3 DEF PutSimple
  <2>2. late' = late \/ (late' = late \cup {Content} /\ pc' = "failed")
    BY <1>3 DEF PutSimple
  <2> QED
    BY <1>1, <2>1, <2>2 DEF LateBefore, Content
<1>4. ASSUME NEW outcome \in Outcomes \cup {"late"}, CreateSession(outcome) PROVE LateBefore'
  BY <1>4 DEF CreateSession, LateBefore
<1>5. ASSUME NEW outcome \in Outcomes \cup {"late"}, SendChunk(outcome) PROVE LateBefore'
  BY <1>5 DEF SendChunk, LateBefore
<1>6. ASSUME NEW outcome \in Outcomes \cup {"late"}, Cancel(outcome) PROVE LateBefore'
  BY <1>6 DEF Cancel, LateBefore
<1>7. CASE Reply \/ LoseGuest \/ UNCHANGED vars
  BY <1>7 DEF Reply, LoseGuest, vars, LateBefore
<1>8. ASSUME NEW content \in late, CarryOut(content) PROVE LateBefore'
  BY <1>8 DEF CarryOut, LateBefore
<1> QED
  BY <1>2, <1>3, <1>4, <1>5, <1>6, <1>7, <1>8 DEF Next, Step, Request

\* What may still become the content of the file, and what is reported as its content.
MayCome == late \cup (IF UnderWay THEN {Content} ELSE {})
Reported == IF pc = "stored" THEN {Content} ELSE {}

UploadState == UploadInv /\ Accounted /\ LateBefore

\* All three hold in every state.
LEMMA UploadStateAlways == Spec => []UploadState
<1>1. Init => UploadState
  BY InitUpload, FS_EmptySet DEF Init, UploadState, Accounted, Open, LateBefore
<1>2. UploadState /\ [Next]_vars => UploadState'
  BY UploadStep, AccountedStep, LateStep DEF UploadState
<1> QED
  BY <1>1, <1>2, PTL DEF Spec

\* A chunk leaves the file alone, or is the last one and makes the body its content.
LEMMA SendChunkStores ==
  ASSUME UploadState, NEW outcome, SendChunk(outcome)
  PROVE  \/ Content \in MayCome /\ Files!Store(Content)
         \/ Files!GiveUp
<1> DEFINE to == End(offset, size)
           session == [put |-> put, got |-> offset]
<1>1. /\ size \in Nat /\ offset \in Nat /\ put \in Nat /\ offset < size /\ session \in sessions
      /\ pc = "chunk" /\ put' = put /\ size' = size /\ late' = late
  BY DEF SendChunk, UploadState, UploadInv, TypeOK, Progress
<1>2. Content' = Content /\ Content \notin late /\ UnderWay
  <2>1. Content.put = put
    BY DEF Content
  <2> QED
    BY <1>1, <2>1 DEF Content, UnderWay, UploadState, LateBefore
<1>3. to \in Nat /\ [Content EXCEPT !.size = size] = Content
  BY <1>1, ChunkFits DEF Content
<1>4. CASE sessions' = sessions \ {session} /\ drive' = Content
  <2>1. PICK got \in Nat : sessions \subseteq Others \cup {[put |-> put, got |-> got]}
    BY <1>1 DEF UploadState, Accounted, Open
  <2>2. \A s \in sessions : s.put = put => s = session
    BY <1>1, <2>1 DEF Others
  <2>3. pc' \in {"stored", "chunk", "cancel"} /\ (pc' = "chunk" => FALSE)
    <3>1. ASSUME pc' = "chunk" PROVE FALSE
      <4>1. [put |-> put, got |-> to] \in sessions'
        BY <3>1 DEF SendChunk, Total
      <4>2. offset # to
        BY <1>1, ChunkFits
      <4>3. [put |-> put, got |-> to].got # session.got
        BY <4>2
      <4> QED
        BY <1>4, <2>2, <4>1, <4>3
    <3> QED
      BY <3>1 DEF SendChunk
  <2>4. ~UnderWay'
    BY <1>1, <1>4, <2>2, <2>3 DEF UnderWay
  <2> QED
    BY <1>1, <1>2, <1>4, <2>3, <2>4 DEF Files!Store, MayCome
<1>5. CASE drive' = drive /\ pc' # "stored"
  <2>1. pc' \in {"chunk", "cancel"}
    BY <1>5 DEF SendChunk
  <2> QED
    BY <1>1, <1>2, <1>5, <2>1 DEF Files!GiveUp, MayCome
<1>6. \/ sessions' = sessions \ {session} /\ drive' = Content
      \/ drive' = drive /\ pc' # "stored"
  <2>1. Total(to, size) = size /\ Takes(session, offset, to, size)
    BY <1>1, ChunkFits DEF Total, Takes
  <2> QED
    BY <1>3, <2>1 DEF SendChunk
<1> QED
  BY <1>4, <1>5, <1>6

(***************************************************************************)
(* PUT implements the store of whole bodies: for bodies of any size, cut   *)
(* at any chunk size, with requests, answers, guests lost anywhere and     *)
(* small PUTs carried out late, the file is always one whole body, and a   *)
(* PUT is answered 201 only after the step that stored its own.            *)
(***************************************************************************)
THEOREM PutsImplementStore == Spec => PutsAreStores
<1>1. Init => Files!Init
  BY DEF Init, Files!Init, UnderWay
<1>2. UploadState /\ UploadState' /\ [Next]_vars => [Files!Next]_<<drive, MayCome, Reported>>
  <2> SUFFICES ASSUME UploadState, UploadState', [Next]_vars
               PROVE  [Files!Next]_<<drive, MayCome, Reported>>
    OBVIOUS
  <2>1. ASSUME NEW bytes \in Sizes, Receive(bytes) PROVE [Files!Next]_<<drive, MayCome, Reported>>
    <3>1. /\ put \in Nat /\ put' = put + 1 /\ put' \in 1..MaxPuts /\ size' = bytes
          /\ drive' = drive /\ late' = late /\ sessions' = sessions /\ pc = "idle"
      BY <2>1, LimitsAssumption DEF Receive, UploadState, UploadInv, TypeOK
    <3>2. pc' \in {"too_large", "create", "simple"}
      BY <2>1 DEF Receive, Route
    <3>3. Content' \in Bodies /\ Content'.put = put + 1
      BY <3>1 DEF Content, Bodies
    <3>4. Content' \notin late
      BY <3>1, <3>3 DEF UploadState, LateBefore
    <3>5. MayCome = late /\ Reported = {} /\ Reported' = {}
      BY <3>1, <3>2 DEF MayCome, Reported, UnderWay
    <3>6. MayCome' = late \/ MayCome' = late \cup {Content'}
      BY <3>1 DEF MayCome
    <3> QED
      BY <3>1, <3>3, <3>4, <3>5, <3>6 DEF Files!Next, Files!Ask, MayCome, Reported
  <2>2. ASSUME NEW outcome \in Outcomes \cup {"late"}, PutSimple(outcome)
        PROVE  [Files!Next]_<<drive, MayCome, Reported>>
    <3>1. /\ pc = "simple" /\ UnderWay /\ ~UnderWay' /\ Content' = Content
          /\ Content \notin late /\ pc' \in {"stored", "failed"} /\ size <= MaxSimple
      <4>1. Content.put = put
        BY DEF Content
      <4> QED
        BY <2>2, <4>1 DEF PutSimple, UnderWay, Content, UploadState, LateBefore, UploadInv, Progress
    <3>2. \/ drive' = Content /\ late' = late
          \/ drive' = drive /\ pc' = "failed" /\ late' \in {late, late \cup {Content}}
      BY <2>2, <3>1 DEF PutSimple, Outcomes
    <3>3. MayCome = late \cup {Content} /\ MayCome' = late' /\ Content \in MayCome
      BY <3>1 DEF MayCome
    <3>4. CASE drive' = Content /\ late' = late
      BY <3>1, <3>3, <3>4 DEF Files!Next, Files!Store, MayCome
    <3>5. CASE drive' = drive /\ pc' = "failed" /\ late' \in {late, late \cup {Content}}
      BY <3>1, <3>3, <3>5 DEF Files!Next, Files!GiveUp, MayCome
    <3> QED
      BY <3>2, <3>4, <3>5
  <2>3. ASSUME NEW outcome \in Outcomes \cup {"late"}, CreateSession(outcome)
        PROVE  [Files!Next]_<<drive, MayCome, Reported>>
    <3>1. /\ pc = "create" /\ pc' \in {"chunk", "failed"} /\ Content' = Content
          /\ drive' = drive /\ late' = late
      BY <2>3 DEF CreateSession, Content
    <3>2. MayCome = late \cup {Content} /\ MayCome' \subseteq late \cup {Content}
      BY <3>1 DEF MayCome, UnderWay
    <3> QED
      BY <3>1, <3>2 DEF Files!Next, Files!GiveUp, MayCome
  <2>4. ASSUME NEW outcome \in Outcomes \cup {"late"}, SendChunk(outcome)
        PROVE  [Files!Next]_<<drive, MayCome, Reported>>
    BY <2>4, SendChunkStores DEF Files!Next, MayCome
  <2>5. ASSUME NEW outcome \in Outcomes \cup {"late"}, Cancel(outcome)
        PROVE  [Files!Next]_<<drive, MayCome, Reported>>
    <3>1. /\ pc = "cancel" /\ pc' = "failed" /\ Content' = Content
          /\ drive' = drive /\ late' = late
      BY <2>5 DEF Cancel, Content
    <3>2. MayCome' \subseteq MayCome
      BY <3>1 DEF MayCome, UnderWay
    <3> QED
      BY <3>1, <3>2 DEF Files!Next, Files!GiveUp, MayCome
  <2>6. CASE Reply
    <3>1. MayCome' = MayCome /\ Reported' = {} /\ drive' = drive
      BY <2>6 DEF Reply, MayCome, Reported, UnderWay
    <3> QED
      BY <3>1 DEF Files!Next, Files!Tell, MayCome, Reported
  <2>7. CASE LoseGuest
    <3>1. pc' = "idle" /\ Content' = Content /\ drive' = drive /\ late' = late
      BY <2>7 DEF LoseGuest, Content
    <3>2. MayCome' \subseteq MayCome /\ (pc = "stored" => MayCome' = MayCome)
      BY <3>1 DEF MayCome, UnderWay
    <3> QED
      BY <3>1, <3>2 DEF Files!Next, Files!GiveUp, Files!Tell, MayCome, Reported
  <2>8. ASSUME NEW content \in late, CarryOut(content)
        PROVE  [Files!Next]_<<drive, MayCome, Reported>>
    <3>1. /\ drive' = content /\ late' = late \ {content} /\ pc' = pc
          /\ Content' = Content /\ UnderWay' = UnderWay
      BY <2>8 DEF CarryOut, Content, UnderWay
    <3>2. UnderWay => Content # content
      <4>1. Content.put = put
        BY DEF Content
      <4> QED
        BY <4>1 DEF UnderWay, UploadState, LateBefore
    <3>3. MayCome' = MayCome \ {content} /\ content \in MayCome /\ Reported' = Reported
      BY <3>1, <3>2 DEF MayCome, Reported
    <3> QED
      BY <3>1, <3>3 DEF Files!Next, Files!Store, MayCome, Reported
  <2>9. CASE UNCHANGED vars
    BY <2>9 DEF vars, MayCome, Reported, UnderWay, Content
  <2> QED
    BY <2>1, <2>2, <2>3, <2>4, <2>5, <2>6, <2>7, <2>8, <2>9 DEF Next, Step, Request
<1> QED
  BY <1>1, <1>2, UploadStateAlways, PTL DEF Spec, PutsAreStores, Files!Spec, MayCome, Reported

-----------------------------------------------------------------------------
(***************************************************************************)
(* Outbound: what is shown above of PUT with requests that simply have an  *)
(* outcome holds of PUT over HTTP exchanges, for every size of the guest's *)
(* writes and of the pipe.                                                 *)
(***************************************************************************)
\* The types of the exchange's own variables.
LinkOK == link \in Links /\ left \in Nat /\ piped \in 0..Pipe

\* How an exchange may have ended is an outcome of its request.
LEMMA PossibleOutcomes == Possible \subseteq Outcomes \cup {"late"}
  BY DEF Possible, Outcomes

(***************************************************************************)
(* The outcomes Upload leaves open are those of an exchange: every step of *)
(* it is a step of Upload or leaves Upload's state alone.                  *)
(***************************************************************************)
LEMMA ExchangeStep == [OutboundNext]_all => [Next]_vars
<1> SUFFICES ASSUME [OutboundNext]_all PROVE [Next]_vars
  OBVIOUS
<1>1. CASE Take \/ Handle \/ Write
  BY <1>1 DEF Take, Handle, Write
<1>2. CASE Connect \/ Handshake \/ Pull \/ Respond \/ Deliver
  BY <1>2 DEF Connect, Handshake, Pull, Respond, Deliver, Stage
<1>3. CASE TimeOut \/ Break
  BY <1>3 DEF TimeOut, Break, Fail
<1>4. CASE Conclude
  <2>1. PICK outcome \in Possible : Request(outcome)
    BY <1>4 DEF Conclude
  <2> QED
    BY <2>1, PossibleOutcomes DEF Next, Step
<1>5. CASE LoseGuest /\ Forget
  BY <1>5 DEF Next
<1>6. CASE (\E bytes \in Sizes : Receive(bytes)) \/ Reply \/ \E content \in late : CarryOut(content)
  BY <1>6 DEF Next, Step
<1>7. CASE UNCHANGED all
  BY <1>7 DEF all
<1> QED
  BY <1>1, <1>2, <1>3, <1>4, <1>5, <1>6, <1>7 DEF OutboundNext

\* Each step of an exchange is a step of the PUT it is for, or leaves that alone.
THEOREM ExchangesImplementPuts == OutboundSpec => Spec
<1>1. OutboundInit => Init
  BY DEF OutboundInit
<1> QED
  BY <1>1, ExchangeStep, PTL DEF OutboundSpec, Spec

(***************************************************************************)
(* Wherever an exchange is cut, refused or timed out, the file is always   *)
(* one whole body, and a 201 follows only the step that stored its own.    *)
(***************************************************************************)
THEOREM ExchangesStoreWhole == OutboundSpec => PutsAreStores
  BY ExchangesImplementPuts, PutsImplementStore

-----------------------------------------------------------------------------
\* The body of a request takes some number of writes.
LEMMA BodyIsANumber == ASSUME UploadInv, pc \in {"simple", "create", "chunk", "cancel"}
                       PROVE  Writes(BodyBytes) \in Nat
<1>1. BodyBytes \in Nat
  <2>1. CASE pc = "chunk"
    <3>1. size \in Nat /\ offset \in Nat /\ offset < size
      BY <2>1 DEF UploadInv, TypeOK, Progress
    <3>2. End(offset, size) \in Nat /\ offset < End(offset, size)
      BY <3>1, ChunkFits
    <3> QED
      BY <2>1, <3>1, <3>2 DEF BodyBytes
  <2>2. CASE pc # "chunk"
    BY <2>2 DEF BodyBytes, UploadInv, TypeOK
  <2> QED
    BY <2>1, <2>2
<1>2. ASSUME NEW n \in Nat PROVE (n + WriteChunk - 1) \div WriteChunk \in Nat
  BY PipeAssumption
<1> QED
  BY <1>1, <1>2 DEF Writes

\* Every step of an exchange keeps the pipe within its bounds.
LEMMA LinkStep == UploadInv /\ LinkOK /\ [OutboundNext]_all => LinkOK'
<1> SUFFICES ASSUME UploadInv, LinkOK, [OutboundNext]_all PROVE LinkOK'
  OBVIOUS
<1> USE PipeAssumption DEF LinkOK, Links
<1>1. CASE Take
  BY <1>1, BodyIsANumber DEF Take
<1>2. CASE Handle \/ Write
  BY <1>2 DEF Handle, Write
<1>3. CASE Connect \/ Handshake \/ Pull \/ Respond \/ Deliver
  BY <1>3 DEF Connect, Handshake, Pull, Respond, Deliver, Stage
<1>4. CASE TimeOut \/ Break
  BY <1>4 DEF TimeOut, Break, Fail
<1>5. CASE Conclude \/ (LoseGuest /\ Forget)
  BY <1>5 DEF Conclude, Forget
<1>6. CASE UNCHANGED outbound
  BY <1>6 DEF outbound
<1> QED
  BY <1>1, <1>2, <1>3, <1>4, <1>5, <1>6 DEF OutboundNext, all

(***************************************************************************)
(* Type correctness: the guest never has more in the pipe than it holds.   *)
(***************************************************************************)
THEOREM OutboundTypes == OutboundSpec => []OutboundTypeOK
<1>1. OutboundInit => LinkOK
  BY PipeAssumption DEF OutboundInit, LinkOK, Links
<1>2. UploadInv /\ LinkOK => OutboundTypeOK
  BY DEF UploadInv, LinkOK, OutboundTypeOK
<1> QED
  BY <1>1, <1>2, LinkStep, ExchangesImplementPuts, UploadAlways, PTL DEF OutboundSpec
=============================================================================

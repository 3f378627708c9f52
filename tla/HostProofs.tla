----------------------------- MODULE HostProofs -----------------------------
(***************************************************************************)
(* Proofs about Host, for any set of connections and any queue limit.      *)
(***************************************************************************)
EXTENDS Host, FiniteSetTheorems, SequenceTheorems, TLAPS

(***************************************************************************)
(* What keeps the permit single: the types without the sign of the counter *)
(* (its sign is a matter of CounterCovers).                                *)
(***************************************************************************)
Types ==
    /\ permits \in Nat
    /\ waiters \in Seq(Requests)
    /\ queued_waiters \in Int
    /\ pc \in [Requests -> States]
    /\ guest \subseteq Requests

\* The head and the tail of a queue.
LEMMA TailType == ASSUME NEW S, NEW s \in Seq(S), s # <<>>
                  PROVE  Head(s) \in S /\ Tail(s) \in Seq(S)
  OBVIOUS

\* Taking place i out of a sequence moves the later places up by one.
LEMMA RemoveAtPlaces ==
  ASSUME NEW S, NEW s \in Seq(S), NEW i \in 1..Len(s)
  PROVE  /\ Len(RemoveAt(s, i)) = Len(s) - 1
         /\ \A k \in 1..(Len(s) - 1) :
               RemoveAt(s, i)[k] = IF k < i THEN s[k] ELSE s[k + 1]
<1> DEFINE front == SubSeq(s, 1, i - 1)
           back  == SubSeq(s, i + 1, Len(s))
<1>1. /\ front \in Seq(S) /\ Len(front) = i - 1
      /\ \A k \in 1..(i - 1) : front[k] = s[k]
  OBVIOUS
<1>2. /\ back \in Seq(S) /\ Len(back) = Len(s) - i
      /\ \A k \in 1..(Len(s) - i) : back[k] = s[i + k]
  OBVIOUS
<1> HIDE DEF front, back
<1>3. /\ Len(front \o back) = Len(front) + Len(back)
      /\ \A k \in 1..(Len(front) + Len(back)) :
            (front \o back)[k] = IF k <= Len(front) THEN front[k] ELSE back[k - Len(front)]
  BY <1>1, <1>2, ConcatProperties
<1>4. Len(s) \in Nat /\ i \in Nat /\ i >= 1 /\ i <= Len(s)
  OBVIOUS
<1>5. Len(front) + Len(back) = Len(s) - 1
  BY <1>1, <1>2, <1>4
<1>6. ASSUME NEW k \in 1..(Len(s) - 1)
      PROVE  (front \o back)[k] = IF k < i THEN s[k] ELSE s[k + 1]
  <2>1. (front \o back)[k] = IF k < i THEN front[k] ELSE back[k - (i - 1)]
    BY <1>1, <1>3, <1>4, <1>5
  <2>2. CASE k < i
    BY <1>1, <1>4, <2>1, <2>2
  <2>3. CASE ~(k < i)
    <3>1. k - (i - 1) \in 1..(Len(s) - i) /\ i + (k - (i - 1)) = k + 1
      BY <1>4, <2>3
    <3>2. back[k - (i - 1)] = s[i + (k - (i - 1))]
      BY <1>2, <3>1
    <3> QED
      BY <2>1, <2>3, <3>1, <3>2
  <2> QED
    BY <2>2, <2>3
<1>7. RemoveAt(s, i) = front \o back
  BY DEF RemoveAt, front, back
<1> QED
  BY <1>3, <1>5, <1>6, <1>7

\* A queue that somebody left.
LEMMA RemoveAtType == ASSUME NEW S, NEW s \in Seq(S), NEW i \in 1..Len(s)
                      PROVE  RemoveAt(s, i) \in Seq(S)
  BY DEF RemoveAt

(***************************************************************************)
(* A step keeps the types.                                                 *)
(***************************************************************************)
LEMMA TypesStep == Types /\ [Next]_vars => Types'
<1> SUFFICES ASSUME Types, [Next]_vars PROVE Types'
  OBVIOUS
<1> USE DEF Types, States, Goto
<1>1. ASSUME NEW r \in Requests, NEW state \in States, Release(r, state),
             UNCHANGED queued_waiters, guest' \subseteq Requests
      PROVE  Types'
  BY <1>1, TailType DEF Release
<1>2. ASSUME NEW r \in Requests, TryAcquire(r) PROVE Types'
  BY <1>2 DEF TryAcquire
<1>3. ASSUME NEW r \in Requests, Count(r) PROVE Types'
  BY <1>3 DEF Count
<1>4. ASSUME NEW r \in Requests, Reject(r) PROVE Types'
  BY <1>4 DEF Reject
<1>5. ASSUME NEW r \in Requests, Poll(r) PROVE Types'
  BY <1>5 DEF Poll
<1>6. ASSUME NEW r \in Requests, Admit(r) PROVE Types'
  BY <1>6 DEF Admit
<1>7. ASSUME NEW r \in Requests, Spawn(r) PROVE Types'
  BY <1>7 DEF Spawn
<1>8. ASSUME NEW r \in Requests, SpawnFails(r) PROVE Types'
  BY <1>8, <1>1 DEF SpawnFails
<1>9. ASSUME NEW r \in Requests, Respond(r) PROVE Types'
  BY <1>9 DEF Respond
<1>10. ASSUME NEW r \in Requests, GuestEnds(r) PROVE Types'
  BY <1>10, <1>1 DEF GuestEnds
<1>11. ASSUME NEW r \in Requests, DisconnectWaiting(r) PROVE Types'
  BY <1>11, RemoveAtType DEF DisconnectWaiting
<1>12. ASSUME NEW r \in Requests, DisconnectGranted(r) PROVE Types'
  BY <1>12, <1>1 DEF DisconnectGranted
<1>13. ASSUME NEW r \in Requests, DisconnectServing(r) PROVE Types'
  BY <1>13 DEF DisconnectServing
<1>14. CASE Restart
  BY <1>14 DEF Restart
<1>15. CASE UNCHANGED vars
  BY <1>15 DEF vars
<1> QED
  BY <1>2, <1>3, <1>4, <1>5, <1>6, <1>7, <1>8, <1>9, <1>10, <1>11, <1>12, <1>13,
     <1>14, <1>15 DEF Next, Progress

(***************************************************************************)
(* At most one guest runs: OneGuest is inductive with the types.  A permit *)
(* that comes back goes to the first waiter or is free again, and then it  *)
(* was not free, for it had a holder.                                      *)
(***************************************************************************)
LEMMA OneGuestStep == Types /\ OneGuest /\ [Next]_vars => OneGuest'
<1> SUFFICES ASSUME Types, OneGuest, [Next]_vars PROVE OneGuest'
  OBVIOUS
<1> USE DEF Types, OneGuest, Holders, Goto
<1>1. ASSUME NEW r \in Requests, NEW state \in States \ {"granted", "admitted"},
             Release(r, state), r \in Holders, guest' = guest \ {r}
      PROVE  OneGuest'
  <2>1. permits = 0 /\ Holders = {r}
    BY <1>1
  <2>2. CASE waiters = <<>>
    BY <1>1, <2>1, <2>2 DEF Release
  <2>3. CASE waiters # <<>>
    <3>1. Head(waiters) \in Requests
      BY <2>3, TailType
    <3>2. /\ permits' = 0 /\ guest' = {}
          /\ pc' = [pc EXCEPT ![r] = state, ![Head(waiters)] = "granted"]
      BY <1>1, <2>1, <2>3 DEF Release
    <3>3. Holders' = {Head(waiters)}
      BY <1>1, <2>1, <3>1, <3>2
    <3> QED
      BY <2>1, <3>2, <3>3
  <2> QED
    BY <2>2, <2>3
<1>2. ASSUME NEW r \in Requests, TryAcquire(r) PROVE OneGuest'
  BY <1>2 DEF TryAcquire
<1>3. ASSUME NEW r \in Requests, Count(r) PROVE OneGuest'
  BY <1>3 DEF Count
<1>4. ASSUME NEW r \in Requests, Reject(r) PROVE OneGuest'
  BY <1>4 DEF Reject
<1>5. ASSUME NEW r \in Requests, Poll(r) PROVE OneGuest'
  BY <1>5 DEF Poll
<1>6. ASSUME NEW r \in Requests, Admit(r) PROVE OneGuest'
  BY <1>6 DEF Admit
<1>7. ASSUME NEW r \in Requests, Spawn(r) PROVE OneGuest'
  BY <1>7 DEF Spawn
<1>8. ASSUME NEW r \in Requests, SpawnFails(r) PROVE OneGuest'
  BY <1>8, <1>1 DEF SpawnFails, States
<1>9. ASSUME NEW r \in Requests, Respond(r) PROVE OneGuest'
  BY <1>9 DEF Respond
<1>10. ASSUME NEW r \in Requests, GuestEnds(r) PROVE OneGuest'
  BY <1>10, <1>1 DEF GuestEnds, States
<1>11. ASSUME NEW r \in Requests, DisconnectWaiting(r) PROVE OneGuest'
  BY <1>11 DEF DisconnectWaiting
<1>12. ASSUME NEW r \in Requests, DisconnectGranted(r) PROVE OneGuest'
  BY <1>12, <1>1 DEF DisconnectGranted, States
<1>13. ASSUME NEW r \in Requests, DisconnectServing(r) PROVE OneGuest'
  BY <1>13 DEF DisconnectServing
<1>14. CASE Restart
  BY <1>14 DEF Restart
<1>15. CASE UNCHANGED vars
  BY <1>15 DEF vars
<1> QED
  BY <1>2, <1>3, <1>4, <1>5, <1>6, <1>7, <1>8, <1>9, <1>10, <1>11, <1>12, <1>13,
     <1>14, <1>15 DEF Next, Progress

(***************************************************************************)
(* Guest invocations are serialized, for any number of connections that    *)
(* come, wait, are answered or go away in any order.                       *)
(***************************************************************************)
THEOREM GuestsSerialized == Spec => []OneGuest
<1>1. Init => Types /\ OneGuest
  BY DEF Init, Types, OneGuest, Holders, States
<1>2. Types /\ OneGuest /\ [Next]_vars => Types' /\ OneGuest'
  BY TypesStep, OneGuestStep
<1> QED
  BY <1>1, <1>2, PTL DEF Spec

-----------------------------------------------------------------------------
(***************************************************************************)
(* The bound on the queue.  The semaphore's queue lists, once each,        *)
(* requests that wait; the requests past the test of the counter are at    *)
(* most QUEUE_LIMIT, because all of them, and more, were counted.          *)
(***************************************************************************)
Queued == {r \in Requests : pc[r] \in {"polling", "waiting", "granted"}}

WaitersWait ==
    /\ \A i \in 1..Len(waiters) : pc[waiters[i]] = "waiting"
    /\ \A i, j \in 1..Len(waiters) : waiters[i] = waiters[j] => i = j
QueueFits == Cardinality(Queued) <= QueueLimit

\* Those counted, and those queued among them, are finitely many.
LEMMA FiniteParts == /\ IsFiniteSet(Counted) /\ IsFiniteSet(Queued)
                     /\ Cardinality(Counted) \in Nat /\ Cardinality(Queued) \in Nat
                     /\ Cardinality(Queued) <= Cardinality(Counted)
<1>1. IsFiniteSet(Counted)
  BY HostAssumption, FS_Subset DEF Counted
<1>2. Queued \subseteq Counted
  BY DEF Counted, Queued
<1> QED
  BY <1>1, <1>2, FS_Subset, FS_CardinalityType

\* The same in the next state.
LEMMA FinitePartsNext == /\ IsFiniteSet(Counted') /\ IsFiniteSet(Queued')
                         /\ Cardinality(Counted') \in Nat /\ Cardinality(Queued') \in Nat
                         /\ Cardinality(Queued') <= Cardinality(Counted')
<1>1. IsFiniteSet(Counted')
  BY HostAssumption, FS_Subset DEF Counted
<1>2. Queued' \subseteq Counted'
  BY DEF Counted, Queued
<1> QED
  BY <1>1, <1>2, FS_Subset, FS_CardinalityType

\* A step that counts nobody new keeps CounterCovers and QueueFits if the counter stays.
LEMMA NobodyNew ==
  ASSUME Types, CounterCovers, QueueFits, UNCHANGED queued_waiters,
         Counted' \subseteq Counted, Queued' \subseteq Queued
  PROVE  CounterCovers' /\ QueueFits'
<1>1. Cardinality(Counted') <= Cardinality(Counted) /\ Cardinality(Queued') <= Cardinality(Queued)
  BY FiniteParts, FS_Subset
<1>2. QueueLimit \in Nat
  BY HostAssumption
<1>3. Cardinality(Counted') <= queued_waiters'
  BY <1>1, FiniteParts, FinitePartsNext DEF CounterCovers, Types
<1>4. Cardinality(Queued') <= QueueLimit
  BY <1>1, <1>2, FiniteParts, FinitePartsNext DEF QueueFits
<1> QED
  BY <1>3, <1>4 DEF CounterCovers, QueueFits

\* Who is in the queue waits, after every step.
LEMMA WaitersWaitStep == Types /\ WaitersWait /\ [Next]_vars => WaitersWait'
<1> SUFFICES ASSUME Types, WaitersWait, [Next]_vars PROVE WaitersWait'
  OBVIOUS
<1> USE DEF Types, WaitersWait, Goto
\* Nobody in the queue is touched.
<1>1. ASSUME UNCHANGED waiters, \A q \in Requests : pc[q] = "waiting" => pc'[q] = "waiting"
      PROVE  WaitersWait'
  BY <1>1
\* The permit comes back and the first waiter leaves the queue.
<1>2. ASSUME NEW r \in Requests, NEW state \in States, Release(r, state),
             pc[r] = "waiting" => state = "waiting"
      PROVE  WaitersWait'
  <2>1. CASE waiters = <<>>
    BY <1>2, <1>1, <2>1 DEF Release
  <2>2. CASE waiters # <<>>
    <3>1. /\ waiters' = Tail(waiters)
          /\ pc' = [pc EXCEPT ![r] = state, ![Head(waiters)] = "granted"]
      BY <1>2, <2>2 DEF Release
    <3>2. /\ Len(waiters') = Len(waiters) - 1
          /\ \A i \in 1..Len(waiters') : waiters'[i] = waiters[i + 1] /\ i + 1 \in 1..Len(waiters)
      BY <2>2, <3>1
    <3>3. Head(waiters) = waiters[1] /\ 1 \in 1..Len(waiters)
      BY <2>2
    <3>4. \A i \in 1..Len(waiters') : waiters'[i] # Head(waiters) /\ waiters'[i] \in Requests
      BY <3>2, <3>3
    <3>5. \A i \in 1..Len(waiters') : pc'[waiters'[i]] = "waiting"
      BY <1>2, <3>1, <3>2, <3>4
    <3>6. \A i, j \in 1..Len(waiters') : waiters'[i] = waiters'[j] => i = j
      BY <3>2
    <3> QED
      BY <3>5, <3>6
  <2> QED
    BY <2>1, <2>2
<1>3. ASSUME NEW r \in Requests, DisconnectWaiting(r) PROVE WaitersWait'
  <2>1. PICK i \in 1..Len(waiters) : waiters[i] = r /\ waiters' = RemoveAt(waiters, i)
    BY <1>3 DEF DisconnectWaiting
  <2>2. /\ Len(waiters') = Len(waiters) - 1
        /\ \A k \in 1..Len(waiters') :
              waiters'[k] = IF k < i THEN waiters[k] ELSE waiters[k + 1]
    <3> DEFINE w == waiters
    <3>1. w \in Seq(Requests) /\ i \in 1..Len(w) /\ waiters' = RemoveAt(w, i) /\ Len(w) \in Nat
      BY <2>1, LenProperties DEF Types
    <3> HIDE DEF w
    <3>2. /\ Len(RemoveAt(w, i)) = Len(w) - 1
          /\ \A k \in 1..(Len(w) - 1) : RemoveAt(w, i)[k] = IF k < i THEN w[k] ELSE w[k + 1]
      BY <3>1, RemoveAtPlaces
    <3>3. Len(waiters') = Len(w) - 1
      BY <3>1, <3>2
    <3> QED
      BY <3>1, <3>2, <3>3 DEF w
  <2>3. \A k \in 1..Len(waiters') : waiters'[k] # r /\ pc[waiters'[k]] = "waiting"
    <3> SUFFICES ASSUME NEW k \in 1..Len(waiters')
                 PROVE  waiters'[k] # r /\ pc[waiters'[k]] = "waiting"
      OBVIOUS
    <3> DEFINE j == IF k < i THEN k ELSE k + 1
    <3>1. Len(waiters) \in Nat
      BY LenProperties DEF Types
    <3>2. j \in 1..Len(waiters) /\ j # i /\ waiters'[k] = waiters[j]
      BY <2>2, <3>1
    <3> HIDE DEF j
    <3> QED
      BY <2>1, <3>2
  <2>4. \A k \in 1..Len(waiters') : waiters'[k] \in Requests
    BY <2>1, <2>2
  <2>5. pc' = [pc EXCEPT ![r] = "idle"]
    BY <1>3 DEF DisconnectWaiting
  <2>6. \A k \in 1..Len(waiters') : pc'[waiters'[k]] = "waiting"
    BY <2>3, <2>4, <2>5
  <2>7. \A k, j \in 1..Len(waiters') : waiters'[k] = waiters'[j] => k = j
    BY <2>1, <2>2
  <2> QED
    BY <2>6, <2>7
<1>4. ASSUME NEW r \in Requests, Poll(r) PROVE WaitersWait'
  <2>1. CASE permits > 0
    BY <1>4, <1>1, <2>1 DEF Poll
  <2>2. CASE ~(permits > 0)
    <3>1. waiters' = Append(waiters, r) /\ pc' = [pc EXCEPT ![r] = "waiting"] /\ pc[r] = "polling"
      BY <1>4, <2>2 DEF Poll
    <3>2. \A i \in 1..Len(waiters) : waiters[i] # r /\ waiters[i] \in Requests
      BY <3>1
    <3> QED
      BY <3>1, <3>2
  <2> QED
    BY <2>1, <2>2
<1>5. ASSUME NEW r \in Requests, TryAcquire(r) \/ Count(r) \/ Reject(r) \/ Admit(r)
                                 \/ Spawn(r) \/ Respond(r) \/ DisconnectServing(r)
      PROVE  WaitersWait'
  BY <1>5, <1>1 DEF TryAcquire, Count, Reject, Admit, Spawn, Respond, DisconnectServing
<1>6. ASSUME NEW r \in Requests, SpawnFails(r) \/ GuestEnds(r) \/ DisconnectGranted(r)
      PROVE  WaitersWait'
  BY <1>6, <1>2 DEF SpawnFails, GuestEnds, DisconnectGranted, States
<1>7. CASE Restart
  BY <1>7 DEF Restart
<1>8. CASE UNCHANGED vars
  BY <1>8, <1>1 DEF vars
<1> QED
  BY <1>3, <1>4, <1>5, <1>6, <1>7, <1>8 DEF Next, Progress

\* Every step counts one up or down with the request that does, or leaves both alone.
LEMMA CounterStep ==
    Types /\ WaitersWait /\ CounterCovers /\ QueueFits /\ [Next]_vars
        => CounterCovers' /\ QueueFits'
<1> SUFFICES ASSUME Types, WaitersWait, CounterCovers, QueueFits, [Next]_vars
             PROVE  CounterCovers' /\ QueueFits'
  OBVIOUS
<1> USE DEF Types, Goto
<1>0. QueueLimit \in Nat
  BY HostAssumption
\* The first waiter was counted, so a permit that comes back counts nobody new.
<1>1. ASSUME NEW r \in Requests, NEW state \in States, Release(r, state),
             UNCHANGED queued_waiters, state = "idle" \/ state = pc[r]
      PROVE  CounterCovers' /\ QueueFits'
  <2>1. CASE waiters = <<>>
    BY <1>1, <2>1, NobodyNew DEF Release, Counted, Queued
  <2>2. CASE waiters # <<>>
    <3>1. pc' = [pc EXCEPT ![r] = state, ![Head(waiters)] = "granted"]
      BY <1>1, <2>2 DEF Release
    <3>2. pc[Head(waiters)] = "waiting" /\ Head(waiters) \in Requests
      BY <2>2 DEF WaitersWait
    <3>3. Counted' \subseteq Counted /\ Queued' \subseteq Queued
      BY <1>1, <3>1, <3>2 DEF Counted, Queued
    <3> QED
      BY <1>1, <3>3, NobodyNew
  <2> QED
    BY <2>1, <2>2
<1>2. ASSUME NEW r \in Requests, Count(r) PROVE CounterCovers' /\ QueueFits'
  <2>1. Counted' = Counted \cup {r}
    BY <1>2 DEF Count, Counted
  <2>2. Cardinality(Counted') <= Cardinality(Counted) + 1
    <3>1. IsFiniteSet(Counted) /\ Cardinality(Counted) \in Nat
      BY FiniteParts
    <3>2. Cardinality(Counted \cup {r}) =
              IF r \in Counted THEN Cardinality(Counted) ELSE Cardinality(Counted) + 1
      BY <3>1, FS_AddElement
    <3> QED
      BY <2>1, <3>1, <3>2
  <2>3. CounterCovers'
    BY <1>2, <2>2, FiniteParts, FinitePartsNext DEF Count, CounterCovers
  <2>4. CASE queued_waiters + 1 > QueueLimit
    <3>1. Queued' = Queued
      BY <1>2, <2>4 DEF Count, Queued
    <3> QED
      BY <2>3, <3>1 DEF QueueFits
  <2>5. CASE ~(queued_waiters + 1 > QueueLimit)
    <3>1. queued_waiters' <= QueueLimit
      BY <1>0, <1>2, <2>5 DEF Count
    <3>2. queued_waiters' \in Int
      BY <1>2 DEF Count
    <3> QED
      BY <1>0, <2>3, <3>1, <3>2, FinitePartsNext DEF CounterCovers, QueueFits
  <2> QED
    BY <2>4, <2>5
<1>3. ASSUME NEW r \in Requests, Reject(r) \/ Admit(r) PROVE CounterCovers' /\ QueueFits'
  <2>1. r \in Counted /\ Counted' = Counted \ {r} /\ queued_waiters' = queued_waiters - 1
    BY <1>3 DEF Reject, Admit, Counted
  <2>2. Cardinality(Counted') = Cardinality(Counted) - 1
    BY <2>1, FiniteParts, FS_RemoveElement
  <2>3. Queued' \subseteq Queued
    BY <1>3 DEF Reject, Admit, Queued
  <2>4. Cardinality(Queued') <= Cardinality(Queued)
    BY <2>3, FiniteParts, FS_Subset
  <2> QED
    BY <1>0, <2>1, <2>2, <2>4, FiniteParts, FinitePartsNext DEF CounterCovers, QueueFits
<1>4. ASSUME NEW r \in Requests, TryAcquire(r) \/ Poll(r) \/ Spawn(r) \/ Respond(r)
                                 \/ DisconnectWaiting(r) \/ DisconnectServing(r)
      PROVE  CounterCovers' /\ QueueFits'
  <2>1. Counted' \subseteq Counted /\ Queued' \subseteq Queued /\ UNCHANGED queued_waiters
    BY <1>4 DEF TryAcquire, Poll, Spawn, Respond, DisconnectWaiting, DisconnectServing,
                Counted, Queued
  <2> QED
    BY <2>1, NobodyNew
<1>5. ASSUME NEW r \in Requests, SpawnFails(r) \/ GuestEnds(r) \/ DisconnectGranted(r)
      PROVE  CounterCovers' /\ QueueFits'
  BY <1>5, <1>1 DEF SpawnFails, GuestEnds, DisconnectGranted, States
<1>6. CASE Restart
  <2>1. Counted' = {} /\ Queued' = {} /\ queued_waiters' = 0
    BY <1>6 DEF Restart, Counted, Queued
  <2> QED
    BY <1>0, <2>1, FS_EmptySet DEF CounterCovers, QueueFits
<1>7. CASE UNCHANGED vars
  <2>1. Counted' \subseteq Counted /\ Queued' \subseteq Queued /\ UNCHANGED queued_waiters
    BY <1>7 DEF vars, Counted, Queued
  <2> QED
    BY <2>1, NobodyNew
<1> QED
  BY <1>2, <1>3, <1>4, <1>5, <1>6, <1>7 DEF Next, Progress

IInv == Types /\ OneGuest /\ WaitersWait /\ CounterCovers /\ QueueFits

\* With no request the counter is 0 and the permit is free.
LEMMA InitIInv == Init => IInv
<1> SUFFICES ASSUME Init PROVE IInv
  OBVIOUS
<1>1. Types /\ OneGuest /\ WaitersWait
  BY DEF Init, Types, OneGuest, Holders, WaitersWait, States
<1>2. Counted = {} /\ Queued = {} /\ queued_waiters = 0
  BY DEF Init, Counted, Queued
<1> QED
  BY <1>1, <1>2, FS_EmptySet, HostAssumption DEF IInv, CounterCovers, QueueFits

\* Every step keeps the parts together.
LEMMA IInvStep == IInv /\ [Next]_vars => IInv'
  BY TypesStep, OneGuestStep, WaitersWaitStep, CounterStep DEF IInv

\* So they hold in every state.
LEMMA IInvAlways == Spec => []IInv
  BY InitIInv, IInvStep, PTL DEF Spec

(***************************************************************************)
(* The counter covers the requests between their fetch_add and their       *)
(* fetch_sub, so fetch_sub never finds it at zero: the usize never wraps.  *)
(***************************************************************************)
THEOREM CounterNeverWraps == Spec => []CounterCovers
  BY IInvAlways, PTL DEF IInv

\* The state has its types; queued_waiters, a usize, is a natural number.
THEOREM TypeCorrect == Spec => []TypeOK
<1>1. IInv => TypeOK
  <2> SUFFICES ASSUME IInv PROVE TypeOK
    OBVIOUS
  <2>1. queued_waiters \in Nat
    BY FiniteParts DEF IInv, Types, CounterCovers
  <2> QED
    BY <2>1 DEF IInv, Types, TypeOK
<1> QED
  BY <1>1, IInvAlways, PTL

\* The numbers from 1 to n are n.
LEMMA CountFromOne == \A n \in Nat : Cardinality(1..n) = n
<1> SUFFICES ASSUME NEW n \in Nat PROVE Cardinality(1..n) = n
  OBVIOUS
<1>1. Cardinality(1..n) = IF 1 > n THEN 0 ELSE n - 1 + 1
  BY FS_Interval
<1> QED
  BY <1>1

(***************************************************************************)
(* The semaphore never has more than QUEUE_LIMIT waiters, whatever the     *)
(* number of connections and whoever of them goes away.                    *)
(***************************************************************************)
THEOREM QueueBounded == Spec => []BoundedQueue
<1>1. IInv => BoundedQueue
  <2> SUFFICES ASSUME IInv PROVE Len(waiters) <= QueueLimit
    BY DEF BoundedQueue
  <2>1. waiters \in [1..Len(waiters) -> Queued]
    BY DEF IInv, Types, WaitersWait, Queued
  <2>2. waiters \in Injection(1..Len(waiters), Queued)
    <3>1. \A i, j \in 1..Len(waiters) : waiters[i] = waiters[j] => i = j
      BY DEF IInv, WaitersWait
    <3> QED
      BY <2>1, <3>1 DEF Injection, IsInjective
  <2>3. Len(waiters) \in Nat
    BY DEF IInv, Types
  <2>4. Cardinality(1..Len(waiters)) = Len(waiters)
    BY <2>3, CountFromOne
  <2>5. Cardinality(1..Len(waiters)) <= Cardinality(Queued)
    BY <2>2, FiniteParts, FS_Injection
  <2> QED
    BY <2>3, <2>4, <2>5, FiniteParts, HostAssumption DEF IInv, QueueFits
<1> QED
  BY <1>1, IInvAlways, PTL
=============================================================================

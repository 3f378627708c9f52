-------------------------------- MODULE Host --------------------------------
(***************************************************************************)
(* Admission of HTTP requests by the native host (host/src/main.rs): one   *)
(* execution permit (a tokio semaphore, FIFO, no barging) and a counter    *)
(* that bounds how many requests wait for it.  A request is a connection:  *)
(* it serves one request after another.  The connection's task and the     *)
(* detached guest task run on different threads, and the request future is *)
(* dropped at an await when its client disconnects.  What guests do, what  *)
(* they get stuck on, and who is served in the end is Service.             *)
(***************************************************************************)
EXTENDS Integers, Sequences, FiniteSets, SequencesExt

CONSTANTS
    Requests,       \* connections
    QueueLimit,     \* QUEUE_LIMIT
    Disconnects     \* TRUE: clients may go away before they are answered

ASSUME HostAssumption ==
    IsFiniteSet(Requests) /\ QueueLimit \in Nat /\ Disconnects \in BOOLEAN

VARIABLES
    permits,        \* execution_slot: permits not held
    waiters,        \* execution_slot: the semaphore's queue
    queued_waiters,
    pc,             \* where the request's future is
    guest           \* the requests whose guest task runs and holds the permit
vars == <<permits, waiters, queued_waiters, pc, guest>>

States == {"idle", "counting", "rejecting", "polling", "waiting", "granted", "admitted", "serving"}

TypeOK ==
    /\ permits \in Nat
    /\ waiters \in Seq(Requests)
    /\ queued_waiters \in Nat
    /\ pc \in [Requests -> States]
    /\ guest \subseteq Requests

Init ==
    /\ permits = 1 /\ waiters = <<>> /\ queued_waiters = 0
    /\ pc = [r \in Requests |-> "idle"]
    /\ guest = {}

Goto(r, state) == pc' = [pc EXCEPT ![r] = state]

\* A permit comes back: the first waiter has it at once, else it is free.  r moves to `state`.
Release(r, state) ==
    IF waiters = <<>>
    THEN permits' = permits + 1 /\ Goto(r, state) /\ UNCHANGED waiters
    ELSE /\ waiters' = Tail(waiters)
         /\ pc' = [pc EXCEPT ![r] = state, ![Head(waiters)] = "granted"]
         /\ UNCHANGED permits

-----------------------------------------------------------------------------
\* Mutant of TryAcquire: a request that never waited goes the way of those that did.
TryAcquireThenUncount(r) ==
    /\ pc[r] = "idle"
    /\ IF permits > 0
       THEN permits' = permits - 1 /\ Goto(r, "granted")
       ELSE UNCHANGED permits /\ Goto(r, "counting")
    /\ UNCHANGED <<waiters, queued_waiters, guest>>

\* admit: try_acquire_owned
TryAcquire(r) ==
    /\ pc[r] = "idle"
    /\ IF permits > 0
       THEN permits' = permits - 1 /\ Goto(r, "admitted")
       ELSE UNCHANGED permits /\ Goto(r, "counting")
    /\ UNCHANGED <<waiters, queued_waiters, guest>>

\* Mutant of Count: the test reads the counter before the addition.
CountTestsOldValue(r) ==
    /\ pc[r] = "counting"
    /\ queued_waiters' = queued_waiters + 1
    /\ Goto(r, IF queued_waiters > QueueLimit THEN "rejecting" ELSE "polling")
    /\ UNCHANGED <<permits, waiters, guest>>

\* admit: fetch_add and the test of what it returned
Count(r) ==
    /\ pc[r] = "counting"
    /\ queued_waiters' = queued_waiters + 1
    /\ Goto(r, IF queued_waiters + 1 > QueueLimit THEN "rejecting" ELSE "polling")
    /\ UNCHANGED <<permits, waiters, guest>>

\* Mutant of Reject: it also takes back the count that admit takes back for waiters.
RejectTwice(r) ==
    /\ pc[r] = "rejecting"
    /\ queued_waiters' = queued_waiters - 2
    /\ Goto(r, "idle")
    /\ UNCHANGED <<permits, waiters, guest>>

\* admit: fetch_sub and "request queue full"; handle_request answers 503
Reject(r) ==
    /\ pc[r] = "rejecting"
    /\ queued_waiters' = queued_waiters - 1
    /\ Goto(r, "idle")
    /\ UNCHANGED <<permits, waiters, guest>>

\* admit: acquire_owned is polled for the first time
Poll(r) ==
    /\ pc[r] = "polling"
    /\ IF permits > 0
       THEN permits' = permits - 1 /\ Goto(r, "granted") /\ UNCHANGED waiters
       ELSE waiters' = Append(waiters, r) /\ Goto(r, "waiting") /\ UNCHANGED permits
    /\ UNCHANGED <<queued_waiters, guest>>

\* admit: acquire_owned returned; fetch_sub
Admit(r) ==
    /\ pc[r] = "granted"
    /\ queued_waiters' = queued_waiters - 1
    /\ Goto(r, "admitted")
    /\ UNCHANGED <<permits, waiters, guest>>

\* handle_request: the store is built and the guest task takes the permit
Spawn(r) ==
    /\ pc[r] = "admitted"
    /\ guest' = guest \cup {r}
    /\ Goto(r, "serving")
    /\ UNCHANGED <<permits, waiters, queued_waiters>>

\* handle_request: the store, the request or the outparam cannot be made; the permit is dropped
SpawnFails(r) ==
    /\ pc[r] = "admitted"
    /\ Release(r, "idle")
    /\ UNCHANGED <<queued_waiters, guest>>

\* Mutant of Respond: the permit stays with the request future and goes when it answers.
RespondReleases(r) ==
    /\ r \in guest /\ pc[r] = "serving"
    /\ Release(r, "idle")
    /\ UNCHANGED <<queued_waiters, guest>>

\* The guest sets its response; the task goes on until call_handle returns.
Respond(r) ==
    /\ r \in guest /\ pc[r] = "serving"
    /\ Goto(r, "idle")
    /\ UNCHANGED <<permits, waiters, queued_waiters, guest>>

\* The guest task ends: call_handle returned, failed, or trapped at the epoch deadline.
GuestEnds(r) ==
    /\ r \in guest
    /\ guest' = guest \ {r}
    /\ Release(r, IF pc[r] = "serving" THEN "idle" ELSE pc[r])
    /\ UNCHANGED queued_waiters

(***************************************************************************)
(* The client goes away: hyper drops the request future where it awaits.   *)
(* A queued acquire leaves the queue, a granted one gives the permit back; *)
(* the code after the await, fetch_sub, does not run.  A guest task is     *)
(* detached and goes on.                                                   *)
(***************************************************************************)
\* Mutant of DisconnectServing: the permit is the request future's and is dropped with it.
DisconnectServingReleases(r) ==
    /\ Disconnects /\ pc[r] = "serving"
    /\ Release(r, "idle")
    /\ UNCHANGED <<queued_waiters, guest>>

DisconnectWaiting(r) ==
    /\ Disconnects /\ pc[r] = "waiting"
    /\ \E i \in 1..Len(waiters) : waiters[i] = r /\ waiters' = RemoveAt(waiters, i)
    /\ Goto(r, "idle")
    /\ UNCHANGED <<permits, queued_waiters, guest>>
DisconnectGranted(r) ==
    /\ Disconnects /\ pc[r] = "granted"
    /\ Release(r, "idle")
    /\ UNCHANGED <<queued_waiters, guest>>
DisconnectServing(r) ==
    /\ Disconnects /\ pc[r] = "serving"
    /\ Goto(r, "idle")
    /\ UNCHANGED <<permits, waiters, queued_waiters, guest>>

\* The process dies and systemd starts it again.
Restart ==
    /\ permits' = 1 /\ waiters' = <<>> /\ queued_waiters' = 0
    /\ pc' = [r \in Requests |-> "idle"]
    /\ guest' = {}

Progress(r) ==
    \/ Count(r) \/ Reject(r) \/ Poll(r) \/ Admit(r) \/ Spawn(r) \/ GuestEnds(r)

Next ==
    \/ \E r \in Requests :
          \/ TryAcquire(r) \/ Progress(r) \/ SpawnFails(r) \/ Respond(r)
          \/ DisconnectWaiting(r) \/ DisconnectGranted(r) \/ DisconnectServing(r)
    \/ Restart

Spec == Init /\ [][Next]_vars

-----------------------------------------------------------------------------
Holders == {r \in Requests : pc[r] \in {"granted", "admitted"}} \cup guest
Counted == {r \in Requests : pc[r] \in {"rejecting", "polling", "waiting", "granted"}}

(***************************************************************************)
(* README: the host "serializes guest invocations".  At most one guest     *)
(* task runs, whatever clients do to the requests that started them: the   *)
(* permit has one holder, a request future or the detached task it became, *)
(* and is free only when it has none.                                      *)
(***************************************************************************)
OneGuest ==
    /\ permits <= 1
    /\ permits > 0 => Holders = {}
    /\ \A r, q \in Holders : r = q
    /\ \A r \in guest : pc[r] \notin {"granted", "admitted"}

(***************************************************************************)
(* Every request between its fetch_add and its fetch_sub is counted, so    *)
(* the unsigned counter never wraps below zero.                            *)
(***************************************************************************)
CounterCovers == Cardinality(Counted) <= queued_waiters

\* README: "with a bounded queue".  Never more than QUEUE_LIMIT requests wait, abandoned or not.
BoundedQueue == Len(waiters) <= QueueLimit

(***************************************************************************)
(* "request queue full" is said only when QUEUE_LIMIT other requests are   *)
(* between their fetch_add and their fetch_sub.                            *)
(***************************************************************************)
RejectedByOthers ==
    [][\A r \in Requests :
          (pc[r] = "counting" /\ pc'[r] = "rejecting") =>
              Cardinality(Counted) >= QueueLimit]_vars
=============================================================================

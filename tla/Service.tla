------------------------------ MODULE Service ------------------------------
(***************************************************************************)
(* The host and its guests together (host/src/main.rs with src/lib.rs,     *)
(* src/snapshot.rs and src/state_file.rs): admission as in Host, and what  *)
(* a guest does while it has the permit.  A guest is an edit of index.bin  *)
(* (load, write_atomic; a mutation's patch, or the load and the save of a  *)
(* tick) or a lookup that opens index.bin once for every part it reads.    *)
(* The state files have no lock of their own.                              *)
(*                                                                         *)
(* A guest can be stuck: on a client that sends no body or reads no        *)
(* response (there is no time limit on either), on a server that does not  *)
(* finish a TLS handshake (nor on that: see Outbound), or in a             *)
(* computation, which the epoch ticker ends as long as it ticks.           *)
(***************************************************************************)
EXTENDS Host

CONSTANTS
    Editors,    \* the connections whose requests edit index.bin; the others look paths up
    Stalls,     \* TRUE: guests can be stuck
    None        \* no file, no answer

ASSUME ServiceAssumption ==
    /\ Editors \subseteq Requests /\ Stalls \in BOOLEAN
    /\ \A contents \in SUBSET Requests : None # contents

VARIABLES
    index,      \* index.bin, told apart by the edits it has
    tmp,        \* index.bin.tmp
    at,         \* where each guest is
    copy,       \* what it has read
    answer,     \* the snapshots that the parts of a lookup's answer are of
    stuck,      \* what a guest is stuck on
    draining    \* after the shutdown signal: the ticker is aborted
fileVars == <<index, tmp>>
serviceVars == <<permits, waiters, queued_waiters, pc, guest, index, tmp, at, copy, answer, stuck, draining>>

Contents == SUBSET Requests
Places == {"start", "loaded", "written", "header", "done"}
Answers == Contents \X Contents

ServiceTypeOK ==
    /\ TypeOK
    /\ index \in Contents /\ tmp \in Contents \cup {None}
    /\ at \in [Requests -> Places]
    /\ copy \in [Requests -> Contents \cup {None}]
    /\ answer \in [Requests -> Answers \cup {None}]
    /\ stuck \in [Requests -> {"no", "client", "server", "computing"}]
    /\ draining \in BOOLEAN

ServiceInit ==
    /\ Init
    /\ index = {} /\ tmp = None
    /\ at = [r \in Requests |-> "start"]
    /\ copy = [r \in Requests |-> None]
    /\ answer = [r \in Requests |-> None]
    /\ stuck = [r \in Requests |-> "no"]
    /\ draining = FALSE

-----------------------------------------------------------------------------
\* A guest at `place` that goes on to `next`; admission does not see it.
GoesOn(r, place, next) ==
    /\ r \in guest /\ stuck[r] = "no"
    /\ at[r] = place /\ at' = [at EXCEPT ![r] = next]
    /\ UNCHANGED <<vars, stuck, draining>>

\* snapshot::load
Load(r) ==
    /\ r \in Editors /\ GoesOn(r, "start", "loaded")
    /\ copy' = [copy EXCEPT ![r] = index]
    /\ UNCHANGED <<index, tmp, answer>>

\* write_atomic: write_file of index.bin.tmp
WriteTmp(r) ==
    /\ GoesOn(r, "loaded", "written")
    /\ tmp' = copy[r] \cup {r}
    /\ UNCHANGED <<index, copy, answer>>

\* write_atomic: rename_at over index.bin
RenameTmp(r) ==
    /\ GoesOn(r, "written", "done")
    /\ IF tmp = None THEN UNCHANGED fileVars ELSE index' = tmp /\ tmp' = None
    /\ UNCHANGED <<copy, answer>>

\* Nothing to read or to save, or either half of write_atomic fails: the request is answered
\* all the same.  After a failed rename the temporary file is unlinked, if that succeeds.
Unsaved(r) ==
    /\ GoesOn(r, "start", "done") \/ GoesOn(r, "loaded", "done") \/ GoesOn(r, "written", "done")
    /\ tmp' = tmp \/ (at[r] = "written" /\ tmp' = None)
    /\ UNCHANGED <<index, copy, answer>>

\* lookup_file: read_at of the header, which has the offsets of the other parts
ReadHeader(r) ==
    /\ r \notin Editors /\ GoesOn(r, "start", "header")
    /\ copy' = [copy EXCEPT ![r] = index]
    /\ UNCHANGED <<index, tmp, answer>>

\* lookup_file: read_at of the table and of a block, in the file that has the name by now
ReadBlock(r) ==
    /\ GoesOn(r, "header", "done")
    /\ answer' = [answer EXCEPT ![r] = <<copy[r], index>>]
    /\ UNCHANGED <<index, tmp, copy>>

\* The next guest of a connection starts anew.
Reset(gone) ==
    /\ at' = [r \in Requests |-> IF r \in gone THEN "start" ELSE at[r]]
    /\ copy' = [r \in Requests |-> IF r \in gone THEN None ELSE copy[r]]
    /\ answer' = [r \in Requests |-> IF r \in gone THEN None ELSE answer[r]]
    /\ stuck' = [r \in Requests |-> IF r \in gone THEN "no" ELSE stuck[r]]

\* The handler has its answer and the client reads it.
Answered(r) ==
    /\ at[r] = "done" /\ stuck[r] = "no"
    /\ Respond(r)
    /\ UNCHANGED <<index, tmp, at, copy, answer, stuck, draining>>

Ends(r) == GuestEnds(r) /\ Reset({r}) /\ UNCHANGED <<index, tmp, draining>>

\* call_handle returns.
Returns(r) ==
    /\ at[r] = "done" /\ stuck[r] = "no" /\ pc[r] # "serving"
    /\ Ends(r)

\* A trap, anywhere: the store's limits, a panic.
Traps(r) == stuck[r] = "no" /\ Ends(r)

\* Mutant of EpochTrap: the deadline is never set.
EpochTrapNever(r) == FALSE

\* epoch_deadline_trap, as long as the ticker ticks.
EpochTrap(r) == stuck[r] = "computing" /\ ~draining /\ Ends(r)

-----------------------------------------------------------------------------
\* A client sends no more of the body the guest waits for, or reads no more of the response.
Stall(r) ==
    /\ Stalls /\ r \in guest /\ pc[r] = "serving" /\ stuck[r] = "no"
    /\ at[r] \in {"start", "done"}
    /\ stuck' = [stuck EXCEPT ![r] = "client"]
    /\ UNCHANGED <<vars, index, tmp, at, copy, answer, draining>>

\* Graph does not finish the handshake of a mutation, or of a tick that has loaded the index.
ServerStalls(r) ==
    /\ Stalls /\ r \in guest /\ stuck[r] = "no" /\ at[r] \in {"start", "loaded"}
    /\ stuck' = [stuck EXCEPT ![r] = "server"]
    /\ UNCHANGED <<vars, index, tmp, at, copy, answer, draining>>

Resume(r) ==
    /\ stuck[r] \in {"client", "server"}
    /\ stuck' = [stuck EXCEPT ![r] = "no"]
    /\ UNCHANGED <<vars, index, tmp, at, copy, answer, draining>>
Compute(r) ==
    /\ Stalls /\ r \in guest /\ stuck[r] = "no"
    /\ stuck' = [stuck EXCEPT ![r] = "computing"]
    /\ UNCHANGED <<vars, index, tmp, at, copy, answer, draining>>

\* The client of a running guest goes away: what the guest waits for fails, and it goes on.
ClientGone(r) ==
    /\ DisconnectServing(r)
    /\ stuck' = [stuck EXCEPT ![r] = IF @ = "client" THEN "no" ELSE @]
    /\ UNCHANGED <<index, tmp, at, copy, answer, draining>>

\* main: the signal; open connections are served until they close, by tasks that are awaited.
Shutdown ==
    /\ ~draining /\ draining' = TRUE
    /\ UNCHANGED <<vars, index, tmp, at, copy, answer, stuck>>

\* The process ends, at any point or with its last connection, and is started again.
RestartAll ==
    /\ Restart /\ Reset(Requests) /\ draining' = FALSE
    /\ UNCHANGED fileVars

\* Admission touches no file and no guest.
Admission(step) == step /\ UNCHANGED <<index, tmp, at, copy, answer, stuck, draining>>
Arrives(r) == Admission(TryAcquire(r))
IsAdmitted(r) == Admission(Count(r) \/ Reject(r) \/ Poll(r) \/ Admit(r) \/ Spawn(r) \/ SpawnFails(r))
Leaves(r) == Admission(DisconnectWaiting(r) \/ DisconnectGranted(r))

FileStep(r) ==
    \/ Load(r) \/ WriteTmp(r) \/ RenameTmp(r) \/ Unsaved(r) \/ ReadHeader(r) \/ ReadBlock(r)

ServiceNext ==
    \/ \E r \in Requests :
          \/ Arrives(r) \/ IsAdmitted(r) \/ Leaves(r) \/ FileStep(r) \/ Answered(r) \/ Returns(r) \/ Traps(r) \/ EpochTrap(r)
          \/ Stall(r) \/ ServerStalls(r) \/ Resume(r) \/ Compute(r) \/ ClientGone(r)
    \/ Shutdown \/ RestartAll

ServiceSpec == ServiceInit /\ [][ServiceNext]_serviceVars

(***************************************************************************)
(* The runtime polls what can go on.  A guest that gets somewhere between  *)
(* the times its client keeps it waiting is done in the end, for what it   *)
(* does is finite (strong fairness); one that computes for ever is trapped *)
(* at its deadline.  Clients owe nothing.                                  *)
(***************************************************************************)
ServiceFairSpec ==
    /\ ServiceSpec
    /\ \A r \in Requests :
          /\ WF_serviceVars(IsAdmitted(r))
          /\ SF_serviceVars(FileStep(r) \/ Answered(r) \/ Returns(r))
          /\ WF_serviceVars(EpochTrap(r))

-----------------------------------------------------------------------------
(***************************************************************************)
(* Handlers are written as if index.bin were theirs: the permit of the     *)
(* host is the only lock.  Edits are added one by one and none is lost     *)
(* with the next, and the parts of a lookup are of one snapshot, although  *)
(* clients go away, guests outlive their requests, trap, or are cut off.   *)
(***************************************************************************)
Store == INSTANCE IndexStore
IndexIsAtomic == Store!Spec

(***************************************************************************)
(* README: "serializes guest invocations with a bounded queue, and applies *)
(* ... epoch interruption".  Who waits is served, unless a client or a     *)
(* handshake stalls for ever or a guest computes for ever after the ticker *)
(* is gone: nothing else holds the permit for good.                        *)
(***************************************************************************)
Freed(r) == stuck[r] = "no" \/ (stuck[r] = "computing" /\ ~draining)
WaitersServedUnlessStuck ==
    (\A q \in Requests : []<>Freed(q)) => (\A r \in Requests : pc[r] = "waiting" ~> pc[r] # "waiting")
=============================================================================

----------------------------- MODULE IndexStore -----------------------------
(***************************************************************************)
(* What the handlers may take index.bin to be: a value that one edit after *)
(* another is added to, and that a lookup reads whole.  The detailed store *)
(* (Service) loads, writes and renames files, reads a snapshot in parts,   *)
(* and loses guests in between.                                            *)
(***************************************************************************)
CONSTANTS Requests, None

VARIABLES
    index,      \* the edits in index.bin
    answer      \* what the parts of a lookup's answer were read of

TypeOK ==
    /\ index \subseteq Requests
    /\ answer \in [Requests -> {None} \cup ((SUBSET Requests) \X (SUBSET Requests))]

Init == index = {} /\ answer = [r \in Requests |-> None]

Edit(r) == index' = index \cup {r} /\ UNCHANGED answer
Lookup(r) == answer' = [answer EXCEPT ![r] = <<index, index>>] /\ UNCHANGED index
Forget(gone) == answer' = [r \in Requests |-> IF r \in gone THEN None ELSE answer[r]] /\ UNCHANGED index

Next ==
    \/ \E r \in Requests : Edit(r) \/ Lookup(r)
    \/ \E gone \in SUBSET Requests : Forget(gone)

Spec == Init /\ [][Next]_<<index, answer>>
=============================================================================

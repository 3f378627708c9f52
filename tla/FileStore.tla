------------------------------ MODULE FileStore ------------------------------
(***************************************************************************)
(* What PUT promises of one file: its content is at every moment that of   *)
(* the whole body of one PUT, a body reaches it once at most, and a PUT is *)
(* reported as done only with the step that stores it.  A PUT that was not *)
(* reported may be stored all the same, also after a later one was.        *)
(***************************************************************************)
CONSTANTS Bodies, Before

VARIABLES
    file,   \* the content of the file
    open,   \* the bodies that may yet become its content
    done    \* the body reported as stored, in a set, until its client is told

Init == file = Before /\ open = {} /\ done = {}

Ask(body) == body \notin open /\ open' = open \cup {body} /\ UNCHANGED <<file, done>>
Store(body) == file' = body /\ open' = open \ {body} /\ done' \in {done, {body}}
GiveUp == open' \subseteq open /\ done' = done /\ UNCHANGED file
Tell == done' = {} /\ UNCHANGED <<file, open>>

Next ==
    \/ \E body \in Bodies : Ask(body)
    \/ \E body \in open : Store(body)
    \/ GiveUp
    \/ Tell

Spec == Init /\ [][Next]_<<file, open, done>>
=============================================================================

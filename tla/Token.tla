------------------------------- MODULE Token -------------------------------
(***************************************************************************)
(* The OAuth tokens (src/auth.rs): the guest takes the access token from   *)
(* token.json while it lasts, and else refreshes it and writes the file,   *)
(* in place (src/state_file.rs).  The identity service rotates refresh     *)
(* tokens, the user revokes them, and signs in with a script               *)
(* (tools/device-code-login.sh) that writes the same file from outside the *)
(* sandbox.  One guest runs at a time (Host.tla); time passes between any  *)
(* two steps.                                                              *)
(***************************************************************************)
EXTENDS Integers

CONSTANTS
    None, Absent, Torn,
    Lifetime,           \* expires_in: seconds an access token is good for, from its issue
    Margin,             \* EXPIRY_SAFETY_MARGIN_SECS
    Revokes,            \* TRUE: the service may revoke a refresh token when it issues the next one
    LosesOnlyCopy,      \* TRUE: the guest may be lost, or its write fail, when nothing but its
                        \* memory has a refresh token the service accepts
    ConcurrentSignIn,   \* TRUE: the user signs in also while a guest runs
    MaxTime, MaxTokens, MaxFaults,  \* bounds
    MaxDelay            \* bound: so long may an answer with a token be on its way

ASSUME TimesAssumption ==
    Lifetime \in Nat /\ Margin \in Nat /\ MaxDelay \in Nat
ASSUME ChoicesAssumption ==
    /\ Revokes \in BOOLEAN /\ LosesOnlyCopy \in BOOLEAN /\ ConcurrentSignIn \in BOOLEAN
    /\ MaxTime \in Nat /\ MaxTokens \in Nat /\ MaxFaults \in Nat

VARIABLES
    now,        \* the clock
    issued,     \* the identity service: number of refresh tokens it has issued
    valid,      \* ... and those it accepts
    file,       \* token.json; Torn if it does not parse
    pc,         \* where bearer_token is
    hand,       \* the token in the guest's hands
    answer,     \* the service's answer to a refresh, on its way
    signing,    \* the token the sign-in script is about to write
    faults
vars == <<now, issued, valid, file, pc, hand, answer, signing, faults>>

(***************************************************************************)
(* TokenFile.  A refresh token is its number, an access token the time it  *)
(* really expires; expires_at is when the code holds it for expired.  How  *)
(* long its answer was on its way (delay) is history: no step looks at it. *)
(***************************************************************************)
TokenFile == [refresh_token : Nat, access_token : Int, expires_at : Int, delay : Nat]
Answer == [refresh_token : Nat \cup {None}, access_token : Int, at : Int]
ASSUME FreshTokensAssumption ==
    /\ Absent \notin TokenFile /\ Torn \notin TokenFile
    /\ None \notin Nat /\ None \notin TokenFile /\ None \notin Answer
Stages == {"idle", "asked", "answered", "save", "write", "ready"}

TypeOK ==
    /\ now \in Nat /\ issued \in Nat /\ valid \subseteq 1..issued
    /\ file \in TokenFile \cup {Absent, Torn}
    /\ pc \in Stages
    /\ hand \in TokenFile \cup {None}
    /\ answer \in Answer \cup {None}
    /\ signing \in TokenFile \cup {None}
    /\ faults \in Nat

Init ==
    /\ now = 0 /\ issued = 0 /\ valid = {}
    /\ file = Absent
    /\ pc = "idle" /\ hand = None /\ answer = None
    /\ signing = None
    /\ faults = 0

serviceVars == <<issued, valid>>

-----------------------------------------------------------------------------
(***************************************************************************)
(* auth::bearer_token                                                      *)
(***************************************************************************)
Readable == file \notin {Absent, Torn}
OnFile == Readable /\ file.refresh_token \in valid

\* load, and the access token if it is not held for expired.
TakeStored ==
    /\ pc = "idle" /\ Readable /\ now < file.expires_at
    /\ hand' = file /\ pc' = "ready"
    /\ UNCHANGED <<now, serviceVars, file, answer, signing, faults>>

\* load, and else POST the refresh token.
AskRefresh ==
    /\ pc = "idle" /\ Readable /\ now >= file.expires_at
    /\ hand' = file /\ pc' = "asked"
    /\ UNCHANGED <<now, serviceVars, file, answer, signing, faults>>

\* The service (external) issues an access token, and a new refresh token or none.
Issue ==
    /\ pc = "asked" /\ hand.refresh_token \in valid
    /\ \/ /\ answer' = [refresh_token |-> None, access_token |-> now + Lifetime, at |-> now]
          /\ UNCHANGED serviceVars
       \/ /\ issued < MaxTokens /\ issued' = issued + 1
          /\ \/ valid' = valid \cup {issued'}
             \/ Revokes /\ valid' = (valid \ {hand.refresh_token}) \cup {issued'}
          /\ answer' = [refresh_token |-> issued', access_token |-> now + Lifetime, at |-> now]
    /\ pc' = "answered"
    /\ UNCHANGED <<now, file, hand, signing, faults>>

\* A status other than 200: bearer_token returns the error.
Refused ==
    /\ pc = "asked" /\ hand.refresh_token \notin valid
    /\ pc' = "idle" /\ hand' = None
    /\ UNCHANGED <<now, serviceVars, file, answer, signing, faults>>

Saturating(n) == IF n > 0 THEN n ELSE 0

\* Mutants of NewToken: without the margin; without the refresh token already held.
NewTokenAtExpiry(old, ans) ==
    [refresh_token |-> IF ans.refresh_token = None THEN old.refresh_token ELSE ans.refresh_token,
     access_token |-> ans.access_token,
     expires_at |-> now + Lifetime,
     delay |-> now - ans.at]
NewTokenForgetful(old, ans) ==
    [refresh_token |-> ans.refresh_token,
     access_token |-> ans.access_token,
     expires_at |-> now + Saturating(Lifetime - Margin),
     delay |-> now - ans.at]

\* The TokenFile that refresh() returns.
NewToken(old, ans) ==
    [refresh_token |-> IF ans.refresh_token = None THEN old.refresh_token ELSE ans.refresh_token,
     access_token |-> ans.access_token,
     expires_at |-> now + Saturating(Lifetime - Margin),
     delay |-> now - ans.at]

Receive ==
    /\ pc = "answered"
    /\ hand' = NewToken(hand, answer)
    /\ pc' = "save" /\ answer' = None
    /\ UNCHANGED <<now, serviceVars, file, signing, faults>>

(***************************************************************************)
(* state_file::write_file, the guest's and the script's: the file is       *)
(* truncated when it is opened, then written from its start.  If another   *)
(* writer wrote in between and wrote more, its end is left over.           *)
(***************************************************************************)
Written(token) == IF file = Torn THEN {token} ELSE {token, Torn}

OpenFile ==
    /\ pc = "save"
    /\ file' = Torn /\ pc' = "write"
    /\ UNCHANGED <<now, serviceVars, hand, answer, signing, faults>>

WriteFile ==
    /\ pc = "write"
    /\ file' \in Written(hand)
    /\ pc' = "ready"
    /\ UNCHANGED <<now, serviceVars, hand, answer, signing, faults>>

\* The bearer goes into the Authorization header of a request.
Use ==
    /\ pc = "ready"
    /\ pc' = "idle" /\ hand' = None
    /\ UNCHANGED <<now, serviceVars, file, answer, signing, faults>>

\* The guest is lost, a request fails, or a file operation fails.
Lose ==
    /\ pc # "idle" /\ (LosesOnlyCopy \/ valid = {} \/ OnFile)
    /\ faults < MaxFaults /\ faults' = faults + 1
    /\ pc' = "idle" /\ hand' = None /\ answer' = None
    /\ UNCHANGED <<now, serviceVars, file, signing>>

-----------------------------------------------------------------------------
(***************************************************************************)
(* tools/device-code-login.sh, and the user (external), who starts it when *)
(* no other one runs, and revokes.                                         *)
(***************************************************************************)
\* The script has its tokens, which were on their way for some time, and opens the file.
SignIn ==
    /\ signing = None /\ (pc = "idle" \/ ConcurrentSignIn)
    /\ issued < MaxTokens /\ issued' = issued + 1
    /\ valid' = valid \cup {issued'}
    /\ \E delay \in 0..MaxDelay :
          signing' = [refresh_token |-> issued',
                      access_token |-> now - delay + Lifetime,
                      expires_at |-> now + Lifetime - Margin,
                      delay |-> delay]
    /\ file' = Torn
    /\ UNCHANGED <<now, pc, hand, answer, faults>>

SignInWrites ==
    /\ signing # None
    /\ file' \in Written(signing)
    /\ signing' = None
    /\ UNCHANGED <<now, serviceVars, pc, hand, answer, faults>>

Revoke ==
    /\ valid # {} /\ valid' = {}
    /\ UNCHANGED <<now, issued, file, pc, hand, answer, signing, faults>>

-----------------------------------------------------------------------------
(***************************************************************************)
(* Time.  An answer may take longer than the margin: the host waits 300 s  *)
(* for its first byte and as long for each further one (host/src/main.rs), *)
(* the margin is 60 s.  Writing the file takes less than a second.         *)
(***************************************************************************)
Tick ==
    /\ now < MaxTime /\ now' = now + 1
    /\ pc \notin {"save", "write"}
    /\ pc = "answered" => now < answer.at + MaxDelay
    /\ UNCHANGED <<serviceVars, file, pc, hand, answer, signing, faults>>

GuestStep == TakeStored \/ AskRefresh \/ Refused \/ Receive \/ OpenFile \/ WriteFile \/ Use
Next == GuestStep \/ Issue \/ Lose \/ SignIn \/ SignInWrites \/ Revoke \/ Tick

Spec == Init /\ [][Next]_vars

\* Requests keep coming (the timer), a guest that runs goes on, the service answers, the script ends.
FairSpec == Spec /\ WF_vars(GuestStep) /\ WF_vars(Issue) /\ WF_vars(SignInWrites)

-----------------------------------------------------------------------------
(***************************************************************************)
(* auth.rs: "Returns a valid `Authorization: Bearer ...` value", "Refresh  *)
(* a little early".  A token whose answer was not longer on its way than   *)
(* the margin is one the service still accepts, each time it is handed     *)
(* out, from the file or from a refresh, although expires_at counts from   *)
(* when the answer came and the token from when it was issued.  One whose  *)
(* answer was slower is expired for less than the answer took beyond the   *)
(* margin.  (If tokens lasted no longer than the margin, an answer slower  *)
(* than that would bring a dead one.)                                      *)
(***************************************************************************)
BeyondMargin(token) == Saturating(token.delay - Margin)
Lasting(token) == Margin < Lifetime \/ token.delay < Lifetime
BearerIsFresh ==
    [][(pc' = "ready" /\ pc # "ready" /\ Lasting(hand'))
          => hand'.access_token + BeyondMargin(hand') > now]_vars

(***************************************************************************)
(* README: "Re-run this script only if that refresh token is ever          *)
(* revoked".  While the service accepts one of the refresh tokens it gave  *)
(* us, and nobody is about to write the file, the file has such a token.   *)
(***************************************************************************)
Settled == pc \notin {"answered", "save", "write"} /\ signing = None
SignInLasts ==
    (valid # {} /\ Settled) => OnFile

(***************************************************************************)
(* Who is signed in is served: once nothing is revoked any more, requests  *)
(* get a bearer again and again, whatever answers and guests were lost.    *)
(***************************************************************************)
SignedInIsServed == <>[](valid # {}) => []<>(pc = "ready")
=============================================================================

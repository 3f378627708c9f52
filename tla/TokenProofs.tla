---------------------------- MODULE TokenProofs ----------------------------
(***************************************************************************)
(* Proofs about Token, for any lifetime, margin and delays.                *)
(***************************************************************************)
EXTENDS Token, TLAPS

(***************************************************************************)
(* How far what is held for good is good: the code counts from the arrival *)
(* of a token, the service from its issue, and the margin is taken off.    *)
(***************************************************************************)
Covered(t) == t.expires_at <= now \/ t.expires_at + Margin <= t.access_token + t.delay
Fresh(t) == Lasting(t) => t.access_token + BeyondMargin(t) > now

Held ==
    /\ now \in Nat
    /\ file \in TokenFile \cup {Absent, Torn}
    /\ file \in TokenFile => Covered(file)
    /\ signing \in TokenFile \cup {None}
    /\ signing # None => Covered(signing)

Carried ==
    /\ pc \in Stages
    /\ pc # "idle" => hand \in TokenFile
    /\ pc = "answered" => /\ answer \in Answer
                          /\ answer.access_token = answer.at + Lifetime
                          /\ answer.at <= now
    /\ pc \in {"save", "write"} => Covered(hand) /\ Fresh(hand)

Service == issued \in Nat /\ valid \subseteq 1..issued

TimeInv == Held /\ Carried /\ Service

-----------------------------------------------------------------------------
\* A token the code does not hold for expired is one the service accepts, or was slow.
LEMMA CoveredIsFresh ==
  ASSUME NEW t \in TokenFile, now \in Nat, Covered(t), now < t.expires_at
  PROVE  Fresh(t)
<1>1. t.expires_at \in Int /\ t.access_token \in Int /\ t.delay \in Nat
  BY DEF TokenFile
<1>2. BeyondMargin(t) \in Nat /\ BeyondMargin(t) >= t.delay - Margin
  BY <1>1, TimesAssumption DEF BeyondMargin, Saturating
<1> QED
  BY <1>1, <1>2, TimesAssumption DEF Covered, Fresh

\* refresh(): what is made of an answer, however long it was on its way.
LEMMA NewTokenIsGood ==
  ASSUME NEW old \in TokenFile, NEW ans \in Answer, now \in Nat,
         ans.access_token = ans.at + Lifetime, ans.at <= now
  PROVE  /\ NewToken(old, ans) \in TokenFile
         /\ Covered(NewToken(old, ans)) /\ Fresh(NewToken(old, ans))
<1> DEFINE new == NewToken(old, ans)
           good == Saturating(Lifetime - Margin)
<1>1. ans.at \in Int /\ ans.access_token \in Int
  BY DEF Answer
<1>2. good \in Nat /\ (good = 0 \/ good = Lifetime - Margin)
  BY TimesAssumption DEF Saturating
<1>3. (IF ans.refresh_token = None THEN old.refresh_token ELSE ans.refresh_token) \in Nat
  BY DEF Answer, TokenFile
<1>4. now - ans.at \in Nat
  BY <1>1
<1> HIDE DEF good
<1>5. /\ new \in TokenFile /\ new.access_token = ans.access_token
      /\ new.expires_at = now + good /\ new.delay = now - ans.at
  BY <1>1, <1>2, <1>3, <1>4 DEF NewToken, TokenFile, good
<1> HIDE DEF new
<1>6. Covered(new)
  BY <1>1, <1>2, <1>5, TimesAssumption DEF Covered
<1>7. Fresh(new)
  <2>1. BeyondMargin(new) \in Nat /\ BeyondMargin(new) >= new.delay - Margin
    BY <1>4, <1>5, TimesAssumption DEF BeyondMargin, Saturating
  <2>2. CASE Margin < Lifetime
    BY <1>1, <1>5, <2>1, <2>2, TimesAssumption DEF Fresh
  <2>3. CASE new.delay < Lifetime
    BY <1>1, <1>5, <2>1, <2>3, TimesAssumption DEF Fresh
  <2> QED
    BY <2>2, <2>3 DEF Fresh, Lasting
<1> QED
  BY <1>5, <1>6, <1>7 DEF new

\* At the start there is no token.
LEMMA InitTime == Init => TimeInv
  BY FreshTokensAssumption DEF Init, TimeInv, Held, Carried, Service, Stages

\* The script's token is covered by its delay.
LEMMA SignInTime == ASSUME TimeInv, SignIn PROVE TimeInv'
<1>1. PICK delay \in 0..MaxDelay :
        signing' = [refresh_token |-> issued',
                    access_token |-> now - delay + Lifetime,
                    expires_at |-> now + Lifetime - Margin,
                    delay |-> delay]
  BY DEF SignIn
<1>2. issued' \in Nat /\ now \in Nat
  BY DEF SignIn, TimeInv, Service, Held
<1>3. now - delay + Lifetime \in Int /\ now + Lifetime - Margin \in Int /\ delay \in Nat
  BY <1>2, TimesAssumption
<1>4. /\ signing' \in TokenFile
      /\ signing'.access_token = now - delay + Lifetime
      /\ signing'.expires_at = now + Lifetime - Margin
      /\ signing'.delay = delay
  BY <1>1, <1>2, <1>3 DEF TokenFile
<1>5. Covered(signing)'
  <2>1. now' = now
    BY DEF SignIn
  <2> QED
    BY <1>2, <1>3, <1>4, <2>1, TimesAssumption DEF Covered
<1>6. Held'
  BY <1>4, <1>5, <1>2, FreshTokensAssumption DEF SignIn, TimeInv, Held
<1>7. Carried'
  BY DEF SignIn, TimeInv, Carried, Covered, Fresh
<1>8. Service'
  BY <1>2 DEF SignIn, TimeInv, Service
<1> QED
  BY <1>6, <1>7, <1>8 DEF TimeInv

\* Time passes over a token until it is held for expired.
LEMMA TickTime == ASSUME TimeInv, Tick PROVE TimeInv'
<1>1. now \in Nat /\ now' = now + 1
  BY DEF Tick, TimeInv, Held
<1>2. ASSUME NEW t \in TokenFile, Covered(t)
      PROVE  t.expires_at <= now' \/ t.expires_at + Margin <= t.access_token + t.delay
  <2>1. t.expires_at \in Int
    BY DEF TokenFile
  <2> QED
    BY <1>1, <1>2, <2>1 DEF Covered
<1>3. Held'
  BY <1>1, <1>2 DEF Tick, TimeInv, Held, Covered
<1>4. pc = "answered" => answer.at <= now'
  <2> SUFFICES ASSUME pc = "answered" PROVE answer.at <= now'
    OBVIOUS
  <2>1. answer.at \in Int /\ answer.at <= now
    BY DEF TimeInv, Carried, Answer
  <2> QED
    BY <1>1, <2>1
<1>5. Carried'
  BY <1>4 DEF Tick, TimeInv, Carried
<1> QED
  BY <1>3, <1>5 DEF Tick, TimeInv, Service, serviceVars

\* An answer is new when it is given.
LEMMA IssueTime == ASSUME TimeInv, Issue PROVE TimeInv'
<1>0. issued + 1 \in Nat /\ valid \subseteq 1..issued /\ issued \in Nat
  BY DEF TimeInv, Service
<1>1. PICK r \in Nat \cup {None} :
        answer' = [refresh_token |-> r, access_token |-> now + Lifetime, at |-> now]
  <2>1. CASE answer' = [refresh_token |-> None, access_token |-> now + Lifetime, at |-> now]
    BY <2>1
  <2>2. CASE answer' = [refresh_token |-> issued + 1, access_token |-> now + Lifetime, at |-> now]
    BY <1>0, <2>2
  <2> QED
    BY <2>1, <2>2 DEF Issue
<1>2. now \in Nat /\ now + Lifetime \in Int
  BY TimesAssumption DEF TimeInv, Held
<1>3. /\ answer' \in Answer
      /\ answer'.at = now /\ answer'.access_token = now + Lifetime
  BY <1>1, <1>2 DEF Answer
<1>4. Carried'
  BY <1>2, <1>3, TimesAssumption DEF Issue, TimeInv, Carried, Stages
<1>5. Service'
  <2>1. 1..issued \subseteq 1..(issued + 1) /\ issued + 1 \in 1..(issued + 1)
    BY <1>0
  <2>2. CASE UNCHANGED serviceVars
    BY <1>0, <2>2 DEF serviceVars, Service
  <2>3. CASE /\ issued' = issued + 1
             /\ \/ valid' = valid \cup {issued'}
                \/ Revokes /\ valid' = (valid \ {hand.refresh_token}) \cup {issued'}
    <3>1. valid' \subseteq valid \cup {issued + 1}
      BY <2>3
    <3> QED
      BY <1>0, <2>1, <2>3, <3>1 DEF Service
  <2> QED
    BY <2>2, <2>3 DEF Issue
<1>6. Held'
  BY DEF Issue, TimeInv, Held, Covered
<1> QED
  BY <1>4, <1>5, <1>6 DEF TimeInv

\* Every step keeps what is known of the times of tokens.
LEMMA TimeStep == TimeInv /\ [Next]_vars => TimeInv'
<1> SUFFICES ASSUME TimeInv, [Next]_vars PROVE TimeInv'
  OBVIOUS
<1> USE DEF TimeInv, Held, Carried, Service, Covered, Fresh, Stages, serviceVars
<1>1. CASE TakeStored
  BY <1>1 DEF TakeStored, Readable
<1>2. CASE AskRefresh
  BY <1>2 DEF AskRefresh, Readable
<1>3. CASE Refused
  BY <1>3 DEF Refused
<1>4. CASE Receive
  <2>1. /\ NewToken(hand, answer) \in TokenFile
        /\ Covered(NewToken(hand, answer)) /\ Fresh(NewToken(hand, answer))
    BY <1>4, NewTokenIsGood DEF Receive
  <2>2. hand' = NewToken(hand, answer)
    BY <1>4 DEF Receive
  <2> QED
    BY <1>4, <2>1, <2>2 DEF Receive
<1>5. CASE OpenFile
  BY <1>5, FreshTokensAssumption DEF OpenFile
<1>6. CASE WriteFile
  BY <1>6, FreshTokensAssumption DEF WriteFile, Written
<1>7. CASE Use
  BY <1>7 DEF Use
<1>8. CASE Issue
  BY <1>8, IssueTime
<1>9. CASE Lose
  BY <1>9 DEF Lose
<1>10. CASE SignIn
  BY <1>10, SignInTime
<1>11. CASE SignInWrites
  BY <1>11, FreshTokensAssumption DEF SignInWrites, Written
<1>12. CASE Revoke
  BY <1>12 DEF Revoke
<1>13. CASE Tick
  BY <1>13, TickTime
<1>14. CASE UNCHANGED vars
  BY <1>14 DEF vars
<1> QED
  BY <1>1, <1>2, <1>3, <1>4, <1>5, <1>6, <1>7, <1>8, <1>9, <1>10, <1>11, <1>12, <1>13, <1>14
  DEF Next, GuestStep

\* So it is known in every state.
LEMMA TimeAlways == Spec => []TimeInv
  BY InitTime, TimeStep, PTL DEF Spec

(***************************************************************************)
(* auth.rs: "Returns a valid `Authorization: Bearer ...` value".  Whatever *)
(* the delays: a token, be it from the file, from the sign-in script or    *)
(* from a refresh, is handed out expired only if its own answer was longer *)
(* on its way than the margin, and then for less than it was longer, if    *)
(* tokens last longer than the margin or the answer came before its token  *)
(* expired.  No assumption bounds a delay, and what slow answers came      *)
(* before does not matter.                                                 *)
(***************************************************************************)
THEOREM BearersAreFresh == Spec => BearerIsFresh
<1>1. ASSUME TimeInv, pc' = "ready", pc # "ready", [Next]_vars
      PROVE  Lasting(hand') => hand'.access_token + BeyondMargin(hand') > now
  <2>1. TakeStored \/ WriteFile
    BY <1>1 DEF Next, GuestStep, AskRefresh, Refused, Receive, OpenFile, Use, Issue, Lose, SignIn,
       SignInWrites, Revoke, Tick, vars
  <2>2. CASE TakeStored
    <3>1. file \in TokenFile /\ Covered(file) /\ now \in Nat
      BY <1>1, <2>2 DEF TakeStored, Readable, TimeInv, Held
    <3>2. Fresh(file)
      BY <2>2, <3>1, CoveredIsFresh DEF TakeStored
    <3> QED
      BY <2>2, <3>2 DEF TakeStored, Fresh
  <2>3. CASE WriteFile
    BY <1>1, <2>3 DEF WriteFile, TimeInv, Carried, Fresh
  <2> QED
    BY <2>1, <2>2, <2>3
<1>2. TimeInv /\ [Next]_vars =>
      [(pc' = "ready" /\ pc # "ready" /\ Lasting(hand'))
          => hand'.access_token + BeyondMargin(hand') > now]_vars
  BY <1>1
<1> QED
  BY <1>2, TimeAlways, PTL DEF Spec, BearerIsFresh

-----------------------------------------------------------------------------
\* Every step keeps the types.
LEMMA TypeStep == TimeInv /\ TypeOK /\ [Next]_vars => TypeOK'
<1> SUFFICES ASSUME TimeInv, TypeOK, [Next]_vars PROVE TypeOK'
  OBVIOUS
<1>1. TimeInv'
  BY TimeStep
<1>2. /\ now \in Nat /\ issued \in Nat /\ valid \subseteq 1..issued /\ pc \in Stages
      /\ file \in TokenFile \cup {Absent, Torn} /\ signing \in TokenFile \cup {None}
      /\ pc # "idle" => hand \in TokenFile
      /\ pc = "answered" => answer \in Answer
  BY DEF TimeInv, Held, Carried, Service
<1>3. /\ now' \in Nat /\ issued' \in Nat /\ valid' \subseteq 1..issued' /\ pc' \in Stages
      /\ file' \in TokenFile \cup {Absent, Torn} /\ signing' \in TokenFile \cup {None}
      /\ pc' # "idle" => hand' \in TokenFile
      /\ pc' = "answered" => answer' \in Answer
  BY <1>1 DEF TimeInv, Held, Carried, Service
<1>4. hand' \in TokenFile \cup {None}
  BY <1>3 DEF TypeOK, Next, GuestStep, TakeStored, AskRefresh, Refused, Receive, OpenFile, WriteFile,
     Use, Issue, Lose, SignIn, SignInWrites, Revoke, Tick, vars
<1>5. answer' \in Answer \cup {None}
  BY <1>3 DEF TypeOK, Next, GuestStep, TakeStored, AskRefresh, Refused, Receive, OpenFile, WriteFile,
     Use, Issue, Lose, SignIn, SignInWrites, Revoke, Tick, vars
<1>6. faults' \in Nat
  BY DEF TypeOK, Next, GuestStep, TakeStored, AskRefresh, Refused, Receive, OpenFile, WriteFile,
     Use, Issue, Lose, SignIn, SignInWrites, Revoke, Tick, vars
<1> QED
  BY <1>3, <1>4, <1>5, <1>6 DEF TypeOK

(***************************************************************************)
(* Type correctness of token.json, the guest and the service.              *)
(***************************************************************************)
THEOREM TokenTypes == Spec => []TypeOK
<1>1. Init => TypeOK
  BY DEF Init, TypeOK, Stages
<1> QED
  BY <1>1, TypeStep, TimeAlways, PTL DEF Spec

-----------------------------------------------------------------------------
(***************************************************************************)
(* Why one sign-in lasts: whoever is about to write the file carries a     *)
(* token the service accepts, only one writer is about to, and the guest   *)
(* is never without both its memory and the file.                          *)
(***************************************************************************)
OneWriter ==
    /\ signing # None => pc = "idle" /\ file = Torn
    /\ pc = "write" => file = Torn

Accepted ==
    valid # {} =>
    /\ Settled => OnFile
    /\ signing # None => signing.refresh_token \in valid
    /\ pc \in {"asked", "save", "write"} => hand.refresh_token \in valid
    /\ pc = "answered" => IF answer.refresh_token = None THEN hand.refresh_token \in valid
                                                         ELSE answer.refresh_token \in valid

Kept == OneWriter /\ Accepted

\* Every step leaves a good token with who writes next, or on file.
LEMMA KeptStep ==
  ASSUME ~LosesOnlyCopy, ~ConcurrentSignIn, TimeInv, Kept, [Next]_vars
  PROVE  Kept'
<1> USE DEF Kept, OneWriter, Accepted, Settled, OnFile, Readable, serviceVars
<1>1. pc \in Stages /\ file \in TokenFile \cup {Absent, Torn} /\ signing \in TokenFile \cup {None}
  BY DEF TimeInv, Carried, Held
<1>2. CASE TakeStored
  BY <1>1, <1>2 DEF TakeStored
<1>3. CASE AskRefresh
  BY <1>1, <1>3 DEF AskRefresh
<1>4. CASE Refused
  BY <1>4 DEF Refused
<1>5. CASE Receive
  BY <1>5 DEF Receive, NewToken
<1>6. CASE OpenFile
  BY <1>6 DEF OpenFile
<1>7. CASE WriteFile
  BY <1>7, FreshTokensAssumption DEF WriteFile, Written, TimeInv, Carried
<1>8. CASE Use
  BY <1>8 DEF Use
<1>9. CASE Issue
  <2>1. hand.refresh_token \in valid /\ file' = file /\ hand' = hand /\ signing' = signing
        /\ pc = "asked" /\ pc' = "answered"
    BY <1>9 DEF Issue
  <2>2. issued + 1 # None
    BY FreshTokensAssumption DEF TimeInv, Service
  <2>3. IF answer'.refresh_token = None THEN hand.refresh_token \in valid'
                                        ELSE answer'.refresh_token \in valid'
    BY <1>9, <2>1, <2>2 DEF Issue
  <2> QED
    BY <2>1, <2>3
<1>10. CASE Lose
  BY <1>10 DEF Lose
<1>11. CASE SignIn
  <2>1. pc = "idle" /\ pc' = "idle" /\ file' = Torn /\ valid' = valid \cup {issued'}
    BY <1>11 DEF SignIn
  <2>2. signing'.refresh_token = issued' /\ signing' # None
    <3>1. PICK delay \in 0..MaxDelay :
            signing' = [refresh_token |-> issued',
                        access_token |-> now - delay + Lifetime,
                        expires_at |-> now + Lifetime - Margin,
                        delay |-> delay]
      BY <1>11 DEF SignIn
    <3>2. signing' \in TokenFile
      <4>1. /\ issued' \in Nat /\ delay \in Nat
            /\ now - delay + Lifetime \in Int /\ now + Lifetime - Margin \in Int
        BY <1>11, TimesAssumption DEF SignIn, TimeInv, Service, Held
      <4> QED
        BY <3>1, <4>1 DEF TokenFile
    <3> QED
      BY <3>1, <3>2, FreshTokensAssumption
  <2> QED
    BY <2>1, <2>2
<1>12. CASE SignInWrites
  BY <1>1, <1>12, FreshTokensAssumption DEF SignInWrites, Written
<1>13. CASE Revoke
  BY <1>13 DEF Revoke
<1>14. CASE Tick
  BY <1>14 DEF Tick
<1>15. CASE UNCHANGED vars
  BY <1>15 DEF vars
<1> QED
  BY <1>2, <1>3, <1>4, <1>5, <1>6, <1>7, <1>8, <1>9, <1>10, <1>11, <1>12, <1>13, <1>14, <1>15
  DEF Next, GuestStep

(***************************************************************************)
(* README: "Re-run this script only if that refresh token is ever          *)
(* revoked".  That holds for any number of refreshes, rotations (whether   *)
(* the service goes on accepting the old token or not), lost guests and    *)
(* sign-ins, if no guest is lost, and no write of token.json fails, while  *)
(* only its memory has a token, and the user signs in while no guest runs. *)
(***************************************************************************)
THEOREM OneSignInLasts ==
  ASSUME ~LosesOnlyCopy, ~ConcurrentSignIn
  PROVE  Spec => []SignInLasts
<1>1. Init => Kept
  BY DEF Init, Kept, OneWriter, Accepted
<1>2. TimeInv /\ Kept /\ [Next]_vars => Kept'
  BY KeptStep
<1>3. Kept => SignInLasts
  BY DEF Kept, Accepted, SignInLasts
<1> QED
  BY <1>1, <1>2, <1>3, TimeAlways, PTL DEF Spec
=============================================================================

------------------------------ MODULE Sessions ------------------------------
(***************************************************************************)
(* The sessions of one baker: sign-in, logout, and the refresh endpoint    *)
(* that exchanges a refresh token for a new one.                           *)
(*                                                                         *)
(* A session and its refresh token are one row (the session id is the      *)
(* row's primary key, the token's hash its unique key) and one element of  *)
(* Tokens here.  No handler opens a transaction: every database statement  *)
(* is a step of its own and requests interleave between them.  Rows are    *)
(* never deleted, so a token whose signature verifies always has one.      *)
(* The audit records and the access tokens, which nothing looks up, are    *)
(* left out.                                                               *)
(***************************************************************************)
EXTENDS Integers

CONSTANTS
  Tokens,       \* sessions that may come to exist
  Requests,     \* requests that can be in flight at the same time
  Grace,        \* REUSE_GRACE_WINDOW_MS
  Lifetime,     \* JWT_REFRESH_EXPIRES_IN
  AccessLife,   \* JWT_ACCESS_EXPIRES_IN
  MaxTime,      \* bound: the clock stops there
  None          \* no token

ASSUME SessionAssumption ==
  /\ Grace \in Nat /\ Lifetime \in Nat /\ AccessLife \in Nat /\ MaxTime \in Nat
  /\ None \notin Tokens

Never == -1     \* a NULL timestamp

VARIABLES
  now,         \* the clock
  baker,       \* the column Baker.status, as far as a session cares
  issued,      \* issued[t]: when the row was created, Never if it was not
  revokedAt,   \* revokedAt[t]: the column
  rotatedTo,   \* rotatedTo[t]: the column rotatedToTokenId
  request,     \* request[r]: where request r is
  held,        \* tokens that reached a browser
  endedBy      \* history: what revoked the token

vars == <<now, baker, issued, revokedAt, rotatedTo, request, held, endedBy>>
rows == <<issued, revokedAt, rotatedTo, endedBy>>

(***************************************************************************)
(* A request in flight: the next statement it runs, the token it presented *)
(* (None for a sign-in), whether it won the claim, the session it created, *)
(* and (history) whether it arrived too late to be served.                 *)
(***************************************************************************)
Idle == [at |-> "idle"]

InFlight == [at : {"claim", "examine", "judge", "revokeAll", "vet", "mint",
                   "link", "reply"},
             token : Tokens \cup {None}, won : {"yes", "no"},
             new : Tokens \cup {None}, doomed : {"yes", "no"}]

Time == Nat \cup {Never}

TypeOK ==
  /\ now \in Nat
  /\ baker \in {"active", "suspended"}
  /\ issued    \in [Tokens -> Time]
  /\ revokedAt \in [Tokens -> Time]
  /\ rotatedTo \in [Tokens -> Tokens \cup {None}]
  /\ endedBy   \in [Tokens -> {"open", "claim", "logout", "reuse"}]
  /\ request   \in [Requests -> InFlight \cup {Idle}]
  /\ held \subseteq Tokens

Init ==
  /\ now = 0
  /\ baker = "active"
  /\ issued    = [t \in Tokens |-> Never]
  /\ revokedAt = [t \in Tokens |-> Never]
  /\ rotatedTo = [t \in Tokens |-> None]
  /\ endedBy   = [t \in Tokens |-> "open"]
  /\ request   = [r \in Requests |-> Idle]
  /\ held = {}

Live(t) == issued[t] # Never /\ revokedAt[t] = Never
Late(t) == revokedAt[t] # Never /\ now - revokedAt[t] > Grace

At(r, place) == request[r].at = place

Arrive(r, place, token) ==
  /\ request[r] = Idle
  /\ request' = [request EXCEPT ![r] =
       [at |-> place, token |-> token, won |-> "no", new |-> None,
        doomed |-> IF baker = "suspended" \/ (token \in Tokens /\ Late(token))
                     THEN "yes" ELSE "no"]]

\* The same request, one statement later; and the end of a request.
Go(r, place, won, new) ==
  request' = [request EXCEPT ![r] =
                [at |-> place, token |-> request[r].token, won |-> won,
                 new |-> new, doomed |-> request[r].doomed]]

Advance(r, place) == Go(r, place, request[r].won, request[r].new)

Finish(r) == request' = [request EXCEPT ![r] = Idle]

-----------------------------------------------------------------------------
(***************************************************************************)
(* Sign-in, by OTP or Google: look at the baker, then create a session.    *)
(***************************************************************************)
SignIn(r) ==
  /\ Arrive(r, "vet", None)
  /\ UNCHANGED <<now, baker, held, rows>>

(***************************************************************************)
(* refreshSession, in the order of its statements.                         *)
(***************************************************************************)
\* The JWT verifies: a token some browser was given, not yet expired.
Present(r) ==
  /\ \E t \in held :
       /\ now < issued[t] + Lifetime
       /\ Arrive(r, "claim", t)
  /\ UNCHANGED <<now, baker, held, rows>>

\* Mutated form: the UPDATE does not ask for revokedAt to be null.
ClaimUnconditional(r) ==
  /\ At(r, "claim")
  /\ LET t == request[r].token IN
       /\ revokedAt' = [revokedAt EXCEPT ![t] = now]
       /\ endedBy' = [endedBy EXCEPT ![t] = "claim"]
       /\ Go(r, "examine", "yes", None)
  /\ UNCHANGED <<now, baker, held, issued, rotatedTo>>

\* The conditional UPDATE: its count tells the winner from the others.
Claim(r) ==
  /\ At(r, "claim")
  /\ LET t == request[r].token IN
       \/ /\ Live(t)
          /\ revokedAt' = [revokedAt EXCEPT ![t] = now]
          /\ endedBy' = [endedBy EXCEPT ![t] = "claim"]
          /\ Go(r, "examine", "yes", None)
       \/ /\ ~Live(t)
          /\ Advance(r, "judge")
          /\ UNCHANGED <<revokedAt, endedBy>>
  /\ UNCHANGED <<now, baker, held, issued, rotatedTo>>

\* The winner's row may have expired since the JWT was verified.
Examine(r) ==
  /\ At(r, "examine")
  /\ IF issued[request[r].token] + Lifetime < now
       THEN Finish(r)
       ELSE Advance(r, "vet")
  /\ UNCHANGED <<now, baker, held, rows>>

\* Mutated forms: no grace window at all; no limit to it; within the window
\* the request is answered without a session of its own.
JudgeStrict(r) ==
  /\ At(r, "judge")
  /\ Advance(r, "revokeAll")
  /\ UNCHANGED <<now, baker, held, rows>>

JudgeLenient(r) ==
  /\ At(r, "judge")
  /\ Advance(r, "vet")
  /\ UNCHANGED <<now, baker, held, rows>>

JudgeRepliesAtOnce(r) ==
  /\ At(r, "judge")
  /\ Advance(r, IF Late(request[r].token) THEN "revokeAll" ELSE "reply")
  /\ UNCHANGED <<now, baker, held, rows>>

\* Whoever lost the claim: a race within the window, reuse after it.
Judge(r) ==
  /\ At(r, "judge")
  /\ Advance(r, IF Late(request[r].token) THEN "revokeAll" ELSE "vet")
  /\ UNCHANGED <<now, baker, held, rows>>

\* Mutated form: already revoked rows are stamped again.
RevokeAllAgain(r) ==
  /\ At(r, "revokeAll")
  /\ revokedAt' = [t \in Tokens |-> IF issued[t] # Never THEN now ELSE revokedAt[t]]
  /\ endedBy' = [t \in Tokens |-> IF Live(t) THEN "reuse" ELSE endedBy[t]]
  /\ Finish(r)
  /\ UNCHANGED <<now, baker, held, issued, rotatedTo>>

\* revokeAllSessions, then the request is refused.
RevokeAll(r) ==
  /\ At(r, "revokeAll")
  /\ revokedAt' = [t \in Tokens |-> IF Live(t) THEN now ELSE revokedAt[t]]
  /\ endedBy' = [t \in Tokens |-> IF Live(t) THEN "reuse" ELSE endedBy[t]]
  /\ Finish(r)
  /\ UNCHANGED <<now, baker, held, issued, rotatedTo>>

\* The baker must not be suspended.
Vet(r) ==
  /\ At(r, "vet")
  /\ IF baker = "suspended" THEN Finish(r) ELSE Advance(r, "mint")
  /\ UNCHANGED <<now, baker, held, rows>>

\* createSession
Mint(r) ==
  /\ At(r, "mint")
  /\ \E t \in Tokens :
       /\ issued[t] = Never
       /\ issued' = [issued EXCEPT ![t] = now]
       /\ Go(r, IF request[r].won = "yes" THEN "link" ELSE "reply",
             request[r].won, t)
  /\ UNCHANGED <<now, baker, held, revokedAt, rotatedTo, endedBy>>

\* The winner points its old row at the new one.
Link(r) ==
  /\ At(r, "link")
  /\ rotatedTo' = [rotatedTo EXCEPT ![request[r].token] = request[r].new]
  /\ Advance(r, "reply")
  /\ UNCHANGED <<now, baker, held, issued, revokedAt, endedBy>>

\* The new cookies reach the browser.
Reply(r) ==
  /\ At(r, "reply")
  /\ held' = held \cup {request[r].new}
  /\ Finish(r)
  /\ UNCHANGED <<now, baker, rows>>

\* The process dies, a statement fails, or the reply is lost.
Fail(r) ==
  /\ request[r] # Idle
  /\ Finish(r)
  /\ UNCHANGED <<now, baker, held, rows>>

-----------------------------------------------------------------------------
\* logout, authenticated by the access token of session t: one UPDATE, which
\* leaves a row already revoked as it is.
Logout(t) ==
  /\ t \in held
  /\ now < issued[t] + AccessLife
  /\ Live(t)
  /\ revokedAt' = [revokedAt EXCEPT ![t] = now]
  /\ endedBy' = [endedBy EXCEPT ![t] = "logout"]
  /\ UNCHANGED <<now, baker, held, issued, rotatedTo, request>>

\* An operator sets Baker.status by hand (nothing in the code does).
Suspend ==
  /\ baker = "active"
  /\ baker' = "suspended"
  /\ UNCHANGED <<now, held, rows, request>>

Tick ==
  /\ now < MaxTime
  /\ now' = now + 1
  /\ UNCHANGED <<baker, held, rows, request>>

Next ==
  \/ \E r \in Requests :
       \/ SignIn(r) \/ Present(r) \/ Claim(r) \/ Examine(r) \/ Judge(r)
       \/ RevokeAll(r) \/ Vet(r) \/ Mint(r) \/ Link(r) \/ Reply(r) \/ Fail(r)
  \/ \E t \in Tokens : Logout(t)
  \/ Suspend
  \/ Tick

Spec == Init /\ [][Next]_vars

-----------------------------------------------------------------------------
(***************************************************************************)
(* Properties.                                                             *)
(***************************************************************************)
\* "Exactly one concurrent caller can ever win this for a given token": of
\* the requests in flight one at most has won the claim on a token, and none
\* goes on to create a session once the row is linked to its successor.
Rotating(r) == request[r] # Idle /\ request[r].won = "yes"

RotatedOnce ==
  \A r, s \in Requests : Rotating(r) =>
    /\ Rotating(s) /\ request[r].token = request[s].token => r = s
    /\ request[r].at # "reply" => rotatedTo[request[r].token] = None

\* A revocation is never undone and its time never moves, whatever else is
\* revoked later: the grace window of a token opens once.
RevocationIsFixed ==
  [][\A t \in Tokens : revokedAt[t] # Never => revokedAt'[t] = revokedAt[t]]_vars

\* A request takes down sessions other than the one it presented only on a
\* token that had been revoked for longer than the grace window: callers
\* that merely race each other never sign anybody out.
OnlyReuseRevokesOthers ==
  [][\A r \in Requests : \A t \in Tokens :
       /\ request[r] # Idle /\ request'[r] # request[r]
       /\ Live(t) /\ revokedAt'[t] # Never
       /\ request[r].token # t
       => Late(request[r].token)]_vars

\* A request that arrives for a suspended baker, or with a token revoked for
\* longer than the grace window, never gets as far as creating a session,
\* whatever is claimed, revoked or created while it runs.
DoomedGetsNoSession ==
  \A r \in Requests : request[r] # Idle =>
    (request[r].doomed = "yes" => request[r].at \notin {"mint", "link", "reply"})

-----------------------------------------------------------------------------
(***************************************************************************)
(* The inductive invariant behind them: what the place a request has       *)
(* reached says about the token it carries.  Late is for ever, which is    *)
(* what keeps a decision taken on it true while the request goes on.       *)
(***************************************************************************)
Carries(r) ==
  /\ At(r, "claim") \/ At(r, "examine") \/ At(r, "judge") \/ At(r, "revokeAll")
       => request[r].token \in held
  /\ At(r, "examine") \/ At(r, "link") => Rotating(r)
  /\ At(r, "claim") \/ At(r, "judge") \/ At(r, "revokeAll") => ~Rotating(r)
  /\ At(r, "link") \/ At(r, "reply") => request[r].new \in Tokens
  /\ At(r, "link") \/ At(r, "reply") => issued[request[r].new] # Never
  /\ At(r, "judge") => revokedAt[request[r].token] # Never
  /\ At(r, "revokeAll") => Late(request[r].token)
  /\ Rotating(r) => /\ request[r].token \in Tokens
                    /\ revokedAt[request[r].token] # Never

Doomed(r) == request[r] # Idle /\ request[r].doomed = "yes"

HeldBack(r) ==
  Doomed(r) =>
    /\ ~At(r, "mint") /\ ~At(r, "link") /\ ~At(r, "reply")
    /\ baker = "active" => /\ ~At(r, "vet") /\ ~At(r, "examine")
                     /\ request[r].token \in Tokens
                     /\ Late(request[r].token)

RowsInv ==
  /\ \A t \in held : issued[t] # Never
  /\ \A t \in Tokens : rotatedTo[t] # None => revokedAt[t] # Never
  /\ \A t \in Tokens : revokedAt[t] # Never => revokedAt[t] <= now

IInv ==
  /\ TypeOK
  /\ RowsInv
  /\ \A r \in Requests : Carries(r)
  /\ \A r \in Requests : HeldBack(r)
  /\ RotatedOnce

-----------------------------------------------------------------------------
(***************************************************************************)
(* What the comments promise and the code does not do.                     *)
(***************************************************************************)
\* Reuse detection is meant so that "every device is forced to
\* re-authenticate": a token it revoked is not exchanged.
ReuseForcesSignIn ==
  [][\A r \in Requests :
       At(r, "judge") /\ endedBy[request[r].token] = "reuse"
         => request'[r].at # "vet"]_vars
=============================================================================

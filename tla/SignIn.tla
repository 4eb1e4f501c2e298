------------------------------- MODULE SignIn -------------------------------
(***************************************************************************)
(* Signing in with one e-mail address: the one-time codes that are mailed  *)
(* to it and verified, Google's tokens for it, and the tenant that the     *)
(* first sign-in provisions.                                               *)
(*                                                                         *)
(* Addresses share nothing (every query filters by the e-mail, and the     *)
(* e-mail is unique among bakers), so one address stands for all.  Outside *)
(* provisionTenant no handler opens a transaction: every statement is a    *)
(* step of its own and requests interleave between them.  Two codes never  *)
(* have the same six digits here.  What becomes of a session afterwards is *)
(* in the module Sessions; audit records are left out.                     *)
(***************************************************************************)
EXTENDS Integers, FiniteSets

CONSTANTS
  Codes,         \* rows of EmailVerification that may come to exist
  Requests,      \* requests that can be in flight at the same time
  Hour,          \* the window of the hourly limit
  HourlyLimit,   \* 5 in the code
  Cooldown,      \* 60 seconds in the code
  Ttl,           \* a code's five minutes
  AttemptLimit,  \* 5 in the code
  MaxTime,       \* bound: the clock stops there
  None           \* no code

ASSUME SignInAssumption ==
  /\ Hour \in Nat /\ Cooldown \in Nat /\ Ttl \in Nat /\ MaxTime \in Nat
  /\ HourlyLimit \in Nat \ {0} /\ AttemptLimit \in Nat \ {0}
  /\ Cooldown <= Hour
  /\ None \notin Codes
  /\ IsFiniteSet(Codes) /\ IsFiniteSet(Requests)

Never == -1     \* a NULL timestamp

VARIABLES
  now,        \* the clock
  row,        \* row[c]: the row of EmailVerification, as a record
  mailed,     \* codes that reached the inbox
  baker,      \* the baker of this address and its status
  request,    \* request[r]: where request r is
  opened      \* history: opened[c], sessions opened with code c

vars == <<now, row, mailed, baker, request, opened>>
table == <<row, mailed>>

Time == Nat \cup {Never}
Row == [created : Time, expires : Time, attempts : Nat, consumed : {"no", "yes"}]
AbsentRow == [created |-> Never, expires |-> Never, attempts |-> 0, consumed |-> "no"]

(***************************************************************************)
(* A request in flight: its next statement, when it arrived, the code the  *)
(* user typed (None: a wrong one, or not that kind of request), and the    *)
(* row the request has found or created, which replaces the other two.     *)
(***************************************************************************)
Idle == [at |-> "idle"]
InFlight == [at : {"count", "cooldown", "insert", "mail", "find", "increment",
                   "consume", "lookup", "provision", "session"},
             arrived : Nat, typed : Codes \cup {None}, found : Codes \cup {None}]

TypeOK ==
  /\ now \in Nat
  /\ row \in [Codes -> Row]
  /\ mailed \subseteq Codes
  /\ baker \in {"absent", "pending", "suspended"}
  /\ request \in [Requests -> InFlight \cup {Idle}]
  /\ opened \in [Codes -> Nat]

Init ==
  /\ now = 0
  /\ row = [c \in Codes |-> AbsentRow]
  /\ mailed = {}
  /\ baker = "absent"
  /\ request = [r \in Requests |-> Idle]
  /\ opened = [c \in Codes |-> 0]

Created == {c \in Codes : row[c].created # Never}
Consumed == {c \in Codes : row[c].consumed = "yes"}

At(r, place) == request[r].at = place

Arrive(r, place, typed) ==
  /\ request[r] = Idle
  /\ request' = [request EXCEPT ![r] =
       [at |-> place, arrived |-> now, typed |-> typed, found |-> None]]

Advance(r, place) ==
  request' = [request EXCEPT ![r] =
       [at |-> place, arrived |-> request[r].arrived, typed |-> None,
        found |-> request[r].found]]

\* From here on the request only needs the row it has found or created.
Reach(r, place, found) ==
  request' = [request EXCEPT ![r] =
       [at |-> place, arrived |-> 0, typed |-> None, found |-> found]]

Finish(r) == request' = [request EXCEPT ![r] = Idle]

-----------------------------------------------------------------------------
(***************************************************************************)
(* The queries of VerificationRepository.                                  *)
(***************************************************************************)
CreatedSince(since) == {c \in Created : row[c].created >= since}

CountHourlyRequests(since) == Cardinality(CreatedSince(since))

FindRecentRequest(since) == CreatedSince(since) # {}

\* More than one when rows were created in the same instant.
FindLatestUnverified ==
  LET open == Created \ Consumed IN
    {c \in open : \A d \in open : row[d].created <= row[c].created}

NewRow(arrived) ==
  [created |-> now, expires |-> arrived + Ttl, attempts |-> 0, consumed |-> "no"]

\* Mutated form: the attempts are counted down.
DecrementAttempts(c) == [row[c] EXCEPT !.attempts = @ - 1]

IncrementAttempts(c) == [row[c] EXCEPT !.attempts = @ + 1]

\* Mutated form: the row is left as it is.
MarkNothing(c) == row[c]

MarkConsumed(c) == [row[c] EXCEPT !.consumed = "yes"]

-----------------------------------------------------------------------------
(***************************************************************************)
(* requestOtp, in the order of its statements.                             *)
(***************************************************************************)
SendEmailOtp(r) ==
  /\ Arrive(r, "count", None)
  /\ UNCHANGED <<now, table, baker, opened>>

\* Mutated form: one request too many.
OverHourlyLate(count) == count > HourlyLimit

OverHourly(count) == count >= HourlyLimit

CountRequests(r) ==
  /\ At(r, "count")
  /\ IF OverHourly(CountHourlyRequests(request[r].arrived - Hour))
       THEN Finish(r)
       ELSE Advance(r, "cooldown")
  /\ UNCHANGED <<now, table, baker, opened>>

CheckCooldown(r) ==
  /\ At(r, "cooldown")
  /\ IF FindRecentRequest(request[r].arrived - Cooldown)
       THEN Finish(r)
       ELSE Advance(r, "insert")
  /\ UNCHANGED <<now, table, baker, opened>>

CreateVerification(r) ==
  /\ At(r, "insert")
  /\ \E c \in Codes \ Created :
       /\ row' = [row EXCEPT ![c] = NewRow(request[r].arrived)]
       /\ Reach(r, "mail", c)
  /\ UNCHANGED <<now, mailed, baker, opened>>

SendVerificationEmail(r) ==
  /\ At(r, "mail")
  /\ mailed' = mailed \cup {request[r].found}
  /\ Finish(r)
  /\ UNCHANGED <<now, row, baker, opened>>

-----------------------------------------------------------------------------
(***************************************************************************)
(* verifyOtp.  The user types a code from the inbox, or a wrong one.       *)
(***************************************************************************)
VerifyEmailOtp(r) ==
  /\ \E c \in mailed \cup {None} : Arrive(r, "find", c)
  /\ UNCHANGED <<now, table, baker, opened>>

\* Mutated form: one attempt too many.
ExhaustedLate(c) == row[c].attempts > AttemptLimit

Exhausted(c) == row[c].attempts >= AttemptLimit

VerifyOtpHash(typed, c) == typed = c

\* The row found decides the way: expired or exhausted ends the request.
FindVerification(r) ==
  /\ At(r, "find")
  /\ \/ /\ FindLatestUnverified = {}
        /\ Finish(r)
     \/ \E c \in FindLatestUnverified :
          IF row[c].expires < request[r].arrived \/ Exhausted(c)
            THEN Finish(r)
            ELSE IF VerifyOtpHash(request[r].typed, c)
                   THEN Reach(r, "consume", c)
                   ELSE Reach(r, "increment", c)
  /\ UNCHANGED <<now, table, baker, opened>>

Increment(r) ==
  /\ At(r, "increment")
  /\ LET c == request[r].found IN
       row' = [row EXCEPT ![c] = IncrementAttempts(c)]
  /\ Finish(r)
  /\ UNCHANGED <<now, mailed, baker, opened>>

\* No condition on the row: it may have been consumed since it was found.
Consume(r) ==
  /\ At(r, "consume")
  /\ LET c == request[r].found IN
       row' = [row EXCEPT ![c] = MarkConsumed(c)]
  /\ Advance(r, "lookup")
  /\ UNCHANGED <<now, mailed, baker, opened>>

-----------------------------------------------------------------------------
(***************************************************************************)
(* Find or create the baker, then open a session.  A Google token that     *)
(* verifies, with a verified e-mail, comes straight here.                  *)
(***************************************************************************)
SignInWithGoogle(r) ==
  /\ Arrive(r, "lookup", None)
  /\ UNCHANGED <<now, table, baker, opened>>

FindBaker(r) ==
  /\ At(r, "lookup")
  /\ CASE baker = "absent"    -> Advance(r, "provision")
       [] baker = "suspended" -> Finish(r)
       [] OTHER               -> Advance(r, "session")
  /\ UNCHANGED <<now, table, baker, opened>>

\* Baker and default materials in one transaction.  The unique e-mail turns
\* away the slower of two first sign-ins, with its code already consumed.
ProvisionTenant(r) ==
  /\ At(r, "provision")
  /\ IF baker = "absent"
       THEN /\ baker' = "pending"
            /\ Advance(r, "session")
       ELSE /\ Finish(r)
            /\ UNCHANGED baker
  /\ UNCHANGED <<now, table, opened>>

CreateSession(r) ==
  /\ At(r, "session")
  /\ opened' = [c \in Codes |->
                  IF c = request[r].found THEN opened[c] + 1 ELSE opened[c]]
  /\ Finish(r)
  /\ UNCHANGED <<now, table, baker>>

-----------------------------------------------------------------------------
\* A statement fails, the mail provider refuses, or the process dies.
Fail(r) ==
  /\ request[r] # Idle
  /\ Finish(r)
  /\ UNCHANGED <<now, table, baker, opened>>

\* An operator suspends the account.
Suspend ==
  /\ baker = "pending"
  /\ baker' = "suspended"
  /\ UNCHANGED <<now, table, request, opened>>

Tick ==
  /\ now < MaxTime
  /\ now' = now + 1
  /\ UNCHANGED <<table, baker, request, opened>>

Step(r) ==
  \/ SendEmailOtp(r) \/ CountRequests(r) \/ CheckCooldown(r)
  \/ CreateVerification(r) \/ SendVerificationEmail(r)
  \/ VerifyEmailOtp(r) \/ FindVerification(r) \/ Increment(r) \/ Consume(r)
  \/ SignInWithGoogle(r) \/ FindBaker(r) \/ ProvisionTenant(r) \/ CreateSession(r)
  \/ Fail(r)

Next == (\E r \in Requests : Step(r)) \/ Suspend \/ Tick

Spec == Init /\ [][Next]_vars

-----------------------------------------------------------------------------
(***************************************************************************)
(* Properties.                                                             *)
(***************************************************************************)
InFlightLimit == Cardinality(Requests)

\* Requests that will count a wrong guess against code c, and requests that
\* have found it with the right one and have not opened their session yet.
Guessing(c) == {r \in Requests : At(r, "increment") /\ request[r].found = c}

Holding(c) ==
  {r \in Requests : /\ request[r].at \in {"consume", "lookup", "provision", "session"}
                    /\ request[r].found = c}

\* The attempt limit is read with the row and the attempt is counted by a
\* later statement (otp.service.ts 140 and 151), so guesses sent at once all
\* pass the check; but the overshoot is the requests in flight less one, no
\* matter how long they linger: no code ever hears more wrong guesses.
GuessesBounded ==
  \A c \in Codes :
    row[c].attempts + Cardinality(Guessing(c)) <= AttemptLimit + InFlightLimit - 1

\* The rows created in a window.
Within(from, width) == {c \in Created : row[c].created \in from .. (from + width)}

\* The limits on sending are read before the row is created, as of when the
\* request arrived (otp.service.ts 72-96).  In any hour, and in any minute,
\* the rows still number no more than the limit and the requests in flight
\* allow, wherever the window is laid.
SendsBounded ==
  \A from \in 0..MaxTime :
    /\ Cardinality(Within(from, Hour)) <= HourlyLimit + InFlightLimit - 1
    /\ Cardinality(Within(from, Cooldown)) <= InFlightLimit

\* markConsumed has no condition (verification.repository.ts 84), so requests
\* that found a code before it was consumed each open a session with it; once
\* it is consumed nobody finds it again, so these are all it ever opens.
OpensOverlapOnly ==
  \A c \in Codes :
    opened[c] + Cardinality(Holding(c)) <= InFlightLimit

-----------------------------------------------------------------------------
(***************************************************************************)
(* The inductive invariant behind them.  A row that was found or created   *)
(* stays; only a consumed code opens anything; and what the limits on      *)
(* sending bound is the rows of a window together with the requests that   *)
(* are past the limit and may still put a row into it.                     *)
(***************************************************************************)
Carries(r) ==
  /\ request[r].at \in {"count", "cooldown", "insert", "find"} =>
       request[r].arrived <= now /\ request[r].found = None
  /\ request[r].at \in {"mail", "increment", "consume"} => request[r].found \in Created
  /\ request[r].at \in {"lookup", "provision", "session"} =>
       request[r].found \in Consumed \cup {None}

RowInv(c) ==
  /\ c \in Consumed => c \in Created
  /\ opened[c] > 0 => c \in Consumed

\* Requests at one of the places that arrived by then.
Bound(places, until) ==
  {r \in Requests : request[r].at \in places /\ request[r].arrived <= until}

WindowInv(from) ==
  /\ Cardinality(Within(from, Hour))
       + Cardinality(Bound({"cooldown", "insert"}, from + Hour))
         <= HourlyLimit + InFlightLimit - 1
  /\ Cardinality(Within(from, Cooldown))
       + Cardinality(Bound({"insert"}, from + Cooldown)) <= InFlightLimit

IInv ==
  /\ TypeOK
  /\ \A r \in Requests : Carries(r)
  /\ \A c \in Codes : RowInv(c)
  /\ GuessesBounded
  /\ OpensOverlapOnly
  /\ \A from \in 0..MaxTime : WindowInv(from)

-----------------------------------------------------------------------------
\* What AUTH_MIGRATION.md says: a code is single-use.
SingleUse == \A c \in Codes : opened[c] <= 1

=============================================================================

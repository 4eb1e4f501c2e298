---------------------------- MODULE SignInProofs ----------------------------
(***************************************************************************)
(* Theorems about SignIn, for every number of codes and requests and every *)
(* choice of the limits, the windows and the life of a code.               *)
(***************************************************************************)
EXTENDS SignIn, FiniteSetTheorems, TLAPS

Places == {"count", "cooldown", "insert", "mail", "find", "increment",
           "consume", "lookup", "provision", "session"}
HoldingPlaces == {"consume", "lookup", "provision", "session"}

-----------------------------------------------------------------------------
(* Counting.                                                               *)

LEMMA Counts ==
  /\ InFlightLimit \in Nat
  /\ \A S \in SUBSET Requests : Cardinality(S) \in 0..InFlightLimit
  /\ \A S \in SUBSET Codes : Cardinality(S) \in Nat
<1>1. IsFiniteSet(Requests) /\ IsFiniteSet(Codes)
  BY SignInAssumption
<1>2. InFlightLimit \in Nat
  BY <1>1, FS_CardinalityType DEF InFlightLimit
<1>3. ASSUME NEW S \in SUBSET Requests PROVE Cardinality(S) \in 0..InFlightLimit
  <2>1. IsFiniteSet(S) /\ Cardinality(S) <= InFlightLimit
    BY <1>1, FS_Subset DEF InFlightLimit
  <2>2. Cardinality(S) \in Nat
    BY <2>1, FS_CardinalityType
  <2> QED BY <1>2, <2>1, <2>2
<1>4. ASSUME NEW S \in SUBSET Codes PROVE Cardinality(S) \in Nat
  BY <1>1, FS_Subset, FS_CardinalityType
<1> QED BY <1>2, <1>3, <1>4

LEMMA Fewer ==
  ASSUME NEW U, IsFiniteSet(U), NEW S \in SUBSET U, NEW T \in SUBSET S
  PROVE  Cardinality(T) <= Cardinality(S)
<1>1. IsFiniteSet(S)
  BY FS_Subset
<1> QED BY <1>1, FS_Subset

\* One less, one more.
LEMMA OneLess ==
  ASSUME NEW U, IsFiniteSet(U), NEW S \in SUBSET U, NEW x \in S, NEW T \in SUBSET (S \ {x})
  PROVE  Cardinality(T) <= Cardinality(S) - 1
<1>1. IsFiniteSet(S)
  BY FS_Subset
<1>2. IsFiniteSet(S \ {x}) /\ Cardinality(S \ {x}) = Cardinality(S) - 1
  BY <1>1, FS_RemoveElement
<1> QED BY <1>2, FS_Subset

LEMMA OneMore ==
  ASSUME NEW U, IsFiniteSet(U), NEW S \in SUBSET U, NEW x, NEW T \in SUBSET (S \cup {x})
  PROVE  Cardinality(T) <= Cardinality(S) + 1
<1>1. IsFiniteSet(S) /\ Cardinality(S) \in Nat
  BY FS_Subset, FS_CardinalityType
<1>2. IsFiniteSet(S \cup {x}) /\ Cardinality(S \cup {x}) <= Cardinality(S) + 1
  <2>1. IsFiniteSet(S \cup {x})
        /\ Cardinality(S \cup {x}) \in {Cardinality(S), Cardinality(S) + 1}
    BY <1>1, FS_AddElement
  <2> QED BY <1>1, <2>1
<1>3. Cardinality(T) <= Cardinality(S \cup {x}) /\ Cardinality(S \cup {x}) \in Nat
      /\ Cardinality(T) \in Nat
  BY <1>2, FS_Subset, FS_CardinalityType
<1> QED BY <1>1, <1>2, <1>3

-----------------------------------------------------------------------------
(* What the helpers do to the acting request; the others stay.             *)

OthersStay(r) == \A s \in Requests \ {r} : request'[s] = request[s]

LEMMA Arrives ==
  ASSUME TypeOK, NEW r \in Requests, NEW place, NEW typed, Arrive(r, place, typed)
  PROVE  /\ request'[r].at = place /\ request'[r].arrived = now /\ request'[r].found = None
         /\ OthersStay(r)
  BY DEF Arrive, OthersStay, TypeOK

LEMMA Advances ==
  ASSUME TypeOK, NEW r \in Requests, NEW place, Advance(r, place)
  PROVE  /\ request'[r].at = place /\ request'[r].arrived = request[r].arrived
         /\ request'[r].found = request[r].found /\ OthersStay(r)
  BY DEF Advance, OthersStay, TypeOK

LEMMA Reaches ==
  ASSUME TypeOK, NEW r \in Requests, NEW place, NEW found, Reach(r, place, found)
  PROVE  /\ request'[r].at = place /\ request'[r].found = found
         /\ OthersStay(r)
  BY DEF Reach, OthersStay, TypeOK

LEMMA Finishes ==
  ASSUME TypeOK, NEW r \in Requests, Finish(r)
  PROVE  request'[r] = Idle /\ OthersStay(r)
  BY DEF Finish, OthersStay, TypeOK

LEMMA MovesType ==
  ASSUME TypeOK, NEW r \in Requests
  PROVE  /\ \A place \in Places, typed \in Codes \cup {None} :
              Arrive(r, place, typed) => request' \in [Requests -> InFlight \cup {Idle}]
         /\ \A place \in Places : request[r] # Idle /\ Advance(r, place) =>
              request' \in [Requests -> InFlight \cup {Idle}]
         /\ \A place \in Places, found \in Codes \cup {None} :
              Reach(r, place, found) => request' \in [Requests -> InFlight \cup {Idle}]
         /\ Finish(r) => request' \in [Requests -> InFlight \cup {Idle}]
<1>1. ASSUME NEW place \in Places, NEW typed \in Codes \cup {None}, Arrive(r, place, typed)
      PROVE  request' \in [Requests -> InFlight \cup {Idle}]
  BY <1>1 DEF Arrive, TypeOK, InFlight, Places
<1>2. ASSUME NEW place \in Places, request[r] # Idle, Advance(r, place)
      PROVE  request' \in [Requests -> InFlight \cup {Idle}]
  <2>1. request[r] \in InFlight
    BY <1>2 DEF TypeOK
  <2> QED BY <1>2, <2>1 DEF Advance, TypeOK, InFlight, Places
<1>3. ASSUME NEW place \in Places, NEW found \in Codes \cup {None}, Reach(r, place, found)
      PROVE  request' \in [Requests -> InFlight \cup {Idle}]
  BY <1>3 DEF Reach, TypeOK, InFlight, Places
<1>4. ASSUME Finish(r) PROVE request' \in [Requests -> InFlight \cup {Idle}]
  BY <1>4 DEF Finish, TypeOK
<1> QED BY <1>1, <1>2, <1>3, <1>4

LEMMA NotIdle ==
  ASSUME NEW r, request[r].at \in Places
  PROVE  request[r] # Idle
  BY DEF Idle, Places

\* A request that moves somewhere else joins no count there.
LEMMA NotJoining ==
  ASSUME NEW r \in Requests, OthersStay(r)
  PROVE  /\ request'[r].at # "increment" => \A c \in Codes : Guessing(c)' \subseteq Guessing(c)
         /\ request'[r].at \notin HoldingPlaces => \A c \in Codes : Holding(c)' \subseteq Holding(c)
         /\ request'[r].at \notin {"cooldown", "insert"} => \A until \in Nat :
              Bound({"cooldown", "insert"}, until)' \subseteq Bound({"cooldown", "insert"}, until)
         /\ request'[r].at # "insert" => \A until \in Nat :
              Bound({"insert"}, until)' \subseteq Bound({"insert"}, until)
  BY DEF OthersStay, Guessing, Holding, Bound, At, HoldingPlaces

-----------------------------------------------------------------------------
(* What the statements do to a row.                                        *)

LEMMA RowFields ==
  ASSUME TypeOK, NEW c \in Codes
  PROVE  /\ row[c].created \in Time /\ row[c].expires \in Time
         /\ row[c].attempts \in Nat /\ row[c].consumed \in {"no", "yes"}
         /\ opened[c] \in Nat
  BY DEF TypeOK, Row

LEMMA NewRowFields ==
  ASSUME TypeOK, NEW arrived \in Nat
  PROVE  /\ NewRow(arrived) \in Row
         /\ NewRow(arrived).created = now /\ NewRow(arrived).attempts = 0
         /\ NewRow(arrived).consumed = "no"
  BY SignInAssumption DEF TypeOK, Row, NewRow, Time

LEMMA IncrementFields ==
  ASSUME TypeOK, NEW c \in Codes
  PROVE  /\ IncrementAttempts(c) \in Row
         /\ IncrementAttempts(c).attempts = row[c].attempts + 1
         /\ IncrementAttempts(c).created = row[c].created
         /\ IncrementAttempts(c).consumed = row[c].consumed
<1>1. row[c] \in Row
  BY DEF TypeOK
<1> QED BY <1>1 DEF IncrementAttempts, Row

LEMMA ConsumeFields ==
  ASSUME TypeOK, NEW c \in Codes
  PROVE  /\ MarkConsumed(c) \in Row
         /\ MarkConsumed(c).attempts = row[c].attempts
         /\ MarkConsumed(c).created = row[c].created
         /\ MarkConsumed(c).consumed = "yes"
<1>1. row[c] \in Row
  BY DEF TypeOK
<1> QED BY <1>1 DEF MarkConsumed, Row

-----------------------------------------------------------------------------
(* Initially.                                                              *)

LEMMA InitInv == Init => IInv
<1> SUFFICES ASSUME Init PROVE IInv
  OBVIOUS
<1>1. TypeOK
  BY DEF Init, TypeOK, Row, AbsentRow, Time, Never
<1>2. Created = {} /\ Consumed = {}
  BY DEF Init, Created, Consumed, AbsentRow
<1>3. \A r \in Requests : request[r] = Idle
  BY DEF Init
<1>4. \A r \in Requests : Carries(r)
  BY <1>3 DEF Carries, Idle
<1>5. \A c \in Codes : RowInv(c)
  BY <1>2 DEF RowInv, Init
<1>6. /\ \A c \in Codes : Guessing(c) = {} /\ Holding(c) = {}
      /\ \A until : Bound({"cooldown", "insert"}, until) = {} /\ Bound({"insert"}, until) = {}
      /\ \A from, width : Within(from, width) = {}
  BY <1>2, <1>3 DEF Guessing, Holding, Bound, Within, At, Idle
<1>7. GuessesBounded
  <2>1. ASSUME NEW c \in Codes PROVE row[c].attempts = 0
    BY DEF Init, AbsentRow
  <2> QED BY <1>6, <2>1, FS_EmptySet, Counts, SignInAssumption DEF GuessesBounded
<1>8. OpensOverlapOnly
  BY <1>6, FS_EmptySet, Counts DEF OpensOverlapOnly, Init
<1>9. \A from \in 0..MaxTime : WindowInv(from)
  BY <1>6, FS_EmptySet, Counts, SignInAssumption DEF WindowInv
<1> QED BY <1>1, <1>4, <1>5, <1>7, <1>8, <1>9 DEF IInv

-----------------------------------------------------------------------------
(* Type correctness.                                                       *)

LEMMA StepType ==
  ASSUME IInv, NEW r \in Requests, Step(r)
  PROVE  TypeOK'
<1>0. TypeOK /\ Carries(r) /\ Created \subseteq Codes
  BY DEF IInv, Created
<1>1. CASE SendEmailOtp(r)
  BY <1>0, <1>1, MovesType DEF SendEmailOtp, TypeOK, table, Places
<1>2. CASE CountRequests(r)
  BY <1>0, <1>2, MovesType, NotIdle DEF CountRequests, TypeOK, table, At, Places
<1>3. CASE CheckCooldown(r)
  BY <1>0, <1>3, MovesType, NotIdle DEF CheckCooldown, TypeOK, table, At, Places
<1>4. CASE CreateVerification(r)
  <2>1. PICK c \in Codes \ Created :
          /\ row' = [row EXCEPT ![c] = NewRow(request[r].arrived)]
          /\ Reach(r, "mail", c)
    BY <1>4 DEF CreateVerification
  <2>2. request[r].arrived \in Nat
    BY <1>0, <1>4, NotIdle DEF CreateVerification, At, TypeOK, InFlight, Places
  <2>3. request' \in [Requests -> InFlight \cup {Idle}]
    BY <1>0, <2>1, MovesType DEF Places
  <2>4. row' \in [Codes -> Row]
    BY <1>0, <2>1, <2>2, NewRowFields DEF TypeOK
  <2> QED BY <1>0, <1>4, <2>3, <2>4 DEF CreateVerification, TypeOK
<1>5. CASE SendVerificationEmail(r)
  <2>1. request[r].found \in Codes
    BY <1>0, <1>5 DEF SendVerificationEmail, Carries, At
  <2> QED BY <1>0, <1>5, <2>1, MovesType DEF SendVerificationEmail, TypeOK
<1>6. CASE VerifyEmailOtp(r)
  BY <1>0, <1>6, MovesType DEF VerifyEmailOtp, TypeOK, table, Places
<1>7. CASE FindVerification(r)
  <2>1. FindLatestUnverified \subseteq Codes
    BY <1>0 DEF FindLatestUnverified
  <2>2. request' \in [Requests -> InFlight \cup {Idle}]
    BY <1>0, <1>7, <2>1, MovesType DEF FindVerification, Places
  <2> QED BY <1>0, <1>7, <2>2 DEF FindVerification, TypeOK, table
<1>8. CASE Increment(r)
  <2>1. request[r].found \in Codes
    BY <1>0, <1>8 DEF Increment, Carries, At
  <2>2. row' \in [Codes -> Row]
    BY <1>0, <1>8, <2>1, IncrementFields DEF Increment, TypeOK
  <2> QED BY <1>0, <1>8, <2>2, MovesType DEF Increment, TypeOK
<1>9. CASE Consume(r)
  <2>1. request[r].found \in Codes
    BY <1>0, <1>9 DEF Consume, Carries, At
  <2>2. row' \in [Codes -> Row]
    BY <1>0, <1>9, <2>1, ConsumeFields DEF Consume, TypeOK
  <2>3. request' \in [Requests -> InFlight \cup {Idle}]
    BY <1>0, <1>9, MovesType, NotIdle DEF Consume, At, Places
  <2> QED BY <1>0, <1>9, <2>2, <2>3 DEF Consume, TypeOK
<1>10. CASE SignInWithGoogle(r)
  BY <1>0, <1>10, MovesType DEF SignInWithGoogle, TypeOK, table, Places
<1>11. CASE FindBaker(r)
  <2>1. request' \in [Requests -> InFlight \cup {Idle}]
    BY <1>0, <1>11, MovesType, NotIdle DEF FindBaker, At, Places, TypeOK
  <2> QED BY <1>0, <1>11, <2>1 DEF FindBaker, TypeOK, table
<1>12. CASE ProvisionTenant(r)
  <2>1. request' \in [Requests -> InFlight \cup {Idle}]
    BY <1>0, <1>12, MovesType, NotIdle DEF ProvisionTenant, At, Places
  <2> QED BY <1>0, <1>12, <2>1 DEF ProvisionTenant, TypeOK, table
<1>13. CASE CreateSession(r)
  <2>1. opened' \in [Codes -> Nat]
    BY <1>0, <1>13 DEF CreateSession, TypeOK
  <2> QED BY <1>0, <1>13, <2>1, MovesType DEF CreateSession, TypeOK, table
<1>14. CASE Fail(r)
  BY <1>0, <1>14, MovesType DEF Fail, TypeOK, table
<1> QED
  BY <1>1, <1>2, <1>3, <1>4, <1>5, <1>6, <1>7, <1>8, <1>9, <1>10, <1>11, <1>12,
     <1>13, <1>14 DEF Step

-----------------------------------------------------------------------------
(* What keeps each part of the invariant.                                  *)

LEMMA CarriesStays ==
  ASSUME IInv, TypeOK', NEW s \in Requests, request'[s] = request[s], now <= now',
         Created \subseteq Created', Consumed \subseteq Consumed'
  PROVE  Carries(s)'
<1>1. CASE request[s] = Idle
  BY <1>1 DEF Carries, Idle
<1>2. CASE request[s] # Idle
  <2>1. request[s].arrived \in Nat /\ now \in Nat /\ now' \in Nat /\ Carries(s)
    BY <1>2 DEF IInv, TypeOK, InFlight
  <2> QED BY <2>1 DEF Carries
<1> QED BY <1>1, <1>2

LEMMA GuessesKept ==
  ASSUME IInv, TypeOK', \A c \in Codes : row'[c].attempts <= row[c].attempts,
         \A c \in Codes : Guessing(c)' \subseteq Guessing(c)
  PROVE  GuessesBounded'
<1> SUFFICES ASSUME NEW c \in Codes
             PROVE  row'[c].attempts + Cardinality(Guessing(c)')
                      <= AttemptLimit + InFlightLimit - 1
  BY DEF GuessesBounded
<1>1. row[c].attempts \in Nat /\ row'[c].attempts \in Nat
  BY DEF IInv, TypeOK, Row
<1>2. Cardinality(Guessing(c)') <= Cardinality(Guessing(c))
  <2>1. Guessing(c) \in SUBSET Requests
    BY DEF Guessing
  <2> QED BY <2>1, Fewer, SignInAssumption
<1>3. Cardinality(Guessing(c)) \in Nat /\ Cardinality(Guessing(c)') \in Nat
      /\ InFlightLimit \in Nat /\ AttemptLimit \in Nat
  <2>1. Guessing(c) \in SUBSET Requests /\ Guessing(c)' \in SUBSET Requests
    BY DEF Guessing
  <2> QED BY <2>1, Counts, SignInAssumption
<1>4. row[c].attempts + Cardinality(Guessing(c)) <= AttemptLimit + InFlightLimit - 1
  BY DEF IInv, GuessesBounded
<1> QED BY <1>1, <1>2, <1>3, <1>4

LEMMA OpensKept ==
  ASSUME IInv, TypeOK', opened' = opened,
         \A c \in Codes : Holding(c)' \subseteq Holding(c)
  PROVE  OpensOverlapOnly'
<1> SUFFICES ASSUME NEW c \in Codes
             PROVE  opened[c] + Cardinality(Holding(c)') <= InFlightLimit
  BY DEF OpensOverlapOnly
<1>1. opened[c] \in Nat
  BY DEF IInv, TypeOK
<1>2. Holding(c) \in SUBSET Requests /\ Holding(c)' \in SUBSET Requests
  BY DEF Holding
<1>3. Cardinality(Holding(c)') <= Cardinality(Holding(c))
  BY <1>2, Fewer, SignInAssumption
<1>4. opened[c] + Cardinality(Holding(c)) <= InFlightLimit
  BY DEF IInv, OpensOverlapOnly
<1> QED BY <1>1, <1>2, <1>3, <1>4, Counts

\* Windows: rows keep the time they were created, and nobody joins.
RowsDated == Created' \subseteq Created /\ \A c \in Codes : row'[c].created = row[c].created

LEMMA WithinKept ==
  ASSUME RowsDated, NEW from, NEW width
  PROVE  Within(from, width)' \subseteq Within(from, width)
  BY DEF RowsDated, Within, Created

LEMMA WindowSizes ==
  ASSUME NEW from
  PROVE  /\ \A width : /\ Within(from, width) \in SUBSET Codes
                       /\ Within(from, width)' \in SUBSET Codes
                       /\ Cardinality(Within(from, width)) \in Nat
                       /\ Cardinality(Within(from, width)') \in Nat
         /\ \A places, until :
                       /\ Bound(places, until) \in SUBSET Requests
                       /\ Bound(places, until)' \in SUBSET Requests
                       /\ Cardinality(Bound(places, until)) \in 0..InFlightLimit
                       /\ Cardinality(Bound(places, until)') \in 0..InFlightLimit
<1>1. ASSUME NEW width
      PROVE  Within(from, width) \in SUBSET Codes /\ Within(from, width)' \in SUBSET Codes
  BY DEF Within, Created
<1>2. ASSUME NEW places, NEW until
      PROVE  /\ Bound(places, until) \in SUBSET Requests
             /\ Bound(places, until)' \in SUBSET Requests
  BY DEF Bound
<1> QED BY <1>1, <1>2, Counts

HourKept(from) ==
  Cardinality(Within(from, Hour)') + Cardinality(Bound({"cooldown", "insert"}, from + Hour)')
    <= HourlyLimit + InFlightLimit - 1

MinuteKept(from) ==
  Cardinality(Within(from, Cooldown)') + Cardinality(Bound({"insert"}, from + Cooldown)')
    <= InFlightLimit

LEMMA HourKeeps ==
  ASSUME IInv, RowsDated, NEW from \in 0..MaxTime,
         Bound({"cooldown", "insert"}, from + Hour)'
           \subseteq Bound({"cooldown", "insert"}, from + Hour)
  PROVE  HourKept(from)
<1>1. Cardinality(Within(from, Hour)') <= Cardinality(Within(from, Hour))
  BY WithinKept, WindowSizes, Fewer, SignInAssumption
<1>2. Cardinality(Bound({"cooldown", "insert"}, from + Hour)')
        <= Cardinality(Bound({"cooldown", "insert"}, from + Hour))
  BY WindowSizes, Fewer, SignInAssumption
<1>3. Cardinality(Within(from, Hour)) + Cardinality(Bound({"cooldown", "insert"}, from + Hour))
        <= HourlyLimit + InFlightLimit - 1
  BY DEF IInv, WindowInv
<1> QED BY <1>1, <1>2, <1>3, WindowSizes, Counts, SignInAssumption DEF HourKept

LEMMA MinuteKeeps ==
  ASSUME IInv, RowsDated, NEW from \in 0..MaxTime,
         Bound({"insert"}, from + Cooldown)' \subseteq Bound({"insert"}, from + Cooldown)
  PROVE  MinuteKept(from)
<1>1. Cardinality(Within(from, Cooldown)') <= Cardinality(Within(from, Cooldown))
  BY WithinKept, WindowSizes, Fewer, SignInAssumption
<1>2. Cardinality(Bound({"insert"}, from + Cooldown)')
        <= Cardinality(Bound({"insert"}, from + Cooldown))
  BY WindowSizes, Fewer, SignInAssumption
<1>3. Cardinality(Within(from, Cooldown)) + Cardinality(Bound({"insert"}, from + Cooldown))
        <= InFlightLimit
  BY DEF IInv, WindowInv
<1> QED BY <1>1, <1>2, <1>3, WindowSizes, Counts DEF MinuteKept

LEMMA WindowsKept ==
  ASSUME \A from \in 0..MaxTime : HourKept(from) /\ MinuteKept(from)
  PROVE  (\A from \in 0..MaxTime : WindowInv(from))'
  BY DEF HourKept, MinuteKept, WindowInv, InFlightLimit

\* A step of one request that writes neither a row nor the history: what is
\* left to show is what the request carries, and the counts it joins.
LEMMA ReadStep ==
  ASSUME IInv, TypeOK', NEW r \in Requests, OthersStay(r), UNCHANGED <<now, row, opened>>,
         Carries(r)',
         \A c \in Codes : Guessing(c)' \subseteq Guessing(c),
         \A c \in Codes : Holding(c)' \subseteq Holding(c),
         \A from \in 0..MaxTime : HourKept(from) /\ MinuteKept(from)
  PROVE  IInv'
<1>1. Created' = Created /\ Consumed' = Consumed
  BY DEF Created, Consumed
<1>2. \A s \in Requests : Carries(s)'
  BY <1>1, CarriesStays DEF OthersStay, IInv, TypeOK
<1>3. \A c \in Codes : RowInv(c)'
  BY <1>1 DEF RowInv, IInv
<1>4. GuessesBounded'
  <2>1. \A c \in Codes : row'[c].attempts <= row[c].attempts
    BY RowFields DEF IInv
  <2> QED BY <2>1, GuessesKept
<1>5. OpensOverlapOnly'
  BY OpensKept
<1>6. (\A from \in 0..MaxTime : WindowInv(from))'
  BY WindowsKept
<1> QED BY <1>2, <1>3, <1>4, <1>5, <1>6 DEF IInv

\* A request that arrives, ends, or goes where nothing is counted.
LEMMA QuietStep ==
  ASSUME IInv, TypeOK', NEW r \in Requests, OthersStay(r), UNCHANGED <<now, row, opened>>,
         Carries(r)',
         request'[r].at \notin HoldingPlaces \cup {"increment", "cooldown", "insert"}
  PROVE  IInv'
<1>1. RowsDated
  BY DEF RowsDated, Created
<1>2. \A c \in Codes : Guessing(c)' \subseteq Guessing(c) /\ Holding(c)' \subseteq Holding(c)
  BY NotJoining
<1>3. ASSUME NEW from \in 0..MaxTime PROVE HourKept(from) /\ MinuteKept(from)
  <2>1. from + Hour \in Nat /\ from + Cooldown \in Nat
    BY SignInAssumption
  <2> QED BY <1>1, <2>1, NotJoining, HourKeeps, MinuteKeeps
<1> QED BY <1>2, <1>3, ReadStep

LEMMA FinishStep ==
  ASSUME IInv, TypeOK', NEW r \in Requests, Finish(r), UNCHANGED <<now, row, opened>>
  PROVE  IInv'
<1>1. request'[r] = Idle /\ OthersStay(r)
  BY Finishes DEF IInv
<1>2. Carries(r)'
  BY <1>1 DEF Carries, Idle
<1> QED BY <1>1, <1>2, QuietStep DEF Idle, HoldingPlaces

-----------------------------------------------------------------------------
(* Action by action.                                                       *)

LEMMA ArriveStep ==
  ASSUME IInv, TypeOK', NEW r \in Requests, NEW typed, UNCHANGED <<now, row, opened>>,
         \/ Arrive(r, "count", typed) \/ Arrive(r, "find", typed)
         \/ Arrive(r, "lookup", typed)
  PROVE  IInv'
<1>1. /\ request'[r].at \in {"count", "find", "lookup"} /\ request'[r].arrived = now
      /\ request'[r].found = None /\ OthersStay(r) /\ now \in Nat
  <2>0. TypeOK /\ now \in Nat
    BY DEF IInv, TypeOK
  <2>1. CASE Arrive(r, "count", typed)
    BY <2>0, <2>1, Arrives
  <2>2. CASE Arrive(r, "find", typed)
    BY <2>0, <2>2, Arrives
  <2>3. CASE Arrive(r, "lookup", typed)
    BY <2>0, <2>3, Arrives
  <2> QED BY <2>1, <2>2, <2>3
<1>2. Carries(r)'
  BY <1>1 DEF Carries
<1>3. CASE request'[r].at # "lookup"
  BY <1>1, <1>2, <1>3, QuietStep DEF HoldingPlaces
<1>4. CASE request'[r].at = "lookup"
  <2>1. RowsDated
    BY DEF RowsDated, Created
  <2>2. \A c \in Codes : Guessing(c)' \subseteq Guessing(c)
    BY <1>1, <1>4, NotJoining
  <2>3. \A c \in Codes : Holding(c)' \subseteq Holding(c)
    BY <1>1, SignInAssumption DEF Holding, OthersStay
  <2>4. ASSUME NEW from \in 0..MaxTime PROVE HourKept(from) /\ MinuteKept(from)
    <3>1. from + Hour \in Nat /\ from + Cooldown \in Nat
      BY SignInAssumption
    <3> QED BY <1>1, <1>4, <2>1, <3>1, NotJoining, HourKeeps, MinuteKeeps
  <2> QED BY <1>1, <1>2, <2>2, <2>3, <2>4, ReadStep
<1> QED BY <1>3, <1>4

\* The hourly count was made: at most HourlyLimit - 1 rows in any window the
\* request could still put one into.
LEMMA CountRequestsStep ==
  ASSUME IInv, TypeOK', NEW r \in Requests, CountRequests(r)
  PROVE  IInv'
<1>0. TypeOK /\ Carries(r) /\ UNCHANGED <<now, row, opened>> /\ At(r, "count")
  BY DEF CountRequests, table, IInv
<1>1. CASE OverHourly(CountHourlyRequests(request[r].arrived - Hour))
  BY <1>0, <1>1, FinishStep DEF CountRequests
<1>2. CASE ~OverHourly(CountHourlyRequests(request[r].arrived - Hour))
  <2>1. /\ request'[r].at = "cooldown" /\ request'[r].arrived = request[r].arrived
        /\ request'[r].found = request[r].found /\ OthersStay(r)
    <3>1. Advance(r, "cooldown")
      BY <1>2 DEF CountRequests
    <3> QED BY <1>0, <3>1, Advances
  <2>2. request[r].arrived \in Nat /\ request[r].arrived <= now /\ request[r].found = None
    BY <1>0, NotIdle DEF At, Carries, TypeOK, InFlight, Places
  <2>3. Carries(r)'
    BY <1>0, <2>1, <2>2 DEF Carries
  <2>4. \A c \in Codes : Guessing(c)' \subseteq Guessing(c) /\ Holding(c)' \subseteq Holding(c)
    BY <2>1, NotJoining DEF HoldingPlaces
  <2>5. RowsDated
    BY <1>0 DEF RowsDated, Created
  <2>6. ASSUME NEW from \in 0..MaxTime PROVE MinuteKept(from)
    <3>1. from + Cooldown \in Nat
      BY SignInAssumption
    <3> QED BY <2>1, <2>5, <3>1, NotJoining, MinuteKeeps
  <2>7. ASSUME NEW from \in 0..MaxTime PROVE HourKept(from)
    <3>0. from \in Nat /\ Hour \in Nat /\ HourlyLimit \in Nat
      BY SignInAssumption
    <3>1. CASE request[r].arrived <= from + Hour
      <4>1. Within(from, Hour)' \subseteq CreatedSince(request[r].arrived - Hour)
        <5> SUFFICES ASSUME NEW c \in Codes, c \in Created, row[c].created \in from..(from + Hour)
                     PROVE  row[c].created >= request[r].arrived - Hour
          BY <1>0 DEF Within, CreatedSince, Created
        <5> QED BY <2>2, <3>0, <3>1
      <4>2. CreatedSince(request[r].arrived - Hour) \in SUBSET Codes
        BY DEF CreatedSince, Created
      <4>3. Cardinality(Within(from, Hour)')
              <= Cardinality(CreatedSince(request[r].arrived - Hour))
        BY <4>1, <4>2, Fewer, SignInAssumption
      <4>4. Cardinality(CreatedSince(request[r].arrived - Hour)) \in Nat
            /\ Cardinality(CreatedSince(request[r].arrived - Hour)) < HourlyLimit
        BY <1>2, <3>0, <4>2, Counts DEF OverHourly, CountHourlyRequests
      <4> QED BY <3>0, <4>3, <4>4, WindowSizes, Counts DEF HourKept
    <3>2. CASE ~(request[r].arrived <= from + Hour)
      <4>1. Bound({"cooldown", "insert"}, from + Hour)'
              \subseteq Bound({"cooldown", "insert"}, from + Hour)
        BY <2>1, <3>2 DEF Bound, OthersStay
      <4> QED BY <2>5, <4>1, HourKeeps
    <3> QED BY <3>1, <3>2
  <2> QED BY <1>0, <2>1, <2>3, <2>4, <2>6, <2>7, ReadStep
<1> QED BY <1>1, <1>2

\* The same of the cooldown, where the window must be empty.
LEMMA CheckCooldownStep ==
  ASSUME IInv, TypeOK', NEW r \in Requests, CheckCooldown(r)
  PROVE  IInv'
<1>0. TypeOK /\ Carries(r) /\ UNCHANGED <<now, row, opened>> /\ At(r, "cooldown")
  BY DEF CheckCooldown, table, IInv
<1>1. CASE FindRecentRequest(request[r].arrived - Cooldown)
  BY <1>0, <1>1, FinishStep DEF CheckCooldown
<1>2. CASE ~FindRecentRequest(request[r].arrived - Cooldown)
  <2>1. /\ request'[r].at = "insert" /\ request'[r].arrived = request[r].arrived
        /\ request'[r].found = request[r].found /\ OthersStay(r)
    <3>1. Advance(r, "insert")
      BY <1>2 DEF CheckCooldown
    <3> QED BY <1>0, <3>1, Advances
  <2>2. request[r].arrived \in Nat /\ request[r].arrived <= now /\ request[r].found = None
    BY <1>0, NotIdle DEF At, Carries, TypeOK, InFlight, Places
  <2>3. Carries(r)'
    BY <1>0, <2>1, <2>2 DEF Carries
  <2>4. \A c \in Codes : Guessing(c)' \subseteq Guessing(c) /\ Holding(c)' \subseteq Holding(c)
    BY <2>1, NotJoining DEF HoldingPlaces
  <2>5. RowsDated
    BY <1>0 DEF RowsDated, Created
  <2>6. ASSUME NEW from \in 0..MaxTime PROVE HourKept(from)
    <3>1. Bound({"cooldown", "insert"}, from + Hour)'
            \subseteq Bound({"cooldown", "insert"}, from + Hour)
      BY <1>0, <2>1 DEF Bound, OthersStay, At
    <3> QED BY <2>5, <3>1, HourKeeps
  <2>7. ASSUME NEW from \in 0..MaxTime PROVE MinuteKept(from)
    <3>0. from \in Nat /\ Cooldown \in Nat
      BY SignInAssumption
    <3>1. CASE request[r].arrived <= from + Cooldown
      <4>1. Within(from, Cooldown)' = {}
        <5> SUFFICES ASSUME NEW c \in Codes, c \in Created,
                            row[c].created \in from..(from + Cooldown)
                     PROVE  FALSE
          BY <1>0 DEF Within, Created
        <5>1. row[c].created >= request[r].arrived - Cooldown
          BY <2>2, <3>0, <3>1
        <5> QED BY <1>2, <5>1 DEF FindRecentRequest, CreatedSince
      <4> QED BY <4>1, WindowSizes, Counts, FS_EmptySet DEF MinuteKept
    <3>2. CASE ~(request[r].arrived <= from + Cooldown)
      <4>1. Bound({"insert"}, from + Cooldown)' \subseteq Bound({"insert"}, from + Cooldown)
        BY <2>1, <3>2 DEF Bound, OthersStay
      <4> QED BY <2>5, <4>1, MinuteKeeps
    <3> QED BY <3>1, <3>2
  <2> QED BY <1>0, <2>1, <2>3, <2>4, <2>6, <2>7, ReadStep
<1> QED BY <1>1, <1>2

\* The row goes into the windows that have counted the request already.
LEMMA CreateVerificationStep ==
  ASSUME IInv, TypeOK', NEW r \in Requests, CreateVerification(r)
  PROVE  IInv'
<1>0. /\ TypeOK /\ Carries(r) /\ UNCHANGED <<now, opened>> /\ At(r, "insert")
      /\ request[r].arrived \in Nat /\ request[r].arrived <= now /\ now \in Nat
  <2>1. request[r] \in InFlight
    BY NotIdle DEF CreateVerification, At, Places, IInv, TypeOK
  <2> QED BY <2>1 DEF CreateVerification, At, IInv, Carries, InFlight, TypeOK
<1>1. PICK c \in Codes \ Created :
        /\ row' = [row EXCEPT ![c] = NewRow(request[r].arrived)]
        /\ Reach(r, "mail", c)
  BY DEF CreateVerification
<1>2. request'[r].at = "mail" /\ request'[r].found = c /\ OthersStay(r)
  BY <1>0, <1>1, Reaches
<1>3. /\ row'[c].created = now /\ row'[c].attempts = 0 /\ row'[c].consumed = "no"
      /\ \A d \in Codes \ {c} : row'[d] = row[d]
  BY <1>0, <1>1, NewRowFields DEF TypeOK
<1>4. Created' = Created \cup {c} /\ c \notin Consumed
  <2>1. row'[c].created # Never
    BY <1>0, <1>3 DEF Never
  <2> QED BY <1>1, <1>3, <2>1 DEF Created, IInv, RowInv
<1>5. Consumed' = Consumed
  BY <1>3, <1>4 DEF Consumed
<1>6. ASSUME NEW s \in Requests PROVE Carries(s)'
  <2>1. CASE s = r
    BY <1>2, <1>4, <2>1 DEF Carries
  <2>2. CASE s # r
    BY <1>0, <1>2, <1>4, <1>5, <2>2, CarriesStays DEF OthersStay
  <2> QED BY <2>1, <2>2
<1>7. \A d \in Codes : RowInv(d)'
  BY <1>0, <1>4, <1>5 DEF RowInv, IInv
<1>8. GuessesBounded'
  <2>1. \A d \in Codes : row'[d].attempts <= row[d].attempts
    BY <1>0, <1>3, RowFields
  <2> QED BY <1>2, <2>1, NotJoining, GuessesKept
<1>9. OpensOverlapOnly'
  BY <1>0, <1>2, NotJoining, OpensKept DEF HoldingPlaces
<1>10. ASSUME NEW from \in 0..MaxTime, NEW width \in Nat
       PROVE  /\ Within(from, width)' \subseteq Within(from, width) \cup {c}
              /\ now \notin from..(from + width) =>
                   Within(from, width)' \subseteq Within(from, width)
  <2>1. ASSUME NEW d \in Within(from, width)'
        PROVE  /\ d \in Within(from, width) \cup {c}
               /\ d = c => now \in from..(from + width)
    <3>1. d \in Created' /\ row'[d].created \in from..(from + width)
      BY <2>1 DEF Within
    <3>2. CASE d = c
      BY <1>3, <3>1, <3>2
    <3>3. CASE d # c
      <4>1. d \in Created /\ row'[d] = row[d]
        BY <1>3, <1>4, <3>1, <3>3 DEF Created
      <4> QED BY <3>1, <3>3, <4>1 DEF Within
    <3> QED BY <3>2, <3>3
  <2> QED BY <2>1
\* Either the row is outside the window, or its request was bound to it.
<1>11. ASSUME NEW from \in 0..MaxTime, NEW width \in Nat,
              NEW places, places \in {{"insert"}, {"cooldown", "insert"}}
       PROVE  Cardinality(Within(from, width)') + Cardinality(Bound(places, from + width)')
                <= Cardinality(Within(from, width)) + Cardinality(Bound(places, from + width))
  <2>0. from \in Nat /\ from + width \in Nat
    BY SignInAssumption
  <2>1. Bound(places, from + width)' \subseteq Bound(places, from + width) \ {r}
    BY <1>2, <1>11 DEF Bound, OthersStay
  <2>2. CASE now \in from..(from + width)
    <3>1. r \in Bound(places, from + width)
      BY <1>0, <1>11, <2>0, <2>2 DEF Bound, At
    <3>2. Cardinality(Bound(places, from + width)')
            <= Cardinality(Bound(places, from + width)) - 1
      BY <2>1, <3>1, WindowSizes, OneLess, SignInAssumption
    <3>3. Cardinality(Within(from, width)') <= Cardinality(Within(from, width)) + 1
      BY <1>10, WindowSizes, OneMore, SignInAssumption
    <3> QED BY <3>2, <3>3, WindowSizes, Counts
  <2>3. CASE now \notin from..(from + width)
    <3>1. Cardinality(Bound(places, from + width)') <= Cardinality(Bound(places, from + width))
      BY <2>1, WindowSizes, Fewer, SignInAssumption
    <3>2. Cardinality(Within(from, width)') <= Cardinality(Within(from, width))
      BY <1>10, <2>3, WindowSizes, Fewer, SignInAssumption
    <3> QED BY <3>1, <3>2, WindowSizes, Counts
  <2> QED BY <2>2, <2>3
<1>12. ASSUME NEW from \in 0..MaxTime PROVE HourKept(from) /\ MinuteKept(from)
  <2>1. WindowInv(from) /\ Hour \in Nat /\ Cooldown \in Nat /\ HourlyLimit \in Nat
    BY SignInAssumption DEF IInv
  <2>2. HourKept(from)
    <3>1. Cardinality(Within(from, Hour)') + Cardinality(Bound({"cooldown", "insert"}, from + Hour)')
            <= Cardinality(Within(from, Hour)) + Cardinality(Bound({"cooldown", "insert"}, from + Hour))
      BY <1>11, <2>1
    <3>2. Cardinality(Within(from, Hour)) + Cardinality(Bound({"cooldown", "insert"}, from + Hour))
            <= HourlyLimit + InFlightLimit - 1
      BY <2>1 DEF WindowInv
    <3>3. /\ Cardinality(Within(from, Hour)) \in Nat /\ Cardinality(Within(from, Hour)') \in Nat
          /\ Cardinality(Bound({"cooldown", "insert"}, from + Hour)) \in Nat
          /\ Cardinality(Bound({"cooldown", "insert"}, from + Hour)') \in Nat
          /\ InFlightLimit \in Nat
      BY WindowSizes, Counts
    <3> QED BY <2>1, <3>1, <3>2, <3>3 DEF HourKept
  <2>3. MinuteKept(from)
    <3>1. Cardinality(Within(from, Cooldown)') + Cardinality(Bound({"insert"}, from + Cooldown)')
            <= Cardinality(Within(from, Cooldown)) + Cardinality(Bound({"insert"}, from + Cooldown))
      BY <1>11, <2>1
    <3> QED BY <2>1, <3>1, WindowSizes, Counts DEF MinuteKept, WindowInv
  <2> QED BY <2>2, <2>3
<1> QED BY <1>6, <1>7, <1>8, <1>9, <1>12, WindowsKept DEF IInv

\* A guess that finds a row still open: below the limit, and nothing opened yet.
LEMMA FindVerificationStep ==
  ASSUME IInv, TypeOK', NEW r \in Requests, FindVerification(r)
  PROVE  IInv'
<1>0. TypeOK /\ UNCHANGED <<now, row, opened>> /\ At(r, "find")
  BY DEF FindVerification, table, IInv
<1>1. CASE Finish(r)
  BY <1>0, <1>1, FinishStep
<1>2. CASE ~Finish(r)
  <2>1. PICK c \in FindLatestUnverified :
          ~Exhausted(c) /\ (Reach(r, "consume", c) \/ Reach(r, "increment", c))
    BY <1>2 DEF FindVerification
  <2>2. c \in Codes /\ c \in Created /\ c \notin Consumed
    BY <2>1 DEF FindLatestUnverified, Created
  <2>3. /\ request'[r].at \in {"consume", "increment"} /\ request'[r].found = c
        /\ OthersStay(r)
    BY <1>0, <2>1, Reaches
  <2>4. Created' = Created /\ Consumed' = Consumed /\ RowsDated
    BY <1>0 DEF Created, Consumed, RowsDated
  <2>5. ASSUME NEW s \in Requests PROVE Carries(s)'
    <3>1. CASE s = r
      BY <2>2, <2>3, <2>4, <3>1 DEF Carries
    <3>2. CASE s # r
      BY <1>0, <2>3, <2>4, <3>2, CarriesStays DEF OthersStay, TypeOK
    <3> QED BY <3>1, <3>2
  <2>6. \A d \in Codes : RowInv(d)'
    BY <1>0, <2>4 DEF RowInv, IInv
  <2>7. ASSUME NEW d \in Codes
        PROVE  row[d].attempts + Cardinality(Guessing(d)') <= AttemptLimit + InFlightLimit - 1
    <3>1. /\ Guessing(d) \in SUBSET Requests /\ Guessing(d)' \in SUBSET Requests
      BY DEF Guessing
    <3>2. CASE d = c
      <4>1. row[d].attempts < AttemptLimit /\ row[d].attempts \in Nat
        BY <1>0, <2>1, <2>2, <3>2, RowFields, SignInAssumption DEF Exhausted
      <4> QED BY <3>1, <4>1, Counts, SignInAssumption
    <3>3. CASE d # c
      <4>1. Guessing(d)' \subseteq Guessing(d)
        BY <2>3, <3>3 DEF Guessing, At, OthersStay
      <4>2. Cardinality(Guessing(d)') <= Cardinality(Guessing(d))
        BY <3>1, <4>1, Fewer, SignInAssumption
      <4>3. row[d].attempts + Cardinality(Guessing(d)) <= AttemptLimit + InFlightLimit - 1
        BY DEF IInv, GuessesBounded
      <4> QED BY <1>0, <3>1, <4>2, <4>3, Counts, RowFields, SignInAssumption
    <3> QED BY <3>2, <3>3
  <2>8. GuessesBounded'
    BY <1>0, <2>7 DEF GuessesBounded, InFlightLimit
  <2>9. ASSUME NEW d \in Codes PROVE opened[d] + Cardinality(Holding(d)') <= InFlightLimit
    <3>1. Holding(d) \in SUBSET Requests /\ Holding(d)' \in SUBSET Requests
      BY DEF Holding
    <3>2. CASE d = c
      <4>1. opened[d] = 0
        BY <1>0, <2>2, <3>2, RowFields DEF IInv, RowInv
      <4> QED BY <3>1, <4>1, Counts
    <3>3. CASE d # c
      <4>1. Holding(d)' \subseteq Holding(d)
        BY <2>3, <3>3 DEF Holding, OthersStay
      <4>2. Cardinality(Holding(d)') <= Cardinality(Holding(d))
        BY <3>1, <4>1, Fewer, SignInAssumption
      <4>3. opened[d] + Cardinality(Holding(d)) <= InFlightLimit
        BY DEF IInv, OpensOverlapOnly
      <4> QED BY <1>0, <3>1, <4>2, <4>3, Counts, RowFields
    <3> QED BY <3>2, <3>3
  <2>10. OpensOverlapOnly'
    BY <1>0, <2>9 DEF OpensOverlapOnly, InFlightLimit
  <2>11. ASSUME NEW from \in 0..MaxTime PROVE HourKept(from) /\ MinuteKept(from)
    <3>1. from + Hour \in Nat /\ from + Cooldown \in Nat
      BY SignInAssumption
    <3> QED BY <2>3, <2>4, <3>1, NotJoining, HourKeeps, MinuteKeeps
  <2> QED BY <2>5, <2>6, <2>8, <2>10, <2>11, WindowsKept DEF IInv
<1> QED BY <1>1, <1>2

\* The wrong guess is counted: one fewer to be counted, one more attempt.
LEMMA IncrementStep ==
  ASSUME IInv, TypeOK', NEW r \in Requests, Increment(r)
  PROVE  IInv'
<1> DEFINE c == request[r].found
<1>0. /\ TypeOK /\ UNCHANGED <<now, opened>> /\ At(r, "increment")
      /\ c \in Created /\ c \in Codes /\ Finish(r)
      /\ row' = [row EXCEPT ![c] = IncrementAttempts(c)]
  BY DEF Increment, IInv, Carries, At, Created
<1>1. request'[r] = Idle /\ OthersStay(r)
  BY <1>0, Finishes
<1>2. /\ row'[c].attempts = row[c].attempts + 1 /\ row'[c].created = row[c].created
      /\ row'[c].consumed = row[c].consumed
      /\ \A d \in Codes \ {c} : row'[d] = row[d]
  BY <1>0, IncrementFields DEF TypeOK
<1>3. Created' = Created /\ Consumed' = Consumed /\ RowsDated
  BY <1>2 DEF Created, Consumed, RowsDated
<1>4. ASSUME NEW s \in Requests PROVE Carries(s)'
  <2>1. CASE s = r
    BY <1>1, <2>1 DEF Carries, Idle
  <2>2. CASE s # r
    BY <1>0, <1>1, <1>3, <2>2, CarriesStays DEF OthersStay, TypeOK
  <2> QED BY <2>1, <2>2
<1>5. \A d \in Codes : RowInv(d)'
  BY <1>0, <1>3 DEF RowInv, IInv
<1>6. request'[r].at \notin Places
  BY <1>1 DEF Idle, Places
<1>7. ASSUME NEW d \in Codes
      PROVE  row'[d].attempts + Cardinality(Guessing(d)') <= AttemptLimit + InFlightLimit - 1
  <2>1. Guessing(d) \in SUBSET Requests /\ Guessing(d)' \in SUBSET Requests
    BY DEF Guessing
  <2>2. row[d].attempts + Cardinality(Guessing(d)) <= AttemptLimit + InFlightLimit - 1
    BY DEF IInv, GuessesBounded
  <2>3. Guessing(d)' \subseteq Guessing(d) \ {r}
    BY <1>1, <1>6 DEF Guessing, At, OthersStay, Places
  <2>4. CASE d = c
    <3>1. r \in Guessing(d)
      BY <1>0, <2>4 DEF Guessing
    <3>2. Cardinality(Guessing(d)') <= Cardinality(Guessing(d)) - 1
      BY <2>1, <2>3, <3>1, OneLess, SignInAssumption
    <3>3. row'[d].attempts = row[d].attempts + 1
      BY <1>2, <2>4
    <3> QED BY <1>0, <2>1, <2>2, <3>2, <3>3, Counts, RowFields, SignInAssumption
  <2>5. CASE d # c
    <3>1. Cardinality(Guessing(d)') <= Cardinality(Guessing(d))
      BY <2>1, <2>3, Fewer, SignInAssumption
    <3>2. row'[d].attempts = row[d].attempts
      BY <1>2, <2>5
    <3> QED BY <1>0, <2>1, <2>2, <3>1, <3>2, Counts, RowFields, SignInAssumption
  <2> QED BY <2>4, <2>5
<1>8. GuessesBounded'
  BY <1>7 DEF GuessesBounded, InFlightLimit
<1>9. OpensOverlapOnly'
  BY <1>0, <1>1, <1>6, NotJoining, OpensKept DEF HoldingPlaces, Places
<1>10. ASSUME NEW from \in 0..MaxTime PROVE HourKept(from) /\ MinuteKept(from)
  <2>1. from + Hour \in Nat /\ from + Cooldown \in Nat
    BY SignInAssumption
  <2> QED BY <1>1, <1>3, <1>6, <2>1, NotJoining, HourKeeps, MinuteKeeps DEF Places
<1> QED BY <1>4, <1>5, <1>8, <1>9, <1>10, WindowsKept DEF IInv

\* Consumed, whoever consumed it before: the request stays among the holders.
LEMMA ConsumeStep ==
  ASSUME IInv, TypeOK', NEW r \in Requests, Consume(r)
  PROVE  IInv'
<1> DEFINE c == request[r].found
<1>0. /\ TypeOK /\ UNCHANGED <<now, opened>> /\ At(r, "consume")
      /\ c \in Created /\ c \in Codes /\ Advance(r, "lookup")
      /\ row' = [row EXCEPT ![c] = MarkConsumed(c)]
  BY DEF Consume, IInv, Carries, At, Created
<1>1. request'[r].at = "lookup" /\ request'[r].found = c /\ OthersStay(r)
  BY <1>0, Advances
<1>2. /\ row'[c].attempts = row[c].attempts /\ row'[c].created = row[c].created
      /\ row'[c].consumed = "yes"
      /\ \A d \in Codes \ {c} : row'[d] = row[d]
  BY <1>0, ConsumeFields DEF TypeOK
<1>3. Created' = Created /\ RowsDated
  BY <1>2 DEF Created, RowsDated
<1>4. Consumed' = Consumed \cup {c}
  BY <1>0, <1>2 DEF Consumed
<1>5. ASSUME NEW s \in Requests PROVE Carries(s)'
  <2>1. CASE s = r
    BY <1>1, <1>4, <2>1 DEF Carries
  <2>2. CASE s # r
    BY <1>0, <1>1, <1>3, <1>4, <2>2, CarriesStays DEF OthersStay, TypeOK
  <2> QED BY <2>1, <2>2
<1>6. \A d \in Codes : RowInv(d)'
  BY <1>0, <1>3, <1>4 DEF RowInv, IInv
<1>7. GuessesBounded'
  <2>1. \A d \in Codes : row'[d].attempts <= row[d].attempts
    BY <1>0, <1>2, RowFields
  <2> QED BY <1>1, <2>1, NotJoining, GuessesKept
<1>8. \A d \in Codes : Holding(d)' \subseteq Holding(d)
  BY <1>0, <1>1 DEF Holding, OthersStay, At
<1>9. OpensOverlapOnly'
  BY <1>0, <1>8, OpensKept
<1>10. ASSUME NEW from \in 0..MaxTime PROVE HourKept(from) /\ MinuteKept(from)
  <2>1. from + Hour \in Nat /\ from + Cooldown \in Nat
    BY SignInAssumption
  <2> QED BY <1>1, <1>3, <2>1, NotJoining, HourKeeps, MinuteKeeps
<1> QED BY <1>5, <1>6, <1>7, <1>9, <1>10, WindowsKept DEF IInv

\* On the way to the session the request carries its code, or none.
LEMMA OnTheWay ==
  ASSUME IInv, TypeOK', NEW r \in Requests, UNCHANGED <<now, row, opened>>,
         At(r, "lookup") \/ At(r, "provision"),
         \/ Finish(r) \/ Advance(r, "provision") \/ Advance(r, "session")
  PROVE  IInv'
<1>0. TypeOK /\ Carries(r)
  BY DEF IInv
<1>1. CASE Finish(r)
  BY <1>1, FinishStep
<1>2. CASE Advance(r, "provision") \/ Advance(r, "session")
  <2>1. /\ request'[r].at \in {"provision", "session"}
        /\ request'[r].found = request[r].found /\ OthersStay(r)
    <3>1. CASE Advance(r, "provision")
      BY <1>0, <3>1, Advances
    <3>2. CASE Advance(r, "session")
      BY <1>0, <3>2, Advances
    <3> QED BY <1>2, <3>1, <3>2
  <2>2. Consumed' = Consumed /\ RowsDated
    BY DEF Consumed, Created, RowsDated
  <2>3. Carries(r)'
    BY <1>0, <2>1, <2>2 DEF Carries, At
  <2>4. \A c \in Codes : Guessing(c)' \subseteq Guessing(c)
    BY <2>1, NotJoining
  <2>5. \A c \in Codes : Holding(c)' \subseteq Holding(c)
    BY <2>1 DEF Holding, OthersStay, At
  <2>6. ASSUME NEW from \in 0..MaxTime PROVE HourKept(from) /\ MinuteKept(from)
    <3>1. from + Hour \in Nat /\ from + Cooldown \in Nat
      BY SignInAssumption
    <3> QED BY <2>1, <2>2, <3>1, NotJoining, HourKeeps, MinuteKeeps
  <2> QED BY <2>1, <2>3, <2>4, <2>5, <2>6, ReadStep
<1> QED BY <1>1, <1>2

\* The session is opened: one holder fewer, one session more.
LEMMA CreateSessionStep ==
  ASSUME IInv, TypeOK', NEW r \in Requests, CreateSession(r)
  PROVE  IInv'
<1> DEFINE c == request[r].found
<1>0. /\ TypeOK /\ UNCHANGED <<now, row>> /\ At(r, "session") /\ Finish(r)
      /\ c \in Consumed \cup {None}
      /\ opened' = [d \in Codes |-> IF d = c THEN opened[d] + 1 ELSE opened[d]]
  BY DEF CreateSession, IInv, Carries, At, table
<1>1. request'[r] = Idle /\ OthersStay(r)
  BY <1>0, Finishes
<1>2. Created' = Created /\ Consumed' = Consumed /\ RowsDated
  BY <1>0 DEF Created, Consumed, RowsDated
<1>3. ASSUME NEW s \in Requests PROVE Carries(s)'
  <2>1. CASE s = r
    BY <1>1, <2>1 DEF Carries, Idle
  <2>2. CASE s # r
    BY <1>0, <1>1, <1>2, <2>2, CarriesStays DEF OthersStay, TypeOK
  <2> QED BY <2>1, <2>2
<1>4. ASSUME NEW d \in Codes PROVE RowInv(d)'
  <2>1. RowInv(d)
    BY DEF IInv
  <2>2. CASE d = c
    BY <1>0, <1>2, <2>1, <2>2, SignInAssumption DEF RowInv
  <2>3. CASE d # c
    BY <1>0, <1>2, <2>1, <2>3 DEF RowInv
  <2> QED BY <2>2, <2>3
<1>5. request'[r].at \notin Places
  BY <1>1 DEF Idle, Places
<1>6. GuessesBounded'
  <2>1. \A d \in Codes : row'[d].attempts <= row[d].attempts
    BY <1>0, RowFields
  <2> QED BY <1>1, <1>5, <2>1, NotJoining, GuessesKept DEF Places
<1>7. ASSUME NEW d \in Codes PROVE opened'[d] + Cardinality(Holding(d)') <= InFlightLimit
  <2>1. Holding(d) \in SUBSET Requests /\ Holding(d)' \in SUBSET Requests
    BY DEF Holding
  <2>2. opened[d] + Cardinality(Holding(d)) <= InFlightLimit
    BY DEF IInv, OpensOverlapOnly
  <2>3. Holding(d)' \subseteq Holding(d) \ {r}
    BY <1>1, <1>5 DEF Holding, OthersStay, Places
  <2>4. CASE d = c
    <3>1. r \in Holding(d)
      BY <1>0, <2>4 DEF Holding, At
    <3>2. Cardinality(Holding(d)') <= Cardinality(Holding(d)) - 1
      BY <2>1, <2>3, <3>1, OneLess, SignInAssumption
    <3>3. opened'[d] = opened[d] + 1
      BY <1>0, <2>4
    <3> QED BY <1>0, <2>1, <2>2, <3>2, <3>3, Counts, RowFields
  <2>5. CASE d # c
    <3>1. Cardinality(Holding(d)') <= Cardinality(Holding(d))
      BY <2>1, <2>3, Fewer, SignInAssumption
    <3>2. opened'[d] = opened[d]
      BY <1>0, <2>5
    <3> QED BY <1>0, <2>1, <2>2, <3>1, <3>2, Counts, RowFields
  <2> QED BY <2>4, <2>5
<1>8. OpensOverlapOnly'
  BY <1>7 DEF OpensOverlapOnly, InFlightLimit
<1>9. ASSUME NEW from \in 0..MaxTime PROVE HourKept(from) /\ MinuteKept(from)
  <2>1. from + Hour \in Nat /\ from + Cooldown \in Nat
    BY SignInAssumption
  <2> QED BY <1>1, <1>2, <1>5, <2>1, NotJoining, HourKeeps, MinuteKeeps DEF Places
<1> QED BY <1>3, <1>4, <1>6, <1>8, <1>9, WindowsKept DEF IInv

\* What a step that leaves every request and every row alone keeps: all of it.
LEMMA IdleStep ==
  ASSUME IInv, TypeOK', UNCHANGED <<row, request, opened>>, now <= now'
  PROVE  IInv'
<1>1. Created' = Created /\ Consumed' = Consumed /\ RowsDated
  BY DEF Created, Consumed, RowsDated
<1>2. \A s \in Requests : Carries(s)'
  BY <1>1, CarriesStays
<1>3. \A c \in Codes : RowInv(c)'
  BY <1>1 DEF RowInv, IInv
<1>4. /\ \A c \in Codes : Guessing(c)' = Guessing(c) /\ Holding(c)' = Holding(c)
      /\ \A places, until : Bound(places, until)' = Bound(places, until)
  BY DEF Guessing, Holding, Bound, At
<1>5. GuessesBounded'
  <2>1. \A c \in Codes : row'[c].attempts <= row[c].attempts
    BY RowFields DEF IInv
  <2> QED BY <1>4, <2>1, GuessesKept
<1>6. OpensOverlapOnly'
  BY <1>4, OpensKept
<1>7. ASSUME NEW from \in 0..MaxTime PROVE HourKept(from) /\ MinuteKept(from)
  BY <1>1, <1>4, HourKeeps, MinuteKeeps
<1> QED BY <1>2, <1>3, <1>5, <1>6, <1>7, WindowsKept DEF IInv

LEMMA StepInv ==
  ASSUME IInv, NEW r \in Requests, Step(r)
  PROVE  IInv'
<1>0. TypeOK'
  BY StepType
<1>1. CASE SendEmailOtp(r)
  BY <1>0, <1>1, ArriveStep DEF SendEmailOtp, table
<1>2. CASE CountRequests(r)
  BY <1>0, <1>2, CountRequestsStep
<1>3. CASE CheckCooldown(r)
  BY <1>0, <1>3, CheckCooldownStep
<1>4. CASE CreateVerification(r)
  BY <1>0, <1>4, CreateVerificationStep
<1>5. CASE SendVerificationEmail(r)
  BY <1>0, <1>5, FinishStep DEF SendVerificationEmail
<1>6. CASE VerifyEmailOtp(r)
  BY <1>0, <1>6, ArriveStep DEF VerifyEmailOtp, table
<1>7. CASE FindVerification(r)
  BY <1>0, <1>7, FindVerificationStep
<1>8. CASE Increment(r)
  BY <1>0, <1>8, IncrementStep
<1>9. CASE Consume(r)
  BY <1>0, <1>9, ConsumeStep
<1>10. CASE SignInWithGoogle(r)
  BY <1>0, <1>10, ArriveStep DEF SignInWithGoogle, table
<1>11. CASE FindBaker(r)
  <2>1. Finish(r) \/ Advance(r, "provision") \/ Advance(r, "session")
    BY <1>11 DEF FindBaker, IInv, TypeOK
  <2> QED BY <1>0, <1>11, <2>1, OnTheWay DEF FindBaker, table
<1>12. CASE ProvisionTenant(r)
  <2>1. Finish(r) \/ Advance(r, "session")
    BY <1>12 DEF ProvisionTenant
  <2> QED BY <1>0, <1>12, <2>1, OnTheWay DEF ProvisionTenant, table
<1>13. CASE CreateSession(r)
  BY <1>0, <1>13, CreateSessionStep
<1>14. CASE Fail(r)
  BY <1>0, <1>14, FinishStep DEF Fail, table
<1> QED
  BY <1>1, <1>2, <1>3, <1>4, <1>5, <1>6, <1>7, <1>8, <1>9, <1>10, <1>11, <1>12,
     <1>13, <1>14 DEF Step

LEMMA NextInv == IInv /\ [Next]_vars => IInv'
<1> SUFFICES ASSUME IInv, [Next]_vars PROVE IInv'
  OBVIOUS
<1>0. TypeOK /\ now \in Nat
  BY DEF IInv, TypeOK
<1>1. ASSUME NEW r \in Requests, Step(r) PROVE IInv'
  BY <1>1, StepInv
<1>2. CASE Suspend
  <2>1. TypeOK'
    BY <1>0, <1>2 DEF Suspend, TypeOK, table
  <2> QED BY <1>0, <1>2, <2>1, IdleStep DEF Suspend, table
<1>3. CASE Tick
  <2>1. TypeOK' /\ now <= now'
    BY <1>0, <1>3 DEF Tick, TypeOK, table
  <2> QED BY <1>3, <2>1, IdleStep DEF Tick, table
<1>4. CASE UNCHANGED vars
  <2>1. TypeOK'
    BY <1>0, <1>4 DEF vars, TypeOK
  <2> QED BY <1>0, <1>4, <2>1, IdleStep DEF vars
<1> QED BY <1>1, <1>2, <1>3, <1>4 DEF Next

-----------------------------------------------------------------------------
(* The theorems.                                                           *)

\* The inductive invariant behind the limits on codes, guesses and sessions.
THEOREM Invariance == Spec => []IInv
  BY InitInv, NextInv, PTL DEF Spec

\* Every row, request and count stays within its type: no attempt counter or
\* clock runs out of range, and a request past the search carries a real row.
THEOREM TypeCorrect == Spec => []TypeOK
<1>1. IInv => TypeOK
  BY DEF IInv
<1> QED BY <1>1, Invariance, PTL

\* However many guesses are sent at once, no code is charged more than the
\* limit and one for each other request in flight (otp.service.ts 140-151).
THEOREM GuessesCorrect == Spec => []GuessesBounded
<1>1. IInv => GuessesBounded
  BY DEF IInv
<1> QED BY <1>1, Invariance, PTL

\* However the requests for a code interleave, no hour and no minute receives
\* more rows than its limit and the requests in flight (otp.service.ts 72-96).
THEOREM SendsCorrect == Spec => []SendsBounded
<1>1. IInv => SendsBounded
  <2> SUFFICES ASSUME IInv, NEW from \in 0..MaxTime
               PROVE  /\ Cardinality(Within(from, Hour)) <= HourlyLimit + InFlightLimit - 1
                      /\ Cardinality(Within(from, Cooldown)) <= InFlightLimit
    BY DEF SendsBounded
  <2>1. WindowInv(from) /\ HourlyLimit \in Nat
    BY SignInAssumption DEF IInv
  <2>2. Cardinality(Within(from, Hour)) <= HourlyLimit + InFlightLimit - 1
    <3>1. Cardinality(Within(from, Hour)) + Cardinality(Bound({"cooldown", "insert"}, from + Hour))
            <= HourlyLimit + InFlightLimit - 1
      BY <2>1 DEF WindowInv
    <3> QED BY <2>1, <3>1, WindowSizes, Counts
  <2>3. Cardinality(Within(from, Cooldown)) <= InFlightLimit
    <3>1. Cardinality(Within(from, Cooldown)) + Cardinality(Bound({"insert"}, from + Cooldown))
            <= InFlightLimit
      BY <2>1 DEF WindowInv
    <3> QED BY <3>1, WindowSizes, Counts
  <2> QED BY <2>2, <2>3
<1> QED BY <1>1, Invariance, PTL

\* A code opens no more sessions than requests can be in flight at once: each
\* had found it before it was consumed (verification.repository.ts 84).
THEOREM OpensCorrect == Spec => []OpensOverlapOnly
<1>1. IInv => OpensOverlapOnly
  BY DEF IInv
<1> QED BY <1>1, Invariance, PTL

\* Verifications that do not overlap find AUTH_MIGRATION.md 119 true: a code is
\* used once, since nobody finds it again once it is consumed (otp.service.ts
\* 162).
THEOREM SerialSingleUse ==
  ASSUME \A r, s \in Requests : r = s
  PROVE  Spec => []SingleUse
<1>1. InFlightLimit \in Nat /\ InFlightLimit <= 1
  <2>1. CASE Requests = {}
    BY <2>1, FS_EmptySet DEF InFlightLimit
  <2>2. CASE Requests # {}
    <3> PICK r \in Requests : TRUE
      BY <2>2
    <3>1. Requests = {r}
      OBVIOUS
    <3>2. Cardinality(Requests) = 1
      BY <3>1, FS_Singleton, Zenon
    <3> QED BY <3>2 DEF InFlightLimit
  <2> QED BY <2>1, <2>2
<1>2. IInv => SingleUse
  <2> SUFFICES ASSUME IInv, NEW c \in Codes PROVE opened[c] <= 1
    BY DEF SingleUse
  <2>1. opened[c] \in Nat
    BY DEF IInv, TypeOK
  <2>2. opened[c] + Cardinality(Holding(c)) <= InFlightLimit
    BY DEF IInv, OpensOverlapOnly
  <2>3. Cardinality(Holding(c)) \in 0..InFlightLimit
    <3>1. Holding(c) \in SUBSET Requests
      BY DEF Holding
    <3> QED BY <3>1, Counts, Zenon
  <2> HIDE DEF InFlightLimit
  <2> QED BY <1>1, <2>1, <2>2, <2>3
<1> QED BY <1>2, Invariance, PTL
=============================================================================

----------------------------- MODULE MenuProofs -----------------------------
(***************************************************************************)
(* Theorems about Menu, for any bakers, requests and items, and any number *)
(* of attempts at a free link.                                             *)
(***************************************************************************)
EXTENDS Menu, FiniteSetTheorems, TLAPS

Places == {"find", "assign", "max", "insert", "vet", "save", "toggle", "remove",
           "apply"}

-----------------------------------------------------------------------------
(* The operators the model is built from.                                  *)

\* Induction over finite sets, as the argument from a smallest counterexample:
\* of the subsets for which something fails, one has none without a member.
LEMMA Smallest ==
  ASSUME NEW S, IsFiniteSet(S), NEW Bad, Bad \subseteq SUBSET S, Bad # {}
  PROVE  \E T \in Bad : \A i \in T : T \ {i} \notin Bad
<1>1. IsWellFoundedOn(StrictSubsetOrdering(S), FiniteSubsetsOf(S))
  BY FS_StrictSubsetOrderingWellFounded
<1>2. Bad \subseteq FiniteSubsetsOf(S)
  BY FS_Subset DEF FiniteSubsetsOf
<1>3. PICK T \in Bad : \A U \in Bad : <<U, T>> \notin StrictSubsetOrdering(S)
  BY <1>1, <1>2, WFMin
<1>4. \A i \in T : <<T \ {i}, T>> \in StrictSubsetOrdering(S)
  <2>1. SUFFICES ASSUME NEW i \in T PROVE <<T \ {i}, T>> \in StrictSubsetOrdering(S)
    OBVIOUS
  <2>2. /\ T \in SUBSET S /\ T \ {i} \in SUBSET S
        /\ T \ {i} \subseteq T /\ T \ {i} # T
    OBVIOUS
  <2> QED BY <2>2 DEF StrictSubsetOrdering
<1> QED BY <1>3, <1>4

\* Among finitely many numbers, one is the largest.
LEMMA Peak ==
  ASSUME NEW S, IsFiniteSet(S), NEW f \in [S -> Int], NEW low \in Int
  PROVE  \E x \in {low} \cup {f[i] : i \in S} :
           \A y \in {low} \cup {f[i] : i \in S} : x >= y
<1> DEFINE Heights(T) == {low} \cup {f[i] : i \in T}
           HasPeak(T) == \E x \in Heights(T) : \A y \in Heights(T) : x >= y
           Bad == {T \in SUBSET S : ~HasPeak(T)}
<1>1. SUFFICES ASSUME Bad # {} PROVE FALSE
  OBVIOUS
<1>2. PICK T \in Bad : \A i \in T : T \ {i} \notin Bad
  <2>1. Bad \subseteq SUBSET S
    OBVIOUS
  <2> HIDE DEF Bad
  <2> QED BY <1>1, <2>1, Smallest
<1>3. T \subseteq S /\ ~HasPeak(T)
  OBVIOUS
<1>4. PICK i \in T : TRUE
  <2>1. HasPeak({})
    OBVIOUS
  <2> QED BY <1>3, <2>1
<1>5. PICK x \in Heights(T \ {i}) : \A y \in Heights(T \ {i}) : x >= y
  BY <1>2, <1>3, <1>4
<1>6. x \in Int /\ f[i] \in Int
  BY <1>3, <1>4, <1>5
<1>7. Heights(T) = Heights(T \ {i}) \cup {f[i]}
  BY <1>4
<1>8. HasPeak(T)
  <2>1. CASE x >= f[i]
    BY <1>5, <1>7, <2>1
  <2>2. CASE ~(x >= f[i])
    <3>1. \A y \in Heights(T \ {i}) : y \in Int
      BY <1>3
    <3>2. \A y \in Heights(T \ {i}) : f[i] >= y
      BY <1>5, <1>6, <2>2, <3>1
    <3>3. f[i] >= f[i] /\ f[i] \in Heights(T)
      BY <1>6, <1>7
    <3> QED BY <1>7, <3>2, <3>3
  <2> QED BY <2>1, <2>2
<1> QED BY <1>3, <1>8

LEMMA FewItems ==
  ASSUME NEW b \in Bakers
  PROVE  Items(b) \subseteq Nat /\ ItemsOf(b) \subseteq Items(b) /\ IsFiniteSet(ItemsOf(b))
<1>1. Room[b] \in Nat
  BY MenuAssumption
<1>2. IsFiniteSet(Items(b))
  BY <1>1, FS_Interval DEF Items
<1>3. Items(b) \subseteq Nat /\ ItemsOf(b) \subseteq Items(b)
  BY DEF Items, ItemsOf
<1> QED BY <1>2, <1>3, FS_Subset

\* The next free position (menu-items.repository.ts, aggregate _max) is past
\* every item there is.
LEMMA PastTheLast ==
  ASSUME TypeOK, NEW b \in Bakers
  PROVE  /\ MaxSortOrder(b) + 1 \in Nat
         /\ \A i \in ItemsOf(b) : item[b][i].pos < MaxSortOrder(b) + 1
<1> DEFINE f == [i \in ItemsOf(b) |-> item[b][i].pos]
           P == {-1} \cup {item[b][i].pos : i \in ItemsOf(b)}
<1>1. \A i \in ItemsOf(b) : item[b][i].pos \in Nat
  BY DEF TypeOK, ItemsOf, Row, NoRow, Gone
<1>2. IsFiniteSet(ItemsOf(b))
  BY FewItems
<1>3. f \in [ItemsOf(b) -> Int]
  BY <1>1
<1>4. \E x \in P : \A y \in P : x >= y
  <2>1. \E x \in {-1} \cup {f[i] : i \in ItemsOf(b)} :
           \A y \in {-1} \cup {f[i] : i \in ItemsOf(b)} : x >= y
    <3> HIDE DEF f
    <3> QED BY <1>2, <1>3, Peak
  <2>2. {f[i] : i \in ItemsOf(b)} = {item[b][i].pos : i \in ItemsOf(b)}
    OBVIOUS
  <2> QED BY <2>1, <2>2
<1>5. MaxSortOrder(b) \in P /\ \A y \in P : MaxSortOrder(b) >= y
  BY <1>4 DEF MaxSortOrder, Max
<1>6. \A y \in P : y \in Int /\ y >= -1
  BY <1>1
<1>7. MaxSortOrder(b) \in Int /\ MaxSortOrder(b) >= -1
  BY <1>5, <1>6
<1>8. \A i \in ItemsOf(b) : MaxSortOrder(b) >= item[b][i].pos
  BY <1>5
<1> QED BY <1>1, <1>7, <1>8

\* What a list names is named last somewhere in it.
LEMMA NamedLast ==
  ASSUME NEW ids \in Seq(Nat), NEW i \in ToSet(ids)
  PROVE  /\ LastPlace(ids, i) \in 1..Len(ids)
         /\ ids[LastPlace(ids, i)] = i
         /\ \A m \in (LastPlace(ids, i) + 1)..Len(ids) : ids[m] # i
<1> DEFINE S == {k \in 1..Len(ids) : ids[k] = i}
           f == [k \in S |-> k]
<1>1. PICK k \in S : TRUE
  BY DEF ToSet
<1>2. IsFiniteSet(S)
  <2>1. IsFiniteSet(1..Len(ids))
    <3>1. Len(ids) \in Int /\ 1 \in Int
      OBVIOUS
    <3> QED BY <3>1, FS_Interval
  <2>2. S \in SUBSET (1..Len(ids))
    OBVIOUS
  <2> QED BY <2>1, <2>2, FS_Subset
<1>3. PICK x \in {0} \cup {f[m] : m \in S} :
           \A y \in {0} \cup {f[m] : m \in S} : x >= y
  <2>1. f \in [S -> Int] /\ 0 \in Int
    OBVIOUS
  <2>2. \E y \in {0} \cup {f[m] : m \in S} :
           \A z \in {0} \cup {f[m] : m \in S} : y >= z
    <3> HIDE DEF f, S
    <3> QED BY <1>2, <2>1, Peak
  <2> QED BY <2>2
<1>4. {f[m] : m \in S} = S
  OBVIOUS
<1>5. x \in S /\ \A y \in S : x >= y
  <2>1. k \in Int /\ k >= 1
    OBVIOUS
  <2>2. k \in S
    OBVIOUS
  <2> HIDE DEF f, S
  <2>3. x \in {0} \cup S /\ \A y \in {0} \cup S : x >= y
    BY <1>3, <1>4
  <2>4. x # 0
    BY <2>1, <2>2, <2>3
  <2> QED BY <2>3, <2>4
<1>6. x \in 1..Len(ids) /\ ids[x] = i /\ \A m \in (x + 1)..Len(ids) : ids[m] # i
  BY <1>5
<1> QED BY <1>6 DEF LastPlace

-----------------------------------------------------------------------------
(* The listing: whatever positions the items have, it is there.            *)

Ahead(f, i, j) == f[i] < f[j] \/ (f[i] = f[j] /\ i < j)

LEMMA AheadIsAnOrder ==
  ASSUME NEW S \in SUBSET Nat, NEW f \in [S -> Int], NEW i \in S, NEW j \in S, NEW k \in S
  PROVE  /\ ~Ahead(f, i, i)
         /\ i # j => Ahead(f, i, j) \/ Ahead(f, j, i)
         /\ Ahead(f, i, j) /\ Ahead(f, j, k) => Ahead(f, i, k)
<1>1. f[i] \in Int /\ f[j] \in Int /\ f[k] \in Int /\ i \in Nat /\ j \in Nat /\ k \in Nat
  OBVIOUS
<1> QED BY <1>1 DEF Ahead

\* Of finitely many items, one comes last.
LEMMA OneIsLast ==
  ASSUME NEW S \in SUBSET Nat, IsFiniteSet(S), NEW f \in [S -> Int], S # {}
  PROVE  \E l \in S : \A j \in S \ {l} : Ahead(f, j, l)
<1> DEFINE HasLast(T) == \E l \in T : \A j \in T \ {l} : Ahead(f, j, l)
           Bad == {T \in SUBSET S : T # {} /\ ~HasLast(T)}
<1>1. SUFFICES ASSUME Bad # {} PROVE FALSE
  OBVIOUS
<1>2. PICK T \in Bad : \A i \in T : T \ {i} \notin Bad
  <2>1. Bad \subseteq SUBSET S
    OBVIOUS
  <2> HIDE DEF Bad
  <2> QED BY <1>1, <2>1, Smallest
<1>3. T \subseteq S /\ T # {} /\ ~HasLast(T)
  OBVIOUS
<1>4. PICK i \in T : TRUE
  BY <1>3
<1>5. T \ {i} # {}
  BY <1>3, <1>4
<1>6. PICK l \in T \ {i} : \A j \in (T \ {i}) \ {l} : Ahead(f, j, l)
  BY <1>2, <1>3, <1>4, <1>5
<1>7. CASE Ahead(f, i, l)
  <2>1. \A j \in T \ {l} : Ahead(f, j, l)
    BY <1>6, <1>7
  <2> QED BY <1>3, <1>6, <2>1
<1>8. CASE Ahead(f, l, i)
  <2>1. ASSUME NEW j \in T \ {i} PROVE Ahead(f, j, i)
    <3>1. j \in S /\ l \in S /\ i \in S
      BY <1>3, <1>4, <1>6
    <3>2. j = l \/ Ahead(f, j, l)
      BY <1>6
    <3> QED BY <1>8, <3>1, <3>2, AheadIsAnOrder
  <2> QED BY <1>3, <1>4, <2>1
<1>9. l \in S /\ i \in S /\ l # i
  BY <1>3, <1>4, <1>6
<1> QED BY <1>7, <1>8, <1>9, AheadIsAnOrder

Listing(f, T, s) ==
  /\ s \in [1..Cardinality(T) -> T]
  /\ \A m, n \in 1..Cardinality(T) : m < n => Ahead(f, s[m], s[n])

\* So they can be listed one after the other.
LEMMA Sortable ==
  ASSUME NEW S \in SUBSET Nat, IsFiniteSet(S), NEW f \in [S -> Int]
  PROVE  \E s : Listing(f, S, s)
<1> DEFINE Bad == {T \in SUBSET S : ~(\E s : Listing(f, T, s))}
<1>1. SUFFICES ASSUME Bad # {} PROVE FALSE
  OBVIOUS
<1>2. PICK T \in Bad : \A i \in T : T \ {i} \notin Bad
  <2>1. Bad \subseteq SUBSET S
    OBVIOUS
  <2> HIDE DEF Bad
  <2> QED BY <1>1, <2>1, Smallest
<1>3. T \in SUBSET S /\ ~(\E s : Listing(f, T, s)) /\ IsFiniteSet(T)
  BY FS_Subset
<1>4. T # {}
  <2>1. ASSUME T = {} PROVE Listing(f, T, [m \in 1..0 |-> m])
    <3>1. Cardinality(T) = 0 /\ 1..0 = {}
      BY <2>1, FS_EmptySet
    <3>2. [m \in 1..0 |-> m] \in [1..0 -> T]
      BY <3>1
    <3> QED BY <3>1, <3>2 DEF Listing
  <2> QED BY <1>3, <2>1
<1>5. PICK l \in T : \A j \in T \ {l} : Ahead(f, j, l)
  <2>1. T \in SUBSET Nat
    BY <1>3
  <2> DEFINE g == [i \in T |-> f[i]]
  <2>2. g \in [T -> Int]
    BY <1>3
  <2>3. \E l \in T : \A j \in T \ {l} : Ahead(g, j, l)
    <3> HIDE DEF g
    <3> QED BY <1>3, <1>4, <2>1, <2>2, OneIsLast
  <2> QED BY <2>3 DEF Ahead
<1>6. PICK s : Listing(f, T \ {l}, s)
  <2>1. T \ {l} \in SUBSET S /\ T \ {l} \notin Bad
    BY <1>2, <1>3, <1>5
  <2> QED BY <2>1
<1> DEFINE c == Cardinality(T)
           t == [m \in 1..c |-> IF m = c THEN l ELSE s[m]]
<1>7. c \in Nat \ {0} /\ Cardinality(T \ {l}) = c - 1
  BY <1>3, <1>5, FS_CardinalityType, FS_RemoveElement, FS_EmptySet
<1> HIDE DEF c
<1>8. /\ \A m \in 1..(c - 1) : s[m] \in T \ {l}
      /\ \A m, n \in 1..(c - 1) : m < n => Ahead(f, s[m], s[n])
  BY <1>6, <1>7 DEF Listing
<1>9. \A m \in 1..c : m = c \/ m \in 1..(c - 1)
  BY <1>7
<1>10. t \in [1..c -> T]
  BY <1>5, <1>8, <1>9
<1>11. ASSUME NEW m \in 1..c, NEW n \in 1..c, m < n
       PROVE  Ahead(f, t[m], t[n])
  <2>1. m \in 1..(c - 1) /\ m # c /\ t[m] = s[m]
    BY <1>7, <1>11
  <2>2. CASE n = c
    <3>1. t[n] = l
      BY <2>2
    <3> HIDE DEF t
    <3> QED BY <1>5, <1>8, <2>1, <3>1
  <2>3. CASE n # c
    <3>1. n \in 1..(c - 1) /\ t[n] = s[n]
      BY <1>7, <2>3
    <3> HIDE DEF t
    <3> QED BY <1>8, <1>11, <2>1, <3>1
  <2> QED BY <2>2, <2>3
<1>12. Listing(f, T, t)
  BY <1>10, <1>11 DEF Listing, c
<1> QED BY <1>3, <1>12

-----------------------------------------------------------------------------
(* What a statement does to the request that makes it; the others stay.    *)

OthersStay(r) == \A q \in Requests \ {r} : request'[q] = request[q]

LEMMA FlyingIsNotIdle ==
  ASSUME NEW q \in InFlight
  PROVE  q # Idle
  BY DEF InFlight, Idle

LEMMA RequestFields ==
  ASSUME TypeOK, NEW r \in Requests, request[r] # Idle
  PROVE  /\ request[r] \in InFlight /\ request[r].at \in Places
         /\ request[r].baker \in Bakers /\ request[r].item \in Nat
         /\ request[r].ids \in Seq(Nat) /\ request[r].link \in Links \cup {NoLink}
         /\ request[r].n \in Nat /\ request[r].late \in {"no", "yes"}
  BY DEF TypeOK, InFlight, Places

LEMMA Takes ==
  ASSUME TypeOK, NEW r \in Requests, NEW q \in InFlight,
         request' = [request EXCEPT ![r] = q]
  PROVE  /\ request' \in [Requests -> InFlight \cup {Idle}]
         /\ request'[r] = q /\ OthersStay(r)
  BY DEF TypeOK, OthersStay

Arrived(r, place, b, i, s) ==
  /\ request' \in [Requests -> InFlight \cup {Idle}] /\ OthersStay(r)
  /\ request'[r].at = place /\ request'[r].baker = b /\ request'[r].item = i
  /\ request'[r].link = s /\ request'[r].late = spent[b]

LEMMA Arrives ==
  ASSUME TypeOK, NEW r \in Requests, NEW place \in Places, NEW b \in Bakers,
         NEW i \in Nat, NEW ids \in Seq(Nat), NEW s \in Links \cup {NoLink}, NEW n \in Nat,
         Arrive(r, place, b, i, ids, s, n)
  PROVE  Arrived(r, place, b, i, s) /\ request'[r].ids = ids
<1> DEFINE q == [at |-> place, baker |-> b, item |-> i, ids |-> ids, link |-> s, n |-> n,
                 late |-> spent[b]]
<1>1. q \in InFlight
  BY DEF TypeOK, InFlight, Places
<1>2. request' = [request EXCEPT ![r] = q]
  BY DEF Arrive
<1> QED BY <1>1, <1>2, Takes DEF Arrived

LEMMA ArrivesWithoutList ==
  ASSUME TypeOK, NEW r \in Requests, NEW place \in Places, NEW b \in Bakers,
         NEW i \in Nat, NEW s \in Links \cup {NoLink}, NEW n \in Nat,
         Arrive(r, place, b, i, <<>>, s, n)
  PROVE  Arrived(r, place, b, i, s)
<1> DEFINE none == <<>>
<1>1. none \in Seq(Nat) /\ Arrive(r, place, b, i, none, s, n)
  OBVIOUS
<1> HIDE DEF none
<1> QED BY <1>1, Arrives

LEMMA Goes ==
  ASSUME TypeOK, NEW r \in Requests, request[r] # Idle, NEW place \in Places,
         NEW s \in Links \cup {NoLink}, NEW n \in Nat, Go(r, place, s, n)
  PROVE  /\ request' \in [Requests -> InFlight \cup {Idle}] /\ OthersStay(r)
         /\ request'[r].at = place /\ request'[r].baker = request[r].baker
         /\ request'[r].item = request[r].item /\ request'[r].ids = request[r].ids
         /\ request'[r].link = s /\ request'[r].n = n
         /\ request'[r].late = request[r].late
<1> DEFINE q == [at |-> place, baker |-> request[r].baker, item |-> request[r].item,
                 ids |-> request[r].ids, link |-> s, n |-> n, late |-> request[r].late]
<1>1. q \in InFlight
  BY RequestFields DEF InFlight, Places
<1>2. request' = [request EXCEPT ![r] = q]
  BY DEF Go
<1> QED BY <1>1, <1>2, Takes

LEMMA Finishes ==
  ASSUME TypeOK, NEW r \in Requests, Finish(r)
  PROVE  /\ request' \in [Requests -> InFlight \cup {Idle}] /\ OthersStay(r)
         /\ request'[r] = Idle
  BY DEF TypeOK, OthersStay, Finish

-----------------------------------------------------------------------------
(* The inductive invariant, part by part.                                  *)

\* What the other requests carry stays true as long as no link is taken away.
LEMMA OthersCarry ==
  ASSUME IInv, NEW r \in Requests, OthersStay(r), NEW q \in Requests \ {r},
         \A b \in Bakers : link[b] # NoLink => link'[b] # NoLink
  PROVE  Carries(q)'
<1>1. request'[q] = request[q] /\ Carries(q)
  BY DEF IInv, OthersStay
<1>2. CASE request[q] = Idle
  BY <1>1, <1>2 DEF Carries, Idle, Linking
<1>3. CASE request[q] # Idle
  BY <1>1, <1>3, RequestFields DEF IInv, Carries
<1> QED BY <1>2, <1>3

\* A step that only moves the request: what it now carries is all there is
\* to see to.
LEMMA OnlyTheRequest ==
  ASSUME IInv, NEW r \in Requests, UNCHANGED <<item, link, spent, asked>>,
         request' \in [Requests -> InFlight \cup {Idle}], OthersStay(r), Carries(r)'
  PROVE  IInv'
<1>1. TypeOK'
  BY DEF IInv, TypeOK
<1>2. \A q \in Requests : Carries(q)'
  BY OthersCarry
<1>3. \A b \in Bakers : LinkInv(b)' /\ OrderInv(b)'
  BY DEF IInv, LinkInv, OrderInv, ItemsOf
<1> QED BY <1>1, <1>2, <1>3 DEF IInv

\* A request that is done carries nothing.
LEMMA IdleCarriesNothing ==
  ASSUME NEW r, request'[r] = Idle
  PROVE  Carries(r)'
  BY DEF Carries, Idle, Linking

LEMMA SomeLinks ==
  /\ NoLink \notin Links /\ 1 \in Links /\ 1..MaxLink \subseteq Links
  /\ \A s \in Links : s < Attempts => s + 1 \in Links
  BY MenuAssumption DEF Links, NoLink

\* A baker's link changes to one nobody else has, and the menu then has one.
LEMMA Relinks ==
  ASSUME IInv, NEW b \in Bakers, NEW s \in Links, ~TakenByOther(s, b),
         link' = [link EXCEPT ![b] = s], UNCHANGED <<item, asked>>,
         spent' \in [Bakers -> {"no", "yes"}],
         \A c \in Bakers : spent'[c] = spent[c] \/ c = b
  PROVE  /\ \A c \in Bakers : LinkInv(c)' /\ OrderInv(c)'
         /\ \A c \in Bakers : link[c] # NoLink => link'[c] # NoLink
         /\ link'[b] # NoLink /\ link' \in [Bakers -> Links \cup {NoLink}]
<1>1. /\ link' \in [Bakers -> Links \cup {NoLink}]
      /\ link'[b] = s /\ s # NoLink
      /\ \A c \in Bakers \ {b} : link'[c] = link[c] /\ link[c] # s
  BY SomeLinks DEF IInv, TypeOK, TakenByOther
<1>2. \A c \in Bakers : LinkInv(c)'
  BY <1>1 DEF IInv, LinkInv, ItemsOf
<1>3. \A c \in Bakers : OrderInv(c)'
  BY DEF IInv, OrderInv, ItemsOf
<1> QED BY <1>1, <1>2, <1>3

-----------------------------------------------------------------------------
(* Every statement keeps it.                                               *)

LEMMA InvCreateMenuItem ==
  ASSUME IInv, NEW r \in Requests, CreateMenuItem(r)
  PROVE  IInv'
<1>0. /\ TypeOK /\ NoItem \in Nat /\ 0 \in Nat
      /\ "find" \in Places /\ "max" \in Places
      /\ 1 \in Links \cup {NoLink} /\ NoLink \in Links \cup {NoLink}
  BY SomeLinks DEF IInv, NoItem, Places
<1>1. PICK b \in Bakers :
        IF link[b] = NoLink
          THEN Arrive(r, "find", b, NoItem, <<>>, 1, 0)
          ELSE Arrive(r, "max", b, NoItem, <<>>, NoLink, 0)
  BY DEF CreateMenuItem
<1>2. CASE link[b] = NoLink
  <2>1. Arrive(r, "find", b, NoItem, <<>>, 1, 0)
    BY <1>1, <1>2
  <2>2. Arrived(r, "find", b, NoItem, 1)
    BY <1>0, <2>1, ArrivesWithoutList
  <2>3. spent[b] = "no"
    BY <1>2 DEF IInv, LinkInv, TypeOK
  <2>4. Carries(r)'
    BY <2>2, <2>3, SomeLinks DEF Carries, Linking, Arrived
  <2> QED BY <2>1, <2>2, <2>4, OnlyTheRequest DEF Arrive, Arrived
<1>3. CASE link[b] # NoLink
  <2>1. Arrive(r, "max", b, NoItem, <<>>, NoLink, 0)
    BY <1>1, <1>3
  <2>2. Arrived(r, "max", b, NoItem, NoLink)
    BY <1>0, <2>1, ArrivesWithoutList
  <2>3. Carries(r)'
    BY <1>3, <2>1, <2>2 DEF Carries, Linking, Arrive, Arrived
  <2> QED BY <2>1, <2>2, <2>3, OnlyTheRequest DEF Arrive, Arrived
<1> QED BY <1>2, <1>3

LEMMA InvFindFreeSlug ==
  ASSUME IInv, NEW r \in Requests, FindFreeSlug(r)
  PROVE  IInv'
<1>0. TypeOK /\ request[r] # Idle /\ request[r].at = "find"
  BY DEF IInv, FindFreeSlug, At, Idle
<1>1. request[r].link \in Links /\ request[r].late = "no" /\ request[r].n \in Nat
  BY <1>0, RequestFields DEF IInv, Carries, Linking
<1>2. UNCHANGED <<item, link, spent, asked>>
  BY DEF FindFreeSlug
<1>3. \/ Go(r, "assign", request[r].link, request[r].n)
      \/ /\ request[r].link < Attempts
         /\ Go(r, "find", request[r].link + 1, request[r].n)
      \/ Finish(r)
  BY DEF FindFreeSlug
<1>4. ASSUME NEW place \in {"find", "assign"}, NEW s \in Links, Go(r, place, s, request[r].n)
      PROVE  IInv'
  <2>1. /\ request' \in [Requests -> InFlight \cup {Idle}] /\ OthersStay(r)
        /\ request'[r].at = place /\ request'[r].link = s
        /\ request'[r].late = request[r].late
    BY <1>0, <1>1, <1>4, Goes DEF Places
  <2>2. Carries(r)'
    BY <1>1, <2>1, SomeLinks DEF Carries, Linking
  <2> QED BY <1>2, <2>1, <2>2, OnlyTheRequest
<1>5. CASE Go(r, "assign", request[r].link, request[r].n)
  BY <1>1, <1>4, <1>5
<1>6. CASE request[r].link < Attempts /\ Go(r, "find", request[r].link + 1, request[r].n)
  BY <1>1, <1>4, <1>6, SomeLinks
<1>7. CASE Finish(r)
  BY <1>0, <1>2, <1>7, Finishes, IdleCarriesNothing, OnlyTheRequest
<1> QED BY <1>3, <1>5, <1>6, <1>7

LEMMA InvAssignSlug ==
  ASSUME IInv, NEW r \in Requests, AssignSlug(r)
  PROVE  IInv'
<1> DEFINE s == request[r].link
           b == request[r].baker
           tries == request[r].n + 1
<1>0. TypeOK /\ request[r] # Idle /\ request[r].at = "assign"
  BY DEF IInv, AssignSlug, At, Idle
<1>1. s \in Links /\ request[r].late = "no" /\ tries \in Nat /\ b \in Bakers
  BY <1>0, RequestFields DEF IInv, Carries, Linking
<1>2. UNCHANGED <<item, spent, asked>>
  BY DEF AssignSlug
<1>3. CASE TakenByOther(s, b)
  <2>1. UNCHANGED link /\ (Go(r, "find", 1, tries) \/ Finish(r))
    BY <1>3 DEF AssignSlug
  <2>2. CASE Go(r, "find", 1, tries)
    <3>1. /\ request' \in [Requests -> InFlight \cup {Idle}] /\ OthersStay(r)
          /\ request'[r].at = "find" /\ request'[r].link = 1
          /\ request'[r].late = request[r].late
      BY <1>0, <1>1, <2>2, SomeLinks, Goes DEF Places
    <3>2. Carries(r)'
      BY <1>1, <3>1, SomeLinks DEF Carries, Linking
    <3> QED BY <1>2, <2>1, <3>1, <3>2, OnlyTheRequest
  <2>3. CASE Finish(r)
    BY <1>0, <1>2, <2>1, <2>3, Finishes, IdleCarriesNothing, OnlyTheRequest
  <2> QED BY <2>1, <2>2, <2>3
<1>4. CASE ~TakenByOther(s, b)
  <2>1. link' = [link EXCEPT ![b] = s] /\ Go(r, "max", NoLink, 0)
    BY <1>4 DEF AssignSlug
  <2>2. /\ request' \in [Requests -> InFlight \cup {Idle}] /\ OthersStay(r)
        /\ request'[r].at = "max" /\ request'[r].baker = b
    BY <1>0, <2>1, Goes DEF Places
  <2>3. /\ \A c \in Bakers : LinkInv(c)' /\ OrderInv(c)'
        /\ \A c \in Bakers : link[c] # NoLink => link'[c] # NoLink
        /\ link'[b] # NoLink /\ link' \in [Bakers -> Links \cup {NoLink}]
    <3>1. spent' \in [Bakers -> {"no", "yes"}] /\ \A c \in Bakers : spent'[c] = spent[c]
      BY <1>0, <1>2 DEF TypeOK
    <3> QED BY <1>1, <1>2, <1>4, <2>1, <3>1, Relinks
  <2>4. Carries(r)'
    BY <2>2, <2>3 DEF Carries, Linking
  <2>5. \A q \in Requests : Carries(q)'
    BY <2>2, <2>3, <2>4, OthersCarry
  <2>6. TypeOK'
    BY <1>0, <1>2, <2>2, <2>3 DEF TypeOK
  <2> QED BY <2>3, <2>5, <2>6 DEF IInv
<1> QED BY <1>3, <1>4

LEMMA InvReadMaxSortOrder ==
  ASSUME IInv, NEW r \in Requests, ReadMaxSortOrder(r)
  PROVE  IInv'
<1>0. TypeOK /\ request[r] # Idle /\ request[r].at = "max"
  BY DEF IInv, ReadMaxSortOrder, At, Idle
<1>1. request[r].baker \in Bakers /\ link[request[r].baker] # NoLink
  BY <1>0, RequestFields DEF IInv, Carries
<1>2. /\ UNCHANGED <<item, link, spent, asked>>
      /\ Go(r, "insert", NoLink, MaxSortOrder(request[r].baker) + 1)
  BY DEF ReadMaxSortOrder
<1>3. /\ request' \in [Requests -> InFlight \cup {Idle}] /\ OthersStay(r)
      /\ request'[r].at = "insert" /\ request'[r].baker = request[r].baker
  BY <1>0, <1>1, <1>2, PastTheLast, Goes DEF Places
<1>4. Carries(r)'
  BY <1>1, <1>2, <1>3 DEF Carries, Linking
<1> QED BY <1>2, <1>3, <1>4, OnlyTheRequest

\* One row is written by the request's last statement: a new one, of a baker
\* with a link; one taken away; or one that stays where it is on the menu.
LEMMA WritesItem ==
  ASSUME IInv, NEW r \in Requests, NEW b \in Bakers, NEW i \in Items(b),
         NEW row \in Row \cup {Gone}, item' = [item EXCEPT ![b][i] = row],
         \/ item[b][i] = NoRow /\ link[b] # NoLink
         \/ row = Gone
         \/ i \in ItemsOf(b) /\ row \in Row /\ row.pos = item[b][i].pos,
         UNCHANGED <<link, spent, asked>>, Finish(r)
  PROVE  IInv'
<1>0. TypeOK
  BY DEF IInv
<1>1. /\ request' \in [Requests -> InFlight \cup {Idle}] /\ OthersStay(r)
      /\ request'[r] = Idle
  BY <1>0, Finishes
<1>2. \A q \in Requests : Carries(q)'
  BY <1>1, OthersCarry, IdleCarriesNothing
<1>3. /\ DOMAIN item' = Bakers /\ item'[b][i] = row
      /\ \A c \in Bakers : item'[c] \in [Items(c) -> Row \cup {NoRow, Gone}]
      /\ \A c \in Bakers : \A j \in Items(c) :
           c # b \/ j # i => item'[c][j] = item[c][j]
  BY <1>0 DEF TypeOK
<1>4. TypeOK'
  BY <1>0, <1>1, <1>3 DEF TypeOK
<1>5. row # NoRow /\ (row \in Row => row.state = "there") /\ Gone.state # "there"
  BY DEF Row, NoRow, Gone
<1>6. \A c \in Bakers : OrderInv(c)'
  <2>1. SUFFICES ASSUME NEW c \in Bakers, NEW j \in ToSet(asked[c])
                 PROVE  /\ j \in Items(c) /\ item'[c][j] # NoRow
                        /\ item'[c][j].state = "there"
                             => item'[c][j].pos = LastPlace(asked[c], j) - 1
    BY DEF OrderInv, ItemsOf
  <2>2. /\ j \in Items(c) /\ item[c][j] # NoRow
        /\ item[c][j].state = "there" => item[c][j].pos = LastPlace(asked[c], j) - 1
    BY DEF IInv, OrderInv, ItemsOf
  <2>3. CASE c # b \/ j # i
    BY <1>3, <2>2, <2>3
  <2>4. CASE c = b /\ j = i
    BY <1>3, <1>5, <2>2, <2>4 DEF ItemsOf
  <2> QED BY <2>3, <2>4
<1>7. \A c \in Bakers : LinkInv(c)'
  <2>1. SUFFICES ASSUME NEW c \in Bakers, ItemsOf(c)' # {}, link[c] = NoLink
                 PROVE  FALSE
    BY DEF IInv, LinkInv
  <2>2. ItemsOf(c) = {}
    BY <2>1 DEF IInv, LinkInv
  <2>3. PICK j \in Items(c) : item'[c][j].state = "there"
    BY <2>1 DEF ItemsOf
  <2>4. c = b /\ j = i
    BY <1>3, <2>2, <2>3 DEF ItemsOf
  <2> QED BY <1>3, <1>5, <2>1, <2>2, <2>3, <2>4
<1> QED BY <1>2, <1>4, <1>6, <1>7 DEF IInv

LEMMA InvInsertItem ==
  ASSUME IInv, NEW r \in Requests, InsertItem(r)
  PROVE  IInv'
<1> DEFINE b == request[r].baker
           row == [pos |-> request[r].n, shown |-> "yes", state |-> "there"]
<1>0. TypeOK /\ request[r] # Idle /\ request[r].at = "insert"
  BY DEF IInv, InsertItem, At, Idle
<1>1. b \in Bakers /\ link[b] # NoLink /\ row \in Row \cup {Gone}
  BY <1>0, RequestFields DEF IInv, Carries, Row
<1>2. PICK i \in Items(b) : item[b][i] = NoRow /\ item' = [item EXCEPT ![b][i] = row]
  BY DEF InsertItem
<1>3. Finish(r) /\ UNCHANGED <<link, spent, asked>>
  BY DEF InsertItem
<1> HIDE DEF b, row
<1> QED BY <1>1, <1>2, <1>3, WritesItem

LEMMA InvToggle ==
  ASSUME IInv, NEW r \in Requests, Toggle(r)
  PROVE  IInv'
<1> DEFINE b == request[r].baker
           i == request[r].item
           row == [item[b][i] EXCEPT !.shown = Toggled(@)]
<1>0. TypeOK /\ request[r] # Idle /\ request[r].at = "toggle"
  BY DEF IInv, Toggle, At, Idle
<1>1. b \in Bakers /\ i \in Items(b)
  BY <1>0, RequestFields DEF IInv, Carries
<1>2. Finish(r) /\ UNCHANGED <<link, spent, asked>>
  BY DEF Toggle
<1>3. CASE i \in ItemsOf(b)
  <2>1. item' = [item EXCEPT ![b][i].shown = Toggled(@)]
    BY <1>3 DEF Toggle
  <2>2. item[b][i] \in Row
    <3>1. item[b][i] \in Row \cup {NoRow, Gone} /\ item[b][i].state = "there"
      BY <1>0, <1>1, <1>3 DEF TypeOK, ItemsOf
    <3>2. NoRow.state # "there" /\ Gone.state # "there"
      BY DEF NoRow, Gone
    <3> QED BY <3>1, <3>2
  <2>3. item' = [item EXCEPT ![b][i] = row]
    BY <2>1
  <2>4. row \in Row /\ row.pos = item[b][i].pos
    BY <2>2 DEF Row, Toggled
  <2> HIDE DEF b, i, row
  <2> QED BY <1>1, <1>2, <1>3, <2>3, <2>4, WritesItem
<1>4. CASE i \notin ItemsOf(b)
  <2>1. UNCHANGED item
    BY <1>4 DEF Toggle
  <2> QED BY <1>0, <1>2, <2>1, Finishes, IdleCarriesNothing, OnlyTheRequest
<1> QED BY <1>3, <1>4

LEMMA InvRemoveItem ==
  ASSUME IInv, NEW r \in Requests, RemoveItem(r)
  PROVE  IInv'
<1> DEFINE b == request[r].baker
           i == request[r].item
<1>0. TypeOK /\ request[r] # Idle /\ request[r].at = "remove"
  BY DEF IInv, RemoveItem, At, Idle
<1>1. b \in Bakers /\ i \in Items(b)
  BY <1>0, RequestFields DEF IInv, Carries
<1>2. item' = [item EXCEPT ![b][i] = Gone] /\ Finish(r) /\ UNCHANGED <<link, spent, asked>>
  BY DEF RemoveItem
<1>3. Gone \in Row \cup {Gone}
  OBVIOUS
<1> HIDE DEF b, i
<1> QED BY <1>1, <1>2, <1>3, WritesItem

LEMMA InvEditMenuSlug ==
  ASSUME IInv, NEW r \in Requests, EditMenuSlug(r)
  PROVE  IInv'
<1>0. TypeOK /\ NoItem \in Nat /\ 0 \in Nat /\ "vet" \in Places
  BY DEF IInv, NoItem, Places
<1>1. PICK b \in Bakers, s \in 1..MaxLink :
        spent[b] = "no" /\ Arrive(r, "vet", b, NoItem, <<>>, s, 0)
  BY DEF EditMenuSlug
<1>2. s \in Links
  BY SomeLinks
<1>3. Arrived(r, "vet", b, NoItem, s)
  BY <1>0, <1>1, <1>2, ArrivesWithoutList
<1>4. Carries(r)'
  BY <1>1, <1>2, <1>3 DEF Carries, Linking, Arrived
<1> QED BY <1>1, <1>3, <1>4, OnlyTheRequest DEF Arrive, Arrived

LEMMA InvVetSlug ==
  ASSUME IInv, NEW r \in Requests, VetSlug(r)
  PROVE  IInv'
<1>0. TypeOK /\ request[r] # Idle /\ request[r].at = "vet"
  BY DEF IInv, VetSlug, At, Idle
<1>1. request[r].link \in Links /\ request[r].late = "no"
  BY <1>0, RequestFields DEF IInv, Carries, Linking
<1>2. /\ UNCHANGED <<item, link, spent, asked>>
      /\ Finish(r) \/ Go(r, "save", request[r].link, 0)
  BY DEF VetSlug
<1>3. CASE Go(r, "save", request[r].link, 0)
  <2>1. /\ request' \in [Requests -> InFlight \cup {Idle}] /\ OthersStay(r)
        /\ request'[r].at = "save" /\ request'[r].link = request[r].link
        /\ request'[r].late = request[r].late
    BY <1>0, <1>1, <1>3, Goes DEF Places
  <2>2. Carries(r)'
    BY <1>1, <2>1 DEF Carries, Linking
  <2> QED BY <1>2, <2>1, <2>2, OnlyTheRequest
<1>4. CASE Finish(r)
  BY <1>0, <1>2, <1>4, Finishes, IdleCarriesNothing, OnlyTheRequest
<1> QED BY <1>2, <1>3, <1>4

LEMMA InvSaveSlug ==
  ASSUME IInv, NEW r \in Requests, SaveSlug(r)
  PROVE  IInv'
<1> DEFINE s == request[r].link
           b == request[r].baker
<1>0. TypeOK /\ request[r] # Idle /\ request[r].at = "save"
  BY DEF IInv, SaveSlug, At, Idle
<1>1. s \in Links /\ b \in Bakers
  BY <1>0, RequestFields DEF IInv, Carries, Linking
<1>2. Finish(r) /\ UNCHANGED <<item, asked>>
  BY DEF SaveSlug
<1>3. /\ request' \in [Requests -> InFlight \cup {Idle}] /\ OthersStay(r)
      /\ request'[r] = Idle
  BY <1>0, <1>2, Finishes
<1>4. CASE TakenByOther(s, b)
  <2>1. UNCHANGED <<link, spent>>
    BY <1>4 DEF SaveSlug
  <2> QED BY <1>2, <1>3, <2>1, IdleCarriesNothing, OnlyTheRequest
<1>5. CASE ~TakenByOther(s, b)
  <2>1. link' = [link EXCEPT ![b] = s] /\ spent' = [spent EXCEPT ![b] = "yes"]
    BY <1>5 DEF SaveSlug
  <2>2. /\ spent' \in [Bakers -> {"no", "yes"}]
        /\ \A c \in Bakers : spent'[c] = spent[c] \/ c = b
    BY <1>0, <2>1 DEF TypeOK
  <2>3. /\ \A c \in Bakers : LinkInv(c)' /\ OrderInv(c)'
        /\ \A c \in Bakers : link[c] # NoLink => link'[c] # NoLink
        /\ link'[b] # NoLink /\ link' \in [Bakers -> Links \cup {NoLink}]
    BY <1>1, <1>2, <1>5, <2>1, <2>2, Relinks
  <2>4. \A q \in Requests : Carries(q)'
    BY <1>3, <2>3, OthersCarry, IdleCarriesNothing
  <2>5. TypeOK'
    BY <1>0, <1>2, <1>3, <2>2, <2>3 DEF TypeOK
  <2> QED BY <2>3, <2>4, <2>5 DEF IInv
<1> QED BY <1>4, <1>5

LEMMA InvUpdateOrDelete ==
  ASSUME IInv, NEW r \in Requests, UpdateMenuItem(r) \/ DeleteMenuItem(r)
  PROVE  IInv'
<1>0. /\ TypeOK /\ 0 \in Nat /\ "toggle" \in Places /\ "remove" \in Places
      /\ NoLink \in Links \cup {NoLink}
  BY DEF IInv, Places
<1>b. PICK b \in Bakers : \E i \in ItemsOf(b) :
        \/ Arrive(r, "toggle", b, i, <<>>, NoLink, item[b][i].pos)
        \/ Arrive(r, "remove", b, i, <<>>, NoLink, 0)
  BY DEF UpdateMenuItem, DeleteMenuItem
<1>1. PICK i \in ItemsOf(b) :
        \/ Arrive(r, "toggle", b, i, <<>>, NoLink, item[b][i].pos)
        \/ Arrive(r, "remove", b, i, <<>>, NoLink, 0)
  BY <1>b
<1>2. i \in Items(b) /\ i \in Nat /\ item[b][i].pos \in Nat
  <2>1. i \in Items(b) /\ i \in Nat
    BY MenuAssumption DEF ItemsOf, Items
  <2>2. item[b][i] \in Row \cup {NoRow, Gone} /\ item[b][i].state = "there"
    BY <1>0, <2>1 DEF TypeOK, ItemsOf
  <2>3. item[b][i] \in Row
    BY <2>2 DEF NoRow, Gone
  <2> QED BY <2>1, <2>3 DEF Row
<1>3. UNCHANGED <<item, link, spent, asked>>
  BY <1>1 DEF Arrive
<1>4. ASSUME NEW place \in {"toggle", "remove"}, NEW n \in Nat,
             Arrive(r, place, b, i, <<>>, NoLink, n)
      PROVE  IInv'
  <2>1. place \in Places
    BY DEF Places
  <2>2. Arrived(r, place, b, i, NoLink)
    BY <1>0, <1>2, <1>4, <2>1, ArrivesWithoutList
  <2>3. Carries(r)'
    BY <1>2, <2>2 DEF Carries, Linking, Items, Arrived
  <2> QED BY <1>3, <2>2, <2>3, OnlyTheRequest DEF Arrived
<1> QED BY <1>0, <1>1, <1>2, <1>4

LEMMA InvReorderMenuItems ==
  ASSUME IInv, NEW r \in Requests, ReorderMenuItems(r)
  PROVE  IInv'
<1>0. /\ TypeOK /\ 0 \in Nat /\ "apply" \in Places /\ NoItem \in Nat
      /\ NoLink \in Links \cup {NoLink}
  BY DEF IInv, Places, NoItem
<1>b. PICK b \in Bakers : \E k \in 1..Room[b] : \E ids \in [1..k -> ItemsOf(b)] :
        ToSet(ids) = ItemsOf(b) /\ Arrive(r, "apply", b, NoItem, ids, NoLink, 0)
  BY DEF ReorderMenuItems
<1>k. PICK k \in 1..Room[b] : \E ids \in [1..k -> ItemsOf(b)] :
        ToSet(ids) = ItemsOf(b) /\ Arrive(r, "apply", b, NoItem, ids, NoLink, 0)
  BY <1>b
<1>1. PICK ids \in [1..k -> ItemsOf(b)] :
        ToSet(ids) = ItemsOf(b) /\ Arrive(r, "apply", b, NoItem, ids, NoLink, 0)
  BY <1>k
<1>2. ids \in Seq(Nat)
  <2>1. k \in Nat
    BY MenuAssumption
  <2>2. ids \in [1..k -> Nat]
    BY MenuAssumption DEF ItemsOf, Items
  <2> QED BY <2>1, <2>2
<1>3. Arrived(r, "apply", b, NoItem, NoLink) /\ request'[r].ids = ids
  BY <1>0, <1>1, <1>2, Arrives
<1>4. Carries(r)'
  BY <1>1, <1>3 DEF Carries, Linking, Items, ItemsOf, Arrived
<1> QED BY <1>1, <1>3, <1>4, OnlyTheRequest DEF Arrive, Arrived

LEMMA InvApplyOrder ==
  ASSUME IInv, NEW r \in Requests, ApplyOrder(r)
  PROVE  IInv'
<1> DEFINE ids == request[r].ids
           b == request[r].baker
<1>0. TypeOK /\ request[r] # Idle /\ request[r].at = "apply"
  BY DEF IInv, ApplyOrder, At, Idle
<1>1. ids \in Seq(Nat) /\ b \in Bakers
  BY <1>0, RequestFields
<1>2. Finish(r) /\ UNCHANGED <<link, spent>>
  BY DEF ApplyOrder
<1>3. /\ request' \in [Requests -> InFlight \cup {Idle}] /\ OthersStay(r)
      /\ request'[r] = Idle
  BY <1>0, <1>2, Finishes
<1>4. CASE ~(ToSet(ids) \subseteq ItemsOf(b))
  <2>1. UNCHANGED <<item, asked>>
    BY <1>4 DEF ApplyOrder
  <2> QED BY <1>2, <1>3, <2>1, IdleCarriesNothing, OnlyTheRequest
<1>5. CASE ToSet(ids) \subseteq ItemsOf(b)
  <2> DEFINE placed == [i \in Items(b) |->
               IF i \in ToSet(ids) THEN [item[b][i] EXCEPT !.pos = LastPlace(ids, i) - 1]
                                   ELSE item[b][i]]
  <2>1. item' = [item EXCEPT ![b] = placed] /\ asked' = [asked EXCEPT ![b] = ids]
    BY <1>5 DEF ApplyOrder
  <2>2. /\ DOMAIN item' = Bakers /\ item'[b] = placed
        /\ \A c \in Bakers \ {b} : item'[c] = item[c]
    BY <1>0, <1>1, <2>1 DEF TypeOK
  <2>3. /\ asked' \in [Bakers -> Seq(Nat)] /\ asked'[b] = ids
        /\ \A c \in Bakers \ {b} : asked'[c] = asked[c]
    BY <1>0, <1>1, <2>1 DEF TypeOK
  <2>4. ASSUME NEW i \in ToSet(ids)
        PROVE  /\ i \in Items(b) /\ placed[i] \in Row /\ placed[i].state = "there"
               /\ placed[i].pos = LastPlace(ids, i) - 1
    <3>1. i \in Items(b) /\ item[b][i].state = "there"
      BY <1>5 DEF ItemsOf
    <3>2. item[b][i] \in Row
      <4>1. item[b][i] \in Row \cup {NoRow, Gone}
        BY <1>0, <1>1, <3>1 DEF TypeOK
      <4> QED BY <3>1, <4>1 DEF NoRow, Gone
    <3>3. LastPlace(ids, i) - 1 \in Nat
      <4>1. LastPlace(ids, i) \in 1..Len(ids)
        BY <1>1, NamedLast
      <4> QED BY <1>1, <4>1
    <3>4. placed[i] = [item[b][i] EXCEPT !.pos = LastPlace(ids, i) - 1]
      BY <3>1
    <3> HIDE DEF placed
    <3> QED BY <3>1, <3>2, <3>3, <3>4 DEF Row
  <2>5. ASSUME NEW i \in Items(b), i \notin ToSet(ids)
        PROVE  placed[i] = item[b][i]
    BY <2>5
  <2>6. placed \in [Items(b) -> Row \cup {NoRow, Gone}]
    <3>1. \A i \in Items(b) : placed[i] \in Row \cup {NoRow, Gone}
      BY <1>0, <1>1, <2>4, <2>5 DEF TypeOK
    <3>2. placed = [i \in Items(b) |-> placed[i]]
      OBVIOUS
    <3> HIDE DEF placed
    <3> QED BY <3>1, <3>2
  <2> HIDE DEF placed, ids, b
  <2>7. TypeOK'
    BY <1>0, <1>2, <1>3, <2>2, <2>3, <2>6 DEF TypeOK
  <2>8. \A q \in Requests : Carries(q)'
    BY <1>2, <1>3, OthersCarry, IdleCarriesNothing
  <2>9. ASSUME NEW i \in Items(b)
        PROVE  placed[i].state = "there" <=> item[b][i].state = "there"
    <3>1. CASE i \in ToSet(ids)
      BY <1>5, <2>4, <3>1 DEF ItemsOf
    <3>2. CASE i \notin ToSet(ids)
      BY <2>5, <3>2
    <3> QED BY <3>1, <3>2
  <2>10. ASSUME NEW c \in Bakers
         PROVE  ItemsOf(c)' = ItemsOf(c)
    <3>1. CASE c = b
      <4>1. \A i \in Items(c) : item'[c][i].state = "there" <=> item[c][i].state = "there"
        BY <2>2, <2>9, <3>1
      <4> QED BY <4>1 DEF ItemsOf, Items
    <3>2. CASE c # b
      BY <2>2, <3>2 DEF ItemsOf, Items
    <3> QED BY <3>1, <3>2
  <2>11. \A c \in Bakers : LinkInv(c)'
    BY <1>2, <2>10 DEF IInv, LinkInv
  <2>12. ASSUME NEW c \in Bakers
         PROVE  OrderInv(c)'
    <3>1. CASE c = b
      <4>1. \A i \in ToSet(ids) : placed[i] # NoRow
        BY <2>4 DEF NoRow
      <4>2. item'[c] = placed /\ asked'[c] = ids
        BY <2>2, <2>3, <3>1
      <4>3. SUFFICES ASSUME NEW i \in ToSet(ids)
                     PROVE  /\ i \in Items(c) /\ placed[i] # NoRow
                            /\ placed[i].pos = LastPlace(ids, i) - 1
        BY <4>2 DEF OrderInv, Items
      <4> QED BY <2>4, <3>1, <4>1, <4>3
    <3>2. CASE c # b
      <4>1. item'[c] = item[c] /\ asked'[c] = asked[c] /\ ItemsOf(c)' = ItemsOf(c)
        BY <2>2, <2>3, <2>10, <3>2
      <4>2. OrderInv(c)
        BY DEF IInv
      <4> QED BY <4>1, <4>2 DEF OrderInv, Items
    <3> QED BY <3>1, <3>2
  <2> QED BY <2>7, <2>8, <2>11, <2>12 DEF IInv
<1> QED BY <1>4, <1>5

LEMMA InvFail ==
  ASSUME IInv, NEW r \in Requests, Fail(r)
  PROVE  IInv'
  BY Finishes, IdleCarriesNothing, OnlyTheRequest DEF IInv, Fail

LEMMA InvStep ==
  ASSUME IInv, NEW r \in Requests, Step(r)
  PROVE  IInv'
  BY InvCreateMenuItem, InvFindFreeSlug, InvAssignSlug, InvReadMaxSortOrder, InvInsertItem,
     InvEditMenuSlug, InvVetSlug, InvSaveSlug, InvUpdateOrDelete, InvToggle, InvRemoveItem,
     InvReorderMenuItems, InvApplyOrder, InvFail DEF Step

LEMMA InvInit ==
  ASSUME Init
  PROVE  IInv
<1>1. TypeOK
  BY DEF Init, TypeOK
<1>2. \A r \in Requests : Carries(r)
  BY DEF Init, Carries, Idle, Linking
<1>3. \A b \in Bakers : ItemsOf(b) = {}
  BY DEF Init, ItemsOf, NoRow
<1>4. \A b \in Bakers : LinkInv(b)
  BY <1>3 DEF Init, LinkInv
<1>5. \A b \in Bakers : OrderInv(b)
  BY DEF Init, OrderInv, ToSet
<1> QED BY <1>1, <1>2, <1>4, <1>5 DEF IInv

LEMMA InvStutter ==
  ASSUME IInv, UNCHANGED vars
  PROVE  IInv'
<1>1. TypeOK'
  BY DEF IInv, TypeOK, vars
<1>2. \A r \in Requests : Carries(r)'
  BY DEF IInv, Carries, vars
<1>3. \A b \in Bakers : LinkInv(b)' /\ OrderInv(b)'
  BY DEF IInv, LinkInv, OrderInv, ItemsOf, vars
<1> QED BY <1>1, <1>2, <1>3 DEF IInv

-----------------------------------------------------------------------------
(* The theorems.                                                           *)

\* The inductive invariant holds whatever the requests do (menu-items.service.ts,
\* menu-slug.service.ts).
THEOREM Invariance == Spec => []IInv
<1>1. Init => IInv
  BY InvInit
<1>2. IInv /\ [Next]_vars => IInv'
  BY InvStep, InvStutter DEF Next
<1> QED BY <1>1, <1>2, PTL DEF Spec

\* Items, links and requests stay what the code takes them for.
THEOREM TypeCorrect == Spec => []TypeOK
<1>1. IInv => TypeOK
  BY DEF IInv
<1> QED BY <1>1, Invariance, PTL

LEMMA PublishedWhere ==
  ASSUME IInv, NEW b \in Bakers, NEW i \in ItemsOf(b), item[b][i].shown = "yes"
  PROVE  /\ link[b] # NoLink
         /\ \A s \in Links : <<b, i>> \in GetPublicMenu(s) <=> s = link[b]
         /\ \A c \in Bakers \ {b} : link[c] # link[b]
<1>1. link[b] # NoLink /\ \A c \in Bakers \ {b} : link[c] # link[b]
  BY DEF IInv, LinkInv
<1>2. ASSUME NEW s \in Links
      PROVE  <<b, i>> \in GetPublicMenu(s) <=> s = link[b]
  <2> DEFINE On(c) == {<<c, j>> : j \in {k \in ItemsOf(c) : item[c][k].shown = "yes"}}
             Behind == {c \in Bakers : link[c] = s}
  <2>1. <<b, i>> \in GetPublicMenu(s) <=> \E c \in Behind : <<b, i>> \in On(c)
    BY DEF GetPublicMenu
  <2>2. \A c : <<b, i>> \in On(c) => c = b
    OBVIOUS
  <2>3. <<b, i>> \in On(b)
    OBVIOUS
  <2> HIDE DEF On
  <2> QED BY <2>1, <2>2, <2>3
<1> QED BY <1>1, <1>2

\* Whatever requests race or break off, an item on offer is on the menu under
\* its baker's link, and on no one else's (menu-items.service.ts 72).
THEOREM ItemsCorrect == Spec => []ItemsArePublished
<1>1. IInv => ItemsArePublished
  BY PublishedWhere DEF ItemsArePublished
<1> QED BY <1>1, Invariance, PTL

\* Only a request that arrived before the edit was spent writes a link.
LEMMA StepKeepsLink ==
  ASSUME IInv, NEW r \in Requests, Step(r), NEW b \in Bakers,
         FromBefore(b) = {}
  PROVE  link'[b] = link[b]
<1>1. SUFFICES ASSUME link' # link PROVE link'[b] = link[b]
  OBVIOUS
<1>2. AssignSlug(r) \/ SaveSlug(r)
  BY <1>1 DEF Step, CreateMenuItem, FindFreeSlug, ReadMaxSortOrder, InsertItem,
     EditMenuSlug, VetSlug, UpdateMenuItem, Toggle, DeleteMenuItem, RemoveItem,
     ReorderMenuItems, ApplyOrder, Fail, Arrive
<1>3. request[r].at \in {"assign", "save"} /\ request[r] # Idle
  BY <1>2 DEF AssignSlug, SaveSlug, At, Idle
<1>4. request[r].late = "no"
  BY <1>3 DEF IInv, Carries, Linking
<1>5. request[r].baker # b
  BY <1>3, <1>4 DEF FromBefore
<1>6. link' = [link EXCEPT ![request[r].baker] = request[r].link]
  BY <1>1, <1>2 DEF AssignSlug, SaveSlug
<1> QED BY <1>5, <1>6 DEF IInv, TypeOK

\* Once the one edit is spent and the requests from before it are done, the
\* link never changes again (menu-slug.service.ts 105).
THEOREM LinkCorrect == Spec => LinkIsFinal
<1>1. IInv /\ [Next]_vars
        => [\A b \in Bakers :
              spent[b] = "yes" /\ FromBefore(b) = {} => link'[b] = link[b]]_vars
  BY StepKeepsLink DEF Next
<1> QED BY <1>1, Invariance, PTL DEF Spec, LinkIsFinal

\* The listing names every item there is once, in the order asked for.
LEMMA MenuIsSorted ==
  ASSUME TypeOK, NEW b \in Bakers
  PROVE  /\ GetMenuItems(b) \in SetToSeqs(ItemsOf(b))
         /\ \A m, n \in DOMAIN GetMenuItems(b) :
              m < n => Before(b, GetMenuItems(b)[m], GetMenuItems(b)[n])
<1> DEFINE S == ItemsOf(b)
           f == [i \in S |-> item[b][i].pos]
           c == Cardinality(S)
<1>1. S \in SUBSET Nat /\ IsFiniteSet(S) /\ f \in [S -> Int]
  <2>1. S \in SUBSET Nat /\ IsFiniteSet(S)
    BY FewItems
  <2>2. \A i \in S : item[b][i].pos \in Int
    BY DEF TypeOK, ItemsOf, Row, NoRow, Gone
  <2> QED BY <2>1, <2>2
<1>2. \A i, j \in S : Ahead(f, i, j) <=> Before(b, i, j)
  BY DEF Ahead, Before
<1>3. PICK s : Listing(f, S, s)
  <2> HIDE DEF f, S
  <2> QED BY <1>1, Sortable
<1>4. /\ s \in [1..c -> S]
      /\ \A m, n \in 1..c : m < n => Ahead(f, s[m], s[n])
  BY <1>3 DEF Listing
<1>5. c \in Nat
  BY <1>1, FS_CardinalityType
<1> HIDE DEF f, c
<1>6. s \in SetToSeqs(S) /\ \A m, n \in DOMAIN s : m < n => Before(b, s[m], s[n])
  <2>1. \A i \in S : ~Ahead(f, i, i)
    BY <1>1, AheadIsAnOrder
  <2>2. \A m, n \in 1..c : m # n => m < n \/ n < m
    BY <1>5
  <2>3. \A m, n \in 1..c : m # n => s[m] # s[n]
    BY <1>4, <2>1, <2>2
  <2>4. s \in SetToSeqs(S)
    BY <1>4, <2>3 DEF SetToSeqs, c
  <2> QED BY <1>2, <1>4, <2>4
<1> QED BY <1>6 DEF GetMenuItems

LEMMA NamedItemsStay ==
  ASSUME IInv, NEW b \in Bakers, NEW m \in DOMAIN GetMenuItems(b),
         NEW n \in DOMAIN GetMenuItems(b), m < n,
         {GetMenuItems(b)[m], GetMenuItems(b)[n]} \subseteq ToSet(asked[b])
  PROVE  LastPlace(asked[b], GetMenuItems(b)[m]) < LastPlace(asked[b], GetMenuItems(b)[n])
<1> DEFINE i == GetMenuItems(b)[m]
           j == GetMenuItems(b)[n]
           p == LastPlace(asked[b], i)
           q == LastPlace(asked[b], j)
<1>1. /\ i \in ItemsOf(b) /\ j \in ItemsOf(b) /\ i # j
      /\ Before(b, i, j)
  <2> DEFINE menu == GetMenuItems(b)
             D == 1..Cardinality(ItemsOf(b))
  <2>1. menu \in SetToSeqs(ItemsOf(b)) /\ Before(b, menu[m], menu[n])
    BY MenuIsSorted DEF IInv
  <2>2. /\ menu \in [D -> ItemsOf(b)]
        /\ \A k, l \in D : k # l => menu[k] # menu[l]
    BY <2>1 DEF SetToSeqs
  <2>3. m \in D /\ n \in D /\ m # n
    <3>1. DOMAIN menu = D
      BY <2>2
    <3>2. m \in Int /\ n \in Int
      BY <3>1
    <3> QED BY <3>1, <3>2
  <2> QED BY <2>1, <2>2, <2>3
<1>2. item[b][i].pos = p - 1 /\ item[b][j].pos = q - 1
  BY <1>1 DEF IInv, OrderInv
<1>3. p \in 1..Len(asked[b]) /\ q \in 1..Len(asked[b]) /\ asked[b][p] = i /\ asked[b][q] = j
  BY NamedLast DEF IInv, TypeOK
<1>4. p \in Int /\ q \in Int /\ p # q
  BY <1>1, <1>3
<1>5. item[b][i].pos < item[b][j].pos \/ item[b][i].pos = item[b][j].pos
  BY <1>1 DEF Before
<1> HIDE DEF i, j, p, q
<1>6. p < q
  BY <1>2, <1>4, <1>5
<1> QED BY <1>6 DEF i, j, p, q

\* An order the baker has asked for stands until the next one
\* (menu-items.service.ts 126, 180).
THEOREM ReorderCorrect == Spec => []ReorderStands
<1>1. IInv => ReorderStands
  BY NamedItemsStay DEF ReorderStands
<1> QED BY <1>1, Invariance, PTL

=============================================================================

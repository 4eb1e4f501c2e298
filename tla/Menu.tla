-------------------------------- MODULE Menu --------------------------------
(***************************************************************************)
(* The menus of several bakers and the public links they are reached by.   *)
(*                                                                         *)
(* No handler here opens an interactive transaction: every statement is a  *)
(* step of its own, except the batch of updates of a reorder, which is one *)
(* transaction and takes effect as a whole.  Menu items are numbered in    *)
(* the order of their insertion, which is the order of createdAt.  Links   *)
(* are numbered too: link k is the k-th candidate findFreeSlug would try,  *)
(* for bakers whose business names slugify alike; bakers with other names  *)
(* never meet.  A photo's storage path is the business of Assets.          *)
(***************************************************************************)
EXTENDS Integers, FiniteSets, SequencesExt

CONSTANTS
  Bakers,     \* bakers with one and the same business name
  Requests,   \* requests that can be in flight at the same time
  Attempts,   \* MAX_COLLISION_ATTEMPTS
  Room,       \* bound: items baker b ever creates are 1..Room[b]
  MaxLink     \* bound: links a baker may ask for

ASSUME MenuAssumption ==
  Attempts \in Nat \ {0} /\ Room \in [Bakers -> Nat] /\ MaxLink \in Nat

Items(b) == 1..Room[b]
Links == 1..(IF MaxLink > Attempts THEN MaxLink ELSE Attempts)
NoLink == 0
NoItem == 0

VARIABLES
  item,      \* item[b][i]: the row of b's menu item i
  link,      \* link[b]: the column menu_slug
  spent,     \* spent[b]: menu_slug_edited_at is set
  request,   \* request[r]: where request r is
  asked      \* history: asked[b], the last reorder of b's items that was done

vars == <<item, link, spent, request, asked>>

Row == [pos : Nat, shown : {"yes", "no"}, state : {"there"}]
NoRow == [state |-> "unborn"]
Gone == [state |-> "gone"]

(***************************************************************************)
(* A request in flight: its next statement, the baker, the item or the     *)
(* list of items it names, the link it is about, and a number: the         *)
(* position read or computed, or how often findFreeSlug was tried; and     *)
(* (history) whether the baker's one edit was spent when it arrived.       *)
(***************************************************************************)
Idle == [at |-> "idle"]
InFlight == [at : {"find", "assign", "max", "insert", "vet", "save", "toggle",
                   "remove", "apply"},
             baker : Bakers, item : Nat, ids : Seq(Nat),
             link : Links \cup {NoLink}, n : Nat,
             late : {"no", "yes"}]

TypeOK ==
  /\ DOMAIN item = Bakers
  /\ \A b \in Bakers : item[b] \in [Items(b) -> Row \cup {NoRow, Gone}]
  /\ link \in [Bakers -> Links \cup {NoLink}]
  /\ spent \in [Bakers -> {"no", "yes"}]
  /\ request \in [Requests -> InFlight \cup {Idle}]
  /\ asked \in [Bakers -> Seq(Nat)]

Init ==
  /\ item = [b \in Bakers |-> [i \in Items(b) |-> NoRow]]
  /\ link = [b \in Bakers |-> NoLink]
  /\ spent = [b \in Bakers |-> "no"]
  /\ request = [r \in Requests |-> Idle]
  /\ asked = [b \in Bakers |-> <<>>]

ItemsOf(b) == {i \in Items(b) : item[b][i].state = "there"}
Taken(s) == \E b \in Bakers : link[b] = s
TakenByOther(s, b) == \E c \in Bakers \ {b} : link[c] = s

\* orderBy sortOrder, then createdAt.
Before(b, i, j) == \/ item[b][i].pos < item[b][j].pos
                   \/ item[b][i].pos = item[b][j].pos /\ i < j

GetMenuItems(b) ==
  CHOOSE menu \in SetToSeqs(ItemsOf(b)) :
    \A m, n \in DOMAIN menu : m < n => Before(b, menu[m], menu[n])

\* What is on offer behind link s, whoever has it.
GetPublicMenu(s) ==
  UNION {{<<b, i>> : i \in {j \in ItemsOf(b) : item[b][j].shown = "yes"}} :
           b \in {c \in Bakers : link[c] = s}}

-----------------------------------------------------------------------------
At(r, place) == request[r].at = place

\* The request arrives and makes its first read, which it has passed.
Arrive(r, place, b, i, ids, s, n) ==
  /\ request[r] = Idle
  /\ request' = [request EXCEPT ![r] =
       [at |-> place, baker |-> b, item |-> i, ids |-> ids, link |-> s, n |-> n,
        late |-> spent[b]]]
  /\ UNCHANGED <<item, link, spent, asked>>

Go(r, place, s, n) ==
  request' = [request EXCEPT ![r] =
       [at |-> place, baker |-> request[r].baker, item |-> request[r].item,
        ids |-> request[r].ids, link |-> s, n |-> n, late |-> request[r].late]]

Finish(r) == request' = [request EXCEPT ![r] = Idle]

(***************************************************************************)
(* createMenuItem: publish the menu if it is not, then append the item.    *)
(***************************************************************************)
\* Mutated form: the item is appended without a link.
CreateMenuItemUnpublished(r) ==
  \E b \in Bakers : Arrive(r, "max", b, NoItem, <<>>, NoLink, 0)

CreateMenuItem(r) ==
  \E b \in Bakers :
    IF link[b] = NoLink
      THEN Arrive(r, "find", b, NoItem, <<>>, 1, 0)
      ELSE Arrive(r, "max", b, NoItem, <<>>, NoLink, 0)

\* One look-up of findFreeSlug: the baker's own link counts as taken.
FindFreeSlug(r) ==
  /\ At(r, "find")
  /\ LET s == request[r].link IN
       IF ~Taken(s) THEN Go(r, "assign", s, request[r].n)
       ELSE IF s < Attempts THEN Go(r, "find", s + 1, request[r].n)
       ELSE Finish(r)
  /\ UNCHANGED <<item, link, spent, asked>>

\* The unique key turns the update away if another baker was faster: again.
AssignSlug(r) ==
  /\ At(r, "assign")
  /\ LET s == request[r].link
         b == request[r].baker
         tries == request[r].n + 1 IN
       IF TakenByOther(s, b)
         THEN /\ IF tries < Attempts THEN Go(r, "find", 1, tries) ELSE Finish(r)
              /\ UNCHANGED link
         ELSE /\ link' = [link EXCEPT ![b] = s]
              /\ Go(r, "max", NoLink, 0)
  /\ UNCHANGED <<item, spent, asked>>

MaxSortOrder(b) ==
  Max({-1} \cup {item[b][i].pos : i \in ItemsOf(b)})

\* Mutated form: the new item goes where the last one is, not after it.
ReadMaxSortOrderAsIs(r) ==
  /\ At(r, "max")
  /\ Go(r, "insert", NoLink, MaxSortOrder(request[r].baker))
  /\ UNCHANGED <<item, link, spent, asked>>

ReadMaxSortOrder(r) ==
  /\ At(r, "max")
  /\ Go(r, "insert", NoLink, MaxSortOrder(request[r].baker) + 1)
  /\ UNCHANGED <<item, link, spent, asked>>

InsertItem(r) ==
  /\ At(r, "insert")
  /\ LET b == request[r].baker IN
       \E i \in Items(b) :
         /\ item[b][i] = NoRow /\ \A j \in 1..(i - 1) : item[b][j] # NoRow
         /\ item' = [item EXCEPT ![b][i] =
              [pos |-> request[r].n, shown |-> "yes", state |-> "there"]]
  /\ Finish(r)
  /\ UNCHANGED <<link, spent, asked>>

-----------------------------------------------------------------------------
(***************************************************************************)
(* editMenuSlug.                                                           *)
(***************************************************************************)
\* Mutated form: the edit used up is not looked at.
EditMenuSlugAgain(r) ==
  \E b \in Bakers, s \in 1..MaxLink : Arrive(r, "vet", b, NoItem, <<>>, s, 0)

EditMenuSlug(r) ==
  \E b \in Bakers, s \in 1..MaxLink :
    spent[b] = "no" /\ Arrive(r, "vet", b, NoItem, <<>>, s, 0)

VetSlug(r) ==
  /\ At(r, "vet")
  /\ IF TakenByOther(request[r].link, request[r].baker)
       THEN Finish(r) ELSE Go(r, "save", request[r].link, 0)
  /\ UNCHANGED <<item, link, spent, asked>>

SaveSlug(r) ==
  /\ At(r, "save")
  /\ LET s == request[r].link
         b == request[r].baker IN
       IF TakenByOther(s, b)
         THEN UNCHANGED <<link, spent>>
         ELSE /\ link' = [link EXCEPT ![b] = s]
              /\ spent' = [spent EXCEPT ![b] = "yes"]
  /\ Finish(r)
  /\ UNCHANGED <<item, asked>>

-----------------------------------------------------------------------------
(***************************************************************************)
(* updateMenuItem and deleteMenuItem read the item and write it in a       *)
(* second statement, which fails if the item is gone by then.              *)
(***************************************************************************)
UpdateMenuItem(r) ==
  \E b \in Bakers : \E i \in ItemsOf(b) :
    Arrive(r, "toggle", b, i, <<>>, NoLink, item[b][i].pos)

Toggled(shown) == IF shown = "yes" THEN "no" ELSE "yes"

\* Mutated form: the row is written back as it was read.
ToggleWhole(r) ==
  /\ At(r, "toggle")
  /\ LET b == request[r].baker
         i == request[r].item IN
       item' = IF i \in ItemsOf(b)
                 THEN [item EXCEPT ![b][i].shown = Toggled(@), ![b][i].pos = request[r].n]
                 ELSE item
  /\ Finish(r)
  /\ UNCHANGED <<link, spent, asked>>

\* Only the columns in the payload are written; here, isAvailable.
Toggle(r) ==
  /\ At(r, "toggle")
  /\ LET b == request[r].baker
         i == request[r].item IN
       item' = IF i \in ItemsOf(b)
                 THEN [item EXCEPT ![b][i].shown = Toggled(@)] ELSE item
  /\ Finish(r)
  /\ UNCHANGED <<link, spent, asked>>

DeleteMenuItem(r) ==
  \E b \in Bakers : \E i \in ItemsOf(b) : Arrive(r, "remove", b, i, <<>>, NoLink, 0)

RemoveItem(r) ==
  /\ At(r, "remove")
  /\ item' = [item EXCEPT ![request[r].baker][request[r].item] = Gone]
  /\ Finish(r)
  /\ UNCHANGED <<link, spent, asked>>

(***************************************************************************)
(* reorderMenuItems: compare with the items there are, then update each.   *)
(* A list that does not name exactly those is refused.  Comparing the two  *)
(* as sets lets an id come twice; the last place counts.                   *)
(***************************************************************************)
ReorderMenuItems(r) ==
  \E b \in Bakers : \E k \in 1..Room[b] :
    \E ids \in [1..k -> ItemsOf(b)] :
      /\ ToSet(ids) = ItemsOf(b)
      /\ Arrive(r, "apply", b, NoItem, ids, NoLink, 0)

LastPlace(ids, i) ==
  CHOOSE k \in 1..Len(ids) : ids[k] = i /\ \A m \in (k + 1)..Len(ids) : ids[m] # i

\* An item deleted in between makes the whole transaction fail.
ApplyOrder(r) ==
  /\ At(r, "apply")
  /\ LET ids == request[r].ids
         b == request[r].baker IN
       IF ToSet(ids) \subseteq ItemsOf(b)
         THEN /\ item' = [item EXCEPT ![b] = [i \in Items(b) |->
                   IF i \in ToSet(ids)
                     THEN [item[b][i] EXCEPT !.pos = LastPlace(ids, i) - 1]
                     ELSE item[b][i]]]
              /\ asked' = [asked EXCEPT ![b] = ids]
         ELSE UNCHANGED <<item, asked>>
  /\ Finish(r)
  /\ UNCHANGED <<link, spent>>

-----------------------------------------------------------------------------
\* A statement fails or the process dies.
Fail(r) ==
  /\ request[r] # Idle
  /\ Finish(r)
  /\ UNCHANGED <<item, link, spent, asked>>

Step(r) ==
  \/ CreateMenuItem(r) \/ FindFreeSlug(r) \/ AssignSlug(r)
  \/ ReadMaxSortOrder(r) \/ InsertItem(r)
  \/ EditMenuSlug(r) \/ VetSlug(r) \/ SaveSlug(r)
  \/ UpdateMenuItem(r) \/ Toggle(r) \/ DeleteMenuItem(r) \/ RemoveItem(r)
  \/ ReorderMenuItems(r) \/ ApplyOrder(r) \/ Fail(r)

Next == \E r \in Requests : Step(r)

Spec == Init /\ [][Next]_vars

-----------------------------------------------------------------------------
(***************************************************************************)
(* Properties.                                                             *)
(***************************************************************************)
\* A baker may change the link once (menu-slug.service.ts 105).  The check is
\* a statement of its own, and so is the one that finds a menu unpublished
\* (menu-items.service.ts 62): a request past either can still overwrite the
\* link that was chosen.  Requests that arrive afterwards cannot: once those
\* from before are done, the link on the baker's posters is final.
FromBefore(b) ==
  {r \in Requests : /\ request[r] # Idle
                    /\ request[r].baker = b
                    /\ request[r].late = "no"
                    /\ request[r].at \in {"find", "assign", "vet", "save"}}

LinkIsFinal ==
  [][\A b \in Bakers :
       spent[b] = "yes" /\ FromBefore(b) = {} => link'[b] = link[b]]_vars

\* The first item publishes the menu (menu-items.service.ts 72): whatever the
\* other bakers with the same name grab in the meantime, and wherever requests
\* break off, an item on offer is on the menu under its baker's link, and on
\* no one else's.
ItemsArePublished ==
  \A b \in Bakers : \A i \in ItemsOf(b) :
    item[b][i].shown = "yes" =>
      /\ link[b] # NoLink
      /\ \A s \in Links : <<b, i>> \in GetPublicMenu(s) <=> s = link[b]
      /\ \A c \in Bakers \ {b} : link[c] # link[b]

\* Once a reorder is done, the items it named stay in that order until the
\* next one: items created, changed and deleted meanwhile or afterwards, from
\* whatever they had read, do not disturb it (menu-items.service.ts 126, 180).
ReorderStands ==
  \A b \in Bakers :
    LET menu == GetMenuItems(b) IN
      \A m, n \in DOMAIN menu :
        m < n /\ {menu[m], menu[n]} \subseteq ToSet(asked[b])
          => LastPlace(asked[b], menu[m]) < LastPlace(asked[b], menu[n])

-----------------------------------------------------------------------------
(***************************************************************************)
(* The inductive invariant behind them.  Whoever is about to append an     *)
(* item has seen to it that the menu has a link, and whoever is about to   *)
(* write a link arrived before the one edit was spent.  An item a reorder  *)
(* named stays where it was put, unless it is deleted.                     *)
(***************************************************************************)
Linking == {"find", "assign", "vet", "save"}

Carries(r) ==
  LET q == request[r] IN
    /\ q.at \in Linking => q.link \in Links /\ q.late = "no"
    /\ q.at \in {"max", "insert"} => link[q.baker] # NoLink
    /\ q.at \in {"toggle", "remove"} => q.item \in Items(q.baker)
    /\ q.at = "apply" => ToSet(q.ids) \subseteq Items(q.baker)

LinkInv(b) ==
  /\ link[b] # NoLink => \A c \in Bakers \ {b} : link[c] # link[b]
  /\ spent[b] = "yes" \/ ItemsOf(b) # {} => link[b] # NoLink

OrderInv(b) ==
  \A i \in ToSet(asked[b]) :
    /\ i \in Items(b) /\ item[b][i] # NoRow
    /\ i \in ItemsOf(b) => item[b][i].pos = LastPlace(asked[b], i) - 1

IInv ==
  /\ TypeOK
  /\ \A r \in Requests : Carries(r)
  /\ \A b \in Bakers : LinkInv(b) /\ OrderInv(b)

=============================================================================

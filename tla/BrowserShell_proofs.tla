------------------------ MODULE BrowserShell_proofs ------------------------
(***************************************************************************)
(* For every set of initial tabs, every text and every bound: the parts of *)
(* the window that show its mode agree, a suggestion lookup never outlives *)
(* the text it is for, the address bar is the active tab's, no Strict      *)
(* tab becomes Standard, the window implements the shell, and a release    *)
(* that is heard of ends the drag.                                         *)
(***************************************************************************)
EXTENDS ShellWindow, NaturalsInduction, SequenceTheorems, WellFoundedInduction, TLAPS

\* An address bar as a record, whatever the values of the fields no invariant is about.
Fields ==
  {"mode", "bar_state", "text", "lookup", "chip_state", "hasUrl", "current_tab_id",
   "dismissed", "badge", "popover_open", "chip_hovered", "popup_hovered", "grace"}

IsBar(a) ==
  /\ DOMAIN a = Fields
  /\ a = [f \in Fields |-> a[f]]
  /\ a.popover_open \in BOOLEAN

\* What an address bar shows for the mode m of the window, and the lookup it waits for.
Agrees(a, m) ==
  /\ a.mode = m
  /\ a.badge = "Strict" <=> m = "Strict"
  /\ a.popover_open => m # "Strict"

LookupFits(a) == a.lookup \subseteq {a.text}

BarInv(a, m) == IsBar(a) /\ Agrees(a, m) /\ LookupFits(a)

IInv == BarInv(address_bar, mode) /\ new_tab = mode

-----------------------------------------------------------------------------
(* The operators of the address bar.                                       *)

\* An address bar as it is made.
LEMMA NewBarFits == BarInv(NewAddressBar, "Standard")
  BY DEF BarInv, IsBar, Fields, Agrees, LookupFits, NewAddressBar

\* Whatever bar a handler starts from, after sync_mode it agrees with the mode.
LEMMA ModeSyncedAgrees ==
  ASSUME NEW a, NEW m, IsBar(a)
  PROVE  /\ IsBar(BarModeSynced(a, m))
         /\ Agrees(BarModeSynced(a, m), m)
         /\ BarModeSynced(a, m).text = a.text
         /\ BarModeSynced(a, m).lookup = a.lookup
  BY DEF IsBar, Fields, Agrees, BarModeSynced, BadgeSynced

\* reset_for_tab leaves no lookup and agrees with the mode it is given.
LEMMA ResetFits ==
  ASSUME NEW a, NEW id, NEW u, NEW m, IsBar(a)
  PROVE  BarInv(ResetForTab(a, id, u, m), m)
<1> DEFINE s == BarModeSynced(a, m)
<1>1. IsBar(s) /\ Agrees(s, m)
  BY ModeSyncedAgrees
<1> HIDE DEF s
<1>2. ResetForTab(a, id, u, m) =
        [InputCleared(s) EXCEPT
           !.current_tab_id = id,
           !.bar_state = "Rest",
           !.hasUrl = u,
           !.dismissed = IF u THEN @ \ {id} ELSE @,
           !.chip_state = IF u \/ id \in a.dismissed THEN "Hidden" ELSE "FreshTab"]
  BY DEF ResetForTab, s
<1>3. QED
  BY <1>1, <1>2 DEF BarInv, IsBar, Fields, Agrees, LookupFits, InputCleared

\* The messages that do not touch the mode keep the invariant.
LEMMA MessagesFit ==
  ASSUME NEW a, NEW m, BarInv(a, m)
  PROVE  /\ \A id : BarInv(Forgotten(a, id), m)
         /\ \A t : BarInv(Typed(a, t), m)
         /\ BarInv(LookedUp(a), m)
         /\ BarInv(Focused(a), m)
         /\ BarInv(Committed(a), m)
         /\ BarInv(ChipDismissed(a), m)
         /\ BarInv(GraceEnded(a), m)
<1>1. \A id : BarInv(Forgotten(a, id), m)
  BY DEF BarInv, IsBar, Fields, Agrees, LookupFits, Forgotten
<1>2. \A t : BarInv(Typed(a, t), m)
  <2>1. ASSUME NEW t PROVE BarInv(Typed(a, t), m)
    <3> DEFINE b == Typed(a, t)
    <3>1. /\ DOMAIN b = Fields /\ b.mode = a.mode /\ b.badge = a.badge
          /\ b.popover_open = a.popover_open /\ b.text = t
          /\ b.lookup = IF t = NoText THEN {} ELSE {t}
          /\ b = [f \in Fields |-> b[f]]
      BY DEF BarInv, IsBar, Fields, Typed
    <3> HIDE DEF b
    <3> QED BY <3>1 DEF BarInv, IsBar, Agrees, LookupFits, b
  <2> QED BY <2>1
<1>3. BarInv(LookedUp(a), m) /\ BarInv(Focused(a), m)
  BY DEF BarInv, IsBar, Fields, Agrees, LookupFits, LookedUp, Focused
<1>4. BarInv(Committed(a), m)
  BY DEF BarInv, IsBar, Fields, Agrees, LookupFits, Committed, InputCleared
<1>5. BarInv(ChipDismissed(a), m)
  BY DEF BarInv, IsBar, Fields, Agrees, LookupFits, ChipDismissed
<1>6. BarInv(GraceEnded(a), m)
  BY DEF BarInv, IsBar, Fields, Agrees, LookupFits, GraceEnded
<1>7. QED
  BY <1>1, <1>2, <1>3, <1>4, <1>5, <1>6

\* Nor does the pointer, in whatever order the chip and its card hear of it.
LEMMA HoverFits ==
  ASSUME NEW a, NEW m, BarInv(a, m), NEW h \in Hover(a)
  PROVE  BarInv(h, m)
<1>1. \A x : BarInv(x, m) => BarInv(ChipEntered(x), m)
  BY Zenon DEF BarInv, IsBar, Fields, Agrees, LookupFits, ChipEntered
<1>2. \A x : BarInv(x, m) => BarInv(ChipExited(x), m)
  BY Zenon DEF BarInv, IsBar, Fields, Agrees, LookupFits, ChipExited
<1>3. \A x : BarInv(x, m) => BarInv(PopupEntered(x), m)
  BY Zenon DEF BarInv, IsBar, Fields, Agrees, LookupFits, PopupEntered
<1>4. \A x : BarInv(x, m) => BarInv(PopupExited(x), m)
  BY Zenon DEF BarInv, IsBar, Fields, Agrees, LookupFits, PopupExited
<1>5. QED
  BY <1>1, <1>2, <1>3, <1>4 DEF Hover

\* The popover opens while the badge is a count, and never in Strict.
LEMMA PopoverFits ==
  ASSUME NEW a, NEW m, BarInv(a, m), a.badge # "Strict"
  PROVE  BarInv(PopoverToggled(a), m)
  BY DEF BarInv, IsBar, Fields, Agrees, LookupFits, PopoverToggled

-----------------------------------------------------------------------------
(* What the handlers have in common.                                       *)

\* sync_active_tab leaves a bar that fits the mode of the window.
LEMMA SyncFits ==
  ASSUME NEW b, NEW a, IsBar(a), SyncActiveTab(b, a)
  PROVE  IInv'
  BY ResetFits DEF SyncActiveTab, IInv

\* go_home leaves a bar that fits the mode of the window.
LEMMA HomeFits ==
  ASSUME NEW b, NEW a, IsBar(a), Home(b, a)
  PROVE  IInv'
  BY ResetFits DEF Home, IInv

\* The same when no tab is left to follow.
LEMMA SyncIfAnyTabFits ==
  ASSUME NEW b, NEW a, IInv, BarInv(a, mode), SyncIfAnyTab(b, a)
  PROVE  IInv'
<1>1. CASE HasActive(b)
  BY <1>1, SyncFits DEF SyncIfAnyTab, BarInv
<1>2. CASE ~HasActive(b)
  BY <1>2 DEF SyncIfAnyTab, IInv
<1>3. QED
  BY <1>1, <1>2

\* A step that leaves the bar and the two modes alone, or changes only the bar.
LEMMA OnlyBarFits ==
  ASSUME IInv, BarInv(address_bar', mode), UNCHANGED <<mode, new_tab>>
  PROVE  IInv'
  BY DEF IInv

-----------------------------------------------------------------------------
\* The shell starts with a bar that fits.
LEMMA InvInit == Init => IInv
<1> SUFFICES ASSUME Init
             PROVE  IInv
  OBVIOUS
<1>1. IsBar(NewAddressBar)
  BY NewBarFits DEF BarInv
<1>2. QED
  BY <1>1, ResetFits DEF Init, IInv

\* Every message of the chrome and every answer keeps the invariant.
LEMMA InvNext == IInv /\ [Next]_vars => IInv'
<1> SUFFICES ASSUME IInv, [Next]_vars
             PROVE  IInv'
  OBVIOUS
<1> USE DEF IInv
<1>1. IsBar(address_bar) /\ BarInv(address_bar, mode)
  BY DEF BarInv
<1>2. CASE StripActivate
  BY <1>1, <1>2, SyncFits, OnlyBarFits DEF StripActivate
<1>3. CASE StripClose
  <2>1. PICK id \in Ids(tab_bar) :
          LET b == Closed(tab_bar, id, TRUE)
          IN  \/ Home(b, address_bar)
              \/ SyncActiveTab(b, Forgotten(address_bar, id))
              \/ UNCHANGED <<mode, address_bar, new_tab>>
    BY <1>3 DEF StripClose
  <2>2. IsBar(Forgotten(address_bar, id))
    BY <1>1, MessagesFit DEF BarInv
  <2>3. QED
    BY <1>1, <2>1, <2>2, HomeFits, SyncFits, OnlyBarFits
<1>4. CASE NewTabPressed
  <2> DEFINE b == NewTab(tab_bar)
             a == ResetForTab(address_bar, b.active_id, FALSE, mode)
  <2>1. BarInv(a, mode)
    BY <1>1, ResetFits
  <2>2. \/ SyncActiveTab(b, a)
        \/ address_bar' = a /\ UNCHANGED <<mode, new_tab>>
    BY <1>4 DEF NewTabPressed
  <2> HIDE DEF a, b
  <2>3. QED
    BY <2>1, <2>2, SyncFits, OnlyBarFits DEF BarInv
<1>5. CASE StrictCloseConfirmed
  <2>1. PICK id \in tab_bar.modal :
          LET b == Closed(Answered(tab_bar), id, FALSE)
          IN  \/ Home(b, address_bar)
              \/ SyncIfAnyTab(b, Forgotten(address_bar, id))
    BY <1>5 DEF StrictCloseConfirmed
  <2>2. BarInv(Forgotten(address_bar, id), mode)
    BY <1>1, MessagesFit
  <2>3. QED
    BY <1>1, <2>1, <2>2, HomeFits, SyncIfAnyTabFits
<1>6. CASE \E id \in Ids(tab_bar) : SidebarActivate(id)
  BY <1>1, <1>6, SyncFits DEF SidebarActivate
<1>7. CASE SidebarNewTab
  BY <1>1, <1>7, ResetFits, OnlyBarFits DEF SidebarNewTab
<1>8. CASE \E id \in Ids(tab_bar) : SidebarClose(id)
  <2>1. PICK id \in Ids(tab_bar) : SidebarClose(id)
    BY <1>8
  <2>2. QED
    BY <1>1, <2>1, HomeFits, SyncFits, OnlyBarFits DEF SidebarClose
<1>9. CASE CardEnter
  BY <1>1, <1>9, SyncFits DEF CardEnter
<1>10. CASE CardClose
  BY <1>1, <1>10, SyncIfAnyTabFits DEF CardClose
<1>11. CASE Type
  BY <1>1, <1>11, MessagesFit, OnlyBarFits DEF Type
<1>12. CASE FocusGained
  BY <1>1, <1>12, MessagesFit, OnlyBarFits DEF FocusGained
<1>13. CASE NavigatePressed
  <2>1. BarInv(Committed(address_bar), mode)
    BY <1>1, MessagesFit
  <2>2. CASE tab_bar.tabs # <<>>
    BY <1>13, <2>1, <2>2, OnlyBarFits DEF NavigatePressed
  <2>3. CASE tab_bar.tabs = <<>>
    BY <1>13, <2>1, <2>3, SyncFits DEF NavigatePressed, BarInv
  <2>4. QED
    BY <2>2, <2>3
<1>14. CASE ConvertToStrict
  BY <1>1, <1>14, ModeSyncedAgrees DEF ConvertToStrict, BarInv, LookupFits
<1>15. CASE DismissConvertChip
  BY <1>1, <1>15, MessagesFit, OnlyBarFits DEF DismissConvertChip
<1>16. CASE BadgePressed
  <2>1. address_bar.badge # "Strict"
    BY <1>1, <1>16 DEF BadgePressed, BadgeOffers, BadgePopoverOffers, BarInv, Agrees
  <2>2. QED
    BY <1>1, <1>16, <2>1, PopoverFits, OnlyBarFits DEF BadgePressed
<1>17. CASE LookupReturns
  BY <1>1, <1>17, MessagesFit, OnlyBarFits DEF LookupReturns
<1>18. CASE \/ StripExited \/ StabilizeExpired \/ StrictCloseCancelled
            \/ TabsGridPressed \/ Reorder \/ CardMove \/ CardEscape
            \/ UNCHANGED vars
  BY <1>1, <1>18, OnlyBarFits DEF StripExited, StabilizeExpired, StrictCloseCancelled,
       TabsGridPressed, Reorder, CardMove, CardEscape, vars
<1>19. CASE PointerTravels
  BY <1>1, <1>19, HoverFits, OnlyBarFits DEF PointerTravels
<1>20. CASE GraceEnds
  BY <1>1, <1>20, MessagesFit, OnlyBarFits DEF GraceEnds
<1>21. QED
  BY <1>2, <1>3, <1>4, <1>5, <1>6, <1>7, <1>8, <1>9, <1>10, <1>11, <1>12, <1>13, <1>14,
     <1>15, <1>16, <1>17, <1>18, <1>19, <1>20 DEF Next

\* No lookup is left running for a text that is no longer in the field (L40).
THEOREM LookupAlwaysForText == Spec => []LookupIsForText
<1>1. IInv => LookupIsForText
  BY DEF IInv, BarInv, LookupFits, LookupIsForText
<1>2. QED
  BY <1>1, InvInit, InvNext, PTL DEF Spec

-----------------------------------------------------------------------------
(* The strip.                                                              *)

StripFields == {"tabs", "active_id", "mode", "modal", "frozen", "generation"}

\* A strip as a record: every tab id once, and an active tab whenever there is a tab.
StripOk(b) ==
  /\ DOMAIN b = StripFields
  /\ b.tabs \in Seq(Tab)
  /\ b.active_id \in Nat
  /\ \A i, j \in DOMAIN b.tabs : b.tabs[i].id = b.tabs[j].id => i = j
  /\ b.tabs # <<>> => HasActive(b)

\* The bar a and the identity capsule are those of the active tab.
Follows(b, a) ==
  b.tabs # <<>> =>
    /\ a.current_tab_id = b.active_id
    /\ b.mode = TabOf(b, b.active_id).mode

\* The capsule shows the mode m of the window, or the strip a fresh tab.
CapsuleFits(b, m) ==
  b.mode = m \/ (m = "Strict" /\ (b.tabs = <<>> \/ ~TabOf(b, b.active_id).hasUrl))

\* Every tab of the strip c is a tab of the strip b.
TabsFrom(c, b) == \A k \in DOMAIN c.tabs : \E i \in DOMAIN b.tabs : c.tabs[k] = b.tabs[i]

\* No tab that is in both is Strict in b and not in c.
KeepsStrict(b, c) ==
  \A i \in DOMAIN b.tabs : \A j \in DOMAIN c.tabs :
    b.tabs[i].id = c.tabs[j].id /\ b.tabs[i].mode = "Strict" => c.tabs[j].mode = "Strict"

\* Every set of naturals that is not empty has a least element.
LEMMA LeastNat ==
  ASSUME NEW S \in SUBSET Nat, S # {}
  PROVE  \E m \in S : \A n \in S : m <= n
<1> DEFINE R == {ss \in Nat \X Nat : ss[1] < ss[2]}
<1>1. IsWellFoundedOn(R, Nat)
  BY NatLessThanWellFounded DEF OpToRel
<1>2. \A x, y \in Nat : <<x, y>> \in R <=> x < y
  OBVIOUS
<1> HIDE DEF R
<1>3. PICK m \in S : \A n \in S : ~(<<n, m>> \in R)
  BY <1>1, WFMin
<1>4. ASSUME NEW n \in S PROVE m <= n
  <2>1. m \in Nat /\ n \in Nat
    OBVIOUS
  <2>2. ~(n < m)
    BY <1>2, <1>3, <2>1
  <2> QED BY <2>1, <2>2
<1> QED BY <1>4

\* A tab has an id, a mode and two marks.
LEMMA TabIs ==
  ASSUME NEW b, b.tabs \in Seq(Tab)
  PROVE  /\ DOMAIN b.tabs = 1..Len(b.tabs) /\ Len(b.tabs) \in Nat
         /\ b.tabs # <<>> <=> Len(b.tabs) # 0
         /\ \A i \in DOMAIN b.tabs : b.tabs[i] \in Tab /\ b.tabs[i].id \in Nat
<1>1. \A x \in Tab : x.id \in Nat
  BY DEF Tab
<1>2. /\ DOMAIN b.tabs = 1..Len(b.tabs) /\ Len(b.tabs) \in Nat
      /\ b.tabs # <<>> <=> Len(b.tabs) # 0
      /\ \A i \in DOMAIN b.tabs : b.tabs[i] \in Tab
  OBVIOUS
<1> QED BY <1>1, <1>2

\* Finitely many numbers have a bound.
LEMMA Bounded ==
  ASSUME NEW n \in Nat, NEW f \in [1..n -> Nat]
  PROVE  \E u \in Nat : \A i \in 1..n : f[i] <= u
<1> DEFINE Bound(u, k) == \A i \in 1..k : f[i] <= u
           W == {k \in 0..n : ~\E u \in Nat : Bound(u, k)}
<1>1. W = {}
  <2> SUFFICES ASSUME W # {} PROVE FALSE
    OBVIOUS
  <2>1. W \in SUBSET Nat
    OBVIOUS
  <2>2. Bound(0, 0)
    OBVIOUS
  <2>3. \A k \in 0..n : k \in W <=> ~\E u \in Nat : Bound(u, k)
    OBVIOUS
  <2>4. W \subseteq 0..n
    OBVIOUS
  <2> HIDE DEF W
  <2>5. PICK k \in W : \A m \in W : k <= m
    BY <2>1, LeastNat
  <2>6. k # 0
    BY <2>2, <2>3, <2>5
  <2>7. k \in 1..n /\ k - 1 \in 0..n /\ ~(k <= k - 1)
    BY <2>4, <2>6
  <2>8. PICK u \in Nat : Bound(u, k - 1)
    BY <2>3, <2>5, <2>7
  <2>9. f[k] \in Nat
    BY <2>7
  <2>10. PICK v \in Nat : v = u + f[k] /\ u <= v /\ f[k] <= v
    BY <2>9
  <2>11. Bound(v, k)
    <3> SUFFICES ASSUME NEW i \in 1..k PROVE f[i] <= v
      OBVIOUS
    <3>1. CASE i = k
      BY <2>10, <3>1
    <3>2. CASE i # k
      <4>1. i \in 1..(k - 1) /\ i \in 1..n
        BY <2>7, <3>2
      <4>2. f[i] <= u /\ f[i] \in Nat
        BY <2>8, <4>1
      <4> QED BY <2>10, <4>2
    <3> QED BY <3>1, <3>2
  <2> QED BY <2>3, <2>4, <2>5, <2>10, <2>11
<1>2. n \in 0..n
  OBVIOUS
<1>3. n \in W <=> ~\E u \in Nat : Bound(u, n)
  BY <1>2
<1> HIDE DEF W
<1> QED BY <1>1, <1>3

\* The id of a new tab is one that no open tab has.
LEMMA NextIdIsFresh ==
  ASSUME NEW b, b.tabs \in Seq(Tab)
  PROVE  NextId(b) \in Nat /\ NextId(b) \notin Ids(b)
<1>1. CASE b.tabs = <<>>
  BY <1>1 DEF NextId, Ids
<1>2. CASE b.tabs # <<>>
  <2> DEFINE I == Ids(b)
             U == {u \in Nat : \A x \in I : x <= u}
  <2>1. I \in SUBSET Nat /\ I # {}
    <3>1. /\ DOMAIN b.tabs = 1..Len(b.tabs) /\ Len(b.tabs) \in Nat /\ Len(b.tabs) # 0
          /\ \A i \in DOMAIN b.tabs : b.tabs[i].id \in Nat
      BY <1>2, TabIs
    <3>2. 1 \in DOMAIN b.tabs
      BY <3>1
    <3> QED BY <3>1, <3>2 DEF Ids
  <2>2. U # {} /\ U \in SUBSET Nat
    <3> DEFINE f == [i \in 1..Len(b.tabs) |-> b.tabs[i].id]
    <3>1. Len(b.tabs) \in Nat /\ f \in [1..Len(b.tabs) -> Nat]
      BY TabIs
    <3> HIDE DEF f
    <3>2. PICK u \in Nat : \A i \in 1..Len(b.tabs) : f[i] <= u
      BY <3>1, Bounded
    <3>3. \A x \in I : x <= u
      BY <3>2, TabIs DEF Ids, f
    <3> QED BY <3>3
  <2>3. PICK m \in U : \A u \in U : m <= u
    <3> HIDE DEF U
    <3> QED BY <2>2, LeastNat
  <2> HIDE DEF I
  <2>4. m \in Nat /\ \A x \in I : x <= m
    BY <2>3
  <2>5. m \in I
    <3> SUFFICES ASSUME m \notin I PROVE FALSE
      OBVIOUS
    <3>1. PICK x \in I : x \in Nat /\ x <= m /\ x # m
      BY <2>1, <2>4
    <3>2. m - 1 \in Nat
      BY <2>4, <3>1
    <3>3. \A y \in I : y <= m - 1
      <4> SUFFICES ASSUME NEW y \in I PROVE y <= m - 1
        OBVIOUS
      <4>1. y \in Nat /\ y <= m /\ y # m
        BY <2>1, <2>4
      <4> QED BY <2>4, <4>1
    <3>4. m <= m - 1
      BY <2>3, <3>2, <3>3
    <3> QED BY <2>4, <3>4
  <2>6. Max(I) = m
    <3> DEFINE P(k) == k \in I /\ \A n \in I : k >= n
    <3>1. P(m)
      BY <2>1, <2>4, <2>5
    <3>2. ASSUME NEW k, P(k) PROVE k = m
      <4>1. k \in Nat /\ k <= m /\ k >= m
        BY <2>1, <2>4, <2>5, <3>2
      <4> QED BY <2>4, <4>1
    <3>3. Max(I) = CHOOSE k : P(k)
      BY DEF Max
    <3> HIDE DEF P
    <3>4. P(CHOOSE k : P(k))
      BY <3>1
    <3> QED BY <3>2, <3>3, <3>4
  <2>7. NextId(b) = m + 1
    BY <1>2, <2>6 DEF NextId, I
  <2>8. m + 1 \notin I
    <3>1. ~(m + 1 <= m)
      BY <2>4
    <3> QED BY <2>4, <3>1
  <2> QED BY <2>4, <2>7, <2>8 DEF I
<1> QED BY <1>1, <1>2

\* Vec::retain: the tabs behind the one that goes move up by one.
LEMMA RemoveAtIs ==
  ASSUME NEW S, NEW s \in Seq(S), NEW i \in 1..Len(s)
  PROVE  /\ RemoveAt(s, i) \in Seq(S)
         /\ Len(RemoveAt(s, i)) = Len(s) - 1
         /\ \A j \in 1..(Len(s) - 1) : RemoveAt(s, i)[j] = IF j < i THEN s[j] ELSE s[j + 1]
<1> DEFINE a == SubSeq(s, 1, i - 1)
           b == SubSeq(s, i + 1, Len(s))
<1>1. Len(s) \in Nat /\ i \in Nat /\ i >= 1 /\ i <= Len(s)
  OBVIOUS
<1>2. /\ a \in Seq(S) /\ Len(a) = i - 1
      /\ \A j \in 1..(i - 1) : a[j] = s[j]
  BY <1>1
<1>3. /\ b \in Seq(S) /\ Len(b) = Len(s) - i
      /\ \A j \in 1..(Len(s) - i) : b[j] = s[i + j]
  BY <1>1
<1>4. RemoveAt(s, i) = a \o b
  BY DEF RemoveAt
<1> HIDE DEF a, b
<1>5. /\ a \o b \in Seq(S)
      /\ Len(a \o b) = Len(s) - 1
  <2>1. a \o b \in Seq(S) /\ Len(a \o b) = Len(a) + Len(b)
    BY <1>2, <1>3, ConcatProperties
  <2> QED BY <1>1, <1>2, <1>3, <2>1
<1>6. ASSUME NEW j \in 1..(Len(s) - 1)
      PROVE  (a \o b)[j] = IF j < i THEN s[j] ELSE s[j + 1]
  <2>1. CASE j < i
    BY <1>1, <1>2, <1>3, <2>1
  <2>2. CASE ~(j < i)
    <3>1. (a \o b)[j] = b[j - Len(a)]
      BY <1>1, <1>2, <1>3, <2>2
    <3>2. j - (i - 1) \in 1..(Len(s) - i)
      BY <1>1, <2>2
    <3>3. i + (j - (i - 1)) = j + 1 /\ ~(j < i)
      BY <1>1, <2>2
    <3>4. b[j - (i - 1)] = s[j + 1]
      BY <1>3, <3>2, <3>3
    <3>5. (a \o b)[j] = s[j + 1]
      BY <1>2, <3>1, <3>4
    <3> HIDE DEF a, b
    <3> QED BY <1>1, <2>2, <3>3, <3>5
  <2> QED BY <2>1, <2>2
<1> QED BY <1>4, <1>5, <1>6

\* Where a tab is found that is open.
LEMMA PositionIs ==
  ASSUME NEW b, StripOk(b)
  PROVE  /\ \A i \in DOMAIN b.tabs : b.tabs[i].id \in Ids(b) /\ TabOf(b, b.tabs[i].id) = b.tabs[i]
         /\ \A id \in Ids(b) : /\ Position(b, id) \in DOMAIN b.tabs
                               /\ b.tabs[Position(b, id)].id = id
<1>1. \A id \in Ids(b) : /\ Position(b, id) \in DOMAIN b.tabs
                         /\ b.tabs[Position(b, id)].id = id
  BY DEF Ids, Position
<1>2. \A i \in DOMAIN b.tabs : b.tabs[i].id \in Ids(b)
  BY DEF Ids
<1>3. \A i \in DOMAIN b.tabs : Position(b, b.tabs[i].id) = i
  BY <1>1, <1>2 DEF StripOk
<1> QED BY <1>1, <1>2, <1>3 DEF TabOf

\* A strip whose tabs come from another's knows them as the other does.
LEMMA TabsFromAre ==
  ASSUME NEW b, NEW c, StripOk(b), StripOk(c), TabsFrom(c, b)
  PROVE  /\ Ids(c) \subseteq Ids(b)
         /\ \A id \in Ids(c) : TabOf(c, id) = TabOf(b, id)
         /\ KeepsStrict(b, c)
<1>1. ASSUME NEW k \in DOMAIN c.tabs
      PROVE  c.tabs[k].id \in Ids(b) /\ TabOf(b, c.tabs[k].id) = c.tabs[k]
  BY PositionIs DEF TabsFrom
<1>2. Ids(c) \subseteq Ids(b)
  BY <1>1 DEF Ids
<1>3. \A id \in Ids(c) : TabOf(c, id) = TabOf(b, id)
  <2> SUFFICES ASSUME NEW id \in Ids(c) PROVE TabOf(c, id) = TabOf(b, id)
    OBVIOUS
  <2>1. PICK k \in DOMAIN c.tabs : c.tabs[k].id = id
    BY DEF Ids
  <2> QED BY <1>1, <2>1, PositionIs
<1>4. KeepsStrict(b, c)
  BY <1>1, PositionIs DEF KeepsStrict
<1> QED BY <1>2, <1>3, <1>4

\* Messages that only touch marks of the strip.
LEMMA MarksKeepTabs ==
  ASSUME NEW b, StripOk(b), NEW c, DOMAIN c = StripFields,
         c.tabs = b.tabs, c.active_id = b.active_id
  PROVE  /\ StripOk(c) /\ TabsFrom(c, b) /\ Ids(c) = Ids(b)
         /\ c.mode = b.mode => \A a : Follows(b, a) => Follows(c, a)
<1>1. Ids(c) = Ids(b) /\ \A id : TabOf(c, id) = TabOf(b, id)
  BY DEF Ids, TabOf, Position
<1> QED BY <1>1 DEF StripOk, TabsFrom, Follows, HasActive

\* Another open tab becomes the active one.
LEMMA ActivatedOk ==
  ASSUME NEW b, StripOk(b), NEW id \in Ids(b)
  PROVE  /\ StripOk(Activated(b, id)) /\ TabsFrom(Activated(b, id), b)
         /\ HasActive(Activated(b, id))
         /\ StripOk(Pressed(b, id)) /\ TabsFrom(Pressed(b, id), b)
         /\ HasActive(Pressed(b, id))
         /\ \A a : id = b.active_id /\ Follows(b, a) => Follows(Pressed(b, id), a)
<1>1. id \in Nat
  BY PositionIs, TabIs DEF StripOk
<1>2. ASSUME NEW c \in {Activated(b, id), Pressed(b, id)}
      PROVE  /\ DOMAIN c = StripFields /\ c.tabs = b.tabs /\ c.active_id = id
             /\ c = Pressed(b, id) => c.mode = TabOf(b, id).mode
  BY DEF Activated, Pressed, StripOk, StripFields
<1>3. ASSUME NEW c, DOMAIN c = StripFields, c.tabs = b.tabs, c.active_id = id
      PROVE  /\ StripOk(c) /\ TabsFrom(c, b) /\ HasActive(c)
             /\ TabOf(c, id) = TabOf(b, id)
  BY <1>1, <1>3 DEF StripOk, TabsFrom, HasActive, Ids, TabOf, Position
<1> QED BY <1>2, <1>3 DEF Follows

\* A drag changes the order of the tabs.
LEMMA ReorderedOk ==
  ASSUME NEW b, StripOk(b), NEW i \in DOMAIN b.tabs, NEW j \in DOMAIN b.tabs
  PROVE  /\ StripOk(Reordered(b, i, j)) /\ TabsFrom(Reordered(b, i, j), b)
         /\ Ids(Reordered(b, i, j)) = Ids(b) /\ Reordered(b, i, j).mode = b.mode
         /\ \A a : Follows(b, a) => Follows(Reordered(b, i, j), a)
<1> DEFINE c == Reordered(b, i, j)
           from(k) == IF k = j THEN i ELSE IF k = i THEN j ELSE k
<1>1. /\ DOMAIN c = StripFields /\ c.active_id = b.active_id /\ c.mode = b.mode
      /\ c.tabs = [[b.tabs EXCEPT ![i] = b.tabs[j]] EXCEPT ![j] = b.tabs[i]]
  BY DEF Reordered, StripOk, StripFields
<1>2. /\ DOMAIN c.tabs = DOMAIN b.tabs
      /\ \A k \in DOMAIN b.tabs : from(k) \in DOMAIN b.tabs /\ c.tabs[k] = b.tabs[from(k)]
  BY <1>1
<1>3. c.tabs \in Seq(Tab)
  BY <1>1 DEF StripOk
<1> HIDE DEF c
<1>4. Ids(c) = Ids(b)
  <2>1. \A k \in DOMAIN b.tabs : b.tabs[k] = c.tabs[from(k)]
    BY <1>2
  <2> QED BY <1>2, <2>1 DEF Ids
<1>5. \A k, l \in DOMAIN c.tabs : c.tabs[k].id = c.tabs[l].id => k = l
  BY <1>2 DEF StripOk
<1>6. c.tabs # <<>> => b.tabs # <<>>
  BY <1>2
<1>7. StripOk(c) /\ TabsFrom(c, b)
  <2>1. TabsFrom(c, b)
    BY <1>2 DEF TabsFrom
  <2> QED BY <1>1, <1>3, <1>4, <1>5, <1>6, <2>1 DEF StripOk, HasActive
<1>8. c.tabs # <<>> => TabOf(c, c.active_id) = TabOf(b, b.active_id)
  <2>1. ASSUME c.tabs # <<>> PROVE b.active_id \in Ids(c)
    BY <1>1, <1>6, <1>7, <2>1 DEF StripOk, HasActive
  <2>2. \A id \in Ids(c) : TabOf(c, id) = TabOf(b, id)
    BY <1>7, TabsFromAre, Zenon
  <2> QED BY <1>1, <2>1, <2>2
<1> QED BY <1>1, <1>4, <1>6, <1>7, <1>8 DEF Follows, c

\* A new tab is Standard, is the active one, and has an id of its own.
LEMMA NewTabOk ==
  ASSUME NEW b, StripOk(b)
  PROVE  /\ StripOk(NewTab(b)) /\ HasActive(NewTab(b)) /\ NewTab(b).active_id = NextId(b)
         /\ NewTab(b).mode = TabOf(NewTab(b), NextId(b)).mode
         /\ NewTab(b).mode = "Standard" /\ ~TabOf(NewTab(b), NextId(b)).hasUrl
         /\ NewTab(b).tabs = Append(b.tabs, [id |-> NextId(b), mode |-> "Standard",
                                             unsaved |-> FALSE, hasUrl |-> FALSE])
         /\ KeepsStrict(b, NewTab(b))
<1> DEFINE id == NextId(b)
           new == [id |-> id, mode |-> "Standard", unsaved |-> FALSE, hasUrl |-> FALSE]
           c == NewTab(b)
           n == Len(b.tabs)
<1>1. id \in Nat /\ id \notin Ids(b)
  BY NextIdIsFresh DEF StripOk
<1>2. /\ DOMAIN c = StripFields /\ c.active_id = id /\ c.mode = "Standard"
      /\ c.tabs = Append(b.tabs, new)
  BY DEF NewTab, StripOk, StripFields
<1> HIDE DEF c, id
<1>3. new \in Tab /\ new.id = id /\ new.mode = "Standard" /\ ~new.hasUrl
  BY <1>1 DEF Tab, Mode
<1> HIDE DEF new
<1>4. n \in Nat /\ DOMAIN b.tabs = 1..n
  BY TabIs DEF StripOk
<1>5. /\ c.tabs \in Seq(Tab) /\ DOMAIN c.tabs = 1..(n + 1)
      /\ \A i \in 1..n : c.tabs[i] = b.tabs[i]
      /\ c.tabs[n + 1] = new
  BY <1>2, <1>3, <1>4 DEF StripOk
<1> HIDE DEF n
<1>6. \A i \in 1..n : c.tabs[i].id \in Ids(b)
  BY <1>4, <1>5 DEF Ids
<1>7. \A i, j \in 1..(n + 1) : c.tabs[i].id = c.tabs[j].id => i = j
  <2> SUFFICES ASSUME NEW i \in 1..(n + 1), NEW j \in 1..(n + 1), c.tabs[i].id = c.tabs[j].id
               PROVE  i = j
    OBVIOUS
  <2>1. (i \in 1..n \/ i = n + 1) /\ (j \in 1..n \/ j = n + 1)
    BY <1>4
  <2> QED BY <1>1, <1>3, <1>4, <1>5, <1>6, <2>1 DEF StripOk
<1>8. id \in Ids(c)
  BY <1>3, <1>4, <1>5 DEF Ids
<1>9. StripOk(c) /\ HasActive(c)
  BY <1>1, <1>2, <1>5, <1>7, <1>8 DEF StripOk, HasActive
<1>10. TabOf(c, id) = new
  <2>1. n + 1 \in DOMAIN c.tabs
    BY <1>4, <1>5
  <2> QED BY <1>3, <1>5, <1>9, <2>1, PositionIs
<1>11. KeepsStrict(b, c)
  <2> SUFFICES ASSUME NEW i \in 1..n, NEW j \in 1..(n + 1),
                      b.tabs[i].id = c.tabs[j].id, b.tabs[i].mode = "Strict"
               PROVE  c.tabs[j].mode = "Strict"
    BY <1>4, <1>5 DEF KeepsStrict
  <2>1. i \in 1..(n + 1) /\ i # n + 1
    BY <1>4
  <2> QED BY <1>5, <1>7, <2>1
<1> QED BY <1>2, <1>3, <1>9, <1>10, <1>11 DEF c, id, new

\* A tab is closed: the others stay, and if it was the active one a neighbour takes over.
LEMMA ClosedOk ==
  ASSUME NEW b, StripOk(b), NEW id, NEW s \in BOOLEAN
  PROVE  /\ StripOk(Closed(b, id, s)) /\ TabsFrom(Closed(b, id, s), b)
         /\ Closed(b, id, s).mode = b.mode
         /\ \A a : id # b.active_id /\ Follows(b, a) => Follows(Closed(b, id, s), a)
<1> DEFINE p == Position(b, id)
           n == Len(b.tabs)
           rest == IF id \in Ids(b) THEN RemoveAt(b.tabs, p) ELSE b.tabs
           c == Closed(b, id, s)
           next == IF b.active_id # id THEN b.active_id
                   ELSE IF rest = <<>> THEN 0 ELSE Successor(b, id)
           Good == /\ StripOk(c) /\ TabsFrom(c, b)
                   /\ \A a : id # b.active_id /\ Follows(b, a) => Follows(c, a)
<1>1. n \in Nat /\ DOMAIN b.tabs = 1..n /\ b.tabs \in Seq(Tab)
      /\ \A i \in DOMAIN b.tabs : b.tabs[i].id \in Nat
  BY TabIs DEF StripOk
<1>2. /\ DOMAIN c = StripFields /\ c.tabs = rest /\ c.active_id = next /\ c.mode = b.mode
  BY DEF Closed, StripOk, StripFields
<1> HIDE DEF c
<1>3. ASSUME id \notin Ids(b) PROVE Good
  <2>1. c.tabs = b.tabs
    BY <1>2, <1>3
  <2>2. CASE b.tabs = <<>>
    <3>1. c.active_id \in Nat
      BY <1>2, <2>1, <2>2 DEF StripOk
    <3> QED BY <1>2, <2>1, <2>2, <3>1 DEF StripOk, TabsFrom, Follows
  <2>3. CASE b.tabs # <<>>
    <3>1. c.active_id = b.active_id
      BY <1>2, <1>3, <2>3 DEF StripOk, HasActive
    <3> QED BY <1>2, <2>1, <3>1, MarksKeepTabs
  <2> QED BY <2>2, <2>3
<1>4. ASSUME id \in Ids(b) PROVE Good
  <2>1. p \in 1..n /\ b.tabs[p].id = id
    BY <1>1, <1>4, PositionIs
  <2>2. PICK r : r = RemoveAt(b.tabs, p)
    OBVIOUS
  <2>3. /\ r \in Seq(Tab) /\ Len(r) = n - 1 /\ DOMAIN r = 1..(n - 1)
        /\ \A k \in 1..(n - 1) : r[k] = IF k < p THEN b.tabs[k] ELSE b.tabs[k + 1]
    <3>1. /\ r \in Seq(Tab) /\ Len(r) = n - 1
          /\ \A k \in 1..(n - 1) : r[k] = IF k < p THEN b.tabs[k] ELSE b.tabs[k + 1]
      BY <1>1, <2>1, <2>2, RemoveAtIs
    <3> QED BY <3>1
  <2>4. c.tabs = r
    BY <1>2, <1>4, <2>2
  <2> DEFINE from(k) == IF k < p THEN k ELSE k + 1
  <2>5. \A k \in 1..(n - 1) : from(k) \in 1..n /\ from(k) # p /\ r[k] = b.tabs[from(k)]
    BY <1>1, <2>1, <2>3
  <2>6. TabsFrom(c, b)
    BY <1>1, <2>3, <2>4, <2>5 DEF TabsFrom
  <2>7. \A k, l \in DOMAIN r : r[k].id = r[l].id => k = l
    <3> SUFFICES ASSUME NEW k \in 1..(n - 1), NEW l \in 1..(n - 1), r[k].id = r[l].id
                 PROVE  k = l
      BY <2>3
    <3>1. PICK x, y \in 1..n : x = from(k) /\ y = from(l) /\ r[k] = b.tabs[x] /\ r[l] = b.tabs[y]
      <4> HIDE DEF from
      <4> QED BY <2>5
    <3>2. x = y
      BY <1>1, <3>1 DEF StripOk
    <3> QED BY <1>1, <2>1, <3>1, <3>2
  <2>8. \A i \in 1..n : i # p => b.tabs[i].id \in Ids(c)
    <3> SUFFICES ASSUME NEW i \in 1..n, i # p PROVE b.tabs[i].id \in Ids(c)
      OBVIOUS
    <3>1. PICK k \in 1..(n - 1) : from(k) = i
      <4>1. CASE i < p
        BY <1>1, <2>1, <4>1
      <4>2. CASE ~(i < p)
        <5>1. i - 1 \in 1..(n - 1) /\ ~(i - 1 < p) /\ i - 1 + 1 = i
          BY <1>1, <2>1, <4>2
        <5> QED BY <5>1
      <4> QED BY <4>1, <4>2
    <3>2. r[k] = b.tabs[i] /\ k \in DOMAIN c.tabs
      BY <2>3, <2>4, <2>5, <3>1
    <3> QED BY <2>4, <3>2 DEF Ids
  <2>9. c.active_id \in Nat /\ (r # <<>> => c.active_id \in Ids(c))
    <3>1. CASE b.active_id # id
      <4>1. c.active_id = b.active_id /\ b.tabs # <<>>
        BY <1>1, <1>2, <2>1, <3>1
      <4>2. b.active_id \in Ids(b)
        BY <4>1 DEF StripOk, HasActive
      <4>3. PICK i \in 1..n : b.tabs[i].id = b.active_id
        BY <1>1, <4>2 DEF Ids
      <4>4. i # p
        BY <2>1, <3>1, <4>3
      <4> QED BY <2>8, <4>1, <4>3, <4>4 DEF StripOk
    <3>2. CASE b.active_id = id /\ r = <<>>
      BY <1>2, <1>4, <2>2, <3>2
    <3>3. CASE b.active_id = id /\ r # <<>>
      <4>1. c.active_id = Successor(b, id)
        BY <1>2, <1>4, <2>2, <3>3
      <4>2. n - 1 # 0
        BY <2>3, <3>3
      <4>3. PICK i \in 1..n : i # p /\ Successor(b, id) = b.tabs[i].id
        <5>1. CASE p < n
          <6>1. p + 1 \in 1..n /\ p + 1 # p
            BY <1>1, <2>1, <5>1
          <6> QED BY <5>1, <6>1 DEF Successor
        <5>2. CASE ~(p < n)
          <6>1. p - 1 \in 1..n /\ p - 1 # p
            <7>1. \A m, q \in Nat : q \in 1..m /\ m - 1 # 0 /\ ~(q < m) => q - 1 \in 1..m
              OBVIOUS
            <7>2. p \in Nat
              BY <1>1, <2>1
            <7> HIDE DEF n, p
            <7> QED BY <1>1, <2>1, <4>2, <5>2, <7>1, <7>2
          <6> QED BY <5>2, <6>1 DEF Successor
        <5> QED BY <5>1, <5>2
      <4> QED BY <1>1, <2>8, <4>1, <4>3
    <3> QED BY <3>1, <3>2, <3>3
  <2>10. StripOk(c)
    BY <1>2, <2>3, <2>4, <2>7, <2>9 DEF StripOk, HasActive
  <2>11. ASSUME NEW a, id # b.active_id, Follows(b, a) PROVE Follows(c, a)
    <3> SUFFICES ASSUME c.tabs # <<>>
                 PROVE  /\ a.current_tab_id = c.active_id
                        /\ c.mode = TabOf(c, c.active_id).mode
      BY DEF Follows
    <3>1. c.active_id = b.active_id /\ b.tabs # <<>>
      BY <1>1, <1>2, <2>1, <2>11
    <3>2. TabOf(c, c.active_id) = TabOf(b, c.active_id)
      BY <2>4, <2>6, <2>9, <2>10, TabsFromAre
    <3> QED BY <1>2, <2>11, <3>1, <3>2 DEF Follows
  <2> QED BY <2>6, <2>10, <2>11
<1> QED BY <1>2, <1>3, <1>4 DEF c

\* What sync_mode writes into the active tab is what the tab has.
LEMMA SyncKeepsTabs ==
  ASSUME NEW b, StripOk(b), HasActive(b)
  PROVE  /\ StripOk(ModeSynced(b, SyncedMode(b)))
         /\ ModeSynced(b, SyncedMode(b)).tabs = b.tabs
         /\ ModeSynced(b, SyncedMode(b)).active_id = b.active_id
         /\ ModeSynced(b, SyncedMode(b)).mode = TabOf(b, b.active_id).mode
<1> DEFINE m == SyncedMode(b)
           c == ModeSynced(b, m)
           new(i) == IF b.tabs[i].id = b.active_id THEN [b.tabs[i] EXCEPT !.mode = m]
                     ELSE b.tabs[i]
<1>1. /\ DOMAIN c = StripFields /\ c.active_id = b.active_id /\ c.mode = m
      /\ c.tabs = [i \in DOMAIN b.tabs |-> new(i)]
  BY DEF ModeSynced, StripOk, StripFields
<1>2. \A i \in DOMAIN b.tabs : new(i) = b.tabs[i]
  <2> SUFFICES ASSUME NEW i \in DOMAIN b.tabs, b.tabs[i].id = b.active_id
               PROVE  [b.tabs[i] EXCEPT !.mode = m] = b.tabs[i]
    OBVIOUS
  <2>1. TabOf(b, b.active_id) = b.tabs[i]
    BY PositionIs
  <2>2. m = b.tabs[i].mode
    BY <2>1 DEF SyncedMode
  <2>3. b.tabs[i] \in Tab
    BY TabIs DEF StripOk
  <2>4. \A x \in Tab : [x EXCEPT !.mode = x.mode] = x
    BY DEF Tab
  <2> QED BY <2>2, <2>3, <2>4
<1> HIDE DEF c
<1>3. c.tabs = b.tabs
  <2>1. b.tabs = [i \in DOMAIN b.tabs |-> b.tabs[i]]
    BY DEF StripOk
  <2> HIDE DEF new
  <2> QED BY <1>1, <1>2, <2>1
<1>4. StripOk(c)
  BY <1>1, <1>3, MarksKeepTabs
<1> QED BY <1>1, <1>3, <1>4 DEF c, SyncedMode

\* A mode written into the active tab is the capsule's too.
LEMMA WrittenOk ==
  ASSUME NEW b, StripOk(b), NEW m \in Mode
  PROVE  /\ StripOk(ModeSynced(b, m))
         /\ m = "Strict" => KeepsStrict(b, ModeSynced(b, m))
         /\ \A a : (b.tabs # <<>> => a.current_tab_id = b.active_id)
                  => Follows(ModeSynced(b, m), a)
<1> DEFINE c == ModeSynced(b, m)
           new(i) == IF b.tabs[i].id = b.active_id THEN [b.tabs[i] EXCEPT !.mode = m]
                     ELSE b.tabs[i]
<1>1. /\ DOMAIN c = StripFields /\ c.active_id = b.active_id /\ c.mode = m
      /\ c.tabs = [i \in DOMAIN b.tabs |-> new(i)]
  BY DEF ModeSynced, StripOk, StripFields
<1> HIDE DEF c
<1>2. \A i \in DOMAIN b.tabs :
        /\ new(i) \in Tab /\ new(i).id = b.tabs[i].id
        /\ new(i).mode \in {b.tabs[i].mode, m}
        /\ b.tabs[i].id = b.active_id => new(i).mode = m
  <2>1. \A x \in Tab : LET y == [x EXCEPT !.mode = m]
                       IN  y \in Tab /\ y.id = x.id /\ y.mode = m
    BY DEF Tab, Mode
  <2> QED BY <2>1, TabIs DEF StripOk
<1> HIDE DEF new
<1>3. DOMAIN c.tabs = DOMAIN b.tabs /\ \A i \in DOMAIN b.tabs : c.tabs[i] = new(i)
  BY <1>1
<1>4. c.tabs \in Seq(Tab) /\ (c.tabs # <<>> => b.tabs # <<>>)
  <2>1. DOMAIN b.tabs = 1..Len(b.tabs) /\ Len(b.tabs) \in Nat
    BY TabIs DEF StripOk
  <2> QED BY <1>1, <1>2, <2>1
<1>5. Ids(c) = Ids(b)
  BY <1>2, <1>3 DEF Ids
<1>6. \A i, j \in DOMAIN c.tabs : c.tabs[i].id = c.tabs[j].id => i = j
  BY <1>2, <1>3 DEF StripOk
<1>7. StripOk(c)
  BY <1>1, <1>4, <1>5, <1>6 DEF StripOk, HasActive
<1>8. ASSUME m = "Strict" PROVE KeepsStrict(b, c)
  <2> SUFFICES ASSUME NEW i \in DOMAIN b.tabs, NEW j \in DOMAIN b.tabs,
                      b.tabs[i].id = c.tabs[j].id, b.tabs[i].mode = "Strict"
               PROVE  c.tabs[j].mode = "Strict"
    BY <1>3 DEF KeepsStrict
  <2>1. i = j
    BY <1>2, <1>3 DEF StripOk
  <2> QED BY <1>2, <1>3, <1>8, <2>1
<1>9. c.tabs # <<>> => TabOf(c, c.active_id).mode = m
  <2> SUFFICES ASSUME c.tabs # <<>> PROVE TabOf(c, c.active_id).mode = m
    OBVIOUS
  <2>1. PICK i \in DOMAIN c.tabs : c.tabs[i].id = c.active_id
    BY <1>7 DEF StripOk, HasActive, Ids
  <2>2. TabOf(c, c.active_id) = c.tabs[i]
    BY <1>7, <2>1, PositionIs
  <2> QED BY <1>1, <1>2, <1>3, <2>1, <2>2
<1> QED BY <1>1, <1>4, <1>7, <1>8, <1>9 DEF Follows, c

\* The tab the address bar is for, after each of its messages.
LEMMA BarKeepsTab ==
  ASSUME NEW a, IsBar(a)
  PROVE  /\ \A m : BarModeSynced(a, m).current_tab_id = a.current_tab_id
         /\ \A id : Forgotten(a, id).current_tab_id = a.current_tab_id
         /\ \A x : Typed(a, x).current_tab_id = a.current_tab_id
         /\ \A h \in Hover(a) : h.current_tab_id = a.current_tab_id
         /\ \A h \in {LookedUp(a), Focused(a), Committed(a), ChipDismissed(a),
                      PopoverToggled(a), GraceEnded(a)} : h.current_tab_id = a.current_tab_id
<1> USE DEF IsBar, Fields
<1>2. \A m : BarModeSynced(a, m).current_tab_id = a.current_tab_id
  BY DEF BarModeSynced, BadgeSynced
<1>3. \A id : Forgotten(a, id).current_tab_id = a.current_tab_id
  BY DEF Forgotten
<1>4. \A x : Typed(a, x).current_tab_id = a.current_tab_id
  BY DEF Typed
<1>5. \A h \in Hover(a) : h.current_tab_id = a.current_tab_id
  BY DEF Hover, ChipEntered, ChipExited, PopupEntered, PopupExited
<1>6. \A h \in {LookedUp(a), Focused(a), Committed(a), ChipDismissed(a),
                PopoverToggled(a), GraceEnded(a)} : h.current_tab_id = a.current_tab_id
  BY DEF LookedUp, Focused, Committed, InputCleared, ChipDismissed, PopoverToggled, GraceEnded
<1> QED BY <1>2, <1>3, <1>4, <1>5, <1>6

\* reset_for_tab makes the bar that of the tab it is given.
LEMMA ResetIsForTab ==
  ASSUME NEW a, NEW id, NEW u, NEW m, IsBar(a)
  PROVE  ResetForTab(a, id, u, m).current_tab_id = id
  BY DEF IsBar, Fields, ResetForTab, InputCleared, BarModeSynced, BadgeSynced

\* The strip fits, the one address bar is for its active tab, and the capsule for the window's
\* mode unless the tab is fresh.
TabsInv ==
  /\ StripOk(tab_bar) /\ Follows(tab_bar, address_bar) /\ mode \in Mode
  /\ CapsuleFits(tab_bar, mode)

\* What a message leaves: a strip and a bar that fit, and no Strict tab made Standard.
TabsStep == TabsInv' /\ KeepsStrict(tab_bar, tab_bar')

\* sync_active_tab_mode, after whatever a handler did to the strip.
LEMMA SyncTabs ==
  ASSUME NEW b, NEW a, IsBar(a), StripOk(b), HasActive(b), KeepsStrict(tab_bar, b),
         SyncActiveTab(b, a)
  PROVE  TabsStep
<1>1. /\ StripOk(tab_bar') /\ tab_bar'.tabs = b.tabs /\ tab_bar'.active_id = b.active_id
      /\ tab_bar'.mode = TabOf(b, b.active_id).mode
  BY SyncKeepsTabs DEF SyncActiveTab
<1>2. TabOf(tab_bar', tab_bar'.active_id) = TabOf(b, b.active_id)
  BY <1>1 DEF TabOf, Position
<1>3. address_bar'.current_tab_id = b.active_id
  BY ResetIsForTab DEF SyncActiveTab
<1>4. mode' \in Mode
  <2>1. \A x \in Tab : x.mode \in Mode
    BY DEF Tab
  <2>2. TabOf(b, b.active_id) \in Tab
    BY PositionIs, TabIs DEF StripOk, HasActive, TabOf
  <2> QED BY <2>1, <2>2 DEF SyncActiveTab, SyncedMode
<1>5. CapsuleFits(tab_bar', mode')
  BY <1>1 DEF SyncActiveTab, SyncedMode, CapsuleFits
<1> QED BY <1>1, <1>2, <1>3, <1>4, <1>5 DEF TabsStep, TabsInv, Follows, KeepsStrict

\* go_home, when the last tab is gone.
LEMMA HomeTabs ==
  ASSUME NEW b, NEW a, StripOk(b), b.tabs = <<>>, Home(b, a)
  PROVE  TabsStep
<1>1. tab_bar' = ModeSynced(b, "Standard")
  BY DEF Home
<1>2. DOMAIN tab_bar' = StripFields /\ tab_bar'.active_id = b.active_id
  BY <1>1 DEF ModeSynced, StripOk, StripFields
<1>3. tab_bar'.tabs = <<>>
  BY <1>1 DEF ModeSynced, StripOk, StripFields
<1>4. mode' \in Mode
  BY DEF Home, Mode
<1>5. CapsuleFits(tab_bar', mode')
  BY DEF Home, ModeSynced, StripOk, StripFields, CapsuleFits
<1> QED BY <1>2, <1>3, <1>4, <1>5 DEF TabsStep, TabsInv, StripOk, Follows, KeepsStrict

\* A message after which the strip is b, of the tabs there were, and the bar is for the
\* same tab as before.
LEMMA QuietTabs ==
  ASSUME NEW b, TabsInv, StripOk(b), TabsFrom(b, tab_bar), tab_bar' = b,
         Follows(b, address_bar), address_bar'.current_tab_id = address_bar.current_tab_id,
         mode' = mode, b.tabs = <<>> => b.mode = tab_bar.mode
  PROVE  TabsStep
<1>1. KeepsStrict(tab_bar, b)
  BY TabsFromAre DEF TabsInv
<1>2. CASE b.tabs = <<>>
  BY <1>1, <1>2 DEF TabsStep, TabsInv, Follows, CapsuleFits
<1>3. CASE b.tabs # <<>>
  <2>1. b.active_id \in Ids(b)
    BY <1>3 DEF StripOk, HasActive
  <2>2. TabOf(b, b.active_id) = TabOf(tab_bar, b.active_id) /\ tab_bar.tabs # <<>>
    <3>1. Ids(b) \subseteq Ids(tab_bar) /\ TabOf(b, b.active_id) = TabOf(tab_bar, b.active_id)
      BY <2>1, TabsFromAre DEF TabsInv
    <3> QED BY <2>1, <3>1 DEF Ids
  <2>3. b.active_id = tab_bar.active_id /\ b.mode = tab_bar.mode
    BY <1>3, <2>2 DEF TabsInv, Follows
  <2>4. CapsuleFits(b, mode)
    BY <2>2, <2>3 DEF TabsInv, CapsuleFits
  <2> QED BY <1>1, <2>4 DEF TabsStep, TabsInv, Follows
<1> QED BY <1>2, <1>3

\* The strip and the bar at the start.
LEMMA TabsInit == Init => TabsInv
<1> SUFFICES ASSUME Init
             PROVE  TabsInv
  OBVIOUS
<1> DEFINE b == NewTabBar
<1>1. DOMAIN b = StripFields /\ b.tabs = InitialTabs /\ b.active_id = InitialActive
  BY DEF NewTabBar, StripFields
<1>2. /\ tab_bar = ModeSynced(b, "Standard")
      /\ mode = "Standard" /\ "Standard" \in Mode
  BY DEF Init, Mode
<1>3. address_bar.current_tab_id = InitialActive
  BY NewBarFits, ResetIsForTab DEF Init, BarInv
<1> HIDE DEF b
<1>4. StripOk(b)
  <2>1. InitialActive \in Ids(b)
    BY <1>1, InitialTabsAssumption DEF Ids
  <2>2. InitialActive \in Nat
    BY <1>1, <2>1, InitialTabsAssumption, TabIs DEF Ids
  <2> QED BY <1>1, <2>1, <2>2, InitialTabsAssumption DEF StripOk, HasActive
<1>5. CapsuleFits(tab_bar, mode)
  BY <1>2, <1>4 DEF ModeSynced, StripOk, StripFields, CapsuleFits
<1> QED BY <1>1, <1>2, <1>3, <1>4, <1>5, WrittenOk DEF TabsInv

\* Every message keeps the strip and the bar together, and Strict tabs Strict.
LEMMA TabsNext == IInv /\ TabsInv /\ [Next]_vars => TabsStep
<1> SUFFICES ASSUME IInv, TabsInv, [Next]_vars
             PROVE  TabsStep
  OBVIOUS
<1>1. /\ IsBar(address_bar) /\ StripOk(tab_bar) /\ Follows(tab_bar, address_bar)
      /\ mode \in Mode
  BY DEF IInv, BarInv, TabsInv
<1>2. \A id : IsBar(Forgotten(address_bar, id))
  BY <1>1, MessagesFit DEF IInv, BarInv
<1>3. \A b, c : StripOk(b) /\ StripOk(c) /\ TabsFrom(c, b) => KeepsStrict(b, c)
  BY TabsFromAre
<1>4. ASSUME NEW b, StripOk(b), b.tabs # <<>> PROVE HasActive(b)
  BY <1>4 DEF StripOk
<1>5. CASE StripActivate
  <2>1. PICK id \in Ids(tab_bar) :
          IF id # tab_bar.active_id
          THEN SyncActiveTab(Pressed(tab_bar, id), address_bar)
          ELSE tab_bar' = Pressed(tab_bar, id) /\ UNCHANGED <<mode, address_bar>>
    BY <1>5 DEF StripActivate
  <2>2. /\ StripOk(Pressed(tab_bar, id)) /\ TabsFrom(Pressed(tab_bar, id), tab_bar)
        /\ HasActive(Pressed(tab_bar, id))
        /\ id = tab_bar.active_id => Follows(Pressed(tab_bar, id), address_bar)
        /\ Pressed(tab_bar, id).tabs # <<>>
    BY <1>1, ActivatedOk DEF HasActive, Ids
  <2>3. CASE id # tab_bar.active_id
    BY <1>1, <1>3, <2>1, <2>2, <2>3, SyncTabs
  <2>4. CASE id = tab_bar.active_id
    BY <1>1, <2>1, <2>2, <2>4, QuietTabs
  <2> QED BY <2>3, <2>4
<1>6. CASE StripClose
  <2>1. PICK id \in Ids(tab_bar) :
          LET b == Closed(tab_bar, id, TRUE)
          IN  IF b.tabs = <<>> THEN Home(b, address_bar)
              ELSE IF id = tab_bar.active_id THEN SyncActiveTab(b, Forgotten(address_bar, id))
              ELSE tab_bar' = b /\ UNCHANGED <<mode, address_bar>>
    BY <1>6 DEF StripClose
  <2> DEFINE b == Closed(tab_bar, id, TRUE)
  <2>2. /\ StripOk(b) /\ TabsFrom(b, tab_bar)
        /\ id # tab_bar.active_id => Follows(b, address_bar)
    BY <1>1, ClosedOk
  <2>3. IF b.tabs = <<>> THEN Home(b, address_bar)
        ELSE IF id = tab_bar.active_id THEN SyncActiveTab(b, Forgotten(address_bar, id))
        ELSE tab_bar' = b /\ UNCHANGED <<mode, address_bar>>
    BY <2>1
  <2> HIDE DEF b
  <2>4. CASE b.tabs = <<>>
    BY <2>2, <2>3, <2>4, HomeTabs
  <2>5. CASE b.tabs # <<>> /\ id = tab_bar.active_id
    BY <1>1, <1>2, <1>3, <1>4, <2>2, <2>3, <2>5, SyncTabs
  <2>6. CASE b.tabs # <<>> /\ id # tab_bar.active_id
    BY <1>1, <2>2, <2>3, <2>6, QuietTabs
  <2> QED BY <2>4, <2>5, <2>6
<1>7. CASE NewTabPressed
  <2> DEFINE b == NewTab(tab_bar)
             a == ResetForTab(address_bar, b.active_id, FALSE, mode)
  <2>1. IF b.active_id # tab_bar.active_id THEN SyncActiveTab(b, a)
        ELSE tab_bar' = b /\ address_bar' = a /\ mode' = mode
    BY <1>7 DEF NewTabPressed
  <2>2. /\ StripOk(b) /\ HasActive(b) /\ KeepsStrict(tab_bar, b)
        /\ b.mode = TabOf(b, b.active_id).mode /\ CapsuleFits(b, mode)
    BY <1>1, NewTabOk DEF CapsuleFits, Mode
  <2>3. IsBar(a) /\ a.current_tab_id = b.active_id
    BY <1>1, ResetFits, ResetIsForTab DEF BarInv
  <2> HIDE DEF a, b
  <2> QED BY <1>1, <2>1, <2>2, <2>3, SyncTabs DEF TabsStep, TabsInv, Follows
<1>8. CASE SidebarNewTab
  <2> DEFINE b == NewTab(tab_bar)
  <2>1. /\ tab_bar' = b /\ address_bar' = ResetForTab(address_bar, NextId(tab_bar), FALSE, mode)
        /\ mode' = mode
    BY <1>8 DEF SidebarNewTab
  <2>2. /\ StripOk(b) /\ HasActive(b) /\ KeepsStrict(tab_bar, b)
        /\ b.active_id = NextId(tab_bar) /\ b.mode = TabOf(b, b.active_id).mode
        /\ CapsuleFits(b, mode)
    BY <1>1, NewTabOk DEF CapsuleFits, Mode
  <2>3. address_bar'.current_tab_id = b.active_id
    BY <1>1, <2>1, <2>2, ResetIsForTab
  <2> HIDE DEF b
  <2> QED BY <1>1, <2>1, <2>2, <2>3 DEF TabsStep, TabsInv, Follows
<1>9. CASE StrictCloseConfirmed
  <2>1. PICK id \in tab_bar.modal :
          LET b == Closed(Answered(tab_bar), id, FALSE)
          IN  IF b.tabs = <<>> THEN Home(b, address_bar)
              ELSE SyncIfAnyTab(b, Forgotten(address_bar, id))
    BY <1>9 DEF StrictCloseConfirmed
  <2> DEFINE d == Answered(tab_bar)
             b == Closed(d, id, FALSE)
  <2>2. DOMAIN d = StripFields /\ d.tabs = tab_bar.tabs /\ d.active_id = tab_bar.active_id
    BY <1>1 DEF Answered, StripOk, StripFields
  <2>3. IF b.tabs = <<>> THEN Home(b, address_bar)
        ELSE SyncIfAnyTab(b, Forgotten(address_bar, id))
    BY <2>1
  <2> HIDE DEF d
  <2>4. StripOk(d) /\ TabsFrom(d, tab_bar)
    BY <1>1, <2>2, MarksKeepTabs
  <2>5. StripOk(b) /\ TabsFrom(b, d)
    BY <2>4, ClosedOk
  <2> HIDE DEF b
  <2>6. TabsFrom(b, tab_bar)
    BY <2>2, <2>5 DEF TabsFrom
  <2>7. CASE b.tabs = <<>>
    BY <2>3, <2>5, <2>7, HomeTabs
  <2>8. CASE b.tabs # <<>>
    <3>1. HasActive(b) /\ SyncActiveTab(b, Forgotten(address_bar, id))
      BY <1>4, <2>3, <2>5, <2>8 DEF SyncIfAnyTab
    <3> QED BY <1>1, <1>2, <1>3, <2>5, <2>6, <3>1, SyncTabs
  <2> QED BY <2>7, <2>8
<1>10. CASE \E id \in Ids(tab_bar) : SidebarActivate(id)
  <2>1. PICK id \in Ids(tab_bar) : SyncActiveTab(Activated(tab_bar, id), address_bar)
    BY <1>10 DEF SidebarActivate
  <2> QED BY <1>1, <1>3, <2>1, ActivatedOk, SyncTabs
<1>11. CASE CardEnter
  <2>1. FocusedTab \in Ids(tab_bar) /\ SyncActiveTab(Activated(tab_bar, FocusedTab), address_bar)
    BY <1>11 DEF CardEnter, HasFocus, FocusedTab, Ids
  <2> QED BY <1>1, <1>3, <2>1, ActivatedOk, SyncTabs
<1>12. ASSUME NEW id, NEW b \in {Asking(tab_bar, id), Closed(tab_bar, id, FALSE)}
       PROVE  /\ StripOk(b) /\ TabsFrom(b, tab_bar)
              /\ b = Asking(tab_bar, id) => Follows(b, address_bar)
              /\ b.mode = tab_bar.mode
  <2>1. CASE b = Asking(tab_bar, id)
    <3>1. /\ DOMAIN b = StripFields /\ b.tabs = tab_bar.tabs /\ b.mode = tab_bar.mode
          /\ b.active_id = tab_bar.active_id
      BY <1>1, <2>1 DEF Asking, StripOk, StripFields
    <3> QED BY <1>1, <3>1, MarksKeepTabs
  <2>2. CASE b # Asking(tab_bar, id)
    BY <1>1, <1>12, <2>2, ClosedOk
  <2> QED BY <2>1, <2>2
<1>13. CASE \E id \in Ids(tab_bar) : SidebarClose(id)
  <2>1. PICK id \in Ids(tab_bar) :
          LET b == Closed(tab_bar, id, FALSE)
          IN  \/ tab_bar' = Asking(tab_bar, id) /\ UNCHANGED <<mode, address_bar>>
              \/ b.tabs = <<>> /\ Home(b, address_bar)
              \/ b.tabs # <<>> /\ SyncActiveTab(b, address_bar)
    BY <1>13 DEF SidebarClose
  <2> DEFINE b == Closed(tab_bar, id, FALSE)
             d == Asking(tab_bar, id)
  <2>2. \/ tab_bar' = d /\ UNCHANGED <<mode, address_bar>>
        \/ b.tabs = <<>> /\ Home(b, address_bar)
        \/ b.tabs # <<>> /\ SyncActiveTab(b, address_bar)
    BY <2>1
  <2>3. /\ StripOk(b) /\ TabsFrom(b, tab_bar)
        /\ StripOk(d) /\ TabsFrom(d, tab_bar) /\ Follows(d, address_bar)
        /\ d.mode = tab_bar.mode
    BY <1>12
  <2> HIDE DEF b, d
  <2>4. CASE tab_bar' = d /\ UNCHANGED <<mode, address_bar>>
    BY <1>1, <2>3, <2>4, QuietTabs
  <2>5. CASE b.tabs = <<>> /\ Home(b, address_bar)
    BY <2>3, <2>5, HomeTabs
  <2>6. CASE b.tabs # <<>> /\ SyncActiveTab(b, address_bar)
    BY <1>1, <1>3, <1>4, <2>3, <2>6, SyncTabs
  <2> QED BY <2>2, <2>4, <2>5, <2>6
<1>14. CASE CardClose
  <2>1. PICK b \in {Asking(tab_bar, FocusedTab), Closed(tab_bar, FocusedTab, FALSE)} :
          SyncIfAnyTab(b, address_bar)
    BY <1>14 DEF CardClose
  <2>2. StripOk(b) /\ TabsFrom(b, tab_bar) /\ b.mode = tab_bar.mode
    BY <1>12
  <2>3. CASE HasActive(b)
    BY <1>1, <1>3, <2>1, <2>2, <2>3, SyncTabs DEF SyncIfAnyTab
  <2>4. CASE ~HasActive(b)
    <3>1. tab_bar' = b /\ UNCHANGED <<mode, address_bar>> /\ b.tabs = <<>>
      BY <1>4, <2>1, <2>2, <2>4 DEF SyncIfAnyTab
    <3> QED BY <1>1, <2>2, <3>1, QuietTabs DEF Follows
  <2> QED BY <2>3, <2>4
<1>15. CASE ConvertToStrict
  <2>1. tab_bar' = ModeSynced(tab_bar, "Strict")
        /\ address_bar' = BarModeSynced(address_bar, "Strict")
    BY <1>15 DEF ConvertToStrict
  <2>2. /\ StripOk(tab_bar') /\ KeepsStrict(tab_bar, tab_bar')
        /\ Follows(tab_bar', address_bar) /\ mode' \in Mode
    BY <1>1, <1>15, <2>1, WrittenOk DEF Follows, ConvertToStrict, Mode
  <2>4. CapsuleFits(tab_bar', mode')
    BY <1>1, <1>15, <2>1 DEF ConvertToStrict, ModeSynced, StripOk, StripFields, CapsuleFits
  <2>3. address_bar'.current_tab_id = address_bar.current_tab_id
    BY <1>1, <2>1, BarKeepsTab
  <2> QED BY <2>2, <2>3, <2>4 DEF TabsStep, TabsInv, Follows
<1>16. CASE NavigatePressed
  <2>1. CASE tab_bar.tabs # <<>>
    <3>1. tab_bar' = tab_bar /\ address_bar' = Committed(address_bar) /\ mode' = mode
      BY <1>16, <2>1 DEF NavigatePressed
    <3> QED BY <1>1, <3>1, BarKeepsTab, QuietTabs DEF TabsFrom
  <2>2. CASE tab_bar.tabs = <<>>
    <3> DEFINE b == NewTab(tab_bar)
               addressed == [b.tabs[1] EXCEPT !.hasUrl = TRUE, !.mode = address_bar.mode]
               c == [b EXCEPT !.tabs = <<addressed>>]
    <3>1. SyncActiveTab(c, Committed(address_bar))
      BY <1>16, <2>2 DEF NavigatePressed
    <3>2. StripOk(c) /\ HasActive(c) /\ KeepsStrict(tab_bar, c)
      <4>1. /\ StripOk(b) /\ HasActive(b)
            /\ b.tabs = Append(tab_bar.tabs, [id |-> b.active_id, mode |-> "Standard",
                                              unsaved |-> FALSE, hasUrl |-> FALSE])
        BY <1>1, NewTabOk
      <4>2. b.tabs \in Seq(Tab) /\ 1 \in DOMAIN b.tabs /\ b.tabs[1].id = b.active_id
        BY <2>2, <4>1 DEF StripOk
      <4>3. address_bar.mode \in Mode
        BY DEF IInv, BarInv, Agrees, TabsInv
      <4>4. addressed \in Tab /\ addressed.id = b.active_id
        <5>1. \A x \in Tab : \A m \in Mode :
                LET y == [x EXCEPT !.hasUrl = TRUE, !.mode = m] IN y \in Tab /\ y.id = x.id
          BY DEF Tab
        <5> DEFINE first == b.tabs[1]
        <5>2. first \in Tab /\ first.id = b.active_id
          BY <4>2
        <5>3. addressed = [first EXCEPT !.hasUrl = TRUE, !.mode = address_bar.mode]
          OBVIOUS
        <5> HIDE DEF first, addressed
        <5> QED BY <4>3, <5>1, <5>2, <5>3
      <4> HIDE DEF addressed
      <4>5. /\ DOMAIN c = StripFields /\ c.tabs = <<addressed>> /\ c.active_id = b.active_id
        BY <4>1 DEF StripOk, StripFields
      <4> HIDE DEF b, c
      <4>6. /\ c.tabs \in Seq(Tab) /\ DOMAIN c.tabs = {1}
            /\ c.tabs[1].id = b.active_id
        BY <4>4, <4>5
      <4>7. c.active_id \in Ids(c) /\ c.active_id \in Nat
        BY <4>1, <4>5, <4>6 DEF Ids, StripOk
      <4>8. KeepsStrict(tab_bar, c)
        BY <2>2 DEF KeepsStrict
      <4> QED BY <4>5, <4>6, <4>7, <4>8 DEF StripOk, HasActive
    <3>3. IsBar(Committed(address_bar))
      BY <1>1, MessagesFit DEF IInv, BarInv
    <3> HIDE DEF c
    <3> QED BY <3>1, <3>2, <3>3, SyncTabs
  <2> QED BY <2>1, <2>2
<1>17. CASE Reorder
  <2>1. PICK i, j \in DOMAIN tab_bar.tabs :
          tab_bar' = Reordered(tab_bar, i, j) /\ UNCHANGED <<mode, address_bar>>
    BY <1>17 DEF Reorder
  <2> QED BY <1>1, <2>1, ReorderedOk, QuietTabs
<1>18. CASE PointerTravels
  <2>1. mode' = mode /\ address_bar'.current_tab_id = address_bar.current_tab_id
    BY <1>1, <1>18, BarKeepsTab DEF PointerTravels
  <2>2. CASE tab_bar' = tab_bar
    BY <1>1, <2>1, <2>2, QuietTabs DEF TabsFrom
  <2>3. CASE tab_bar' # tab_bar
    <3>1. PICK i, j \in DOMAIN tab_bar.tabs : tab_bar' = Reordered(tab_bar, i, j)
      BY <1>18, <2>3 DEF PointerTravels
    <3> QED BY <1>1, <2>1, <3>1, ReorderedOk, QuietTabs
  <2> QED BY <2>2, <2>3
<1>19. CASE StripExited \/ StabilizeExpired \/ StrictCloseCancelled
  <2>1. /\ UNCHANGED <<mode, address_bar>>
        /\ \E g : tab_bar' \in {StripLeft(tab_bar), Unfrozen(tab_bar, g), Answered(tab_bar)}
    BY <1>19 DEF StripExited, StabilizeExpired, StrictCloseCancelled
  <2>2. /\ DOMAIN tab_bar' = StripFields /\ tab_bar'.tabs = tab_bar.tabs
        /\ tab_bar'.mode = tab_bar.mode /\ tab_bar'.active_id = tab_bar.active_id
    BY <1>1, <2>1 DEF StripLeft, Unfrozen, Answered, StripOk, StripFields
  <2> QED BY <1>1, <2>1, <2>2, MarksKeepTabs, QuietTabs
<1>20. CASE \/ Type \/ FocusGained \/ DismissConvertChip \/ BadgePressed \/ LookupReturns
            \/ GraceEnds \/ TabsGridPressed \/ CardMove \/ CardEscape \/ UNCHANGED vars
  <2>1. tab_bar' = tab_bar /\ mode' = mode
    BY <1>20 DEF Type, FocusGained, DismissConvertChip, BadgePressed, LookupReturns, GraceEnds,
         TabsGridPressed, CardMove, CardEscape, vars
  <2>2. address_bar'.current_tab_id = address_bar.current_tab_id
    BY <1>1, <1>20, BarKeepsTab DEF Type, FocusGained, DismissConvertChip, BadgePressed,
         LookupReturns, GraceEnds, TabsGridPressed, CardMove, CardEscape, vars
  <2> QED BY <1>1, <2>1, <2>2, QuietTabs DEF TabsFrom
<1> QED BY <1>5, <1>6, <1>7, <1>8, <1>9, <1>10, <1>11, <1>13, <1>14, <1>15, <1>16, <1>17,
           <1>18, <1>19, <1>20 DEF Next

\* However the active tab changes, by the strip, the sidebar, the card view, a close or a
\* commit, the address bar and the identity capsule are those of the tab that is active:
\* what the user types or dismisses is never another tab's (sync_active_tab_mode).
THEOREM BarAlwaysFollows == Spec => []BarFollowsActiveTab
<1>1. TabsInv => BarFollowsActiveTab
  BY DEF TabsInv, Follows, BarFollowsActiveTab
<1>2. IInv /\ TabsInv /\ [Next]_vars => TabsInv'
  BY TabsNext DEF TabsStep
<1> QED BY <1>1, <1>2, InvInit, InvNext, TabsInit, PTL DEF Spec

\* Whatever panel a message comes from, border, address bar, badge and new tab page show one
\* mode, the capsule shows it too unless the tab is a fresh one in a window still Strict, and
\* the badge's popover is never stuck open in Strict.
THEOREM ChromeAlwaysAgrees == Spec => []ChromeAgrees
<1>1. IInv /\ TabsInv => ChromeAgrees
  BY DEF IInv, BarInv, Agrees, TabsInv, CapsuleFits, FreshTabShown, ChromeAgrees
<1>2. IInv /\ TabsInv /\ [Next]_vars => TabsInv'
  BY TabsNext DEF TabsStep
<1> QED BY <1>1, <1>2, InvInit, InvNext, TabsInit, PTL DEF Spec

\* Every tab id is open once, and while there are tabs one of them is active: ids come
\* from NextId, and every close picks the neighbour that takes over.
StripKeepsTabs ==
  /\ \A i, j \in DOMAIN tab_bar.tabs : tab_bar.tabs[i].id = tab_bar.tabs[j].id => i = j
  /\ tab_bar.tabs # <<>> => HasActive(tab_bar)

\* No handler of the strip loses the active tab or opens an id twice, for every strip a
\* profile brings (TypeOK of BrowserShell has the same two conjuncts).
THEOREM StripAlwaysKeepsTabs == Spec => []StripKeepsTabs
<1>1. TabsInv => StripKeepsTabs
  BY DEF TabsInv, StripOk, StripKeepsTabs
<1>2. IInv /\ TabsInv /\ [Next]_vars => TabsInv'
  BY TabsNext DEF TabsStep
<1> QED BY <1>1, <1>2, InvInit, InvNext, TabsInit, PTL DEF Spec

\* The shell writes its mode into whatever tab is active, and still no step makes a Strict
\* tab Standard (architecture 3.6).
THEOREM NoWayBackHolds == Spec => NoWayBackToStandard
<1> DEFINE Holds == \A id \in Ids(tab_bar) :
                      id \in Ids(tab_bar') /\ TabOf(tab_bar, id).mode = "Strict"
                        => TabOf(tab_bar', id).mode = "Strict"
<1>1. IInv /\ TabsInv /\ [Next]_vars => TabsInv' /\ Holds
  <2> SUFFICES ASSUME IInv, TabsInv, [Next]_vars
               PROVE  TabsInv' /\ Holds
    OBVIOUS
  <2>1. StripOk(tab_bar) /\ StripOk(tab_bar') /\ KeepsStrict(tab_bar, tab_bar') /\ TabsInv'
    BY TabsNext DEF TabsStep, TabsInv
  <2> SUFFICES ASSUME NEW id \in Ids(tab_bar), id \in Ids(tab_bar'),
                      TabOf(tab_bar, id).mode = "Strict"
               PROVE  TabOf(tab_bar', id).mode = "Strict"
    BY <2>1
  <2>2. /\ Position(tab_bar, id) \in DOMAIN tab_bar.tabs
        /\ tab_bar.tabs[Position(tab_bar, id)].id = id
    BY <2>1, PositionIs
  <2>3. /\ Position(tab_bar', id) \in DOMAIN tab_bar'.tabs
        /\ tab_bar'.tabs[Position(tab_bar', id)].id = id
    BY <2>1, PositionIs
  <2> QED BY <2>1, <2>2, <2>3 DEF KeepsStrict, TabOf
<1>2. IInv /\ TabsInv /\ [Next]_vars => [Holds]_vars
  BY <1>1
<1> QED BY <1>1, <1>2, InvInit, InvNext, TabsInit, PTL DEF Spec, NoWayBackToStandard

-----------------------------------------------------------------------------
(* The window.                                                             *)

\* A movement of the pointer changes the tab bar by a swap of two slots, if at all.
LEMMA SwapIsReorder ==
  ASSUME NEW p
  PROVE  \/ Swapped(p) = tab_bar
         \/ \E i, j \in DOMAIN tab_bar.tabs : Swapped(p) = Reordered(tab_bar, i, j)
<1>1. \A id \in Ids(tab_bar) : Position(tab_bar, id) \in DOMAIN tab_bar.tabs
  BY DEF Ids, Position
<1> DEFINE from == SwapsWith(sidebar, p[2]) \cap Ids(tab_bar)
<1>2. CASE "PillEntered" \in Offers(p) /\ p[2] \in Ids(tab_bar) /\ from # {}
  <2> DEFINE d == CHOOSE x \in from : TRUE
  <2>1. d \in Ids(tab_bar)
    BY <1>2
  <2>2. Swapped(p) = Reordered(tab_bar, Position(tab_bar, d), Position(tab_bar, p[2]))
    BY <1>2 DEF Swapped
  <2> HIDE DEF d
  <2>3. QED
    BY <1>1, <1>2, <2>1, <2>2
<1>3. CASE ~("PillEntered" \in Offers(p) /\ p[2] \in Ids(tab_bar) /\ from # {})
  BY <1>3 DEF Swapped
<1>4. QED
  BY <1>2, <1>3

\* A move of the pointer leaves some regions and enters others.
LEMMA PointerSteps ==
  ASSUME NEW p, PointerMoves(p)
  PROVE  PointerTravels
<1>1. address_bar' \in Hover(address_bar)
  BY DEF PointerMoves, Hover, BarEntering, BarLeaving
<1>2. QED
  BY <1>1, SwapIsReorder DEF PointerMoves, PointerTravels

\* Every step of the window is a step of the shell or leaves it alone: what is proved of
\* the shell, whatever sends its messages, holds in the window.
THEOREM WindowImplementsShell == WindowSpec => Spec
<1>1. WindowInit => Init
  BY DEF WindowInit
<1>2. [WindowNext]_windowVars => [Next]_vars
  <2> SUFFICES ASSUME [WindowNext]_windowVars
               PROVE  [Next]_vars
    OBVIOUS
  <2>1. CASE \E p \in Places(tab_bar, address_bar, sidebar) : PointerMoves(p)
    BY <2>1, PointerSteps DEF Next
  <2>2. CASE PointerStirs \/ ReleaseOnGlass \/ ReleaseElsewhere \/ TooltipTimer
    BY <2>2 DEF PointerStirs, ReleaseOnGlass, ReleaseElsewhere, TooltipTimer
  <2>3. CASE Press
    <3>1. CASE Clickable
      BY <2>3, <3>1 DEF Press, vars
    <3>2. CASE ~Clickable
      BY <2>3, <3>2 DEF Press, Clickable, BadgePressed, BadgePopoverOffers, Next
    <3>3. QED
      BY <3>1, <3>2
  <2>4. CASE ReleaseOnPill
    BY <2>4 DEF ReleaseOnPill, SidebarActivate, Next
  <2>5. CASE ClickOnStrip \/ ClickElsewhere \/ ClickOnChip \/ KeyOrTimer
    BY <2>5 DEF ClickOnStrip, ClickElsewhere, ClickOnChip, KeyOrTimer, Next
  <2>6. CASE ClickOnSidebar
    BY <2>6 DEF ClickOnSidebar, SidebarClose, Next
  <2>7. CASE GraceTimer
    BY <2>7 DEF GraceTimer, Next
  <2>8. CASE UNCHANGED windowVars
    BY <2>8 DEF windowVars, vars
  <2>9. QED
    BY <2>1, <2>2, <2>3, <2>4, <2>5, <2>6, <2>7, <2>8 DEF WindowNext, WindowStep
<1>3. QED
  BY <1>1, <1>2, PTL DEF WindowSpec, Spec

-----------------------------------------------------------------------------
(* The drag.                                                               *)

SidebarFields ==
  {"drag_id", "dragging", "drag_hovered_id", "tooltip_pill_id", "tooltip_hide_pending"}

IsSidebar(s) == s = [f \in SidebarFields |-> s[f]] /\ s.dragging \in BOOLEAN

\* Only a pill that was pressed is dragged, and it stays pressed no longer than the button
\* unless nobody is told of the release.
DragInv ==
  /\ IsSidebar(sidebar)
  /\ held \in BOOLEAN /\ slipped \in BOOLEAN
  /\ sidebar.dragging => sidebar.drag_id # {}
  /\ sidebar.drag_id # {} => held \/ slipped

SameDrag(s, t) == s.drag_id = t.drag_id /\ (s.dragging <=> t.dragging)

\* What the messages of the sidebar do to the drag.
LEMMA SidebarMessages ==
  ASSUME NEW s, IsSidebar(s)
  PROVE  /\ \A id : IsSidebar(PillEntered(s, id)) /\ SameDrag(PillEntered(s, id), s)
         /\ IsSidebar(PillLeft(s)) /\ SameDrag(PillLeft(s), s)
         /\ IsSidebar(HideCommitted(s)) /\ SameDrag(HideCommitted(s), s)
         /\ IsSidebar(SidebarMoved(s)) /\ SidebarMoved(s).drag_id = s.drag_id
         /\ SidebarMoved(s).dragging <=> s.dragging \/ s.drag_id # {}
         /\ IsSidebar(Released(s)) /\ Released(s).drag_id = {} /\ ~Released(s).dragging
         /\ \A id : IsSidebar(PillPressed(s, id)) /\ ~PillPressed(s, id).dragging
<1> USE DEF IsSidebar, SidebarFields, SameDrag
<1>1. \A id : IsSidebar(PillEntered(s, id)) /\ SameDrag(PillEntered(s, id), s)
  BY DEF PillEntered
<1>2. IsSidebar(PillLeft(s)) /\ SameDrag(PillLeft(s), s)
  BY DEF PillLeft
<1>3. IsSidebar(HideCommitted(s)) /\ SameDrag(HideCommitted(s), s)
  BY DEF HideCommitted
<1>4. /\ IsSidebar(SidebarMoved(s)) /\ SidebarMoved(s).drag_id = s.drag_id
      /\ SidebarMoved(s).dragging <=> s.dragging \/ s.drag_id # {}
  BY DEF SidebarMoved
<1>5. IsSidebar(Released(s)) /\ Released(s).drag_id = {} /\ ~Released(s).dragging
  BY DEF Released
<1>6. \A id : IsSidebar(PillPressed(s, id)) /\ ~PillPressed(s, id).dragging
  BY DEF PillPressed
<1>7. QED
  BY <1>1, <1>2, <1>3, <1>4, <1>5, <1>6

\* The pointer makes a drag of a press, and nothing else.
LEMMA MoveKeepsDrag ==
  ASSUME DragInv, UNCHANGED <<held, slipped>>,
         IsSidebar(sidebar'), sidebar'.drag_id = sidebar.drag_id,
         sidebar'.dragging => sidebar.dragging \/ sidebar.drag_id # {}
  PROVE  DragInv'
  BY DEF DragInv

\* Regions that the pointer leaves and enters start no drag.
LEMMA TravelKeepsDrag ==
  ASSUME NEW s, IsSidebar(s), NEW p, NEW q
  PROVE  \A x \in {Moving(Entering(Leaving(s, q), p), p),
                    Moving(Leaving(Entering(s, p), q), p)} :
           /\ IsSidebar(x)
           /\ x.drag_id = s.drag_id
           /\ x.dragging => s.dragging \/ s.drag_id # {}
<1>1. \A x : IsSidebar(x) => IsSidebar(Leaving(x, q)) /\ SameDrag(Leaving(x, q), x)
  BY SidebarMessages DEF Leaving, SameDrag
<1>2. \A x : IsSidebar(x) => IsSidebar(Entering(x, p)) /\ SameDrag(Entering(x, p), x)
  <2> SUFFICES ASSUME NEW x, IsSidebar(x)
               PROVE  IsSidebar(Entering(x, p)) /\ SameDrag(Entering(x, p), x)
    OBVIOUS
  <2>1. \A id : IsSidebar(PillEntered(x, id)) /\ SameDrag(PillEntered(x, id), x)
    BY SidebarMessages
  <2>2. SameDrag(x, x)
    BY DEF SameDrag
  <2>3. QED
    BY <2>1, <2>2 DEF Entering
<1>3. \A x : IsSidebar(x) => /\ IsSidebar(Moving(x, p))
                             /\ Moving(x, p).drag_id = x.drag_id
                             /\ Moving(x, p).dragging => x.dragging \/ x.drag_id # {}
  BY SidebarMessages DEF Moving
<1>4. IsSidebar(Leaving(s, q)) /\ SameDrag(Leaving(s, q), s)
  BY <1>1
<1>5. IsSidebar(Entering(s, p)) /\ SameDrag(Entering(s, p), s)
  BY <1>2
<1> DEFINE x == Entering(Leaving(s, q), p)
           y == Leaving(Entering(s, p), q)
<1>6. IsSidebar(x) /\ SameDrag(x, s)
  BY <1>2, <1>4 DEF SameDrag
<1>7. IsSidebar(y) /\ SameDrag(y, s)
  BY <1>1, <1>5 DEF SameDrag
<1>8. /\ IsSidebar(Moving(x, p)) /\ Moving(x, p).drag_id = s.drag_id
      /\ Moving(x, p).dragging => s.dragging \/ s.drag_id # {}
  <2> HIDE DEF x
  <2>1. /\ IsSidebar(Moving(x, p)) /\ Moving(x, p).drag_id = x.drag_id
        /\ Moving(x, p).dragging => x.dragging \/ x.drag_id # {}
    BY <1>3, <1>6
  <2>2. QED
    BY <2>1, <1>6 DEF SameDrag
<1>9. /\ IsSidebar(Moving(y, p)) /\ Moving(y, p).drag_id = s.drag_id
      /\ Moving(y, p).dragging => s.dragging \/ s.drag_id # {}
  <2> HIDE DEF y
  <2>1. /\ IsSidebar(Moving(y, p)) /\ Moving(y, p).drag_id = y.drag_id
        /\ Moving(y, p).dragging => y.dragging \/ y.drag_id # {}
    BY <1>3, <1>7
  <2>2. QED
    BY <2>1, <1>7 DEF SameDrag
<1>10. QED
  BY <1>8, <1>9

\* Nothing is dragged at the start.
LEMMA DragInit == WindowInit => DragInv
<1>1. IsSidebar(NewSidebar) /\ NewSidebar.drag_id = {} /\ ~NewSidebar.dragging
  BY DEF NewSidebar, IsSidebar, SidebarFields
<1>2. QED
  BY <1>1 DEF WindowInit, DragInv

\* Every event of the window keeps the identity of what is dragged.
LEMMA DragNext == DragInv /\ [WindowNext]_windowVars => DragInv'
<1> SUFFICES ASSUME DragInv, [WindowNext]_windowVars
             PROVE  DragInv'
  OBVIOUS
<1>1. IsSidebar(sidebar)
  BY DEF DragInv
<1>2. CASE \E p \in Places(tab_bar, address_bar, sidebar) : PointerMoves(p)
  <2>1. PICK p : PointerMoves(p)
    BY <1>2
  <2> DEFINE there == {Moving(Entering(Leaving(sidebar, pointer), p), p),
                       Moving(Leaving(Entering(sidebar, p), pointer), p)}
  <2>2. sidebar' \in there /\ UNCHANGED <<held, slipped>>
    BY <2>1 DEF PointerMoves
  <2>3. \A x \in there : /\ IsSidebar(x)
                         /\ x.drag_id = sidebar.drag_id
                         /\ x.dragging => sidebar.dragging \/ sidebar.drag_id # {}
    BY <1>1, TravelKeepsDrag
  <2> HIDE DEF there
  <2>4. /\ IsSidebar(sidebar')
        /\ sidebar'.drag_id = sidebar.drag_id
        /\ sidebar'.dragging => sidebar.dragging \/ sidebar.drag_id # {}
    BY <2>3, <2>2
  <2>5. QED
    BY <2>2, <2>4, MoveKeepsDrag
<1>3. CASE PointerStirs
  BY <1>1, <1>3, SidebarMessages, MoveKeepsDrag DEF PointerStirs, Moving
<1>4. CASE Press
  <2>1. held' = TRUE /\ slipped' = FALSE
    BY <1>4 DEF Press
  <2>2. \/ sidebar' = sidebar
        \/ sidebar' = PillPressed(sidebar, pointer[2])
    BY <1>4 DEF Press
  <2>3. CASE sidebar' = sidebar
    BY <2>1, <2>3 DEF DragInv
  <2>4. CASE sidebar' = PillPressed(sidebar, pointer[2])
    BY <1>1, <2>1, <2>4, SidebarMessages DEF DragInv
  <2>5. QED
    BY <2>2, <2>3, <2>4
<1>5. CASE ReleaseOnPill \/ ReleaseOnGlass
  BY <1>1, <1>5, SidebarMessages DEF ReleaseOnPill, ReleaseOnGlass, DragInv
<1>6. CASE ReleaseElsewhere
  <2>1. PICK taken \in BOOLEAN :
          /\ sidebar' = IF sidebar.dragging /\ ~taken THEN DragEnded(sidebar) ELSE sidebar
          /\ slipped' = (sidebar.drag_id # {} /\ ~(sidebar.dragging /\ ~taken))
    BY <1>6 DEF ReleaseElsewhere
  <2>2. held' = FALSE
    BY <1>6 DEF ReleaseElsewhere
  <2>3. CASE sidebar.dragging /\ ~taken
    BY <1>1, <2>1, <2>2, <2>3, SidebarMessages DEF DragEnded, DragInv
  <2>4. CASE ~(sidebar.dragging /\ ~taken)
    BY <2>1, <2>2, <2>4 DEF DragInv
  <2>5. QED
    BY <2>3, <2>4
<1>7. CASE TooltipTimer
  BY <1>1, <1>7, SidebarMessages, MoveKeepsDrag DEF TooltipTimer, SameDrag
<1>8. CASE \/ ClickOnStrip \/ ClickElsewhere \/ ClickOnChip \/ ClickOnSidebar
           \/ KeyOrTimer \/ GraceTimer \/ UNCHANGED windowVars
  <2>1. UNCHANGED <<sidebar, held, slipped>>
    BY <1>8 DEF ClickOnStrip, ClickElsewhere, ClickOnChip, ClickOnSidebar, KeyOrTimer,
       GraceTimer, Still, windowVars, pointerVars
  <2>2. QED
    BY <2>1 DEF DragInv
<1>9. QED
  BY <1>2, <1>3, <1>4, <1>5, <1>6, <1>7, <1>8 DEF WindowNext, WindowStep

\* A release that the shell or the sidebar hears of ends the drag: with the button up a tab is
\* dragged only after a release that another widget took or that happened outside the sidebar
\* before the first move.
THEOREM DragAlwaysNeedsButton == WindowSpec => []DragNeedsButton
<1>1. DragInv => DragNeedsButton
  BY DEF DragInv, DragNeedsButton
<1>2. QED
  BY <1>1, DragInit, DragNext, PTL DEF WindowSpec

-----------------------------------------------------------------------------
(* The tooltip and the card.                                               *)

\* A tooltip is under the pointer, or the timer that takes it away runs, or its tab has
\* been closed under it.
TipInv ==
  /\ hides \in Nat
  /\ \A id \in sidebar.tooltip_pill_id :
       \/ pointer \in {Pill(id), Tooltip(id)}
       \/ sidebar.tooltip_hide_pending /\ hides > 0
       \/ ghost
  /\ ghost \/ sidebar.tooltip_pill_id \subseteq Ids(tab_bar)

\* The three reasons for the card to be there, each with what ends it.
CardFits(a, p, n) ==
  ShowsChip(a) =>
    /\ a.chip_hovered => p = Chip
    /\ a.popup_hovered => p = Popup
    /\ a.grace => n > 0

CardInv == graces \in Nat /\ CardFits(address_bar, pointer, graces)

\* The bar b has no more reasons for the card than the bar a.
CardLess(a, b) ==
  ShowsChip(b) =>
    /\ b.chip_hovered => ShowsChip(a) /\ a.chip_hovered
    /\ b.popup_hovered => ShowsChip(a) /\ a.popup_hovered
    /\ b.grace => ShowsChip(a) /\ a.grace

\* Every open tab has a pill.
LEMMA PillsAreTabs ==
  ASSUME NEW b, StripOk(b)
  PROVE  /\ Pills(b, "Standard") \cup Pills(b, "Strict") = Ids(b)
         /\ \A s : TooltipFor(s, b) = s.tooltip_pill_id \cap Ids(b)
<1>1. \A x \in Tab : x.mode \in {"Standard", "Strict"}
  BY DEF Tab, Mode
<1>2. \A i \in DOMAIN b.tabs : b.tabs[i].mode \in {"Standard", "Strict"}
  BY <1>1, TabIs DEF StripOk
<1>3. Pills(b, "Standard") \cup Pills(b, "Strict") = Ids(b)
  BY <1>2 DEF Pills, Ids
<1> QED BY <1>3 DEF TooltipFor

\* After a step under a pointer that has not moved, the tooltip still has its reason.
LEMMA SettledKeepsTip ==
  ASSUME TipInv, Settled, hides' \in Nat, StripOk(tab_bar'),
         \/ /\ sidebar'.tooltip_pill_id = sidebar.tooltip_pill_id
            /\ sidebar'.tooltip_hide_pending = sidebar.tooltip_hide_pending
            /\ hides' = hides \/ ~sidebar.tooltip_hide_pending
         \/ sidebar'.tooltip_pill_id = {}
  PROVE  TipInv'
<1>1. CASE sidebar'.tooltip_pill_id = {}
  BY <1>1 DEF TipInv
<1>2. ASSUME sidebar'.tooltip_pill_id = sidebar.tooltip_pill_id,
             sidebar'.tooltip_hide_pending = sidebar.tooltip_hide_pending,
             hides' = hides \/ ~sidebar.tooltip_hide_pending,
             sidebar'.tooltip_pill_id # {}
      PROVE  TipInv'
  <2>1. ghost' = (ghost \/ ~(sidebar.tooltip_pill_id \subseteq Ids(tab_bar')))
    BY <1>2 DEF Settled
  <2>2. ASSUME NEW id \in sidebar.tooltip_pill_id, ~ghost',
               ~(sidebar.tooltip_hide_pending /\ hides > 0)
        PROVE  pointer' \in {Pill(id), Tooltip(id)}
    <3>1. pointer \in {Pill(id), Tooltip(id)} /\ id \in Ids(tab_bar')
      BY <2>1, <2>2 DEF TipInv
    <3>2. id \in TooltipFor(sidebar', tab_bar')
      BY <1>2, <3>1, PillsAreTabs
    <3>3. pointer \in Places(tab_bar', address_bar', sidebar')
      BY <3>1, <3>2 DEF Places
    <3> QED BY <3>1, <3>3 DEF Settled
  <2> QED BY <1>2, <2>1, <2>2 DEF TipInv
<1> QED BY <1>1, <1>2

\* After a step under a pointer that has not moved, the card still has its reason.
LEMMA SettledKeepsCard ==
  ASSUME CardInv, Settled, CardLess(address_bar, address_bar'), graces' \in Nat,
         graces' = graces \/ ~address_bar'.grace
  PROVE  CardInv'
<1> SUFFICES ASSUME ShowsChip(address_bar')
             PROVE  /\ address_bar'.chip_hovered => pointer' = Chip
                    /\ address_bar'.popup_hovered => pointer' = Popup
                    /\ address_bar'.grace => graces' > 0
  BY DEF CardInv, CardFits
<1>1. ASSUME address_bar'.chip_hovered PROVE pointer' = Chip
  <2>1. pointer = Chip
    BY <1>1 DEF CardLess, CardInv, CardFits
  <2>2. Chip \in Places(tab_bar', address_bar', sidebar')
    BY DEF Places, ChipOffers
  <2> QED BY <2>1, <2>2 DEF Settled
<1>2. ASSUME address_bar'.popup_hovered PROVE pointer' = Popup
  <2>1. pointer = Popup
    BY <1>2 DEF CardLess, CardInv, CardFits
  <2>2. Popup \in Places(tab_bar', address_bar', sidebar')
    BY <1>2 DEF Places, StrictPopupOffers
  <2> QED BY <2>1, <2>2 DEF Settled
<1>3. address_bar'.grace => graces' > 0
  BY DEF CardLess, CardInv, CardFits
<1> QED BY <1>1, <1>2, <1>3

\* sync_mode closes the card, and so does every reset; no message but those of the pointer
\* makes a reason for it.
NoCard(b) == ~b.chip_hovered /\ ~b.popup_hovered /\ ~b.grace

LEMMA MessagesOpenNoCard ==
  ASSUME NEW a, IsBar(a)
  PROVE  /\ \A id, u, m : NoCard(ResetForTab(a, id, u, m))
         /\ \A m : NoCard(BarModeSynced(a, m))
         /\ \A id : CardLess(a, Forgotten(a, id))
         /\ \A x : CardLess(a, Typed(a, x))
         /\ CardLess(a, LookedUp(a)) /\ CardLess(a, Focused(a)) /\ CardLess(a, Committed(a))
         /\ CardLess(a, ChipDismissed(a)) /\ CardLess(a, PopoverToggled(a))
         /\ CardLess(a, GraceEnded(a)) /\ ~GraceEnded(a).grace
<1> USE DEF IsBar, Fields, ShowsChip
<1>1. \A m : NoCard(BarModeSynced(a, m))
  BY DEF NoCard, BarModeSynced, BadgeSynced
<1>2. ASSUME NEW id, NEW u, NEW m PROVE NoCard(ResetForTab(a, id, u, m))
  BY DEF NoCard, ResetForTab, InputCleared, BarModeSynced, BadgeSynced
<1>3. \A id : CardLess(a, Forgotten(a, id))
  BY DEF CardLess, Forgotten
<1>4. \A x : CardLess(a, Typed(a, x))
  BY DEF CardLess, Typed
<1>5. CardLess(a, LookedUp(a)) /\ CardLess(a, Focused(a)) /\ CardLess(a, PopoverToggled(a))
  BY DEF CardLess, LookedUp, Focused, PopoverToggled
<1>6. CardLess(a, Committed(a)) /\ CardLess(a, ChipDismissed(a))
  BY DEF CardLess, Committed, InputCleared, ChipDismissed
<1>7. CardLess(a, GraceEnded(a)) /\ ~GraceEnded(a).grace
  BY DEF CardLess, GraceEnded
<1> QED BY <1>1, <1>2, <1>3, <1>4, <1>5, <1>6, <1>7

\* The messages of the shell that the pointer does not send.
Message ==
  \/ StripActivate \/ StripClose \/ StripExited \/ StabilizeExpired
  \/ NewTabPressed \/ StrictCloseConfirmed \/ StrictCloseCancelled
  \/ TabsGridPressed \/ Reorder \/ SidebarNewTab
  \/ \E id \in Ids(tab_bar) : SidebarActivate(id) \/ SidebarClose(id)
  \/ CardMove \/ CardEnter \/ CardClose \/ CardEscape
  \/ Type \/ FocusGained \/ NavigatePressed \/ ConvertToStrict
  \/ DismissConvertChip \/ BadgePressed \/ LookupReturns

\* None of them makes the card appear or stay.
LEMMA MessageIsLess ==
  ASSUME IInv, Message
  PROVE  CardLess(address_bar, address_bar')
<1>1. IsBar(address_bar) /\ BarInv(address_bar, mode)
  BY DEF IInv, BarInv
<1>2. \A a, b : NoCard(b) => CardLess(a, b)
  BY DEF NoCard, CardLess
<1>3. \A a : CardLess(a, a)
  BY DEF CardLess
<1>4. ASSUME NEW b, NEW a, IsBar(a), SyncActiveTab(b, a) \/ Home(b, a)
      PROVE  CardLess(address_bar, address_bar')
  BY <1>2, <1>4, MessagesOpenNoCard DEF SyncActiveTab, Home
<1>5. ASSUME NEW b, NEW a, IsBar(a), CardLess(address_bar, a), SyncIfAnyTab(b, a)
      PROVE  CardLess(address_bar, address_bar')
  BY <1>4, <1>5 DEF SyncIfAnyTab
<1>6. /\ \A id : IsBar(Forgotten(address_bar, id)) /\ CardLess(address_bar, Forgotten(address_bar, id))
      /\ IsBar(Committed(address_bar))
      /\ \A id, u, m : IsBar(ResetForTab(address_bar, id, u, m))
                       /\ CardLess(address_bar, ResetForTab(address_bar, id, u, m))
  BY <1>1, <1>2, MessagesFit, MessagesOpenNoCard, ResetFits DEF BarInv
<1>7. CASE StripActivate
  BY <1>1, <1>3, <1>4, <1>7 DEF StripActivate
<1>8. CASE StripClose
  <2>1. PICK id \in Ids(tab_bar) :
          LET b == Closed(tab_bar, id, TRUE)
          IN  \/ Home(b, address_bar)
              \/ SyncActiveTab(b, Forgotten(address_bar, id))
              \/ UNCHANGED <<mode, address_bar, new_tab>>
    BY <1>8 DEF StripClose
  <2> QED BY <1>1, <1>3, <1>4, <1>6, <2>1
<1>9. CASE NewTabPressed
  BY <1>4, <1>6, <1>9 DEF NewTabPressed
<1>10. CASE StrictCloseConfirmed
  <2>1. PICK id \in tab_bar.modal :
          LET b == Closed(Answered(tab_bar), id, FALSE)
          IN  \/ Home(b, address_bar)
              \/ SyncIfAnyTab(b, Forgotten(address_bar, id))
    BY <1>10 DEF StrictCloseConfirmed
  <2> QED BY <1>1, <1>4, <1>5, <1>6, <2>1
<1>11. CASE SidebarNewTab
  BY <1>6, <1>11 DEF SidebarNewTab
<1>12. CASE \E id \in Ids(tab_bar) : SidebarActivate(id) \/ SidebarClose(id)
  BY <1>1, <1>3, <1>4, <1>12 DEF SidebarActivate, SidebarClose
<1>13. CASE CardEnter
  BY <1>1, <1>4, <1>13 DEF CardEnter
<1>14. CASE CardClose
  BY <1>1, <1>3, <1>5, <1>14 DEF CardClose
<1>15. CASE NavigatePressed
  BY <1>1, <1>4, <1>6, <1>15, MessagesOpenNoCard DEF NavigatePressed
<1>16. CASE ConvertToStrict
  BY <1>1, <1>2, <1>16, MessagesOpenNoCard DEF ConvertToStrict
<1>17. CASE Type \/ FocusGained \/ DismissConvertChip \/ BadgePressed \/ LookupReturns
  BY <1>1, <1>17, MessagesOpenNoCard DEF Type, FocusGained, DismissConvertChip, BadgePressed,
     LookupReturns
<1>18. CASE \/ StripExited \/ StabilizeExpired \/ StrictCloseCancelled \/ TabsGridPressed
            \/ Reorder \/ CardMove \/ CardEscape
  BY <1>3, <1>18 DEF StripExited, StabilizeExpired, StrictCloseCancelled, TabsGridPressed,
     Reorder, CardMove, CardEscape
<1> QED BY <1>7, <1>8, <1>9, <1>10, <1>11, <1>12, <1>13, <1>14, <1>15, <1>16, <1>17, <1>18
        DEF Message

\* What the chip and its card know of the pointer, after each event they are told.
LEMMA PlacesTellTheBar ==
  ASSUME NEW a, IsBar(a), NEW p
  PROVE  /\ IsBar(BarEntering(a, p)) /\ IsBar(BarLeaving(a, p))
         /\ ShowsChip(BarEntering(a, p)) <=> ShowsChip(a)
         /\ ShowsChip(BarLeaving(a, p)) <=> ShowsChip(a)
         /\ BarEntering(a, p).chip_hovered <=> a.chip_hovered \/ p = Chip
         /\ BarLeaving(a, p).chip_hovered <=> a.chip_hovered /\ p # Chip
         /\ BarEntering(a, p).popup_hovered <=> a.popup_hovered \/ p = Popup
         /\ BarLeaving(a, p).popup_hovered <=> a.popup_hovered /\ p # Popup
         /\ BarEntering(a, p).grace <=> a.grace /\ p # Popup
         /\ BarLeaving(a, p).grace <=> a.grace \/ p = Chip
<1> USE DEF IsBar, Fields, ShowsChip, BarEntering, BarLeaving, ChipEntered, ChipExited,
            PopupEntered, PopupExited
<1>1. Chip # Popup
  BY DEF Chip, Popup
<1>2. CASE p = Chip
  BY <1>1, <1>2
<1>3. CASE p = Popup
  BY <1>1, <1>3
<1>4. CASE p # Chip /\ p # Popup
  BY <1>4
<1> QED BY <1>2, <1>3, <1>4

\* The pointer leaves one place and enters another: the chip and its card hear of it.
LEMMA TravelKeepsCard ==
  ASSUME IInv, CardInv, NEW p \in Places(tab_bar, address_bar, sidebar), PointerMoves(p)
  PROVE  CardInv'
<1>1. IsBar(address_bar)
  BY DEF IInv, BarInv
<1> DEFINE a == address_bar
<1>2. address_bar' \in {BarEntering(BarLeaving(a, pointer), p), BarLeaving(BarEntering(a, p), pointer)}
  BY DEF PointerMoves
<1>3. /\ ShowsChip(address_bar') => ShowsChip(a)
      /\ address_bar'.chip_hovered => p = Chip \/ (a.chip_hovered /\ pointer # Chip)
      /\ address_bar'.popup_hovered => p = Popup \/ (a.popup_hovered /\ pointer # Popup)
      /\ address_bar'.grace => a.grace \/ pointer = Chip
      /\ p = Popup => address_bar'.popup_hovered
  <2>1. p # pointer
    BY DEF PointerMoves
  <2> HIDE DEF a
  <2>2. CASE address_bar' = BarEntering(BarLeaving(a, pointer), p)
    BY <1>1, <2>1, <2>2, PlacesTellTheBar DEF a
  <2>3. CASE address_bar' = BarLeaving(BarEntering(a, p), pointer)
    BY <1>1, <2>1, <2>3, PlacesTellTheBar DEF a
  <2> QED BY <1>2, <2>2, <2>3
<1>4. graces' \in Nat /\ (pointer = Chip => graces' > 0) /\ (graces > 0 => graces' > 0)
  BY DEF CardInv, PointerMoves
<1> SUFFICES ASSUME ShowsChip(address_bar')
             PROVE  /\ address_bar'.chip_hovered => pointer' = Chip
                    /\ address_bar'.popup_hovered => pointer' = Popup
                    /\ address_bar'.grace => graces' > 0
  BY <1>4 DEF CardInv, CardFits
<1>5. p = Chip => p \in Places(tab_bar', address_bar', sidebar')
  BY DEF Places, ChipOffers
<1>6. p = Popup => p \in Places(tab_bar', address_bar', sidebar')
  BY <1>3 DEF Places, StrictPopupOffers
<1>7. p \in Places(tab_bar', address_bar', sidebar') => pointer' = p
  BY DEF PointerMoves
<1> QED BY <1>3, <1>4, <1>5, <1>6, <1>7 DEF CardInv, CardFits

\* What the sidebar knows of the pointer, after each event it is told.
LEMMA PlacesTellTheSidebar ==
  \A s, p : IsSidebar(s) =>
    /\ IsSidebar(Entering(s, p)) /\ IsSidebar(Leaving(s, p)) /\ IsSidebar(Moving(s, p))
    /\ "PillEntered" \in Offers(p) => /\ Entering(s, p).tooltip_pill_id = {p[2]}
                                      /\ Entering(s, p).tooltip_hide_pending = FALSE
    /\ "PillEntered" \notin Offers(p) => Entering(s, p) = s
    /\ "PillLeft" \in Offers(p) => Leaving(s, p).tooltip_hide_pending = TRUE
    /\ "PillLeft" \notin Offers(p) => Leaving(s, p) = s
    /\ Leaving(s, p).tooltip_pill_id = s.tooltip_pill_id
    /\ Moving(s, p).tooltip_pill_id = s.tooltip_pill_id
    /\ Moving(s, p).tooltip_hide_pending = s.tooltip_hide_pending
<1> SUFFICES ASSUME NEW s, NEW p, IsSidebar(s)
             PROVE  /\ IsSidebar(Entering(s, p)) /\ IsSidebar(Leaving(s, p)) /\ IsSidebar(Moving(s, p))
                    /\ "PillEntered" \in Offers(p) =>
                         /\ Entering(s, p).tooltip_pill_id = {p[2]}
                         /\ Entering(s, p).tooltip_hide_pending = FALSE
                    /\ "PillEntered" \notin Offers(p) => Entering(s, p) = s
                    /\ "PillLeft" \in Offers(p) => Leaving(s, p).tooltip_hide_pending = TRUE
                    /\ "PillLeft" \notin Offers(p) => Leaving(s, p) = s
                    /\ Leaving(s, p).tooltip_pill_id = s.tooltip_pill_id
                    /\ Moving(s, p).tooltip_pill_id = s.tooltip_pill_id
                    /\ Moving(s, p).tooltip_hide_pending = s.tooltip_hide_pending
  OBVIOUS
<1>1. \A id : /\ PillEntered(s, id).tooltip_pill_id = {id}
               /\ PillEntered(s, id).tooltip_hide_pending = FALSE
  BY DEF IsSidebar, SidebarFields, PillEntered
<1>2. PillLeft(s).tooltip_pill_id = s.tooltip_pill_id /\ PillLeft(s).tooltip_hide_pending = TRUE
  BY DEF IsSidebar, SidebarFields, PillLeft
<1>3. /\ SidebarMoved(s).tooltip_pill_id = s.tooltip_pill_id
      /\ SidebarMoved(s).tooltip_hide_pending = s.tooltip_hide_pending
  BY DEF IsSidebar, SidebarFields, SidebarMoved
<1>4. /\ \A id : IsSidebar(PillEntered(s, id))
      /\ IsSidebar(PillLeft(s)) /\ IsSidebar(SidebarMoved(s))
  BY SidebarMessages
<1> QED BY <1>1, <1>2, <1>3, <1>4 DEF Entering, Leaving, Moving

\* The places at which a tooltip is shown or kept.
LEMMA PillPlaces ==
  ASSUME StripOk(tab_bar)
  PROVE  /\ \A p \in Places(tab_bar, address_bar, sidebar) : "PillEntered" \in Offers(p)
              => \E id \in Ids(tab_bar) : p \in {Pill(id), Tooltip(id)} /\ p[2] = id
         /\ \A id : \A p \in {Pill(id), Tooltip(id)} :
              "PillEntered" \in Offers(p) /\ "PillLeft" \in Offers(p)
<1>1. \A id : \A p \in {Pill(id), Tooltip(id)} : p[2] = id
  BY DEF Pill, Tooltip
<1>2. \A id : \A p \in {Pill(id), Tooltip(id)} :
        "PillEntered" \in Offers(p) /\ "PillLeft" \in Offers(p)
  <2>1. ASSUME NEW p, p[1] = "pill" \/ p[1] = "tooltip"
        PROVE  Offers(p) \in {PillOffers, TooltipOffers}
    <3>1. CASE p[1] = "pill"
      BY <3>1 DEF Offers, Chip, Popup
    <3>2. CASE p[1] = "tooltip"
      BY <3>2 DEF Offers, Chip, Popup
    <3> QED BY <2>1, <3>1, <3>2
  <2>2. \A id : \A p \in {Pill(id), Tooltip(id)} : p[1] = "pill" \/ p[1] = "tooltip"
    BY DEF Pill, Tooltip
  <2>3. \A o \in {PillOffers, TooltipOffers} : "PillEntered" \in o /\ "PillLeft" \in o
    BY DEF PillOffers, TooltipOffers
  <2> QED BY <2>1, <2>2, <2>3
<1>3. \A p \in {Away, Glass, Chip, Popup} : "PillEntered" \notin Offers(p)
  BY DEF Away, Glass, Chip, Popup, Offers, GlassOffers, ChipOffers, StrictPopupOffers
<1>4. \A p \in Places(tab_bar, address_bar, sidebar) :
        \/ p \in {Away, Glass, Chip, Popup}
        \/ \E id \in Ids(tab_bar) : p \in {Pill(id), Tooltip(id)}
  BY PillsAreTabs DEF Places
<1> QED BY <1>1, <1>2, <1>3, <1>4

\* The pointer leaves one place and enters another: the sidebar hears of it.
LEMMA TravelKeepsTip ==
  ASSUME TipInv, IsSidebar(sidebar), StripOk(tab_bar),
         NEW p \in Places(tab_bar, address_bar, sidebar), PointerMoves(p)
  PROVE  TipInv'
<1>1. StripOk(tab_bar') /\ Ids(tab_bar') = Ids(tab_bar)
  BY SwapIsReorder, ReorderedOk DEF PointerMoves
<1>2. hides' \in Nat /\ (hides > 0 => hides' > 0) /\ ("PillLeft" \in Offers(pointer) => hides' > 0)
  BY DEF TipInv, PointerMoves
<1>3. ghost' <=> ghost /\ sidebar'.tooltip_pill_id = sidebar.tooltip_pill_id
  BY DEF PointerMoves
<1>4. \/ sidebar' = Moving(Entering(Leaving(sidebar, pointer), p), p)
      \/ sidebar' = Moving(Leaving(Entering(sidebar, p), pointer), p)
  BY DEF PointerMoves
<1>5. ASSUME "PillEntered" \in Offers(p) PROVE TipInv'
  <2>1. PICK id \in Ids(tab_bar) : p \in {Pill(id), Tooltip(id)} /\ p[2] = id
    BY <1>5, PillPlaces
  <2>2. /\ sidebar'.tooltip_pill_id = {id}
        /\ sidebar'.tooltip_hide_pending = FALSE \/ "PillLeft" \in Offers(pointer)
    <3>1. CASE sidebar' = Moving(Entering(Leaving(sidebar, pointer), p), p)
      <4> DEFINE s == Leaving(sidebar, pointer)
                 t == Entering(s, p)
      <4>1. IsSidebar(s)
        BY PlacesTellTheSidebar
      <4> HIDE DEF s
      <4>2. IsSidebar(t) /\ t.tooltip_pill_id = {id} /\ t.tooltip_hide_pending = FALSE
        BY <1>5, <2>1, <4>1, PlacesTellTheSidebar
      <4>3. sidebar' = Moving(t, p)
        BY <3>1 DEF s
      <4> HIDE DEF t
      <4> QED BY <4>2, <4>3, PlacesTellTheSidebar
    <3>2. CASE sidebar' = Moving(Leaving(Entering(sidebar, p), pointer), p)
      <4> DEFINE s == Entering(sidebar, p)
                 t == Leaving(s, pointer)
      <4>1. IsSidebar(s) /\ s.tooltip_pill_id = {id} /\ s.tooltip_hide_pending = FALSE
        BY <1>5, <2>1, PlacesTellTheSidebar
      <4> HIDE DEF s
      <4>2. /\ IsSidebar(t) /\ t.tooltip_pill_id = {id}
            /\ t.tooltip_hide_pending = FALSE \/ "PillLeft" \in Offers(pointer)
        BY <4>1, PlacesTellTheSidebar
      <4>3. sidebar' = Moving(t, p)
        BY <3>2 DEF s
      <4> HIDE DEF t
      <4> QED BY <4>2, <4>3, PlacesTellTheSidebar
    <3> QED BY <1>4, <3>1, <3>2
  <2>3. p \in Places(tab_bar', address_bar', sidebar')
    <3>1. id \in TooltipFor(sidebar', tab_bar')
      BY <1>1, <2>2, PillsAreTabs
    <3> QED BY <1>1, <2>1, <3>1 DEF Places
  <2>4. pointer' = p
    BY <2>3 DEF PointerMoves
  <2> QED BY <1>1, <1>2, <2>1, <2>2, <2>4 DEF TipInv
<1>6. ASSUME "PillEntered" \notin Offers(p) PROVE TipInv'
  <2>1. /\ sidebar'.tooltip_pill_id = sidebar.tooltip_pill_id
        /\ "PillLeft" \in Offers(pointer) => sidebar'.tooltip_hide_pending = TRUE
        /\ "PillLeft" \notin Offers(pointer)
             => sidebar'.tooltip_hide_pending = sidebar.tooltip_hide_pending
    <3> DEFINE t == Leaving(sidebar, pointer)
    <3>1. IsSidebar(t)
      BY PlacesTellTheSidebar
    <3>2. sidebar' = Moving(t, p)
      BY <1>4, <1>6, <3>1, PlacesTellTheSidebar
    <3>3. /\ t.tooltip_pill_id = sidebar.tooltip_pill_id
          /\ "PillLeft" \in Offers(pointer) => t.tooltip_hide_pending = TRUE
          /\ "PillLeft" \notin Offers(pointer)
               => t.tooltip_hide_pending = sidebar.tooltip_hide_pending
      BY PlacesTellTheSidebar
    <3> HIDE DEF t
    <3> QED BY <3>1, <3>2, <3>3, PlacesTellTheSidebar
  <2>2. ASSUME NEW id \in sidebar.tooltip_pill_id, ~ghost
        PROVE  sidebar'.tooltip_hide_pending /\ hides' > 0
    <3>1. CASE "PillLeft" \in Offers(pointer)
      BY <1>2, <2>1, <3>1
    <3>2. CASE "PillLeft" \notin Offers(pointer)
      BY <1>2, <2>1, <2>2, <3>2, PillPlaces DEF TipInv
    <3> QED BY <3>1, <3>2
  <2> QED BY <1>1, <1>2, <1>3, <2>1, <2>2 DEF TipInv
<1> QED BY <1>5, <1>6

\* Nothing hovers over the window at the start.
LEMMA OverlaysInit == WindowInit => TipInv /\ CardInv
<1> SUFFICES ASSUME WindowInit
             PROVE  TipInv /\ CardInv
  OBVIOUS
<1>1. NoCard(address_bar)
  BY NewBarFits, MessagesOpenNoCard DEF WindowInit, Init, BarInv
<1> QED BY <1>1 DEF WindowInit, TipInv, CardInv, CardFits, NoCard, NewSidebar

\* Every event of the window keeps the reasons for its overlays, wherever the pointer is.
LEMMA OverlaysNext ==
  IInv /\ TabsInv /\ TabsInv' /\ DragInv /\ TipInv /\ CardInv /\ [WindowNext]_windowVars
    => TipInv' /\ CardInv'
<1> SUFFICES ASSUME IInv, TabsInv, TabsInv', DragInv, TipInv, CardInv, [WindowNext]_windowVars
             PROVE  TipInv' /\ CardInv'
  OBVIOUS
<1>1. /\ IsSidebar(sidebar) /\ StripOk(tab_bar) /\ StripOk(tab_bar')
      /\ hides \in Nat /\ graces \in Nat /\ IsBar(address_bar)
  BY DEF DragInv, TabsInv, TipInv, CardInv, IInv, BarInv
<1>2. ASSUME address_bar' = address_bar \/ Message
      PROVE  CardLess(address_bar, address_bar')
  BY <1>2, MessageIsLess DEF CardLess
<1> DEFINE Quiet == /\ sidebar'.tooltip_pill_id = sidebar.tooltip_pill_id
                    /\ sidebar'.tooltip_hide_pending = sidebar.tooltip_hide_pending
<1>3. /\ \A id : /\ PillPressed(sidebar, id).tooltip_pill_id = sidebar.tooltip_pill_id
                 /\ PillPressed(sidebar, id).tooltip_hide_pending = sidebar.tooltip_hide_pending
      /\ \A s \in {Released(sidebar), SidebarMoved(sidebar)} :
           /\ s.tooltip_pill_id = sidebar.tooltip_pill_id
           /\ s.tooltip_hide_pending = sidebar.tooltip_hide_pending
      /\ \/ sidebar.tooltip_hide_pending /\ HideCommitted(sidebar).tooltip_pill_id = {}
         \/ ~sidebar.tooltip_hide_pending /\ HideCommitted(sidebar) = sidebar
  BY <1>1 DEF IsSidebar, SidebarFields, PillPressed, Released, SidebarMoved, HideCommitted
<1>4. CASE \E p \in Places(tab_bar, address_bar, sidebar) : PointerMoves(p)
  BY <1>1, <1>4, TravelKeepsTip, TravelKeepsCard
<1>5. CASE PointerStirs \/ ReleaseOnGlass \/ ReleaseElsewhere
  <2>1. UNCHANGED <<tab_bar, address_bar, pointer, hides, graces, ghost>>
    BY <1>5 DEF PointerStirs, ReleaseOnGlass, ReleaseElsewhere, vars
  <2>2. Quiet
    BY <1>3, <1>5 DEF PointerStirs, ReleaseOnGlass, ReleaseElsewhere, Moving, DragEnded
  <2> QED BY <2>1, <2>2 DEF TipInv, CardInv
<1>6. CASE Press
  <2>1. Settled /\ hides' = hides /\ graces' = graces
    BY <1>6 DEF Press
  <2>2. Quiet
    BY <1>3, <1>6 DEF Press
  <2>3. CardLess(address_bar, address_bar')
    BY <1>1, <1>2, <1>6, MessagesOpenNoCard DEF Press
  <2> QED BY <1>1, <2>1, <2>2, <2>3, SettledKeepsTip, SettledKeepsCard
<1>7. CASE ReleaseOnPill
  <2>1. Settled /\ hides' = hides /\ graces' = graces
    BY <1>7 DEF ReleaseOnPill
  <2>2. Quiet
    BY <1>3, <1>7 DEF ReleaseOnPill
  <2>3. address_bar' = address_bar \/ Message
    BY <1>7 DEF ReleaseOnPill, Message, vars, SidebarActivate
  <2>4. CardLess(address_bar, address_bar')
    BY <1>2, <2>3
  <2> QED BY <1>1, <2>1, <2>2, <2>4, SettledKeepsTip, SettledKeepsCard
<1>8. CASE ClickOnStrip \/ ClickElsewhere \/ ClickOnChip \/ ClickOnSidebar \/ KeyOrTimer
  <2>1. Still
    BY <1>8 DEF ClickOnStrip, ClickElsewhere, ClickOnChip, ClickOnSidebar, KeyOrTimer
  <2>2. Message
    BY <1>8 DEF ClickOnStrip, ClickElsewhere, ClickOnChip, ClickOnSidebar, KeyOrTimer, Message,
       SidebarClose
  <2>3. CardLess(address_bar, address_bar')
    BY <1>2, <2>2
  <2> QED BY <1>1, <2>1, <2>3, SettledKeepsTip, SettledKeepsCard DEF Still
<1>9. CASE TooltipTimer
  <2>1. /\ Settled /\ hides' \in Nat /\ graces' = graces /\ address_bar' = address_bar
        /\ sidebar' = HideCommitted(sidebar)
    BY <1>1, <1>9 DEF TooltipTimer, vars
  <2>2. CardLess(address_bar, address_bar')
    BY <1>2, <2>1
  <2> QED BY <1>1, <1>3, <2>1, <2>2, SettledKeepsTip, SettledKeepsCard
<1>10. CASE GraceTimer
  <2>1. /\ Settled /\ hides' = hides /\ graces' \in Nat /\ sidebar' = sidebar
        /\ address_bar' = GraceEnded(address_bar)
    BY <1>1, <1>10 DEF GraceTimer, GraceEnds
  <2>2. CardLess(address_bar, address_bar') /\ ~address_bar'.grace
    BY <1>1, <2>1, MessagesOpenNoCard
  <2> QED BY <1>1, <2>1, <2>2, SettledKeepsTip, SettledKeepsCard
<1>11. CASE UNCHANGED windowVars
  BY <1>11 DEF windowVars, pointerVars, vars, TipInv, CardInv
<1> QED BY <1>4, <1>5, <1>6, <1>7, <1>8, <1>9, <1>10, <1>11 DEF WindowNext, WindowStep

\* Wherever the pointer goes and whatever is drawn or taken away under it, in whatever order
\* it leaves and enters and with any number of timers asleep: the tooltip and the card never
\* stay behind without a timer that will take them away.
THEOREM OverlaysAlwaysFollow == WindowSpec => []OverlaysFollowPointer
<1>1. TipInv /\ CardInv => OverlaysFollowPointer
  BY DEF TipInv, CardInv, CardFits, OverlaysFollowPointer, TooltipFor, StrictPopupOffers
<1>2. WindowSpec => [](IInv /\ TabsInv)
  <2>1. IInv /\ TabsInv /\ [Next]_vars => TabsInv'
    BY TabsNext DEF TabsStep
  <2> QED BY <2>1, WindowImplementsShell, InvInit, InvNext, TabsInit, PTL DEF Spec
<1> QED BY <1>1, <1>2, OverlaysInit, OverlaysNext, DragInit, DragNext, PTL DEF WindowSpec
=============================================================================

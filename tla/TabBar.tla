------------------------------- MODULE TabBar -------------------------------
(***************************************************************************)
(* The tab bar of pb-ui (tab_bar/mod.rs): the open tabs in strip order,    *)
(* the active one, the Strict-close question and the width freeze after an *)
(* X in the strip.  update is called by the shell, one message at a time,  *)
(* so every operator here maps a tab bar to the tab bar after the message. *)
(***************************************************************************)
EXTENDS Integers, Sequences, SequencesExt

CONSTANTS
  InitialTabs,    \* the tabs at the start, in strip order
  InitialActive   \* the id of the active one

Mode == {"Standard", "Strict"}

\* TabEntry.  hasUrl: url is not empty; unsaved: has_unsaved_input.
Tab == [id : Nat, mode : Mode, unsaved : BOOLEAN, hasUrl : BOOLEAN]

ASSUME InitialTabsAssumption ==
  /\ InitialTabs \in Seq(Tab)
  /\ InitialActive \in {InitialTabs[i].id : i \in DOMAIN InitialTabs}
  /\ \A i, j \in DOMAIN InitialTabs :
       InitialTabs[i].id = InitialTabs[j].id => i = j

Ids(b) == {b.tabs[i].id : i \in DOMAIN b.tabs}

Position(b, id) == CHOOSE i \in DOMAIN b.tabs : b.tabs[i].id = id

TabOf(b, id) == b.tabs[Position(b, id)]

\* {} is Hidden, {id} is Confirming(id).
StrictCloseModal == {m \in SUBSET Nat : \A i, j \in m : i = j}

\* frozen: frozen_chip_px is set; generation: stabilize_generation.
Strip == [tabs : Seq(Tab), active_id : Nat, mode : Mode, modal : StrictCloseModal,
          frozen : BOOLEAN, generation : Nat]

NewTabBar ==
  [tabs |-> InitialTabs, active_id |-> InitialActive, mode |-> "Standard",
   modal |-> {}, frozen |-> FALSE, generation |-> 0]

-----------------------------------------------------------------------------
\* StripPressed outside the close zone, and TabActivated from the other panels.
Pressed(b, id) == [b EXCEPT !.active_id = id, !.mode = TabOf(b, id).mode]

Activated(b, id) == [b EXCEPT !.active_id = id]

\* A drag that has moved far enough swaps two slots.
Reordered(b, i, j) ==
  [b EXCEPT !.tabs = [@ EXCEPT ![i] = b.tabs[j], ![j] = b.tabs[i]]]

\* One more than the largest id there is, so an id comes back once its tab and every
\* later one is closed.
NextIdByCount(b) == Len(b.tabs)

NextId(b) == IF b.tabs = <<>> THEN 0 ELSE Max(Ids(b)) + 1

NewTab(b) ==
  [b EXCEPT !.tabs = Append(@, [id |-> NextId(b), mode |-> "Standard",
                                unsaved |-> FALSE, hasUrl |-> FALSE]),
            !.active_id = NextId(b), !.mode = "Standard", !.frozen = FALSE]

\* close_tab: the right neighbour takes over, else the left one; 0 stands for no tab.
Successor(b, id) ==
  LET i == Position(b, id)
  IN  IF i < Len(b.tabs) THEN b.tabs[i + 1].id ELSE b.tabs[i - 1].id

\* The widths stay frozen until the timer of this close, unless no tab is left.
FrozenEvenIfEmpty(b, rest, fromStrip) == fromStrip \/ b.frozen

FrozenAfter(b, rest, fromStrip) == rest # <<>> /\ (fromStrip \/ b.frozen)

\* retain: ids are unique, so one tab goes, or none if the id is closed already.
Closed(b, id, fromStrip) ==
  LET rest == IF id \in Ids(b) THEN RemoveAt(b.tabs, Position(b, id)) ELSE b.tabs
  IN  [b EXCEPT !.tabs = rest,
                !.active_id = IF @ # id THEN @
                              ELSE IF rest = <<>> THEN 0 ELSE Successor(b, id),
                !.frozen = FrozenAfter(b, rest, fromStrip),
                !.generation = IF fromStrip THEN @ + 1 ELSE @]

\* TabCloseRequested asks first for a Strict tab with unsaved input.
AsksFirst(b, id) ==
  id \in Ids(b) /\ TabOf(b, id).mode = "Strict" /\ TabOf(b, id).unsaved

Asking(b, id) == [b EXCEPT !.modal = {id}]

Answered(b) == [b EXCEPT !.modal = {}]

\* StabilizeExpired: a timer of an earlier close changes nothing.
Unfrozen(b, generation) ==
  [b EXCEPT !.frozen = IF generation = b.generation THEN FALSE ELSE @]

StripLeft(b) == [b EXCEPT !.frozen = FALSE]

\* sync_mode: the capsule, and the active tab itself.
ModeSynced(b, m) ==
  [b EXCEPT !.mode = m,
            !.tabs = [i \in DOMAIN @ |-> IF @[i].id = b.active_id
                                         THEN [@[i] EXCEPT !.mode = m] ELSE @[i]]]

-----------------------------------------------------------------------------
(* The strip, in tenths of a pixel: how wide the chips are and what is     *)
(* under the pointer at x.  A width is [active, other].                    *)

Sidebar52 == 520   \* the collapsed sidebar, left of the strip
Padding == 80      \* on each side of the row of chips
Gap == 10          \* between two chips
Titled == 800      \* the narrowest chip with a title and an X, and of the active chip
CloseZone == 260   \* the right end of a chip, where a press closes

\* chip_widths with no freeze: with room the active chip is 1.3 times its share, unless the
\* others then lose their titles; without, it keeps its title and they share what is left.
ChipWidths(n, window) ==
  LET available == Max({window - Sidebar52 - 2 * Padding - Gap * (n - 1), 0})
      equal == available \div n
      ample == Min({(equal * 13) \div 10, available - (n - 1) * Titled})
      dense == Min({Titled, available})
  IN  IF n = 1
      THEN [active |-> Max({available, Titled}), other |-> Max({available, Titled})]
      ELSE IF equal >= Titled
      THEN [active |-> ample, other |-> Max({(available - ample) \div (n - 1), Titled})]
      ELSE [active |-> dense, other |-> (available - dense) \div (n - 1)]

\* tab_positions: n chips of which number a is the active one.
Width(w, a, i) == IF i = a THEN w.active ELSE w.other
Left(w, a, i) ==
  Padding + (i - 1) * (w.other + Gap) + (IF a < i THEN w.active - w.other ELSE 0)

\* tab_id_at_x, as the number of the chip: none in a gap or beyond the ends.
ChipAt(n, w, a, x) == {i \in 1..n : Left(w, a, i) <= x /\ x < Left(w, a, i) + Width(w, a, i)}

\* tab_idx_at_x, the slot a dragged chip goes to: the end slots reach beyond the ends.
SlotAt(n, w, a, x) ==
  IF ChipAt(n, w, a, x) # {} \/ n = 0 THEN ChipAt(n, w, a, x)
  ELSE IF x < Left(w, a, 1) THEN {1}
  ELSE IF x >= Left(w, a, n) + Width(w, a, n) THEN {n} ELSE {}

\* cursor_in_close_zone: no X on a chip without a title (no tab of the program is pinned).
InCloseZone(n, w, a, x) ==
  \E i \in ChipAt(n, w, a, x) :
    Width(w, a, i) >= Titled /\ x > Left(w, a, i) + Width(w, a, i) - CloseZone

-----------------------------------------------------------------------------
(* What is drawn, as far as it decides which messages the user can send.   *)

\* view_strip: a strip for one tab would have nowhere to go to.
StripOffers(b) ==
  IF Len(b.tabs) <= 1 THEN {}
  ELSE {"StripMoved", "StripPressed", "StripReleased", "StripExited"}

\* The X is drawn on a chip with a title only, and while the pointer is on the chip.
DrawsX(n, w, a, x) == {i \in ChipAt(n, w, a, x) : i = a \/ Width(w, a, i) >= Titled}

\* The grid button needs press and release on it.
TopChromeOffers == {"NewTabPressed", "TabsGridPressed"}

ModalOffers(b) ==
  IF b.modal = {} THEN {} ELSE {"StrictCloseCancelled", "StrictCloseConfirmed"}
=============================================================================

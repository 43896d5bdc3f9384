---------------------------- MODULE ShellWindow ----------------------------
(***************************************************************************)
(* The window of pb-ui (shell.rs, view and subscription): the shell with   *)
(* the pointer and the mouse button that send its messages, and with the   *)
(* sidebar's drag and tooltip.  A widget that disappears under the pointer *)
(* is not told that the pointer has left it, and of two widgets the        *)
(* pointer leaves and enters in one movement either may be told first      *)
(* (iced asks the upper layer and the earlier sibling first).              *)
(***************************************************************************)
EXTENDS BrowserShell, Sidebar

CONSTANTS
  MaxTimers,    \* bound: sleeping timers of each kind, the tooltip's and the chip's
  MaxBusy       \* bound: how many things go on at once

VARIABLES
  sidebar,
  pointer,    \* the widget under the pointer: one of Places
  held,       \* the button is down
  slipped,    \* history: it went up where neither the sidebar nor the shell was told
  hides,      \* the tooltip's timers of 200 ms
  graces,     \* the chip's timers of 150 ms
  ghost       \* history: the tab of the tooltip was closed while it was shown

pointerVars == <<sidebar, pointer, held, slipped, hides, graces, ghost>>

windowVars == <<vars, pointerVars>>

-----------------------------------------------------------------------------
(* The layers of the window.                                               *)

Away == <<"away">>      \* the strip, the top chrome, the page, outside
Glass == <<"glass">>    \* the sidebar between and below its pills
Chip == <<"chip">>
Popup == <<"popup">>
Pill(id) == <<"pill", id>>
Tooltip(id) == <<"tooltip", id>>

Places(b, a, s) ==
  {Away, Glass}
    \cup {Pill(id) : id \in Ids(b)}
    \cup {Tooltip(id) : id \in TooltipFor(s, b)}
    \cup (IF ChipOffers(a) # {} THEN {Chip} ELSE {})
    \cup (IF StrictPopupOffers(a) # {} THEN {Popup} ELSE {})

Offers(p) ==
  CASE p[1] = "glass" -> GlassOffers
    [] p[1] = "pill" -> PillOffers
    [] p[1] = "tooltip" -> TooltipOffers
    [] p = Chip -> ChipOffers(address_bar)
    [] p = Popup -> StrictPopupOffers(address_bar)
    [] OTHER -> {}

\* What is left of the window's layers after a step, under a pointer that has not moved.
Settled ==
  /\ pointer' = IF pointer \in Places(tab_bar', address_bar', sidebar')
                THEN pointer ELSE Away
  /\ ghost' = (sidebar'.tooltip_pill_id # {}
                 /\ \/ ~(sidebar'.tooltip_pill_id \subseteq Ids(tab_bar'))
                    \/ ghost /\ sidebar'.tooltip_pill_id = sidebar.tooltip_pill_id)

-----------------------------------------------------------------------------
(* Moving the pointer.                                                     *)

Entering(s, p) == IF "PillEntered" \in Offers(p) THEN PillEntered(s, p[2]) ELSE s

Leaving(s, p) == IF "PillLeft" \in Offers(p) THEN PillLeft(s) ELSE s

BarEntering(a, p) ==
  IF p = Chip THEN ChipEntered(a) ELSE IF p = Popup THEN PopupEntered(a) ELSE a

BarLeaving(a, p) ==
  IF p = Chip THEN ChipExited(a) ELSE IF p = Popup THEN PopupExited(a) ELSE a

\* The sidebar hears of a move wherever on it the pointer is.
Moving(s, p) == IF "SidebarMoved" \in Offers(p) THEN SidebarMoved(s) ELSE s

\* TabsReordered: the slots of the tab that is dragged and of the one it enters, if the
\* tab that was pressed is still there.
Swapped(p) ==
  LET from == SwapsWith(sidebar, p[2]) \cap Ids(tab_bar)
  IN  IF "PillEntered" \in Offers(p) /\ p[2] \in Ids(tab_bar) /\ from # {}
      THEN Reordered(tab_bar, Position(tab_bar, CHOOSE d \in from : TRUE),
                     Position(tab_bar, p[2]))
      ELSE tab_bar

PointerMoves(p) ==
  /\ p # pointer
  /\ \/ /\ sidebar' = Moving(Entering(Leaving(sidebar, pointer), p), p)
        /\ address_bar' = BarEntering(BarLeaving(address_bar, pointer), p)
     \/ /\ sidebar' = Moving(Leaving(Entering(sidebar, p), pointer), p)
        /\ address_bar' = BarLeaving(BarEntering(address_bar, p), pointer)
  /\ hides' = IF "PillLeft" \in Offers(pointer) THEN hides + 1 ELSE hides
  /\ graces' = IF pointer = Chip THEN graces + 1 ELSE graces
  /\ hides' <= MaxTimers /\ graces' <= MaxTimers
  /\ tab_bar' = Swapped(p)
  /\ pointer' = IF p \in Places(tab_bar', address_bar', sidebar') THEN p ELSE Away
  /\ ghost' = (ghost /\ sidebar'.tooltip_pill_id = sidebar.tooltip_pill_id)
  /\ UNCHANGED <<held, slipped, mode, new_tab, card_view, timers>>

\* Within a pill or the glass.
PointerStirs ==
  /\ sidebar' = Moving(sidebar, pointer)
  /\ UNCHANGED <<vars, pointer, held, slipped, hides, graces, ghost>>

-----------------------------------------------------------------------------
(* The button.  Clicks on buttons that act when released are one step.     *)

\* Around an open popover a press only closes it, but the tooltip is above that layer.
Press ==
  /\ ~held
  /\ held' = TRUE
  /\ slipped' = FALSE
  /\ IF Clickable
     THEN /\ sidebar' = IF "PillPressed" \in Offers(pointer)
                        THEN PillPressed(sidebar, pointer[2]) ELSE sidebar
          /\ UNCHANGED address_bar
     ELSE address_bar' = PopoverToggled(address_bar) /\ UNCHANGED sidebar
  /\ UNCHANGED <<tab_bar, mode, new_tab, card_view, timers, hides, graces>>
  /\ Settled

\* The release is all that counts for a pill, wherever the button was pressed.
ReleaseOnPill ==
  /\ held
  /\ "PillReleased" \in Offers(pointer)
  /\ held' = FALSE
  /\ slipped' = FALSE
  /\ sidebar' = Released(sidebar)
  /\ IF IsTap(sidebar) THEN SidebarActivate(pointer[2]) ELSE UNCHANGED vars
  /\ UNCHANGED <<hides, graces>>
  /\ Settled

ReleaseOnGlass ==
  /\ held
  /\ "SidebarReleased" \in Offers(pointer)
  /\ held' = FALSE
  /\ slipped' = FALSE
  /\ sidebar' = Released(sidebar)
  /\ UNCHANGED <<vars, pointer, hides, graces, ghost>>

DragEndIgnored(s) == s

\* GlobalDragEnd.
DragEnded(s) == IF s.dragging THEN Released(s) ELSE s

\* Elsewhere the shell is told, but only while something is dragged and unless another
\* widget has taken the event.
ReleaseElsewhere ==
  /\ held
  /\ Offers(pointer) \cap {"PillReleased", "SidebarReleased"} = {}
  /\ held' = FALSE
  /\ \E taken \in BOOLEAN :
       LET told == sidebar.dragging /\ ~taken
       IN  /\ sidebar' = IF told THEN DragEnded(sidebar) ELSE sidebar
           /\ slipped' = (sidebar.drag_id # {} /\ ~told)
  /\ UNCHANGED <<vars, pointer, hides, graces, ghost>>

-----------------------------------------------------------------------------
(* The messages of the shell.                                              *)

Still ==
  /\ UNCHANGED <<sidebar, held, slipped, hides, graces>>
  /\ Settled

ClickOnStrip ==
  /\ pointer = Away /\ ~held
  /\ "StripPressed" \in StripOffers(tab_bar)
  /\ StripActivate \/ StripClose \/ Reorder
  /\ Still

ClickElsewhere ==
  /\ pointer = Away /\ ~held
  /\ \/ "NewTabPressed" \in TopChromeOffers /\ NewTabPressed
     \/ "TabsGridPressed" \in TopChromeOffers /\ TabsGridPressed
     \/ "StrictCloseConfirmed" \in ModalOffers(tab_bar) /\ StrictCloseConfirmed
     \/ "StrictCloseCancelled" \in ModalOffers(tab_bar) /\ StrictCloseCancelled
     \/ "FocusGained" \in BarOffers(address_bar) /\ FocusGained
     \/ BadgePressed
  /\ Still

ClickOnChip ==
  /\ ~held
  /\ \/ "ConvertToStrictClicked" \in Offers(pointer) /\ ConvertToStrict
     \/ "DismissConvertChip" \in Offers(pointer) /\ DismissConvertChip
  /\ Still

ClickOnSidebar ==
  /\ ~held
  /\ \/ "NewTabPressed" \in Offers(pointer) /\ SidebarNewTab
     \/ "PillClosePressed" \in Offers(pointer) /\ SidebarClose(pointer[2])
  /\ Still

\* The keyboard and the timers, wherever the pointer is.
KeyOrTimer ==
  /\ \/ Type \/ NavigatePressed
     \/ CardMove \/ CardEnter \/ CardClose \/ CardEscape
     \/ StripExited \/ StabilizeExpired \/ LookupReturns
  /\ Still

\* HideTooltip.
TooltipTimer ==
  /\ hides > 0
  /\ hides' = hides - 1
  /\ sidebar' = HideCommitted(sidebar)
  /\ UNCHANGED <<vars, held, slipped, graces>>
  /\ Settled

GraceTimer ==
  /\ graces > 0
  /\ graces' = graces - 1
  /\ GraceEnds
  /\ UNCHANGED <<sidebar, held, slipped, hides>>
  /\ Settled

-----------------------------------------------------------------------------
WindowInit ==
  /\ Init
  /\ sidebar = NewSidebar
  /\ pointer = Away
  /\ held = FALSE
  /\ slipped = FALSE
  /\ hides = 0
  /\ graces = 0
  /\ ghost = FALSE

\* What can be going on in the window at once.
Busy ==
  LET going == <<card_view.open, address_bar.text # NoText, address_bar.dismissed # {},
                 timers # {}, tab_bar.modal # {}, address_bar.popover_open, graces > 0,
                 sidebar.tooltip_pill_id # {}, held \/ sidebar.drag_id # {}>>
  IN  Cardinality({i \in DOMAIN going : going[i]})

WindowStep ==
  \/ \E p \in Places(tab_bar, address_bar, sidebar) : PointerMoves(p)
  \/ PointerStirs
  \/ Press \/ ReleaseOnPill \/ ReleaseOnGlass \/ ReleaseElsewhere
  \/ ClickOnStrip \/ ClickElsewhere \/ ClickOnChip \/ ClickOnSidebar
  \/ KeyOrTimer \/ TooltipTimer \/ GraceTimer

WindowNext == WindowStep /\ Busy' <= MaxBusy

WindowSpec == WindowInit /\ [][WindowNext]_windowVars

-----------------------------------------------------------------------------
\* A release that is heard of ends the drag, whichever widget or subscription hears of it
\* (shell.rs, subscription).  With the button up a tab is dragged only after a release that
\* nobody was told of, one that another widget took or one outside the sidebar before the first
\* move in it, and only until the next press or release that is.
DragNeedsButton == sidebar.dragging => held \/ slipped

\* Tooltip and card of the chip go away with the pointer: it is on them or on what they
\* are for, or the timer that takes them away is running (sidebar.rs, commit_hide;
\* address_bar.rs, view_strict_popup).  A tooltip whose tab was closed under it may come
\* back for the tab that gets the id next.
OverlaysFollowPointer ==
  /\ \A id \in TooltipFor(sidebar, tab_bar) :
       \/ pointer \in {Pill(id), Tooltip(id)}
       \/ sidebar.tooltip_hide_pending /\ hides > 0
       \/ ghost
  /\ StrictPopupOffers(address_bar) # {} => pointer \in {Chip, Popup} \/ graces > 0

-----------------------------------------------------------------------------
\* For the runs: the first and the last of the program's five tabs (stub_tabs), as they are once the
\* three between are closed from the sidebar: the last is Strict and has unsaved input.
FirstAndLastTab ==
  << [id |-> 0, mode |-> "Standard", unsaved |-> FALSE, hasUrl |-> TRUE],
     [id |-> 4, mode |-> "Strict", unsaved |-> TRUE, hasUrl |-> TRUE] >>

-----------------------------------------------------------------------------
(* The strip's geometry, over windows from too small to roomy, with up to  *)
(* four chips and the pointer at every half pixel.                         *)
WindowWidths == {0, 1500, 2000, 3200, 5200}
PointerPlaces == {5 * k : k \in 0..900}

\* Where the active chip is once chip i is closed (Successor).
ActiveAfter(n, a, i) ==
  IF i = a THEN Min({i, n - 1}) ELSE IF i < a THEN a - 1 ELSE a

\* The row ends where the window does, if there is room for the active chip, and the pointer is
\* on at most one chip and in at most one slot (chip_widths, tab_idx_at_x).
ASSUME RowFits ==
  \A n \in 1..4, window \in WindowWidths : \A a \in 1..n :
    LET w == ChipWidths(n, window)
    IN  /\ window >= Sidebar52 + 2 * Padding + Gap * (n - 1) + Titled
             => Left(w, a, n) + Width(w, a, n) <= window - Sidebar52 - Padding
        /\ \A x \in PointerPlaces : Cardinality(SlotAt(n, w, a, x)) <= 1

\* A press closes only where an X is drawn, and with the widths frozen the next chip's X comes
\* under the pointer, "so X buttons don't drift" (mod.rs:297), unless the next chip is the
\* active one: that is wider, and its X is further right.
ASSUME NextXUnderPointer ==
  \A n \in 2..4, window \in WindowWidths : \A a \in 1..n, x \in PointerPlaces :
    LET w == ChipWidths(n, window)
    IN  InCloseZone(n, w, a, x) =>
          /\ ChipAt(n, w, a, x) \subseteq DrawsX(n, w, a, x)
          /\ \A i \in ChipAt(n, w, a, x) :
               i < n /\ i + 1 # a => InCloseZone(n - 1, w, ActiveAfter(n, a, i), x)
=============================================================================

------------------------------ MODULE Sidebar ------------------------------
(***************************************************************************)
(* The sidebar of pb-ui (sidebar.rs): one pill per tab, pressed to         *)
(* activate it or dragged to another slot, and the tooltip card of the     *)
(* pill under the pointer, whose X closes the tab.  update maps a sidebar  *)
(* and a message to the sidebar after it; the event it returns is what     *)
(* ShellWindow does besides.                                               *)
(***************************************************************************)
EXTENDS TabBar

\* An Option is {} or {id}.
NewSidebar ==
  [drag_id |-> {}, dragging |-> FALSE, drag_hovered_id |-> {},
   tooltip_pill_id |-> {}, tooltip_hide_pending |-> FALSE]

-----------------------------------------------------------------------------
(* What is drawn.                                                          *)

\* The pills above the divider are of the Standard tabs, those below it of the Strict ones;
\* within each they are in the order of the strip.
Pills(b, m) == {b.tabs[i].id : i \in {k \in DOMAIN b.tabs : b.tabs[k].mode = m}}

\* The card is placed beside its pill, so there is none for a tab that is gone.
TooltipFor(s, b) == s.tooltip_pill_id \cap (Pills(b, "Standard") \cup Pills(b, "Strict"))

\* Search, bookmarks and settings are buttons whose requests the shell does not serve yet.
GlassOffers ==
  {"DragRequested", "SidebarMoved", "SidebarReleased", "NewTabPressed", "SearchPressed",
   "FavoritesPressed", "GearPressed"}

PillOffers == {"PillPressed", "PillReleased", "PillEntered", "PillLeft", "SidebarMoved"}

TooltipOffers == {"PillEntered", "PillLeft", "PillClosePressed"}

-----------------------------------------------------------------------------
PillPressed(s, id) ==
  [s EXCEPT !.drag_id = {id}, !.dragging = FALSE, !.drag_hovered_id = {}]

\* PillReleased and SidebarReleased.
Released(s) == [s EXCEPT !.drag_id = {}, !.dragging = FALSE, !.drag_hovered_id = {}]

\* A release on a pill is a tap unless the pointer has moved since it was pressed.
IsTap(s) == ~s.dragging

\* The tab that is dragged changes slots with the one whose pill is entered.
SwapsWith(s, id) == {d \in s.drag_id : s.dragging /\ d # id}

PillEntered(s, id) ==
  [s EXCEPT !.tooltip_pill_id = {id},
            !.tooltip_hide_pending = FALSE,
            !.drag_hovered_id = IF s.dragging /\ s.drag_id # {} THEN s.drag_id ELSE @]

\* Any move in the sidebar makes a drag of a press.
SidebarMoved(s) == [s EXCEPT !.dragging = @ \/ s.drag_id # {}]

PillLeft(s) == [s EXCEPT !.tooltip_hide_pending = TRUE]

\* commit_hide, when a timer of 200 ms is over, be it that of an earlier exit.
HideCommitted(s) ==
  IF s.tooltip_hide_pending
  THEN [s EXCEPT !.tooltip_pill_id = {}, !.tooltip_hide_pending = FALSE]
  ELSE s
=============================================================================

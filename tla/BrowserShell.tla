---------------------------- MODULE BrowserShell ----------------------------
(***************************************************************************)
(* The shell of pb-ui (shell.rs): the window's mode, the tab bar, the      *)
(* address bar, the new tab page and the card view, driven one message at  *)
(* a time by the strip, the sidebar, the card view's keys, the address bar *)
(* and the timers.  Where the pointer is and how a drag is recognised are  *)
(* the choice of the message.                                              *)
(***************************************************************************)
EXTENDS TabBar, AddressBar

CONSTANTS
  MaxTabs,         \* bound: a tab is opened while there are fewer
  NewIds,          \* bound: the ids that tabs are opened with
  MaxDismissed,    \* bound: tabs on record as having dismissed the chip
  MaxGeneration    \* bound: X closes in the strip (u32, wrapping in the code)

VARIABLES
  mode,         \* AppState.mode: border, wallpaper, badge
  tab_bar,
  address_bar,
  new_tab,      \* the mode of the new tab page
  card_view,    \* [open, focused_idx], focused_idx 0 for None
  timers        \* generations of the StabilizeExpired timers running

vars == <<mode, tab_bar, address_bar, new_tab, card_view, timers>>

-----------------------------------------------------------------------------
(* What the handlers have in common.                                       *)

HasActive(b) == b.active_id \in Ids(b)

ShellMode(b) == mode

SyncedMode(b) == TabOf(b, b.active_id).mode

\* sync_active_tab_mode, from the tab bar b and the address bar a the handler has made.
SyncTabOnly(b, a) ==
  /\ tab_bar' = ModeSynced(b, SyncedMode(b))
  /\ mode' = SyncedMode(b)
  /\ new_tab' = SyncedMode(b)
  /\ address_bar' = BarModeSynced(a, SyncedMode(b))

SyncActiveTab(b, a) ==
  /\ tab_bar' = ModeSynced(b, SyncedMode(b))
  /\ mode' = SyncedMode(b)
  /\ new_tab' = SyncedMode(b)
  /\ address_bar' = ResetForTab(a, b.active_id, TabOf(b, b.active_id).hasUrl,
                                SyncedMode(b))

SyncIfAnyTab(b, a) ==
  IF HasActive(b) THEN SyncActiveTab(b, a)
  ELSE tab_bar' = b /\ address_bar' = a /\ UNCHANGED <<mode, new_tab>>

\* AllTabsClosed: the home screen is Standard.
HomeKeepsNewTabPage(b, a) ==
  /\ tab_bar' = ModeSynced(b, "Standard")
  /\ mode' = "Standard"
  /\ address_bar' = ResetForTab(a, 0, FALSE, "Standard")
  /\ UNCHANGED new_tab

Home(b, a) ==
  /\ tab_bar' = ModeSynced(b, "Standard")
  /\ mode' = "Standard"
  /\ address_bar' = ResetForTab(a, 0, FALSE, "Standard")
  /\ new_tab' = "Standard"

\* While the badge's popover is open a click anywhere else only closes it.
Clickable == ~address_bar.popover_open

-----------------------------------------------------------------------------
(* The strip and the top chrome: Message::TabBar.                          *)

StripActivate ==
  /\ Clickable
  /\ \E id \in Ids(tab_bar) :
       IF id # tab_bar.active_id
       THEN SyncActiveTab(Pressed(tab_bar, id), address_bar)
       ELSE /\ tab_bar' = Pressed(tab_bar, id)
            /\ UNCHANGED <<mode, address_bar, new_tab>>
  /\ UNCHANGED <<card_view, timers>>

\* The X of a chip closes without asking, whatever the tab.
StripClose ==
  /\ Clickable
  /\ tab_bar.generation < MaxGeneration
  /\ \E id \in Ids(tab_bar) :
       LET b == Closed(tab_bar, id, TRUE)
       IN  IF b.tabs = <<>>
           THEN Home(b, address_bar) /\ UNCHANGED timers
           ELSE /\ timers' = timers \cup {b.generation}
                /\ IF id = tab_bar.active_id
                   THEN SyncActiveTab(b, Forgotten(address_bar, id))
                   ELSE tab_bar' = b /\ UNCHANGED <<mode, address_bar, new_tab>>
  /\ UNCHANGED card_view

StripExited ==
  /\ tab_bar.frozen
  /\ tab_bar' = StripLeft(tab_bar)
  /\ UNCHANGED <<mode, address_bar, new_tab, card_view, timers>>

StabilizeExpired ==
  /\ \E g \in timers :
       tab_bar' = Unfrozen(tab_bar, g) /\ timers' = timers \ {g}
  /\ UNCHANGED <<mode, address_bar, new_tab, card_view>>

RoomForTab == Len(tab_bar.tabs) < MaxTabs /\ NextId(tab_bar) \in NewIds

\* The plus button.  The first tab after none has id 0, the id that stands for no tab,
\* and then the check that the active tab has changed finds no change.
NewTabPressed ==
  /\ Clickable
  /\ RoomForTab
  /\ LET b == NewTab(tab_bar)
         a == ResetForTab(address_bar, b.active_id, FALSE, mode)
     IN  IF b.active_id # tab_bar.active_id
         THEN SyncActiveTab(b, a)
         ELSE tab_bar' = b /\ address_bar' = a /\ UNCHANGED <<mode, new_tab>>
  /\ UNCHANGED <<card_view, timers>>

StrictCloseConfirmed ==
  /\ Clickable
  /\ \E id \in tab_bar.modal :
       LET b == Closed(Answered(tab_bar), id, FALSE)
       IN  IF b.tabs = <<>>
           THEN Home(b, address_bar)
           ELSE SyncIfAnyTab(b, Forgotten(address_bar, id))
  /\ UNCHANGED <<card_view, timers>>

StrictCloseCancelled ==
  /\ Clickable
  /\ tab_bar.modal # {}
  /\ tab_bar' = Answered(tab_bar)
  /\ UNCHANGED <<mode, address_bar, new_tab, card_view, timers>>

TabsGridPressed ==
  /\ Clickable
  /\ card_view' = [open |-> TRUE, focused_idx |-> IF tab_bar.tabs = <<>> THEN 0 ELSE 1]
  /\ UNCHANGED <<mode, tab_bar, address_bar, new_tab, timers>>

Reorder ==
  /\ Clickable
  /\ \E i, j \in DOMAIN tab_bar.tabs : i < j /\ tab_bar' = Reordered(tab_bar, i, j)
  /\ UNCHANGED <<mode, address_bar, new_tab, card_view, timers>>

-----------------------------------------------------------------------------
(* The sidebar: Message::Sidebar.                                          *)

SidebarActivate(id) ==
  /\ Clickable
  /\ id \in Ids(tab_bar)
  /\ SyncActiveTab(Activated(tab_bar, id), address_bar)
  /\ UNCHANGED <<card_view, timers>>

SidebarNewTab ==
  /\ Clickable
  /\ RoomForTab
  /\ tab_bar' = NewTab(tab_bar)
  /\ address_bar' = ResetForTab(address_bar, NextId(tab_bar), FALSE, mode)
  /\ UNCHANGED <<mode, new_tab, card_view, timers>>

\* The X of a pill's tooltip, which lies above the popover's click catcher.
SidebarClose(id) ==
  /\ id \in Ids(tab_bar)
  /\ LET b == Closed(tab_bar, id, FALSE)
     IN  IF AsksFirst(tab_bar, id)
         THEN tab_bar' = Asking(tab_bar, id) /\ UNCHANGED <<mode, address_bar, new_tab>>
         ELSE IF b.tabs = <<>> THEN Home(b, address_bar)
         ELSE SyncActiveTab(b, address_bar)
  /\ UNCHANGED <<card_view, timers>>

-----------------------------------------------------------------------------
(* The keys of the open card view: Message::CardView.                      *)

FocusedTab == tab_bar.tabs[card_view.focused_idx].id

HasFocus == card_view.open /\ card_view.focused_idx \in DOMAIN tab_bar.tabs

\* Left and right by one, up and down by a row of three, within the cards.
CardMove ==
  /\ card_view.open
  /\ tab_bar.tabs # <<>>
  /\ LET n == Len(tab_bar.tabs)
         idx == Max({card_view.focused_idx, 1})
     IN  \E step \in {1, 3} :
           \E to \in {IF idx > step THEN idx - step ELSE 1, Min({idx + step, n})} :
             card_view' = [card_view EXCEPT !.focused_idx = to]
  /\ UNCHANGED <<mode, tab_bar, address_bar, new_tab, timers>>

CardEnter ==
  /\ HasFocus
  /\ card_view' = [open |-> FALSE, focused_idx |-> 0]
  /\ SyncActiveTab(Activated(tab_bar, FocusedTab), address_bar)
  /\ UNCHANGED timers

\* What the tab bar answers is not looked at.
CardClose ==
  /\ HasFocus
  /\ IF AsksFirst(tab_bar, FocusedTab)
     THEN SyncIfAnyTab(Asking(tab_bar, FocusedTab), address_bar)
     ELSE SyncIfAnyTab(Closed(tab_bar, FocusedTab, FALSE), address_bar)
  /\ UNCHANGED <<card_view, timers>>

CardEscape ==
  /\ card_view.open
  /\ card_view' = [open |-> FALSE, focused_idx |-> 0]
  /\ UNCHANGED <<mode, tab_bar, address_bar, new_tab, timers>>

-----------------------------------------------------------------------------
(* The address bar: Message::AddressBar.                                   *)

Type ==
  /\ "Changed" \in UrlBodyOffers(address_bar)
  /\ \E t \in Text \cup {NoText} : t # address_bar.text /\ address_bar' = Typed(address_bar, t)
  /\ UNCHANGED <<mode, tab_bar, new_tab, card_view, timers>>

FocusGained ==
  /\ Clickable
  /\ "FocusGained" \in UrlBodyOffers(address_bar)
  /\ address_bar' = Focused(address_bar)
  /\ UNCHANGED <<mode, tab_bar, new_tab, card_view, timers>>

\* Enter.  With no tab open the commit makes one, in the mode of the bar; an open tab
\* does not hear of its new address yet.
NavigatePressed ==
  /\ "NavigatePressed" \in UrlBodyOffers(address_bar)
  /\ address_bar.bar_state = "Focused"
  /\ IF tab_bar.tabs # <<>>
     THEN address_bar' = Committed(address_bar) /\ UNCHANGED <<mode, tab_bar, new_tab>>
     ELSE LET b == NewTab(tab_bar)
              addressed == [b.tabs[1] EXCEPT !.hasUrl = TRUE, !.mode = address_bar.mode]
          IN  SyncActiveTab([b EXCEPT !.tabs = <<addressed>>], Committed(address_bar))
  /\ UNCHANGED <<card_view, timers>>

ConvertToStrict ==
  /\ \/ Clickable /\ "ConvertToStrictClicked" \in ChipOffers(address_bar)
     \/ "ConvertToStrictClicked" \in StrictPopupOffers(address_bar)
  /\ mode = "Standard"
  /\ mode' = "Strict"
  /\ address_bar' = BarModeSynced(address_bar, "Strict")
  /\ new_tab' = "Strict"
  /\ tab_bar' = ModeSynced(tab_bar, "Strict")
  /\ UNCHANGED <<card_view, timers>>

DismissConvertChip ==
  /\ Clickable
  /\ "DismissConvertChip" \in ChipOffers(address_bar)
  /\ Cardinality(address_bar.dismissed) < MaxDismissed
  /\ address_bar' = ChipDismissed(address_bar)
  /\ UNCHANGED <<mode, tab_bar, new_tab, card_view, timers>>

\* The badge, or while its popover is open, the popover's buttons and the click catcher
\* around it.
BadgePressed ==
  /\ BadgeOffers(address_bar) \cup BadgePopoverOffers(address_bar) # {}
  /\ address_bar' = PopoverToggled(address_bar)
  /\ UNCHANGED <<mode, tab_bar, new_tab, card_view, timers>>

LookupReturns ==
  /\ address_bar.lookup # {}
  /\ address_bar' = LookedUp(address_bar)
  /\ UNCHANGED <<mode, tab_bar, new_tab, card_view, timers>>

\* What a movement of the pointer tells the chip and its card, and the drag in the
\* sidebar, which goes on below an open popover (ShellWindow says when).
Hover(a) ==
  {a, ChipEntered(a), ChipExited(a), PopupEntered(a), PopupExited(a),
   PopupExited(ChipEntered(a)), ChipEntered(PopupExited(a)),
   PopupEntered(ChipExited(a)), ChipExited(PopupEntered(a))}

PointerTravels ==
  /\ address_bar' \in Hover(address_bar)
  /\ \/ UNCHANGED tab_bar
     \/ \E i, j \in DOMAIN tab_bar.tabs : tab_bar' = Reordered(tab_bar, i, j)
  /\ UNCHANGED <<mode, new_tab, card_view, timers>>

GraceEnds ==
  /\ address_bar' = GraceEnded(address_bar)
  /\ UNCHANGED <<mode, tab_bar, new_tab, card_view, timers>>

-----------------------------------------------------------------------------
\* boot and ProfileLoaded, whose message is queued before any of the user's.
Init ==
  /\ mode = "Standard"
  /\ tab_bar = ModeSynced(NewTabBar, "Standard")
  /\ address_bar = ResetForTab(NewAddressBar, InitialActive,
                               TabOf(NewTabBar, InitialActive).hasUrl, "Standard")
  /\ new_tab = "Standard"
  /\ card_view = [open |-> FALSE, focused_idx |-> 0]
  /\ timers = {}

Next ==
  \/ StripActivate \/ StripClose \/ StripExited \/ StabilizeExpired
  \/ NewTabPressed \/ StrictCloseConfirmed \/ StrictCloseCancelled
  \/ TabsGridPressed \/ Reorder
  \/ SidebarNewTab
  \/ \E id \in Ids(tab_bar) : SidebarActivate(id) \/ SidebarClose(id)
  \/ CardMove \/ CardEnter \/ CardClose \/ CardEscape
  \/ Type \/ FocusGained \/ NavigatePressed \/ ConvertToStrict
  \/ DismissConvertChip \/ BadgePressed \/ LookupReturns
  \/ PointerTravels \/ GraceEnds

Spec == Init /\ [][Next]_vars

-----------------------------------------------------------------------------
\* The types, every tab id once, and an active tab whenever there is a tab.
TypeOK ==
  /\ mode \in Mode /\ new_tab \in Mode
  /\ tab_bar \in Strip
  /\ \A i, j \in DOMAIN tab_bar.tabs : tab_bar.tabs[i].id = tab_bar.tabs[j].id => i = j
  /\ tab_bar.tabs # <<>> => HasActive(tab_bar)
  /\ address_bar \in Bar
  /\ card_view \in [open : BOOLEAN, focused_idx : Nat]
  /\ timers \subseteq 1..tab_bar.generation

\* Every way of changing the active tab (strip, sidebar, card view, a close, a commit)
\* carries the one address bar and the identity capsule along: what the user types or
\* dismisses belongs to the tab that is shown (shell.rs, sync_active_tab_mode).
BarFollowsActiveTab ==
  tab_bar.tabs # <<>> =>
    /\ address_bar.current_tab_id = tab_bar.active_id
    /\ tab_bar.mode = TabOf(tab_bar, tab_bar.active_id).mode

\* An empty window, or one whose tab has no address yet.
FreshTabShown ==
  tab_bar.tabs = <<>> \/ ~TabOf(tab_bar, tab_bar.active_id).hasUrl

\* Border, wallpaper, address bar, badge and new tab page show one mode, and no popover is left
\* open in Strict, where its badge is gone (address_bar.rs, BadgeSlot::sync_mode).  The identity
\* capsule shows it too, with one exception: a fresh Standard tab opened beside a Strict one by
\* the sidebar (shell.rs:608-616) has a Standard capsule in a window that still shows Strict, and
\* when it is closed from the card view as the last one, so has the empty window.
ChromeAgrees ==
  /\ address_bar.mode = mode
  /\ new_tab = mode
  /\ address_bar.badge = "Strict" <=> mode = "Strict"
  /\ address_bar.popover_open => mode # "Strict"
  /\ tab_bar.mode = mode \/ (mode = "Strict" /\ FreshTabShown)

\* The lookup that waits is for the text in the field: what was typed for another tab, or
\* was replaced or committed, never reaches the provider (L40; UrlInput::on_changed).
LookupIsForText == address_bar.lookup \subseteq {address_bar.text}

\* Frozen chip widths are always released: the timer of the last X close is running.
FreezeHasTimer == tab_bar.frozen => tab_bar.generation \in timers

\* A Strict tab never becomes Standard (architecture 3.6), however the shell's mode is
\* written into the tab that happens to be active.
NoWayBackToStandard ==
  [][\A id \in Ids(tab_bar) :
       id \in Ids(tab_bar') /\ TabOf(tab_bar, id).mode = "Strict"
         => TabOf(tab_bar', id).mode = "Strict"]_vars

\* "the Strict border, wallpaper, and badge always reflect the tab you're looking at"
\* (shell.rs:297-298).
ModeFollowsActiveTab ==
  tab_bar.tabs # <<>> => mode = TabOf(tab_bar, tab_bar.active_id).mode
=============================================================================

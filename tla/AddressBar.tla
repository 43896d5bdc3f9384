----------------------------- MODULE AddressBar -----------------------------
(***************************************************************************)
(* The address bar of pb-ui (address_bar.rs): what is typed and the        *)
(* suggestion lookup that waits for the keyboard to rest (L40), the        *)
(* Convert-to-Strict chip and the tabs it was dismissed on, the badge.     *)
(* There is one bar for all tabs; the shell resets it for the tab shown.   *)
(***************************************************************************)
EXTENDS Naturals, FiniteSets

CONSTANTS
  Text,     \* what can be typed
  NoText    \* the empty input

ASSUME TextAssumption == NoText \notin Text

\* lookup: {} or the text of the debounce task that has not been aborted.
Bar ==
  [mode : {"Standard", "Strict"}, bar_state : {"Rest", "Focused", "Navigating"},
   text : Text \cup {NoText}, lookup : SUBSET Text, chip_state : {"FreshTab", "Hidden"},
   hasUrl : BOOLEAN, current_tab_id : Nat, dismissed : SUBSET Nat,
   badge : {"Blocked", "Strict"}, popover_open : BOOLEAN,
   chip_hovered : BOOLEAN, popup_hovered : BOOLEAN, grace : BOOLEAN]

\* The constructor's twelve seeded trackers make the Standard badge a count.
NewAddressBar ==
  [mode |-> "Standard", bar_state |-> "Rest", text |-> NoText, lookup |-> {},
   chip_state |-> "FreshTab", hasUrl |-> FALSE, current_tab_id |-> 0, dismissed |-> {},
   badge |-> "Blocked", popover_open |-> FALSE,
   chip_hovered |-> FALSE, popup_hovered |-> FALSE, grace |-> FALSE]

-----------------------------------------------------------------------------
(* What is drawn, as far as it decides which messages the user can send.   *)

\* show_convert_chip.
ShowsChip(a) == a.mode = "Standard" /\ a.chip_state # "Hidden"

\* The text field takes the place of the address while there is none or it is edited.
ShowsInput(a) == a.bar_state = "Focused" \/ ~a.hasUrl

UrlBodyOffers(a) ==
  IF ShowsInput(a) THEN {"Changed", "NavigatePressed"} ELSE {"FocusGained"}

\* The count opens its popover, the Strict shield is not a button (L41).
BadgeOffers(a) == IF a.badge = "Blocked" THEN {"PopoverToggled"} ELSE {}

ChipOffers(a) ==
  IF ShowsChip(a)
  THEN {"DismissConvertChip", "ConvertToStrictClicked", "ConvertChipEntered",
        "ConvertChipExited"}
  ELSE {}

\* The card below the chip: there while the pointer is on the chip or on the card, and
\* for the grace period in which it may travel from one to the other.
StrictPopupOffers(a) ==
  IF ShowsChip(a) /\ (a.chip_hovered \/ a.popup_hovered \/ a.grace)
  THEN {"ConvertToStrictClicked", "ConvertPopupEntered", "ConvertPopupExited"}
  ELSE {}

\* Back, forward and reload are drawn as buttons whose message does nothing yet.
NavOffers == {"Noop"}

\* The bar: the popover and the card are layers of the window, not parts of it, and the
\* suggestions below it stay away as long as nobody suggests anything.
BarOffers(a) == NavOffers \cup UrlBodyOffers(a) \cup BadgeOffers(a) \cup ChipOffers(a)

\* The list of blocked trackers; nobody listens to its network viewer button yet, which
\* closes it as its X does.
BadgePopoverOffers(a) ==
  IF a.popover_open THEN {"PopoverClosed", "NetworkViewerRequested"} ELSE {}

-----------------------------------------------------------------------------
BadgeSynced(a, m) ==
  [a EXCEPT !.badge = IF m = "Strict" THEN "Strict" ELSE "Blocked",
            !.popover_open = @ /\ m # "Strict"]

\* sync_mode; the card of the chip is not left open for the tab that is shown next.
SyncedWithPopup(a, m) == [BadgeSynced(a, m) EXCEPT !.mode = m]

BarModeSynced(a, m) ==
  [BadgeSynced(a, m) EXCEPT !.mode = m, !.chip_hovered = FALSE, !.popup_hovered = FALSE,
                            !.grace = FALSE]

\* UrlInput::clear aborts the lookup of what was typed.
ClearedTextOnly(a) == [a EXCEPT !.text = NoText]

InputCleared(a) == [a EXCEPT !.text = NoText, !.lookup = {}]

\* A dismissal of the chip outlives tab switches until the tab has an address.
ResetForTab(a, id, hasUrl, m) ==
  [InputCleared(BarModeSynced(a, m)) EXCEPT
     !.current_tab_id = id,
     !.bar_state = "Rest",
     !.hasUrl = hasUrl,
     !.dismissed = IF hasUrl THEN @ \ {id} ELSE @,
     !.chip_state = IF hasUrl \/ id \in a.dismissed THEN "Hidden" ELSE "FreshTab"]

Forgotten(a, id) == [a EXCEPT !.dismissed = @ \ {id}]

-----------------------------------------------------------------------------
\* UrlInput::Changed: typing into the resting bar focuses it; every change aborts the
\* lookup before and starts its own, the empty text none.
Typed(a, t) ==
  [a EXCEPT !.bar_state = IF @ = "Rest" THEN "Focused" ELSE @,
            !.text = t,
            !.lookup = IF t = NoText THEN {} ELSE {t}]

\* The sleep is over and the provider has answered; the one wired in knows nothing, so
\* the list of suggestions stays closed.
LookedUp(a) == [a EXCEPT !.lookup = {}]

Focused(a) == [a EXCEPT !.bar_state = "Focused"]

\* Whatever is in the field becomes an address: itself or a search for it.
Committed(a) ==
  [InputCleared(a) EXCEPT !.hasUrl = TRUE, !.chip_state = "Hidden",
                          !.bar_state = "Navigating"]

ChipDismissed(a) ==
  [a EXCEPT !.chip_state = "Hidden", !.chip_hovered = FALSE,
            !.dismissed = @ \cup {a.current_tab_id}]

\* PopoverToggled, and PopoverClosed of an open one.
PopoverToggled(a) == [a EXCEPT !.popover_open = ~@]

\* The pointer comes to and leaves the chip and its card.
ChipEntered(a) == [a EXCEPT !.chip_hovered = TRUE]

ChipExited(a) == [a EXCEPT !.chip_hovered = FALSE, !.grace = TRUE]

PopupEntered(a) == [a EXCEPT !.popup_hovered = TRUE, !.grace = FALSE]

PopupExited(a) == [a EXCEPT !.popup_hovered = FALSE]

\* Any timer of 150 ms, also one started by an earlier exit.
GraceEnded(a) == [a EXCEPT !.grace = FALSE]
=============================================================================

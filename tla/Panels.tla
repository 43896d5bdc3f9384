------------------------------- MODULE Panels -------------------------------
(***************************************************************************)
(* The panels over the page: find bar, history panel, card view and new    *)
(* tab page, as the shell drives them (pb-ui/shell.rs).  Messages that     *)
(* update takes and the shell has no sender for yet (what storage answers, *)
(* the session to resume, the focus keys of history) come at any moment.   *)
(***************************************************************************)
EXTENDS Integers, Sequences, FiniteSetTheorems, SequenceTheorems, TLAPS

(* The history panel (pb-ui/history.rs) as operators on its record: what   *)
(* each message makes of it.  An entry is its id; a query is the empty one *)
(* or a word, and Matches says which entries have it in title or domain.   *)

CONSTANTS
  Entry,       \* history entries, by id
  Query, NoQuery,
  Matches,     \* word -> the entries it is found in
  NoRow        \* focused_row = None

ASSUME QueryAssumption == NoQuery \in Query /\ NoRow \notin Nat

HistoryPhase == {"Loading", "Empty", "Populated", "Searching", "Clearing", "LoadError",
                 "CorruptedWarning"}

Panel == [open : BOOLEAN, phase : HistoryPhase, entries : Seq(Entry), query : Query,
          focus : Nat \cup {NoRow}]

NewPanel ==
  [open |-> FALSE, phase |-> "Loading", entries |-> << >>, query |-> NoQuery, focus |-> NoRow]

\* filter and retain: the entries at some places of a list, in their order.
Kept(s, S) ==
  [n \in 1..Cardinality(S) |-> s[CHOOSE i \in S : Cardinality({j \in S : j <= i}) = n]]

Filtered(h) ==
  Kept(h.entries, {i \in DOMAIN h.entries :
                     h.query = NoQuery \/ h.entries[i] \in Matches[h.query]})
VisibleCount(h) == Len(Filtered(h))

PhaseOf(h) ==
  IF h.entries = << >> THEN "Empty"
  ELSE IF h.query = NoQuery THEN "Populated" ELSE "Searching"
Recomputed(h) == [h EXCEPT !.phase = PhaseOf(h)]

-----------------------------------------------------------------------------
(* update, one operator per message.                                       *)

\* The phase is computed before the search is cleared.
HistoryOpened(h) ==
  [Recomputed(h) EXCEPT !.open = TRUE, !.query = NoQuery, !.focus = NoRow]

HistoryClosed(h) ==
  LET closed == [h EXCEPT !.open = FALSE, !.query = NoQuery, !.focus = NoRow]
  IN  IF h.phase = "Clearing" THEN Recomputed(closed) ELSE closed

EntriesLoadedKeepingFocus(h, es) == Recomputed([h EXCEPT !.entries = es])
EntriesLoaded(h, es) == Recomputed([h EXCEPT !.entries = es, !.focus = NoRow])
LoadError(h) == [h EXCEPT !.phase = "LoadError"]
StorageCorrupted(h) == [h EXCEPT !.phase = "CorruptedWarning"]
SearchChanged(h, q) == Recomputed([h EXCEPT !.query = q, !.focus = NoRow])

WithoutEntry(h, e) == [h EXCEPT !.entries = Kept(@, {i \in DOMAIN @ : @[i] # e})]

EntryDelete(h, e) == Recomputed([WithoutEntry(h, e) EXCEPT !.focus = NoRow])

FocusUp(h) ==
  IF VisibleCount(h) = 0 THEN h
  ELSE [h EXCEPT !.focus = IF @ \in {NoRow, 0} THEN VisibleCount(h) - 1 ELSE @ - 1]

FocusDown(h) ==
  IF VisibleCount(h) = 0 THEN h
  ELSE [h EXCEPT !.focus = IF @ = NoRow THEN 0 ELSE (@ + 1) % VisibleCount(h)]

\* The entry that FocusActivate opens and FocusDelete removes, if there is one at the focus.
FocusedEntry(h) ==
  IF h.focus = NoRow \/ h.focus >= VisibleCount(h) THEN {} ELSE {Filtered(h)[h.focus + 1]}

FocusDelete(h) ==
  IF FocusedEntry(h) = {} THEN h
  ELSE LET left == WithoutEntry(h, CHOOSE e \in FocusedEntry(h) : TRUE)
           rows == VisibleCount(left)
       IN  Recomputed([left EXCEPT
             !.focus = IF rows = 0 THEN NoRow ELSE IF @ < rows THEN @ ELSE rows - 1])

ClearRequested(h) ==
  IF h.phase \in {"Populated", "Searching"} THEN [h EXCEPT !.phase = "Clearing"] ELSE h
ClearConfirmed(h) ==
  [h EXCEPT !.entries = << >>, !.query = NoQuery, !.focus = NoRow, !.phase = "Empty"]
\* ClearCancelled, ClearFailed.
ClearGivenUp(h) == Recomputed(h)

-----------------------------------------------------------------------------
(* What the view offers: the messages its controls can send, phase by      *)
(* phase.  The page under the header is a list, a dialog or a text.        *)

HeaderOffers(h) ==
  {"Closed"} \cup
  (IF h.phase \in {"Populated", "Searching"} THEN {"SearchChanged", "ClearRequested"} ELSE {})

\* A search that finds nothing shows a line of text instead of rows.
ListOffers(h) == IF Filtered(h) = << >> THEN {} ELSE {"EntryOpen", "EntryDelete"}

ClearDialogOffers == {"ClearCancelled", "ClearConfirmed"}
PlaceholderOffers == {}
ErrorOffers == {}

BodyOffers(h) ==
  CASE h.phase \in {"Loading", "Empty"}              -> PlaceholderOffers
    [] h.phase \in {"Populated", "Searching"}        -> ListOffers(h)
    [] h.phase = "Clearing"                          -> ClearDialogOffers
    [] h.phase \in {"LoadError", "CorruptedWarning"} -> ErrorOffers

HistoryOffers(h) == IF h.open THEN HeaderOffers(h) \cup BodyOffers(h) ELSE {}

-----------------------------------------------------------------------------
CONSTANTS
  Load,        \* the lists of entries that history storage may answer with
  Session,     \* earlier sessions that can be resumed
  NoSession

ASSUME LoadAssumption == Load \subseteq Seq(Entry)

VARIABLES
  history,     \* the history panel
  find,        \* the find bar: [open, query, mode, dropdown]
  cardOpen,    \* whether the card view is open
  page,        \* the new tab page: [mode, resume, phase]
  queued,      \* whether a press of Resume waits to be handled
  pressed      \* what Resume last asked for, and the mode it was pressed in

vars == <<history, find, cardOpen, page, queued, pressed>>

Mode == {"Standard", "Strict"}
SearchMode == {"Contains", "StartsWith", "EndsWith"}
NewFind == [open |-> FALSE, query |-> NoQuery, mode |-> "Contains", dropdown |-> FALSE]
NotPressed == [session |-> NoSession, mode |-> "Standard"]

\* ProfileLoaded: the start page is out of Loading and history has its first entries.
Init ==
  /\ history \in {EntriesLoaded(NewPanel, es) : es \in Load}
  /\ find = NewFind
  /\ cardOpen = FALSE
  /\ page = [mode |-> "Standard", resume |-> NoSession, phase |-> "Empty"]
  /\ queued = FALSE
  /\ pressed = NotPressed

-----------------------------------------------------------------------------
(* The layers of the window that take clicks: the content, which is the    *)
(* history panel or the new tab page, the click catcher of an open search  *)
(* mode dropdown, and above it the find bar.                               *)

\* The page: its favourites are tiles, and the card of the last session is shown in Standard.
NewTabOffers(p) ==
  IF p.phase = "Loading" THEN {}
  ELSE (IF p.phase = "Populated" THEN {"FavoritePressed"} ELSE {}) \cup
       (IF p.mode = "Standard" /\ p.resume # NoSession THEN {"ResumeSessionPressed"} ELSE {})

\* Around an open dropdown a click only closes it.
CatcherOffers(f) == IF f.open /\ f.dropdown THEN {"ModeDropdownToggled"} ELSE {}

ContentOffers ==
  IF CatcherOffers(find) # {} THEN {}
  ELSE IF history.open THEN HistoryOffers(history) ELSE NewTabOffers(page)

FindOffers(f) ==
  IF ~f.open THEN {}
  ELSE {"Closed", "QueryChanged", "ModeDropdownToggled"} \cup
       (IF f.dropdown THEN {"ModeSelected"} ELSE {})

-----------------------------------------------------------------------------
(* History.                                                                *)

HistoryBecomes(h) == history' = h /\ UNCHANGED <<find, cardOpen, page, queued, pressed>>

\* Cmd+Y, open or not; the close button.
OpenHistory == HistoryBecomes(HistoryOpened(history))
CloseHistory == "Closed" \in ContentOffers /\ HistoryBecomes(HistoryClosed(history))

\* Storage answers, whatever the panel shows by then.
HistoryArrives ==
  \/ \E es \in Load : HistoryBecomes(EntriesLoaded(history, es))
  \/ HistoryBecomes(LoadError(history))
  \/ HistoryBecomes(StorageCorrupted(history))
  \/ HistoryBecomes(ClearGivenUp(history))

SearchHistory ==
  /\ "SearchChanged" \in ContentOffers
  /\ \E q \in Query : HistoryBecomes(SearchChanged(history, q))

DeleteRow ==
  /\ "EntryDelete" \in ContentOffers
  /\ \E i \in DOMAIN Filtered(history) :
       HistoryBecomes(EntryDelete(history, Filtered(history)[i]))

AskToClear ==
  /\ "ClearRequested" \in ContentOffers
  /\ HistoryBecomes(ClearRequested(history))

\* The keyboard messages of the panel.  update has no guard on them: they act on the filtered
\* entries whatever body is drawn.  The shell's subscription does not send them yet.
FocusMessages ==
  \/ HistoryBecomes(FocusUp(history))
  \/ HistoryBecomes(FocusDown(history))
  \/ HistoryBecomes(FocusDelete(history))

AnswerClearDialog ==
  \/ "ClearConfirmed" \in ContentOffers /\ HistoryBecomes(ClearConfirmed(history))
  \/ "ClearCancelled" \in ContentOffers /\ HistoryBecomes(ClearGivenUp(history))

-----------------------------------------------------------------------------
(* Find bar.  Matches are counted by the page engine, which is not there   *)
(* yet: match_count stays 0, and next and previous do nothing.             *)

FindBecomes(f) == find' = f /\ UNCHANGED <<history, cardOpen, page, queued, pressed>>

\* The search mode is kept from one opening to the next, the text is not.
Blank(f) == [f EXCEPT !.query = NoQuery, !.dropdown = FALSE]

\* Cmd+F, also while it is open.
OpenFind == FindBecomes([Blank(find) EXCEPT !.open = TRUE])
CloseFind ==
  "Closed" \in FindOffers(find) /\ FindBecomes([Blank(find) EXCEPT !.open = FALSE])
TypeInFind ==
  /\ "QueryChanged" \in FindOffers(find)
  /\ \E q \in Query : FindBecomes([find EXCEPT !.query = q, !.dropdown = FALSE])
ToggleDropdown ==
  /\ "ModeDropdownToggled" \in FindOffers(find) \cup CatcherOffers(find)
  /\ FindBecomes([find EXCEPT !.dropdown = ~@])
SelectMode ==
  /\ "ModeSelected" \in FindOffers(find)
  /\ \E m \in SearchMode : FindBecomes([find EXCEPT !.mode = m, !.dropdown = FALSE])

-----------------------------------------------------------------------------
(* Card view, Escape, new tab page.                                        *)

OpenCards ==
  /\ cardOpen' = TRUE
  /\ UNCHANGED <<history, find, page, queued, pressed>>

\* The key: FindEscape closes the first of the three that is open.  An open card view hears
\* the key as well and closes, unless a text field has taken the press.
Escape ==
  /\ find' = IF find.open THEN [Blank(find) EXCEPT !.open = FALSE] ELSE find
  /\ history' = IF ~find.open /\ history.open THEN HistoryClosed(history) ELSE history
  /\ cardOpen' \in {FALSE, cardOpen /\ (find.open \/ history.open)}
  /\ UNCHANGED <<page, queued, pressed>>

\* sync_mode, with the mode of the tab that becomes active: Strict forgets the session.
SyncMode(mode) ==
  /\ page' = [page EXCEPT !.mode = mode,
                          !.resume = IF mode = "Strict" THEN NoSession ELSE @]
  /\ UNCHANGED <<history, find, cardOpen, queued, pressed>>

AnySessionLoaded ==
  /\ \E s \in Session \cup {NoSession} : page' = [page EXCEPT !.resume = s]
  /\ UNCHANGED <<history, find, cardOpen, queued, pressed>>

\* SessionResumeLoaded is dropped when the page is Strict by the time it arrives.
SessionLoaded ==
  /\ \E s \in Session \cup {NoSession} :
       page' = [page EXCEPT !.resume = IF page.mode = "Standard" THEN s ELSE @]
  /\ UNCHANGED <<history, find, cardOpen, queued, pressed>>

FavoritesLoaded ==
  /\ \E phase \in {"Empty", "Populated"} : page' = [page EXCEPT !.phase = phase]
  /\ UNCHANGED <<history, find, cardOpen, queued, pressed>>

PressResume ==
  /\ "ResumeSessionPressed" \in ContentOffers
  /\ queued' = TRUE
  /\ UNCHANGED <<history, find, cardOpen, page, pressed>>

\* The press is handled later, and answers with the session of that moment.
HandleResume ==
  /\ queued
  /\ queued' = FALSE
  /\ pressed' = [session |-> page.resume, mode |-> page.mode]
  /\ UNCHANGED <<history, find, cardOpen, page>>

Next ==
  \/ OpenHistory \/ CloseHistory \/ HistoryArrives \/ FocusMessages
  \/ SearchHistory \/ DeleteRow \/ AskToClear \/ AnswerClearDialog
  \/ OpenFind \/ CloseFind \/ TypeInFind \/ ToggleDropdown \/ SelectMode
  \/ OpenCards \/ Escape
  \/ \E mode \in Mode : SyncMode(mode)
  \/ SessionLoaded \/ FavoritesLoaded \/ PressResume \/ HandleResume

Spec == Init /\ [][Next]_vars

-----------------------------------------------------------------------------
(* What must hold.                                                         *)

\* The focus is a place in a list that searches, deletions, reloads and failures change under
\* it.  When it is on a place there is an entry there, and only the focus messages choose which:
\* anything else leaves the same entry under it or takes it away, so that what is opened or
\* deleted next is what was chosen (history.rs, update).  Whether rows are drawn at that
\* moment is another matter: in LoadError, CorruptedWarning and Clearing they are not.
FocusStep ==
  /\ history'.focus # NoRow => FocusedEntry(history') # {}
  /\ FocusMessages \/ FocusedEntry(history') \in {{}, FocusedEntry(history)}

FocusKeepsItsEntry == [][FocusStep]_vars

\* Strict never resumes a session of another page, not even one that was being loaded or
\* pressed when the mode changed.
NoResumeInStrict == pressed.mode = "Strict" => pressed.session = NoSession

-----------------------------------------------------------------------------
(* For the runs: three entries, a word that two of them have, and the      *)
(* lists that storage answers with.                                        *)
WordIn == [q \in {"rust"} |-> {2, 3}]
Loads == {<< >>, <<1, 2, 3>>, <<3, 1>>}

-----------------------------------------------------------------------------
(* For every set of entries, words and sessions.                           *)

PageTypeOK ==
  page \in [mode : Mode, resume : Session \cup {NoSession},
            phase : {"Empty", "Populated"}]

\* A Strict page never holds a session, so a press has none to answer with.
StrictPageForgets == page.mode = "Strict" => page.resume = NoSession

PageInv == PageTypeOK /\ StrictPageForgets /\ NoResumeInStrict

\* Every step of the window keeps the invariant of the page.
LEMMA PageStepKeepsInv == PageInv /\ [Next]_vars => PageInv'
<1> SUFFICES ASSUME PageInv, [Next]_vars PROVE PageInv'
  OBVIOUS
<1> USE DEF PageInv, PageTypeOK, StrictPageForgets, NoResumeInStrict, Mode
<1>1. ASSUME NEW mode \in Mode, SyncMode(mode) PROVE PageInv'
  BY <1>1 DEF SyncMode
<1>2. CASE SessionLoaded
  BY <1>2 DEF SessionLoaded
<1>3. CASE FavoritesLoaded
  BY <1>3 DEF FavoritesLoaded
<1>4. CASE HandleResume
  BY <1>4 DEF HandleResume
<1>5. CASE UNCHANGED <<page, pressed>>
  BY <1>5
<1>6. CASE OpenHistory \/ CloseHistory \/ HistoryArrives \/ FocusMessages
            \/ SearchHistory \/ DeleteRow \/ AskToClear \/ AnswerClearDialog
  BY <1>5, <1>6 DEF OpenHistory, CloseHistory, HistoryArrives, FocusMessages, SearchHistory,
     DeleteRow, AskToClear, AnswerClearDialog, HistoryBecomes
<1>7. CASE OpenFind \/ CloseFind \/ TypeInFind \/ ToggleDropdown \/ SelectMode
  BY <1>5, <1>7 DEF OpenFind, CloseFind, TypeInFind, ToggleDropdown, SelectMode, FindBecomes
<1>8. CASE OpenCards \/ Escape \/ PressResume \/ UNCHANGED vars
  BY <1>5, <1>8 DEF OpenCards, Escape, PressResume, vars
<1> QED BY <1>1, <1>2, <1>3, <1>4, <1>6, <1>7, <1>8 DEF Next

\* Whatever sessions there are, and whenever they are loaded or pressed: the answer to Resume
\* on a Strict page never names one (new_tab_screen.rs, sync_mode and SessionResumeLoaded).
THEOREM StrictNeverResumes == Spec => []NoResumeInStrict
<1>1. Init => PageInv
  BY DEF Init, PageInv, PageTypeOK, StrictPageForgets, NoResumeInStrict, NotPressed, Mode
<1>2. PageInv /\ [Next]_vars => PageInv'
  BY PageStepKeepsInv
<1>3. PageInv => NoResumeInStrict
  BY DEF PageInv
<1> QED BY <1>1, <1>2, <1>3, PTL DEF Spec

-----------------------------------------------------------------------------
(* The focus.                                                              *)

\* A panel whose focus, if it is on a place, is on one of the filtered entries.
PanelFields == {"open", "phase", "entries", "query", "focus"}

PanelOk(h) ==
  /\ DOMAIN h = PanelFields
  /\ IsFiniteSet(DOMAIN h.entries)
  /\ h.focus \in Nat \cup {NoRow}
  /\ h.focus = NoRow \/ h.focus < VisibleCount(h)

\* What is kept of a finite list has a length.
LEMMA KeptCounts ==
  ASSUME NEW s, NEW S, IsFiniteSet(S)
  PROVE  Len(Kept(s, S)) \in Nat /\ IsFiniteSet(DOMAIN Kept(s, S))
<1> DEFINE n == Cardinality(S)
           k == Kept(s, S)
<1>1. n \in Nat
  BY FS_CardinalityType
<1>2. DOMAIN k = 1..n /\ k = [i \in 1..n |-> k[i]]
  BY DEF Kept
<1> HIDE DEF n, k
<1>3. k \in Seq({k[i] : i \in 1..n})
  BY <1>1, <1>2
<1>4. Len(k) \in Nat
  BY <1>3
<1>5. IsFiniteSet(1..n)
  BY <1>1, FS_Interval
<1> QED BY <1>2, <1>4, <1>5 DEF k

\* So that a panel shows some number of rows.
LEMMA RowsCount ==
  ASSUME NEW h, IsFiniteSet(DOMAIN h.entries)
  PROVE  VisibleCount(h) \in Nat
<1> DEFINE S == {i \in DOMAIN h.entries :
                   h.query = NoQuery \/ h.entries[i] \in Matches[h.query]}
<1>1. IsFiniteSet(S)
  BY FS_Subset
<1> QED BY <1>1, KeptCounts DEF VisibleCount, Filtered

\* Only the entries and the query decide which rows there are.
LEMMA SameRows ==
  ASSUME NEW g, NEW h, g.entries = h.entries, g.query = h.query
  PROVE  VisibleCount(g) = VisibleCount(h)
  BY DEF VisibleCount, Filtered

\* What a deletion leaves.
LEMMA DeletionLists ==
  ASSUME NEW h, DOMAIN h = PanelFields, IsFiniteSet(DOMAIN h.entries), NEW e
  PROVE  LET left == WithoutEntry(h, e)
         IN  /\ DOMAIN left = PanelFields /\ IsFiniteSet(DOMAIN left.entries)
             /\ left.focus = h.focus
<1> DEFINE places == {i \in DOMAIN h.entries : h.entries[i] # e}
           kept == Kept(h.entries, places)
<1>1. IsFiniteSet(DOMAIN kept)
  <2>1. IsFiniteSet(places)
    BY FS_Subset
  <2> HIDE DEF places
  <2> QED BY <2>1, KeptCounts
<1>2. WithoutEntry(h, e) = [h EXCEPT !.entries = kept]
  BY DEF WithoutEntry, PanelFields
<1> HIDE DEF kept
<1> QED BY <1>1, <1>2 DEF PanelFields

\* A panel in another phase shows the same rows.
LEMMA PhaseKeepsPanel ==
  ASSUME NEW h, PanelOk(h), NEW phase
  PROVE  PanelOk([h EXCEPT !.phase = phase])
<1> DEFINE g == [h EXCEPT !.phase = phase]
<1>1. /\ DOMAIN g = PanelFields
      /\ g.entries = h.entries /\ g.query = h.query /\ g.focus = h.focus
  BY DEF PanelOk, PanelFields
<1> HIDE DEF g
<1>2. VisibleCount(g) = VisibleCount(h)
  BY <1>1, SameRows
<1>3. PanelOk(g)
  BY <1>1, <1>2 DEF PanelOk
<1> QED BY <1>3 DEF g

\* A panel without a focus is right, whatever it lists and in whatever phase.
LEMMA UnfocusedOk ==
  ASSUME NEW h, DOMAIN h = PanelFields, IsFiniteSet(DOMAIN h.entries), h.focus = NoRow
  PROVE  PanelOk(h) /\ PanelOk(Recomputed(h))
<1>1. PanelOk(h)
  BY DEF PanelOk
<1> QED BY <1>1, PhaseKeepsPanel DEF Recomputed

\* The messages that take the focus away.
LEMMA MessagesUnfocus ==
  ASSUME NEW h, PanelOk(h), NEW es, IsFiniteSet(DOMAIN es), NEW q, NEW e
  PROVE  /\ PanelOk(HistoryOpened(h)) /\ PanelOk(HistoryClosed(h))
         /\ PanelOk(EntriesLoaded(h, es)) /\ PanelOk(SearchChanged(h, q))
         /\ PanelOk(EntryDelete(h, e)) /\ PanelOk(ClearConfirmed(h))
<1>1. DOMAIN h = PanelFields /\ IsFiniteSet(DOMAIN h.entries)
  BY DEF PanelOk
<1>2. PanelOk(HistoryOpened(h))
  <2> DEFINE g == HistoryOpened(h)
  <2>1. DOMAIN g = PanelFields /\ g.entries = h.entries /\ g.focus = NoRow
    BY <1>1 DEF HistoryOpened, Recomputed, PanelFields
  <2> QED BY <1>1, <2>1, UnfocusedOk
<1>3. PanelOk(HistoryClosed(h))
  <2> DEFINE g == [h EXCEPT !.open = FALSE, !.query = NoQuery, !.focus = NoRow]
  <2>1. DOMAIN g = PanelFields /\ g.entries = h.entries /\ g.focus = NoRow
    BY <1>1 DEF PanelFields
  <2> HIDE DEF g
  <2>2. PanelOk(g) /\ PanelOk(Recomputed(g))
    BY <1>1, <2>1, UnfocusedOk
  <2>3. HistoryClosed(h) \in {g, Recomputed(g)}
    BY DEF HistoryClosed, g
  <2> QED BY <2>2, <2>3
<1>4. PanelOk(EntriesLoaded(h, es))
  <2> DEFINE g == [h EXCEPT !.entries = es, !.focus = NoRow]
  <2>1. DOMAIN g = PanelFields /\ g.entries = es /\ g.focus = NoRow
    BY <1>1 DEF PanelFields
  <2> QED BY <2>1, UnfocusedOk DEF EntriesLoaded
<1>5. PanelOk(SearchChanged(h, q))
  <2> DEFINE g == [h EXCEPT !.query = q, !.focus = NoRow]
  <2>1. DOMAIN g = PanelFields /\ g.entries = h.entries /\ g.focus = NoRow
    BY <1>1 DEF PanelFields
  <2> QED BY <1>1, <2>1, UnfocusedOk DEF SearchChanged
<1>6. PanelOk(EntryDelete(h, e))
  <2> DEFINE less == WithoutEntry(h, e)
             g == [less EXCEPT !.focus = NoRow]
  <2>1. DOMAIN less = PanelFields /\ IsFiniteSet(DOMAIN less.entries)
    BY <1>1, DeletionLists
  <2> HIDE DEF less
  <2>2. DOMAIN g = PanelFields /\ g.entries = less.entries /\ g.focus = NoRow
    BY <2>1 DEF PanelFields
  <2> QED BY <2>1, <2>2, UnfocusedOk DEF EntryDelete, less
<1>7. PanelOk(ClearConfirmed(h))
  <2> DEFINE g == ClearConfirmed(h)
  <2>1. DOMAIN g = PanelFields /\ g.entries = << >> /\ g.focus = NoRow
    BY <1>1 DEF PanelFields, ClearConfirmed
  <2>2. IsFiniteSet(DOMAIN << >>)
    <3>1. DOMAIN << >> = {}
      OBVIOUS
    <3> QED BY <3>1, FS_EmptySet
  <2> QED BY <2>1, <2>2, UnfocusedOk
<1> QED BY <1>2, <1>3, <1>4, <1>5, <1>6, <1>7

\* The focus moved to a row that is shown.
LEMMA FocusMoves ==
  ASSUME NEW h, DOMAIN h = PanelFields, IsFiniteSet(DOMAIN h.entries),
         NEW row \in Nat \cup {NoRow}, row = NoRow \/ row < VisibleCount(h)
  PROVE  PanelOk([h EXCEPT !.focus = row])
<1> DEFINE g == [h EXCEPT !.focus = row]
<1>1. /\ DOMAIN g = PanelFields
      /\ g.entries = h.entries /\ g.query = h.query /\ g.focus = row
  BY DEF PanelFields
<1> HIDE DEF g
<1>2. VisibleCount(g) = VisibleCount(h)
  BY <1>1, SameRows
<1>3. PanelOk(g)
  BY <1>1, <1>2 DEF PanelOk
<1> QED BY <1>3 DEF g

\* The arrow keys wrap around at both ends.
LEMMA ArrowsKeepPanel ==
  ASSUME NEW h, PanelOk(h)
  PROVE  PanelOk(FocusUp(h)) /\ PanelOk(FocusDown(h))
<1> DEFINE rows == VisibleCount(h)
<1>1. /\ rows \in Nat /\ h.focus \in Nat \cup {NoRow} /\ (h.focus = NoRow \/ h.focus < rows)
      /\ DOMAIN h = PanelFields /\ IsFiniteSet(DOMAIN h.entries)
  BY RowsCount DEF PanelOk
<1> DEFINE up == IF h.focus \in {NoRow, 0} THEN rows - 1 ELSE h.focus - 1
           down == IF h.focus = NoRow THEN 0 ELSE (h.focus + 1) % rows
<1>2. ASSUME rows # 0 PROVE up \in Nat /\ up < rows /\ down \in Nat /\ down < rows
  <2> HIDE DEF rows
  <2>1. up \in Nat /\ up < rows
    BY <1>1, <1>2
  <2>2. down \in Nat /\ down < rows
    BY <1>1, <1>2
  <2> QED BY <2>1, <2>2
<1>3. /\ FocusUp(h) = IF rows = 0 THEN h ELSE [h EXCEPT !.focus = up]
      /\ FocusDown(h) = IF rows = 0 THEN h ELSE [h EXCEPT !.focus = down]
  BY DEF FocusUp, FocusDown, PanelOk, PanelFields
<1> HIDE DEF rows, up, down
<1>4. rows # 0 => PanelOk([h EXCEPT !.focus = up]) /\ PanelOk([h EXCEPT !.focus = down])
  BY <1>1, <1>2, FocusMoves DEF rows
<1> QED BY <1>3, <1>4

\* Deleting at the focus: the row that moves up into its place, or the last one.
LEMMA DeleteKeepsPanel ==
  ASSUME NEW h, PanelOk(h)
  PROVE  PanelOk(FocusDelete(h))
<1> DEFINE left == WithoutEntry(h, CHOOSE x \in FocusedEntry(h) : TRUE)
           rows == VisibleCount(left)
           row == IF rows = 0 THEN NoRow ELSE IF h.focus < rows THEN h.focus ELSE rows - 1
<1>1. CASE FocusedEntry(h) = {}
  BY <1>1 DEF FocusDelete
<1>2. CASE FocusedEntry(h) # {}
  <2>1. h.focus \in Nat /\ DOMAIN h = PanelFields /\ IsFiniteSet(DOMAIN h.entries)
    BY <1>2 DEF FocusedEntry, PanelOk
  <2>2. DOMAIN left = PanelFields /\ IsFiniteSet(DOMAIN left.entries) /\ left.focus = h.focus
    BY <2>1, DeletionLists
  <2>3. FocusDelete(h) = Recomputed([left EXCEPT !.focus = row])
    BY <1>2, <2>2 DEF FocusDelete, PanelFields
  <2> HIDE DEF left
  <2>4. rows \in Nat
    BY <2>2, RowsCount
  <2> HIDE DEF rows
  <2>5. row \in Nat \cup {NoRow} /\ (row = NoRow \/ row < rows)
    BY <2>1, <2>4
  <2> HIDE DEF row
  <2>6. PanelOk([left EXCEPT !.focus = row])
    BY <2>2, <2>5, FocusMoves DEF rows
  <2> DEFINE moved == [left EXCEPT !.focus = row]
  <2> HIDE DEF moved
  <2>7. PanelOk(Recomputed(moved))
    BY <2>6, PhaseKeepsPanel, Zenon DEF Recomputed, moved
  <2> QED BY <2>3, <2>7 DEF moved
<1> QED BY <1>1, <1>2

\* Every step of the window keeps the panel right.
LEMMA PanelStep == PanelOk(history) /\ [Next]_vars => PanelOk(history)'
<1> SUFFICES ASSUME PanelOk(history), [Next]_vars PROVE PanelOk(history')
  OBVIOUS
<1> DEFINE h == history
<1>1. \A es \in Load : IsFiniteSet(DOMAIN es)
  <2> SUFFICES ASSUME NEW es \in Load PROVE IsFiniteSet(DOMAIN es)
    OBVIOUS
  <2>1. DOMAIN es = 1..Len(es) /\ Len(es) \in Nat
    BY LoadAssumption
  <2> DEFINE n == Len(es)
  <2> HIDE DEF n
  <2>2. n \in Nat => IsFiniteSet(1..n)
    BY FS_Interval
  <2> QED BY <2>1, <2>2 DEF n
<1>2. IsFiniteSet(DOMAIN h.entries)
  BY DEF PanelOk
<1>3. /\ PanelOk(HistoryOpened(h)) /\ PanelOk(HistoryClosed(h)) /\ PanelOk(ClearConfirmed(h))
      /\ \A es \in Load : PanelOk(EntriesLoaded(h, es))
      /\ \A q : PanelOk(SearchChanged(h, q))
      /\ \A e : PanelOk(EntryDelete(h, e))
  BY <1>1, <1>2, MessagesUnfocus
<1>4. /\ PanelOk(LoadError(h)) /\ PanelOk(StorageCorrupted(h)) /\ PanelOk(ClearGivenUp(h))
      /\ PanelOk(ClearRequested(h))
  BY PhaseKeepsPanel DEF LoadError, StorageCorrupted, ClearGivenUp, ClearRequested, Recomputed
<1>5. PanelOk(FocusUp(h)) /\ PanelOk(FocusDown(h)) /\ PanelOk(FocusDelete(h))
  BY ArrowsKeepPanel, DeleteKeepsPanel
<1>6. CASE OpenHistory \/ CloseHistory \/ HistoryArrives \/ SearchHistory \/ DeleteRow
  BY <1>3, <1>4, <1>6
     DEF OpenHistory, CloseHistory, HistoryArrives, SearchHistory, DeleteRow, HistoryBecomes
<1>7. CASE FocusMessages \/ AskToClear \/ AnswerClearDialog
  BY <1>3, <1>4, <1>5, <1>7 DEF FocusMessages, AskToClear, AnswerClearDialog, HistoryBecomes
<1>8. CASE Escape
  BY <1>3, <1>8 DEF Escape
<1>9. CASE OpenFind \/ CloseFind \/ TypeInFind \/ ToggleDropdown \/ SelectMode \/ OpenCards
  BY <1>9
     DEF OpenFind, CloseFind, TypeInFind, ToggleDropdown, SelectMode, FindBecomes, OpenCards
<1>10. CASE \/ \E mode \in Mode : SyncMode(mode)
            \/ SessionLoaded \/ FavoritesLoaded \/ PressResume \/ HandleResume \/ UNCHANGED vars
  BY <1>10 DEF SyncMode, SessionLoaded, FavoritesLoaded, PressResume, HandleResume, vars
<1> QED BY <1>6, <1>7, <1>8, <1>9, <1>10 DEF Next

\* What a message may make of the focus without being a focus message: none at all, or the
\* same place in the same rows.
LetsGo(h, g) ==
  g.focus = NoRow \/ (g.entries = h.entries /\ g.query = h.query /\ g.focus = h.focus)

\* Then the entry under it is the same one or none.
LEMMA LettingGo ==
  ASSUME NEW h, NEW g, LetsGo(h, g)
  PROVE  FocusedEntry(g) \in {{}, FocusedEntry(h)}
<1>1. CASE g.focus = NoRow
  BY <1>1 DEF FocusedEntry
<1>2. CASE g.entries = h.entries /\ g.query = h.query /\ g.focus = h.focus
  <2>1. Filtered(g) = Filtered(h) /\ VisibleCount(g) = VisibleCount(h)
    BY <1>2 DEF VisibleCount, Filtered
  <2> QED BY <1>2, <2>1 DEF FocusedEntry
<1> QED BY <1>1, <1>2 DEF LetsGo

\* A place that is below the number of filtered entries has an entry.
LEMMA FocusHasEntry ==
  ASSUME NEW h, PanelOk(h), h.focus # NoRow
  PROVE  FocusedEntry(h) # {}
<1>1. VisibleCount(h) \in Nat /\ h.focus \in Nat /\ h.focus < VisibleCount(h)
  BY RowsCount DEF PanelOk
<1> QED BY <1>1 DEF FocusedEntry

\* No step but a focus message moves the focus to another entry.
LEMMA OtherStepsLetGo ==
  PanelOk(history) /\ [Next]_vars => FocusMessages \/ LetsGo(history, history')
<1> SUFFICES ASSUME PanelOk(history), [Next]_vars PROVE FocusMessages \/ LetsGo(history, history')
  OBVIOUS
<1> DEFINE h == history
<1>1. DOMAIN h = PanelFields
  BY DEF PanelOk
<1>2. /\ HistoryOpened(h).focus = NoRow /\ HistoryClosed(h).focus = NoRow
      /\ ClearConfirmed(h).focus = NoRow
  BY <1>1 DEF HistoryOpened, HistoryClosed, ClearConfirmed, Recomputed, PanelFields
<1>3. /\ \A es \in Load : EntriesLoaded(h, es).focus = NoRow
      /\ \A q : SearchChanged(h, q).focus = NoRow
  BY <1>1 DEF EntriesLoaded, SearchChanged, Recomputed, PanelFields
<1>4. ASSUME NEW e PROVE EntryDelete(h, e).focus = NoRow
  <2>1. DOMAIN WithoutEntry(h, e) = PanelFields
    BY <1>1 DEF WithoutEntry, PanelFields
  <2> QED BY <2>1 DEF EntryDelete, Recomputed, PanelFields
<1>5. /\ LetsGo(h, LoadError(h)) /\ LetsGo(h, StorageCorrupted(h))
      /\ LetsGo(h, ClearGivenUp(h)) /\ LetsGo(h, ClearRequested(h))
  BY <1>1
     DEF LetsGo, LoadError, StorageCorrupted, ClearGivenUp, ClearRequested, Recomputed, PanelFields
<1>6. CASE OpenHistory \/ CloseHistory \/ HistoryArrives \/ SearchHistory \/ DeleteRow
  BY <1>2, <1>3, <1>4, <1>5, <1>6
     DEF OpenHistory, CloseHistory, HistoryArrives, SearchHistory, DeleteRow, HistoryBecomes, LetsGo
<1>7. CASE AskToClear \/ AnswerClearDialog
  BY <1>2, <1>5, <1>7 DEF AskToClear, AnswerClearDialog, HistoryBecomes, LetsGo
<1>8. CASE Escape
  BY <1>2, <1>8 DEF Escape, LetsGo
<1>9. CASE OpenFind \/ CloseFind \/ TypeInFind \/ ToggleDropdown \/ SelectMode \/ OpenCards
  BY <1>9
     DEF OpenFind, CloseFind, TypeInFind, ToggleDropdown, SelectMode, FindBecomes, OpenCards, LetsGo
<1>10. CASE \/ \E mode \in Mode : SyncMode(mode)
            \/ SessionLoaded \/ FavoritesLoaded \/ PressResume \/ HandleResume \/ UNCHANGED vars
  BY <1>10 DEF SyncMode, SessionLoaded, FavoritesLoaded, PressResume, HandleResume, vars, LetsGo
<1> QED BY <1>6, <1>7, <1>8, <1>9, <1>10 DEF Next

\* Whatever history holds and whatever words find in it: a focus is on an entry, and only the
\* focus messages change which, over every order of searches, deletions, reloads and failures
\* (history.rs, update).
THEOREM FocusAlwaysKeepsItsEntry == Spec => FocusKeepsItsEntry
<1>1. Init => PanelOk(history)
  <2> SUFFICES ASSUME Init PROVE PanelOk(history)
    OBVIOUS
  <2>1. PICK es \in Load : history = EntriesLoaded(NewPanel, es)
    BY DEF Init
  <2>2. DOMAIN es = 1..Len(es) /\ Len(es) \in Nat
    BY LoadAssumption
  <2> DEFINE n == Len(es)
  <2> HIDE DEF n
  <2>3. n \in Nat => IsFiniteSet(1..n)
    BY FS_Interval
  <2>4. IsFiniteSet(DOMAIN es)
    BY <2>2, <2>3 DEF n
  <2>5. PanelOk(NewPanel)
    <3>1. DOMAIN NewPanel = PanelFields /\ NewPanel.entries = << >> /\ NewPanel.focus = NoRow
      BY DEF NewPanel, PanelFields
    <3>2. DOMAIN << >> = {}
      OBVIOUS
    <3> QED BY <3>1, <3>2, FS_EmptySet, UnfocusedOk
  <2> QED BY <2>1, <2>4, <2>5, MessagesUnfocus
<1>2. PanelOk(history) /\ PanelOk(history)' /\ [Next]_vars => [FocusStep]_vars
  BY FocusHasEntry, OtherStepsLetGo, LettingGo DEF FocusStep
<1> QED BY <1>1, <1>2, PanelStep, PTL DEF Spec, FocusKeepsItsEntry
=============================================================================

------------------------------ MODULE PageOrder ------------------------------
(***************************************************************************)
(* The order of the expanded island's pages. Built-in pages and those of   *)
(* plugins share one order, which is kept as three lists in the            *)
(* configuration; the settings window edits its copy, by arrows, check     *)
(* boxes and dragging, while plugins enable and disable their pages; the   *)
(* island pages through what its copy and the plugins let it show.         *)
(*   crates/winisland-core/src/config/widgets.rs                           *)
(*   src/window/settings/page_order.rs                                     *)
(*   src/window/app/pages.rs                                               *)
(***************************************************************************)
EXTENDS Naturals, Sequences, FiniteSets, Functions

CONSTANTS Builtin,     \* the ExpandedPageKinds in use
          PluginPage,  \* pages of plugins, by plugin and key; disabled ones keep their id
          NoPage,
          MaxEdits,    \* what the user does in the settings window
          MaxTurns     \* pages that plugins enable or disable

ASSUME PagesAssumption ==
  /\ Builtin \subseteq {"music", "widgets", "calendar", "timer"}
  /\ "widgets" \in Builtin /\ Builtin \cap PluginPage = {}
  /\ NoPage \notin Builtin \cup PluginPage
  /\ MaxEdits \in Nat /\ MaxTurns \in Nat

VARIABLES
  registered,  \* PluginHost::pages, enabled pages in the order of their surfaces
  edited,      \* the lists in SettingsApp::config ...
  stored,      \* ... and in the file
  drag,        \* PageOrderState::drag, a page or NoPage
  original,    \* PageOrderState::original_order
  edits, turns,
  steady       \* history: no plugin page came or went since the drag began

configs  == <<edited, stored>>
dragVars == <<drag, original, steady>>
turning  == <<registered, turns>>
pageVars == <<configs, dragVars, turning, edits>>

Entry(page, hidden) == <<page, hidden>>
Names(entries) == [i \in DOMAIN entries |-> entries[i][1]]
PutAt(s, i, x) == SubSeq(s, 1, i - 1) \o <<x>> \o SubSeq(s, i, Len(s))
Without(s, i)  == SubSeq(s, 1, i - 1) \o SubSeq(s, i + 1, Len(s))

\* The places in I are counted from the lowest; the elements of s at them.
Rank(I, i)  == Cardinality({j \in I : j <= i})
Nth(I, k)   == CHOOSE i \in I : Rank(I, i) = k
Among(s, I) == [k \in 1..Cardinality(I) |-> s[Nth(I, k)]]

Kinds == <<"music", "widgets", "calendar", "timer">>
ALL   == Among(Kinds, {i \in DOMAIN Kinds : Kinds[i] \in Builtin})

----------------------------------------------------------------------------
(* The combined order, and its three lists. *)

\* sort_by_key: slots of one position stay in their order.
Before(slots, j, i) == \/ slots[j].position < slots[i].position
                       \/ slots[j].position = slots[i].position /\ j < i
ByPosition(slots) ==
  LET Earlier(i) == {j \in DOMAIN slots : Before(slots, j, i)}
  IN [k \in DOMAIN slots |-> slots[CHOOSE i \in DOMAIN slots : Cardinality(Earlier(i)) = k - 1]]

\* The slots of plugin pages go into the built-in order at their positions, which
\* count from 0 in the combined order.
Least(i, j) == IF i <= j THEN i ELSE j
Placing(entries, slots) ==
  LET Placed[n \in 0..Len(slots)] ==
        IF n = 0 THEN entries
        ELSE LET before == Placed[n - 1]
             IN PutAt(before, Least(slots[n].position, Len(before)) + 1,
                      Entry(slots[n].page, slots[n].hidden))
  IN Placed
OrderOf(c) ==
  Placing([i \in DOMAIN c.order |-> Entry(c.order[i], c.order[i] \in c.hidden)],
          ByPosition(c.slots))[Len(c.slots)]

SetPageOrder(entries) ==
  LET ofBuiltin == {i \in DOMAIN entries : entries[i][1] \in Builtin}
      ofPlugins == DOMAIN entries \ ofBuiltin
      Slot(i)   == [page |-> entries[i][1], position |-> i - 1, hidden |-> entries[i][2]]
  IN [order  |-> Names(Among(entries, ofBuiltin)),
      hidden |-> {entries[i][1] : i \in {j \in ofBuiltin : entries[j][2]}},
      slots  |-> [k \in 1..Cardinality(ofPlugins) |-> Slot(Nth(ofPlugins, k))]]

\* The first of equal pages stays; built-in pages that are missing come last and
\* are hidden, but not the widgets; and something is left to show.
Firsts(s) == {i \in DOMAIN s : \A j \in 1..(i - 1) : s[j] # s[i]}
NormalizeExpandedPages(c) ==
  LET order   == Among(c.order, Firsts(c.order))
      missing == Among(ALL, {i \in DOMAIN ALL : ALL[i] \notin Range(order)})
      hidden  == c.hidden \cup (Range(missing) \ {"widgets"})
      slots   == Among(c.slots, Firsts([k \in DOMAIN c.slots |-> c.slots[k].page]))
      all     == order \o missing
      nothing == Range(all) \subseteq hidden /\ \A k \in DOMAIN slots : slots[k].hidden
  IN [order |-> all, slots |-> slots,
      hidden |-> IF nothing THEN hidden \ {"widgets"} ELSE hidden]

----------------------------------------------------------------------------
(* The settings window. *)

\* Pages of plugins that have no place yet.
New(entries) ==
  LET known == Range(Names(entries))
      new   == Among(registered, {k \in DOMAIN registered : registered[k] \notin known})
  IN [k \in DOMAIN new |-> Entry(new[k], FALSE)]

\* Faulty: they come first.
FaultyFullPageOrder(c) ==
  LET entries == OrderOf(c)
  IN New(entries) \o entries
FullPageOrder(c) ==
  LET entries == OrderOf(c)
  IN entries \o New(entries)

Listed(page) == page \in Builtin \/ page \in Range(registered)
Rows(full) == {i \in DOMAIN full : Listed(full[i][1])}
PageRows(c) ==
  LET full == FullPageOrder(c)
  IN Among(full, Rows(full))

\* Faulty: pages that are not listed are put after those that are.
FaultySetPageRows(rows) ==
  LET full == FullPageOrder(edited)
  IN SetPageOrder(rows \o Among(full, DOMAIN full \ Rows(full)))

\* The listed pages take the rows one by one, as long as there are rows.
Rewritten(full, rows) ==
  [i \in DOMAIN full |-> IF i \in Rows(full) /\ Rank(Rows(full), i) <= Len(rows)
                         THEN rows[Rank(Rows(full), i)] ELSE full[i]]
SetPageRows(rows) == SetPageOrder(Rewritten(FullPageOrder(edited), rows))

\* Moved(rows, from, to) for from # to, both of them rows.
Moved(rows, from, to) == PutAt(Without(rows, from), to, rows[from])
MovePage(from, to) == edited' = SetPageRows(Moved(PageRows(edited), from, to))

\* The only page that shows cannot be hidden.
ToggleLocked(rows, page) ==
  /\ \A i \in DOMAIN rows : rows[i][2] \/ rows[i][1] = page
  /\ \E i \in DOMAIN rows : rows[i][1] = page /\ ~rows[i][2]

UserEdit ==
  /\ edits < MaxEdits
  /\ edits' = edits + 1
  /\ UNCHANGED turning

\* persist_settings_change
Persist == stored' = edited'

PressArrow ==
  /\ UserEdit /\ drag = NoPage
  /\ \E from, to \in DOMAIN PageRows(edited) :
       (to = from + 1 \/ from = to + 1) /\ MovePage(from, to)
  /\ Persist
  /\ UNCHANGED dragVars

\* toggle_page_visibility, of the first row that has the page.
ToggleVisibility ==
  /\ UserEdit /\ drag = NoPage
  /\ LET rows == PageRows(edited)
     IN \E i \in DOMAIN rows :
          /\ ~ToggleLocked(rows, rows[i][1])
          /\ \A j \in 1..(i - 1) : rows[j][1] # rows[i][1]
          /\ edited' = SetPageRows([rows EXCEPT ![i][2] = ~@])
  /\ Persist
  /\ UNCHANGED dragVars

BeginDrag ==
  /\ UserEdit /\ drag = NoPage
  /\ \E i \in DOMAIN PageRows(edited) : drag' = PageRows(edited)[i][1]
  /\ original' = PageRows(edited)
  /\ steady' = TRUE
  /\ UNCHANGED <<edited, stored>>

\* update_page_order_drag: the dragged page, if it is still there, goes to the row
\* under the pointer.
Dragged ==
  \/ UNCHANGED edited
  \/ LET rows == PageRows(edited)
     IN \E from, to \in DOMAIN rows :
          /\ rows[from][1] = drag /\ \A j \in 1..(from - 1) : rows[j][1] # drag
          /\ from # to
          /\ MovePage(from, to)
UpdateDrag ==
  /\ UserEdit /\ drag # NoPage
  /\ Dragged
  /\ UNCHANGED <<stored, dragVars>>

EndDrag == drag' = NoPage /\ original' = << >> /\ steady' = TRUE

\* handle_page_order_release
ReleaseDrag ==
  /\ UserEdit /\ drag # NoPage
  /\ Dragged
  /\ IF PageRows(edited') # original THEN Persist ELSE UNCHANGED stored
  /\ EndDrag

\* cancel_page_order_drag, by Escape, by the loss of the focus, by another page of
\* the window. Nothing is saved.
CancelDrag ==
  /\ UserEdit /\ drag # NoPage
  /\ edited' = SetPageRows(original)
  /\ EndDrag
  /\ UNCHANGED stored

\* The window is closed and opened again.
ReopenSettings ==
  /\ UserEdit
  /\ edited' = NormalizeExpandedPages(stored)
  /\ EndDrag
  /\ UNCHANGED stored

----------------------------------------------------------------------------
(* The plugins and the island. *)

\* App::expanded_pages, of a configuration as it is loaded. Slots of pages that no plugin
\* shows are passed over; pages without a slot come last; there is always one page.
ExpandedPages(c, Available) ==
  LET entries == OrderOf(c)
      Shows(entry) == ~entry[2] /\ (entry[1] \in Available \/ entry[1] \in Range(registered))
      pages   == Names(Among(entries, {i \in DOMAIN entries : Shows(entries[i])}) \o New(entries))
  IN IF pages = << >> THEN <<"widgets">> ELSE pages

\* A thread of a plugin enables a page, at its place among the surfaces, or disables it.
EnablePage ==
  /\ turns < MaxTurns /\ turns' = turns + 1
  /\ \/ \E p \in PluginPage \ Range(registered), i \in 1..(Len(registered) + 1) :
          registered' = PutAt(registered, i, p)
     \/ \E i \in DOMAIN registered : registered' = Without(registered, i)
  /\ steady' = (drag = NoPage)
  /\ UNCHANGED <<configs, drag, original, edits>>

----------------------------------------------------------------------------
PagesInit ==
  /\ registered = << >> /\ turns = 0
  /\ edited = NormalizeExpandedPages([order |-> ALL, hidden |-> {}, slots |-> << >>])
  /\ stored = edited /\ edits = 0
  /\ drag = NoPage /\ original = << >> /\ steady = TRUE

Editing == PressArrow \/ ToggleVisibility \/ BeginDrag \/ UpdateDrag \/ ReleaseDrag
             \/ CancelDrag \/ ReopenSettings
PagesNext == Editing \/ EnablePage

PagesSpec == PagesInit /\ [][PagesNext]_pageVars

----------------------------------------------------------------------------
(* Properties. *)

Slots == [page : PluginPage, position : Nat, hidden : BOOLEAN]
Configs == [order : Seq(Builtin), hidden : SUBSET Builtin, slots : Seq(Slots)]
PagesTypeOK ==
  /\ edited \in Configs /\ stored \in Configs
  /\ registered \in Seq(PluginPage) /\ IsInjective(registered)
  /\ drag \in Builtin \cup PluginPage \cup {NoPage}

\* No page is lost from the order and none is in it twice.
Whole(entries) == IsInjective(Names(entries)) /\ Builtin \subseteq Range(Names(entries))

\* The settings window lists, and does not hide, what the island shows once it has loaded
\* the same configuration, in the same order, if there is music and if there is none: two
\* computations of one order, one over all pages, the other over those there are
\* (src/window/settings/page_order.rs:144-177, src/window/app/pages.rs:16-68).
ListedIsShown ==
  \A Available \in {Builtin, Builtin \ {"music"}} :
    LET Visible(entry) == ~entry[2] /\ (entry[1] \in PluginPage \/ entry[1] \in Available)
        rows    == PageRows(edited)
        visible == Names(Among(rows, {k \in DOMAIN rows : Visible(rows[k])}))
    IN Whole(OrderOf(edited)) =>
         ExpandedPages(NormalizeExpandedPages(edited), Available)
           = IF visible = << >> THEN <<"widgets">> ELSE visible

\* While no plugin page comes or goes, whatever is done to the rows loses and repeats no
\* page, hides no last one, and leaves every page that is not listed where it is; a drag
\* that is cancelled leaves all as it was (page_order.rs:180-200, 321-349, 434-444).
IsShown(entries) == \E i \in DOMAIN entries : Listed(entries[i][1]) /\ ~entries[i][2]
RowsAreKept ==
  [][ edits' # edits /\ (drag = NoPage \/ steady) /\ ~ReopenSettings =>
        \A full \in {FullPageOrder(edited)}, full2 \in {FullPageOrder(edited')} :
          IsInjective(Names(full)) =>
            /\ Len(full2) = Len(full) /\ Range(Names(full2)) = Range(Names(full))
            /\ \A i \in DOMAIN full : i \notin Rows(full) => full2[i] = full[i]
            /\ IsShown(full) => IsShown(full2)
            /\ CancelDrag => PageRows(edited') = original ]_pageVars

\* What Page/plugin-dev/api/surface.md:56 says: "The host remembers each page by plugin ID
\* and surface key". Nothing done in the settings window makes it forget the place of a
\* page that the file remembers.
PagesAreRemembered ==
  [][ edits' # edits =>
        \A k \in DOMAIN stored.slots :
          LET Has(c) == \E j \in DOMAIN c.slots : c.slots[j].page = stored.slots[k].page
          IN Has(edited) => Has(edited') ]_pageVars
=============================================================================

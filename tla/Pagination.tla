------------------------------ MODULE Pagination ------------------------------
(***************************************************************************)
(* The "Telemetry Data (JSON)" column of ground_station/ground_app.py with *)
(* its helpers in telemetry/ui_utils.py: one browser session pages through *)
(* a filtered, newest-first view of the receiver's buffer while packets    *)
(* keep arriving.                                                          *)
(*                                                                         *)
(* Streamlit runs the script from the top on every click and every two     *)
(* seconds; st.rerun starts it over.  A run takes one copy of the buffer   *)
(* (get_recent holds the lock), so between two runs the list below the     *)
(* operator's page has moved.  The session keeps only the page number and  *)
(* the filter.  (tlm_last_total is stored but nothing reads it.)           *)
(***************************************************************************)
EXTENDS Integers, Sequences, FiniteSets, SequencesExt

CONSTANTS
  Types,         \* the "type" fields parse_packet produces
  BufferSize,    \* the receiver's buffer_size (500 in the program)
  RecentMax,     \* the packets one run looks at (200 in the program)
  ItemsPerPage,  \* ITEMS_PER_PAGE (10 in the program)
  MaxArrivals    \* bound: packets received

ASSUME TypesAssumption        == "unknown" \in Types /\ "all" \notin Types /\ "none" \notin Types
ASSUME BufferSizeAssumption   == BufferSize \in Nat \ {0}
ASSUME RecentMaxAssumption    == RecentMax \in Nat \ {0}
ASSUME ItemsPerPageAssumption == ItemsPerPage \in Nat \ {0}
ASSUME MaxArrivalsAssumption  == MaxArrivals \in Nat

VARIABLES
  buffer,    \* the receiver's _buffer, oldest first
  arrived,   \* packets received so far
  page,      \* st.session_state.tlm_current_page
  selected,  \* the value of the "Filter by type" widget
  options,   \* the options that widget was last given
  pc,        \* "run": a script run is under way; "shown": its page is on the screen
  button,    \* the button whose click started the run
  recent,    \* items_all of the page on the screen
  \* history of a walk through the pages, from page 1 on with one filter
  walking,   \* no filter change since page 1 was on the screen
  start,     \* the packets listed when page 1 was last on the screen
  seen       \* the packets on the screen since then

sessionVars == <<page, selected, options, pc, button, recent>>
walkVars    == <<walking, start, seen>>
vars        == <<buffer, arrived, sessionVars, walkVars>>

NoType  == "none"     \* a header-only packet: parse_packet leaves "type" out
Entries == [key : 1..MaxArrivals, type : Types \cup {NoType}]
Buttons == {"none", "Clear Logs", "Previous", "Next"}

-----------------------------------------------------------------------------
(* The helpers.                                                             *)

(* Faulty variants: one page too many for a full last page, and the last,   *)
(* shorter page not counted.                                                *)
PageCountPlusOne(total) == 1 + total \div ItemsPerPage

PageCountFloor(total) == IF total \div ItemsPerPage > 1 THEN total \div ItemsPerPage ELSE 1

(* max(1, ceil(total / ITEMS_PER_PAGE)).                                    *)
PageCount(total) ==
  LET ceil == (total + ItemsPerPage - 1) \div ItemsPerPage
  IN IF ceil > 1 THEN ceil ELSE 1

(* filter_items_by_event.  A filtered list is the set of the positions, in  *)
(* the list it comes from, of the entries that stay in it: those whose      *)
(* "type" is chosen; a header-only entry has none.                          *)
FilterItemsByEvent(items, types) ==
  {i \in DOMAIN items : types = {} \/ "all" \in types \/ items[i].type \in types}

(* The place of an entry in the filtered list.                              *)
Place(filtered, i) == Cardinality({j \in filtered : j <= i})

(* slice_for_page: the entries of page p.  A second entry with the same     *)
(* bytes and timestamp in the window is left out.                           *)
SliceForPage(items, filtered, p) ==
  LET window == {i \in filtered : /\ (p - 1) * ItemsPerPage < Place(filtered, i)
                                  /\ Place(filtered, i) <= p * ItemsPerPage}
  IN {i \in window : \A j \in window : items[j].key = items[i].key => i <= j}

(* The page kept inside 1..pages: update_page_on_new and the two tests that *)
(* follow it.                                                               *)
UpdatePage(total, current) ==
  IF current > PageCount(total) THEN PageCount(total)
  ELSE IF current < 1 THEN 1
  ELSE current

(* Faulty variant: the list is not reversed.                                *)
ItemsAllOldestFirst(buf) ==
  SubSeq(buf, IF Len(buf) > RecentMax THEN Len(buf) - RecentMax + 1 ELSE 1, Len(buf))

(* The last RecentMax packets, newest first.                                *)
ItemsAll(buf) ==
  Reverse(SubSeq(buf, IF Len(buf) > RecentMax THEN Len(buf) - RecentMax + 1 ELSE 1, Len(buf)))

(* The type the column shows and the filter offers for an entry.            *)
DisplayedType(it) == IF it.type = NoType THEN "unknown" ELSE it.type

OptionsFor(items) == {"all"} \cup {DisplayedType(items[i]) : i \in DOMAIN items}

(* The multiselect, external: while its options stay the same it keeps its  *)
(* value; when they change it keeps what is still on offer, or starts from  *)
(* its default, as the version of the framework has it.                     *)
WidgetValues(opts) ==
  IF opts = options THEN {selected} ELSE {selected \cap opts, {"all"}}

Keys(items, at) == {items[i].key : i \in at}

-----------------------------------------------------------------------------
Init ==
  /\ buffer = <<>>
  /\ arrived = 0
  /\ page = 1
  /\ selected = {"all"}
  /\ options = {"all"}
  /\ pc = "run"
  /\ button = "none"
  /\ recent = <<>>
  /\ walking = FALSE
  /\ start = {}
  /\ seen = {}

(* The listener thread stores a packet, at any moment between two reads of  *)
(* the buffer; it may be a copy of the newest one within the clock's        *)
(* resolution.                                                              *)
Arrive ==
  /\ arrived < MaxArrivals
  /\ arrived' = arrived + 1
  /\ \E it \in {[key |-> arrived + 1, type |-> type] : type \in Types \cup {NoType}}
               \cup (IF buffer = <<>> THEN {} ELSE {Last(buffer)}) :
       buffer' = LET grown == Append(buffer, it)
                 IN IF Len(grown) > BufferSize THEN Tail(grown) ELSE grown
  /\ UNCHANGED <<sessionVars, walkVars>>

(* A click on a button, or none: the two seconds are over.                  *)
Click ==
  /\ pc = "shown"
  /\ pc' = "run"
  /\ button' \in Buttons
  /\ UNCHANGED <<buffer, arrived, page, selected, options, recent, walkVars>>

(* A change of the filter starts a run as well.                             *)
ChangeFilter ==
  /\ pc = "shown"
  /\ pc' = "run"
  /\ button' = "none"
  /\ \E value \in SUBSET options :
       /\ value # selected
       /\ selected' = value
  /\ walking' = FALSE
  /\ UNCHANGED <<buffer, arrived, page, options, recent, start, seen>>

-----------------------------------------------------------------------------
(* The script run.                                                          *)

ClearLogs ==
  /\ pc = "run" /\ button = "Clear Logs"
  /\ buffer' = <<>>
  /\ page' = 1
  /\ button' = "none"
  /\ UNCHANGED <<arrived, selected, options, pc, recent, walkVars>>

(* The page the button leads to.                                            *)
Turned(p, total) ==
  IF button = "Previous" /\ p > 1 THEN p - 1
  ELSE IF button = "Next" /\ p < PageCount(total) THEN p + 1
  ELSE p

(* One script run over the current buffer: it turns the page and starts     *)
(* over, or shows the page.                                                 *)
Script ==
  /\ pc = "run" /\ button # "Clear Logs"
  /\ options' = OptionsFor(ItemsAll(buffer))
  /\ selected' \in WidgetValues(OptionsFor(ItemsAll(buffer)))
  /\ LET items    == ItemsAll(buffer)
         filtered == FilterItemsByEvent(items, selected')
         total    == Cardinality(filtered)
         p        == UpdatePage(total, page)
         screen   == Keys(items, SliceForPage(items, filtered, p))
     IN /\ page' = Turned(p, total)
        /\ \/ /\ page' # p          \* st.rerun: the run ends before it lists the packets
              /\ UNCHANGED <<pc, recent, walkVars>>
           \/ /\ page' = p
              /\ pc' = "shown"
              /\ recent' = items
              /\ walking' = (walking \/ p = 1)
              /\ start' = IF p = 1 THEN Keys(items, filtered) ELSE start
              /\ seen'  = IF p = 1 THEN screen ELSE seen \cup screen
  /\ button' = "none"
  /\ UNCHANGED <<buffer, arrived>>

Next == Arrive \/ Click \/ ChangeFilter \/ ClearLogs \/ Script

Spec == Init /\ [][Next]_vars

-----------------------------------------------------------------------------
(* Properties.                                                              *)

(* Every widget holds a value it can hold; no button leads before page 1.   *)
TypeOK ==
  /\ buffer \in Seq(Entries) /\ Len(buffer) <= BufferSize
  /\ arrived \in 0..MaxArrivals
  /\ page \in Nat \ {0}
  /\ options \subseteq {"all"} \cup Types /\ selected \subseteq options
  /\ pc \in {"run", "shown"} /\ button \in Buttons
  /\ recent \in Seq(Entries)
  /\ walking \in BOOLEAN /\ start \subseteq 1..MaxArrivals /\ seen \subseteq 1..MaxArrivals

(* What the page on the screen was cut from, and what it shows.             *)
Listed == FilterItemsByEvent(recent, selected)
Screen == SliceForPage(recent, Listed, page)

(* Whatever arrived, was evicted, cleared or filtered away since the page   *)
(* number was stored, the screen is never an empty page while there are     *)
(* packets to list (ground_app.py 321-329, 342-346).                        *)
NoEmptyPage == pc = "shown" /\ Listed # {} => Screen # {}

(* The pages together show every packet of the list: a duplicate left out   *)
(* of a page and the last, shorter page lose none (ui_utils.py 8-35).       *)
PagesCoverList ==
  pc = "shown" =>
    UNION {Keys(recent, SliceForPage(recent, Listed, p)) : p \in 1..PageCount(Cardinality(Listed))}
      = Keys(recent, Listed)

(* An operator who pages from the first page with Next, Previous and the    *)
(* automatic refresh never has a packet slip past: whatever was listed at   *)
(* the start, has not been on the screen and is listed still lies on a page *)
(* after the present one, however many packets arrived between the clicks.  *)
(* The newest-first order is what makes it true (ground_app.py 306-308).    *)
WalkSkipsNothing ==
  pc = "shown" /\ walking =>
    \A i \in Listed :
      recent[i].key \in start \ seen => Place(Listed, i) > page * ItemsPerPage

=============================================================================

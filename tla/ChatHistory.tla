------------------------------ MODULE ChatHistory ------------------------------
(*****************************************************************************)
(* How an open chat thread keeps its message window: syncChatHistory in      *)
(* artifacts/peerbridge/src/lib/chat-socket.ts over the paged history        *)
(* queries of Python/routers/chat.py, and the two callers in ChatWidget.tsx: *)
(* the cached query (first open, every socket event, every poll) and the     *)
(* button "Load older messages".  Each page is a request of its own, so      *)
(* messages are saved and deleted between the pages of one read.             *)
(*                                                                           *)
(* Messages are numbered in the order of (created_at, id).  created_at is    *)
(* the start of the sender's transaction, so they may be saved in any order. *)
(*****************************************************************************)
EXTENDS Naturals, FiniteSetsExt

CONSTANTS
  Last,       \* messages of the thread are 1 .. Last
  Page,       \* rows per history page (50)
  Deletable   \* messages an operator may mark deleted

Thread == 1 .. Last
ASSUME LastAssumption == Last \in Nat
ASSUME PageAssumption == Page \in Nat \ {0}
ASSUME DeletableAssumption == Deletable \subseteq Thread

VARIABLES
  stored,   \* committed rows of the thread
  deleted,  \* those with deleted_at set
  opened,   \* the query cache holds a window
  view,     \* that window
  read,     \* the running read of each caller
  known     \* auxiliary: what was saved when the read behind view began

historyVars == <<stored, deleted, opened, view, read, known>>

Callers == {"refetch", "older"}
NoRead  == [asking |-> FALSE]
Reads   == [asking : {TRUE}, first : BOOLEAN, anchor : 0 .. Last, cursor : 0 .. Last,
            rows : SUBSET Thread, known : SUBSET Thread]

\* Types of the table, the window and the reads.
HistoryTypeOK ==
  /\ stored \subseteq Thread
  /\ deleted \subseteq stored
  /\ opened \in BOOLEAN
  /\ view \subseteq stored
  /\ read \in [Callers -> Reads \cup {NoRead}]
  /\ known \subseteq stored

HistoryInit ==
  /\ stored = {} /\ deleted = {}
  /\ opened = FALSE /\ view = {}
  /\ read = [p \in Callers |-> NoRead]
  /\ known = {}

Least(S) == IF S = {} THEN 0 ELSE Min(S)

\* The rows of S that are among its n newest.
Newest(n, S) == {m \in S : Cardinality({x \in S : x > m}) < n}

\* Broken variant: the oldest rows first, as a plain ORDER BY would give.
PageFromOldest(cursor) ==
  LET rows == {m \in stored \ deleted : cursor # 0 => m < cursor} IN
    {m \in rows : Cardinality({x \in rows : x < m}) < Page}

\* GET .../messages: the newest visible rows, before the cursor if one is given.
PageBefore(cursor) ==
  Newest(Page, {m \in stored \ deleted : cursor # 0 => m < cursor})

Older(m, rows) == {x \in rows : x < m}

\* Broken variant: the older rows are sliced one short.
WindowOneShort(p, rd, rows) ==
  IF rd.first \/ rd.anchor \notin rows THEN rows
  ELSE {m \in rows : m >= rd.anchor} \cup
         IF p = "older" THEN Newest(Page - 1, Older(rd.anchor, rows)) ELSE {}

\* Broken variant: the first row of the old window stays, whatever was read.
WindowKeepingAnchor(p, rd, rows) ==
  {rd.anchor} \cup {m \in rows : m >= rd.anchor}

\* What the read answers once it has paged back far enough: the first page, the
\* window from its anchor on, or Page more rows than that.
Window(p, rd, rows) ==
  IF rd.first \/ rd.anchor \notin rows THEN rows
  ELSE {m \in rows : m >= rd.anchor} \cup
         IF p = "older" THEN Newest(Page, Older(rd.anchor, rows)) ELSE {}

\* The loop of syncChatHistory ends.
Enough(p, rd, rows, page) ==
  \/ rd.first
  \/ /\ rd.anchor \in rows
     /\ p = "older" => Cardinality(Older(rd.anchor, rows)) >= Page
  \/ Cardinality(page) < Page

\* The call of syncChatHistory: what it remembers of the window.
Fresh(window, isFirst) ==
  [asking |-> TRUE, first |-> isFirst, anchor |-> Least(window), cursor |-> 0,
   rows |-> {}, known |-> stored]

-----------------------------------------------------------------------------

Save(m) ==
  /\ m \notin stored
  /\ stored' = stored \cup {m}
  /\ UNCHANGED <<deleted, opened, view, read, known>>

\* deleted_at is set outside the application; the history queries honour it.
Hide(m) ==
  /\ m \in (stored \cap Deletable) \ deleted
  /\ deleted' = deleted \cup {m}
  /\ UNCHANGED <<stored, opened, view, read, known>>

\* First open, socket event, poll: a running refetch is cancelled and replaced.
Refetch ==
  /\ read' = [read EXCEPT !["refetch"] = Fresh(view, ~opened)]
  /\ UNCHANGED <<stored, deleted, opened, view, known>>

\* The button is offered on a full window only; it cancels a running refetch.
LoadOlder ==
  /\ opened /\ Cardinality(view) >= Page
  /\ read["older"] = NoRead
  /\ read' = [read EXCEPT !["older"] = Fresh(view, FALSE), !["refetch"] = NoRead]
  /\ UNCHANGED <<stored, deleted, opened, view, known>>

\* One more page, and the answer is not complete.
ReadOn(p) ==
  LET rd   == read[p]
      page == PageBefore(rd.cursor)
      rows == rd.rows \cup page
  IN /\ rd # NoRead
     /\ ~Enough(p, rd, rows, page)
     /\ read' = [read EXCEPT ![p] = [rd EXCEPT !.rows = rows, !.cursor = Least(page)]]
     /\ UNCHANGED <<stored, deleted, opened, view, known>>

\* Broken variant: a refetch that runs is not cancelled by the longer window.
ThenLeaveRefetch(p, window) == [read EXCEPT ![p] = NoRead]

\* After a longer window was stored a refetch that still runs is replaced.
ThenRefetch(p, window) ==
  IF p = "refetch" THEN [read EXCEPT ![p] = NoRead]
  ELSE [read EXCEPT ![p] = NoRead, !["refetch"] = Fresh(window, FALSE)]

\* The last page: the window is replaced.
Finish(p) ==
  LET rd   == read[p]
      page == PageBefore(rd.cursor)
      rows == rd.rows \cup page
  IN /\ rd # NoRead
     /\ Enough(p, rd, rows, page)
     /\ view' = Window(p, rd, rows)
     /\ opened' = TRUE
     /\ known' = rd.known
     /\ read' = ThenRefetch(p, Window(p, rd, rows))
     /\ UNCHANGED <<stored, deleted>>

\* A page fails: the window stays as it is.
Fail(p) ==
  /\ read[p] # NoRead
  /\ read' = [read EXCEPT ![p] = NoRead]
  /\ UNCHANGED <<stored, deleted, opened, view, known>>

HistoryNext ==
  \/ \E m \in Thread : Save(m) \/ Hide(m)
  \/ Refetch \/ LoadOlder
  \/ \E p \in Callers : ReadOn(p) \/ Finish(p) \/ Fail(p)

HistorySpec == HistoryInit /\ [][HistoryNext]_historyVars

-----------------------------------------------------------------------------
(* Properties.                                                               *)

\* The window has no hole: what was saved when its read began, lies after the
\* oldest row shown and was not deleted is shown, over any number of pages and
\* whatever was saved in between.  An empty window means an empty thread.
NoGap ==
  opened => \A m \in known \ deleted : view # {} /\ (m >= Min(view) => m \in view)

\* Resynchronising never takes a message off the screen that still exists, also
\* when "Load older messages" stored a longer window in the meantime.
ResyncKeepsWindow == [][Finish("refetch") => view \ deleted \subseteq view']_historyVars

\* "Load older messages" adds a full page of older rows, or all there were.
LoadOlderReaches ==
  [][Finish("older") =>
       LET before(S) == {m \in S : m < read["older"].anchor} IN
         \/ Cardinality(before(view')) >= Page
         \/ before(read["older"].known \ deleted) \subseteq view']_historyVars

\* What the screen says: without a full window there is nothing older to load
\* (ChatWidget.tsx:736), and a read recovers "every gap" (chat-socket.ts:105).
NothingHiddenBelow ==
  opened /\ Cardinality(view) < Page => known \ deleted \subseteq view

=============================================================================

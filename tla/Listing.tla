-------------------------------- MODULE Listing --------------------------------
(* A reader walks through a list of the API, page by page, while rows are being
   added.  Rows are stamped with the microsecond at which their transaction
   began, and seen when it commits; a cursor names the last row of a page, and
   the stamp in it has passed through a Date, which counts milliseconds.      *)
EXTENDS Naturals, FiniteSets

CONSTANTS
    Row,            \* ids of rows, 1..N: a smaller number is a smaller id
    ListKind,       \* which lists are walked through
    Limit,          \* rows on a page
    PerMs,          \* microseconds in a millisecond
    MaxClock

ASSUME ListingAssumption == /\ Row \subseteq Nat \ {0} /\ IsFiniteSet(Row)
                            /\ Limit \in Nat \ {0} /\ PerMs \in Nat \ {0} /\ MaxClock \in Nat
                            /\ ListKind \subseteq {"cases", "requests", "templates", "offsets"}

VARIABLES
    list,           \* the list that is walked through
    now,
    stamp,          \* row -> created_at, occurred_at, received_at, or the place of a template
    visible,        \* the rows that are committed
    walk,           \* "none", "walking", "ended"
    cursor,         \* the key after which the next page begins, or how many rows it skips
    listed,         \* row -> how often the reader has been given it
    atStart         \* the rows there were when the walk began

listingVars == <<list, now, stamp, visible, walk, cursor, listed, atStart>>

Unstamped == MaxClock + 1
FirstPage == [key |-> <<Unstamped, 0>>, skip |-> 0]

ListingInit ==
    /\ list \in ListKind
    /\ now = 0
    /\ stamp = [r \in Row |-> Unstamped] /\ visible = {}
    /\ walk = "none" /\ cursor = FirstPage /\ listed = [r \in Row |-> 0] /\ atStart = {}

-------------------------------------------------------------------------------
NowPasses ==
    /\ now < MaxClock /\ now' = now + 1
    /\ UNCHANGED <<list, stamp, visible, walk, cursor, listed, atStart>>

(* Templates are placed by key, locale and version, the others by time. *)
AddRow(r) ==
    /\ stamp[r] = Unstamped
    /\ \E t \in 0..MaxClock : /\ list # "templates" => t = now
                             /\ stamp' = [stamp EXCEPT ![r] = t]
    /\ UNCHANGED <<list, now, visible, walk, cursor, listed, atStart>>

CommitRow(r) ==
    /\ stamp[r] # Unstamped /\ r \notin visible
    /\ visible' = visible \cup {r}
    /\ UNCHANGED <<list, now, stamp, walk, cursor, listed, atStart>>

-------------------------------------------------------------------------------
Earlier(a, b) == a[1] < b[1] \/ (a[1] = b[1] /\ a[2] < b[2])
PlaceOf(r) == <<stamp[r], r>>
InMs(t) == (t \div PerMs) * PerMs

(* What the cursor of each list keeps of the last row of a page. *)
CaseCursor(r) == <<InMs(stamp[r]), r>>
RequestCursor(r) == <<InMs(stamp[r]), 0>>
TemplateCursor(r) == PlaceOf(r)

CursorAfter(r) ==
    CASE list = "cases" -> [cursor EXCEPT !.key = CaseCursor(r)]
      [] list = "requests" -> [cursor EXCEPT !.key = RequestCursor(r)]
      [] list = "templates" -> [cursor EXCEPT !.key = TemplateCursor(r)]
      [] OTHER -> [cursor EXCEPT !.skip = @ + Limit]

\* The row the cursor names is returned again.
BeyondOrAt(r) == ~Earlier(cursor.key, PlaceOf(r))

Beyond(r) == Earlier(PlaceOf(r), cursor.key)

(* The rows that the query selects, newest first, from those it skips on; and  *)
(* as many of them as are returned.                                           *)
Rank(r) == Cardinality({q \in visible : Beyond(q) /\ Earlier(PlaceOf(r), PlaceOf(q))})
Selected == {r \in visible : Beyond(r) /\ Rank(r) >= cursor.skip}
OnPage == {r \in Selected : Rank(r) < cursor.skip + Limit}

(* The query asks for one row more than it returns: that one tells of a next page. *)
Page ==
    /\ walk # "ended"
    /\ listed' = [r \in Row |-> IF r \in OnPage THEN listed[r] + 1 ELSE listed[r]]
    /\ atStart' = IF walk = "none" THEN visible ELSE atStart
    /\ \/ \E last \in OnPage :
             /\ OnPage # Selected /\ \A r \in OnPage : ~Earlier(PlaceOf(r), PlaceOf(last))
             /\ cursor' = CursorAfter(last) /\ walk' = "walking"
       \/ OnPage = Selected /\ walk' = "ended" /\ UNCHANGED cursor
    /\ UNCHANGED <<list, now, stamp, visible>>

ListingNext == NowPasses \/ Page \/ \E r \in Row : AddRow(r) \/ CommitRow(r)

ListingSpec == ListingInit /\ [][ListingNext]_listingVars

-------------------------------------------------------------------------------
ListingTypeOK ==
    /\ visible \subseteq Row /\ atStart \subseteq visible
    /\ stamp \in [Row -> 0..Unstamped] /\ now \in 0..MaxClock
    /\ listed \in [Row -> Nat]

(* Pages that are found by a key never overlap, however many rows are added in
   between; and pages whose key is exact leave out nothing that was there when
   the walk began (listCases, listEvents, listTemplates).                     *)
ListedOnce ==
    list # "offsets" =>
        /\ \A r \in Row : listed[r] <= 1
        /\ list = "templates" /\ walk = "ended" => \A r \in atStart : listed[r] = 1

(* A list that is walked to its end has shown what was there at the start. *)
EverythingListed == walk = "ended" => \A r \in atStart : listed[r] > 0

================================================================================

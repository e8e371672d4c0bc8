---------------------------- MODULE CatalogRead ----------------------------
(***************************************************************************)
(* Reading the catalog while it is being synchronised (catalog/service.ts, *)
(* catalog/repository.ts).                                                 *)
(*                                                                         *)
(* A listing is a client's walk through the products, page after page.     *)
(* Each request reads the sync state twice, once in the service and once   *)
(* in the repository, and then finds a page and a total, in either order;  *)
(* runs may publish and prunes may delete between any two of these calls.  *)
(* A scan looks one barcode up, through a Redis cache keyed by the active  *)
(* snapshot.                                                               *)
(***************************************************************************)
EXTENDS CatalogSync, SortedLists

CONSTANTS
    Limit,          \* products per page of a listing, after clampLimit
    Barcode         \* the product whose barcode is scanned

(* Products are numbered, and a cursor with a product id of 0 is invalid. *)
ASSUME ReadAssumption ==
    /\ Products \subseteq Nat \ {0}
    /\ Limit \in Nat \ {0}
    /\ Barcode \in Products

VARIABLES
    role,       \* what the client does: they share nothing but the catalog
    listing,    \* a client's listing and the request it has under way
    scan,       \* a barcode request
    cache       \* the Redis cache of barcode answers, by snapshot

readVars == <<role, listing, scan, cache>>

(* Stands for no row, and as a cursor for the place before the first one. *)
NoRow == [product |-> 0, written |-> 0]

RowOrNone == Item \cup {NoRow}

Listing ==
    [ step    : {"idle", "service", "repository", "query", "done"},
      mode    : {"offset", "cursor"},           \* how the client asks for more
      got     : Seq(Item),                      \* the rows received so far
      pin     : RunOrNone,                      \* snapshot_id of the last answer
      after   : RowOrNone,                      \* next_cursor of the last answer
      located : BOOLEAN,                        \* the service knows a warehouse
      snap    : RunOrNone,                      \* snapshotId, None for products
      to_do   : SUBSET {"find", "count"},       \* queries not yet answered
      items   : Seq(Item),
      total   : Nat ]

Scan ==
    [ step    : {"idle", "get", "repository", "find", "set", "done"},
      located : BOOLEAN,
      key     : RunOrNone,                      \* the snapshot in the cache key
      from    : RunOrNone,                      \* the one the answer is from
      row     : RowOrNone ]                     \* the product, if found

ReadTypeOK ==
    /\ role \in {"lister", "scanner"}
    /\ listing \in Listing
    /\ scan \in Scan
    /\ cache \in [RunOrNone -> [row : RowOrNone, from : RunOrNone]]

NotCached == [row |-> NoRow, from |-> None]

ReadInit ==
    /\ Init
    /\ role \in {"lister", "scanner"}
    /\ listing = [ step |-> "idle", mode |-> "offset", got |-> <<>>,
                   pin |-> None, after |-> NoRow, located |-> FALSE,
                   snap |-> None, to_do |-> {}, items |-> <<>>, total |-> 0 ]
    /\ scan = [ step |-> "idle", located |-> FALSE, key |-> None,
                from |-> None, row |-> NoRow ]
    /\ cache = [k \in RunOrNone |-> NotCached]

-----------------------------------------------------------------------------
(* What the two queries of a listing select. *)

Documents(snap) == IF snap = None THEN legacy ELSE staged[snap]

(* The sort order: by write date, and by product where these are equal. *)
Later(x, y) ==
    \/ x.written > y.written
    \/ x.written = y.written /\ x.product > y.product

DateOrder == {p \in Item \X Item : Later(p[2], p[1])}

SortByDate(rows) == SortedBy(rows, DateOrder)

(* The filter on the cursor. *)
After(row, cursor) == Later(row, cursor)

(* The filter on the warehouse: without one, no document matches. *)
Matching(l) ==
    {row \in Documents(l.snap) : l.located /\ After(row, l.after)}

HasCursor(l) == l.after # NoRow

(* skip and limit: the offset plays no part once there is a cursor. *)
Page(l) ==
    LET rows == SortByDate(Matching(l))
        skip == IF HasCursor(l) THEN 0 ELSE Len(l.got)
        end  == IF skip + Limit < Len(rows) THEN skip + Limit ELSE Len(rows)
    IN  SubSeq(rows, skip + 1, end)

-----------------------------------------------------------------------------
(* A listing, in the order of its awaited calls.  The client is outside    *)
(* this repository: it sends the snapshot_id of the first answer with      *)
(* every later request, and asks for more as long as has_more says so.     *)

Ask(mode) ==
    /\ role = "lister"
    /\ listing.step = "idle"
    /\ listing' = [listing EXCEPT !.step = "service", !.mode = mode]
    /\ UNCHANGED <<vars, role, scan, cache>>

(* The next request of the client, or none. *)
Proceed(more) == IF more THEN "service" ELSE "done"

(* Mutant: the active snapshot is preferred to the one the client sent. *)
Asked_Active(l) == state.active

(* The snapshot the client sent, or else the active one. *)
Asked(l) == IF l.pin # None THEN l.pin ELSE state.active

(* ProductCatalogService.products reads the sync state; without a document *)
(* it answers an empty page at once.                                       *)
ListService ==
    /\ listing.step = "service"
    /\ listing' =
          IF state = NoState THEN [listing EXCEPT !.step = "done"]
          ELSE [listing EXCEPT !.step = "repository", !.pin = Asked(listing),
                               !.located = state.located]
    /\ UNCHANGED <<vars, role, scan, cache>>

(* Mutant: the count in the sync state is taken for every snapshot's. *)
CountKnown_Always(l) == TRUE

(* The count in the sync state is used for the active snapshot only.  The  *)
(* state has none before the first publication or bootstrap, but then both *)
(* collections are empty and counting gives 0 as well.                     *)
CountKnown(l) == l.pin = None \/ l.pin = state.active

(* listProducts reads the state again.  A snapshot id the service did not  *)
(* have may be there by now; it is used, and not reported to the client.   *)
ListRepository ==
    LET snap == IF listing.pin # None THEN listing.pin ELSE state.active
    IN  /\ listing.step = "repository"
        /\ listing' =
              IF state.status = "running" /\ snap = None
              THEN [listing EXCEPT !.step = "done"]
              ELSE [listing EXCEPT
                       !.step = "query", !.snap = snap,
                       !.total = IF CountKnown(listing) THEN state.count ELSE 0,
                       !.to_do = IF CountKnown(listing) THEN {"find"}
                                                        ELSE {"find", "count"}]
        /\ UNCHANGED <<vars, role, scan, cache>>

(* The two queries run side by side. *)
ListFind ==
    /\ listing.step = "query"
    /\ "find" \in listing.to_do
    /\ listing' = [listing EXCEPT !.items = Page(listing),
                                  !.to_do = @ \ {"find"}]
    /\ UNCHANGED <<vars, role, scan, cache>>

ListCount ==
    /\ listing.step = "query"
    /\ "count" \in listing.to_do
    /\ listing' = [listing EXCEPT !.total = Cardinality(Matching(listing)),
                                  !.to_do = @ \ {"count"}]
    /\ UNCHANGED <<vars, role, scan, cache>>

(* Mutant: the last page is taken for a full one. *)
HasMore_OffByOne(l) ==
    IF HasCursor(l) THEN Len(l.items) = Limit
                    ELSE Len(l.got) + Len(l.items) <= l.total

HasMore(l) ==
    IF HasCursor(l) THEN Len(l.items) = Limit
                    ELSE Len(l.got) + Len(l.items) < l.total

(* Mutant: the cursor carries the write date without the product. *)
NextCursor_DateOnly(l) ==
    IF l.mode = "cursor" /\ HasMore(l) /\ l.items # <<>>
    THEN [Last(l.items) EXCEPT !.product = 0]
    ELSE l.after

(* The cursor of the client's next request, if it pages by cursor. *)
NextCursor(l) ==
    IF l.mode = "cursor" /\ HasMore(l) /\ l.items # <<>>
    THEN Last(l.items)
    ELSE l.after

ListAnswer ==
    /\ listing.step = "query"
    /\ listing.to_do = {}
    /\ listing' = [listing EXCEPT !.step = Proceed(HasMore(listing)),
                                  !.got = @ \o listing.items,
                                  !.after = NextCursor(listing),
                                  !.located = FALSE, !.snap = None,
                                  !.items = <<>>]
    /\ UNCHANGED <<vars, role, scan, cache>>

ListStep ==
    ListService \/ ListRepository \/ ListFind \/ ListCount \/ ListAnswer

-----------------------------------------------------------------------------
(* A barcode request, in the order of its awaited calls. *)

(* Mutant: the cache key lacks the snapshot id. *)
CacheKey_NoSnapshot(s) == None

CacheKey(s) == s.key

(* ProductCatalogService.barcode reads the state, for the cache key. *)
ScanService ==
    /\ role = "scanner"
    /\ scan.step \in {"idle", "done"}
    /\ scan' = [ step |-> IF state = NoState THEN "done" ELSE "get",
                 located |-> state.located, key |-> state.active,
                 from |-> None, row |-> NoRow ]
    /\ UNCHANGED <<vars, role, listing, cache>>

ScanCache ==
    LET entry == cache[CacheKey(scan)]
    IN  /\ scan.step = "get"
        /\ scan' = IF entry = NotCached THEN [scan EXCEPT !.step = "repository"]
                   ELSE [scan EXCEPT !.step = "done", !.row = entry.row,
                                     !.from = entry.from]
        /\ UNCHANGED <<vars, role, listing, cache>>

(* findByBarcode reads the state again, and looks into the snapshot that   *)
(* is active then.                                                         *)
ScanRepository ==
    /\ scan.step = "repository"
    /\ scan' = IF state.status = "running" /\ state.active = None
               THEN [scan EXCEPT !.step = "done"]
               ELSE [scan EXCEPT !.step = "find", !.from = state.active]
    /\ UNCHANGED <<vars, role, listing, cache>>

(* Mutant: the filter lacks the snapshot id. *)
Found_AnySnapshot(s) ==
    {row \in UNION {staged[r] : r \in Runs} :
        s.located /\ row.product = Barcode}

Found(s) == {row \in Documents(s.from) : s.located /\ row.product = Barcode}

ScanFind ==
    /\ scan.step = "find"
    /\ \/ /\ Found(scan) = {}
          /\ scan' = [scan EXCEPT !.step = "done"]
       \/ \E row \in Found(scan) :
             scan' = [scan EXCEPT !.step = "set", !.row = row]
    /\ UNCHANGED <<vars, role, listing, cache>>

ScanSet ==
    /\ scan.step = "set"
    /\ cache' = [cache EXCEPT ![CacheKey(scan)] =
                                  [row |-> scan.row, from |-> scan.from]]
    /\ scan' = [scan EXCEPT !.step = "done"]
    /\ UNCHANGED <<vars, role, listing>>

(* cacheTtlSeconds have passed. *)
CacheExpire(k) ==
    /\ cache[k] # NotCached
    /\ cache' = [cache EXCEPT ![k] = NotCached]
    /\ UNCHANGED <<vars, role, listing, scan>>

ScanStep ==
    ScanService \/ ScanCache \/ ScanRepository \/ ScanFind \/ ScanSet

-----------------------------------------------------------------------------
ReadNext ==
    \/ Next /\ UNCHANGED readVars
    \/ \E mode \in {"offset", "cursor"} : Ask(mode)
    \/ ListStep
    \/ ScanStep
    \/ \E k \in RunOrNone : CacheExpire(k)

allVars == <<vars, readVars>>

ReadSpec == ReadInit /\ [][ReadNext]_allVars

(* An awaited call of a request is answered, and a client that is told     *)
(* that there is more asks for it.                                         *)
FairReadSpec == ReadSpec /\ WF_allVars(ListStep)

-----------------------------------------------------------------------------
(* Properties. *)

(* The snapshots a reader can count on: the active one, and the one it     *)
(* replaced.                                                               *)
Readable(s) ==
    /\ state.active # None
    /\ s \in {state.active, prior[state.active].active} \ {None}

(* A listing that ends while its snapshot can still be counted on gave the *)
(* client every product of that snapshot once, in order, whatever was      *)
(* published and pruned between its pages and inside its requests.         *)
ListingWhole ==
    listing.step = "done" /\ Readable(listing.pin) =>
        listing.got = SortByDate(staged[listing.pin])

(* The total a client is told, page after page, is the size of the one     *)
(* snapshot it lists, whether it came from the sync state or was counted.  *)
TotalsAgree ==
    /\ listing.step \in {"service", "done"}
    /\ listing.got # <<>>
    /\ listing.mode = "offset"
    /\ Readable(listing.pin)
    => listing.total = Cardinality(staged[listing.pin])

(* A scan never answers from an older catalog than the one that was active *)
(* when it was asked, neither from the cache nor when a run publishes      *)
(* between its calls.                                                      *)
ScanNotOlder ==
    scan.step = "done" /\ scan.from # None => scan.from >= scan.key

(* And its answer, found or not, fresh or cached, is what that catalog     *)
(* holds.                                                                  *)
ScanTrue ==
    scan.step = "done" /\ scan.located /\ Readable(scan.from) =>
        IF scan.row = NoRow
        THEN \A row \in staged[scan.from] : row.product # Barcode
        ELSE scan.row \in staged[scan.from]

(* A client is not sent round for ever: every listing comes to an end,     *)
(* even one whose snapshot is pruned under it.                             *)
ListingEnds == listing.step # "idle" ~> listing.step = "done"

=============================================================================

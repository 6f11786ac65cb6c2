---------------------------- MODULE SourceScraper ----------------------------
(***************************************************************************)
(* One run of one source scraper (src/scrapers/<source>/scraper.py) inside *)
(* the run structure the auction platforms share                           *)
(* (src/scrapers/utils/auction_scraper.py), and Lost Art, which has its    *)
(* own: the purge, the discovery of the lots page by page, the lots one by *)
(* one with their images, the batches, and what happens when a step fails. *)
(*                                                                         *)
(* A listing page is the sequence of lots it shows when it is fetched: a   *)
(* site may move lots between pages while they are read.  A lot's page is  *)
(* what a row is made from: a title and an artist, or None, the images it  *)
(* offers and those of them the download gets.                             *)
(***************************************************************************)
EXTENDS Integers, Sequences, FiniteSets, SequencesExt

CONSTANTS
    Sources,        \* the scrapers looked at
    Lots,           \* lot identifiers
    Stored,         \* lots an earlier run stored
    Listings,       \* what a listing page may show: sequences of lots
    Offers,         \* the sets of images a lot page may offer
    OldImages,      \* images linked to the stored lots
    MaxPages,       \* bound on the pages a site has
    Skips,          \* values of --skip
    Limits,         \* row limits (max_rows, max_lots, max_lots_per_auction)
    PageLimits,     \* page limits (max_pages, max_calendar_pages)
    CommitEvery,    \* commit_every
    None            \* no limit, no value, no row

Auctions == {"christies", "dorotheum", "drouot", "lottissimo", "sothebys"}

ASSUME SourcesAssumption == Sources \subseteq Auctions \cup {"lostart"}
ASSUME LotsAssumption == /\ Stored \subseteq Lots /\ IsFiniteSet(Lots)
                         /\ \A p \in Listings : p \in Seq(Lots)
ASSUME LimitsAssumption ==
    /\ Skips \subseteq Nat /\ None \notin Nat
    /\ Limits \cup PageLimits \subseteq (Nat \ {0}) \cup {None}
    /\ CommitEvery \in Nat \ {0} /\ MaxPages \in Nat \ {0}

VARIABLES
    source, purge, skip, limit, pageLimit,  \* how the scraper was called
    rows,       \* the committed rows
    tx,         \* the rows as the session sees them
    phase,      \* where the run is
    page,       \* the next listing page, from 1
    pages,      \* pages of the site; of Sotheby's calendar once it is read
    read,       \* the listing pages read, in order (history)
    found,      \* the lots collected so far
    counted,    \* Sotheby's: new lots seen, those skipped included
    queue,      \* the lots to scrape
    done,       \* how many of them are processed
    written,    \* Lost Art: how many of them were written (_processed)
    savedFrom,  \* the page each lot of this batch was saved from (history)
    browser     \* what the Playwright fetcher holds open

config == <<source, purge, skip, limit, pageLimit>>
listing == <<page, pages, read, found, counted>>
sourceVars == <<config, rows, tx, phase, listing, queue, done, written, savedFrom, browser>>

\* download_images: each image is got, from the cache or the site, or skipped.
Downloads(offered) == SUBSET offered

Details == {d \in [title : {"new", None}, artist : {"new", None}, offered : Offers,
                   got : SUBSET UNION Offers] : d.got \in Downloads(d.offered)}
Rows == [title : {"old", "new", "made", None}, artist : {"old", "new", None},
         images : SUBSET (OldImages \cup UNION Offers)]
\* None is no value of any kind: neither a text, nor a row, nor a page.
ASSUME NoneAssumption == None \notin {"old", "new", "made"} /\ None \notin Rows \cup Details
OldRow == [title |-> "old", artist |-> "old", images |-> OldImages]
NoRows == [l \in Lots |-> None]

\* What _start_browser opens, in this order.
Opening == <<"xvfb", "playwright", "browser", "context">>
Open == ToSet(Opening)

SourceInit ==
    /\ source \in Sources /\ purge \in BOOLEAN
    /\ skip \in Skips /\ limit \in Limits /\ pageLimit \in PageLimits
    /\ source = "drouot" => limit = None   \* Drouot has page limits only
    /\ rows = [l \in Lots |-> IF l \in Stored THEN OldRow ELSE None]
    /\ tx = rows
    /\ phase = "start"
    /\ page = 1 /\ pages = 0 /\ read = <<>> /\ found = <<>> /\ counted = 0
    /\ queue = <<>> /\ done = 0 /\ written = 0
    /\ savedFrom = NoRows
    /\ browser = {}

-----------------------------------------------------------------------------
(* Helpers *)

\* The members of s that are not yet in seen, once each, in order.
Unseen(seen, s) ==
    FoldLeft(LAMBDA new, l : IF Contains(seen \o new, l) THEN new ELSE Append(new, l),
             <<>>, s)

Firsts(s, n) == IF n = None THEN s ELSE SubSeq(s, 1, IF n < Len(s) THEN n ELSE Len(s))

\* urls[skip:], then [:limit].
Cut(s) == Firsts(SubSeq(s, skip + 1, Len(s)), limit)

Enough(s) == limit # None /\ Len(s) >= limit + skip

\* Mutant: the loop stops at the row limit and forgets the lots to be skipped.
UpToLimitUnskipped(s) == Firsts(s, limit)

\* The scrapers that stop in the middle of a page at the row limit.
UpToLimit(s) == IF limit = None THEN s ELSE Firsts(s, limit + skip)

\* Opening the browser, wholly or up to the step that fails.
StartBrowser(opened) ==
    browser' = IF "context" \in browser THEN browser ELSE opened
Partly == {{Opening[j] : j \in 1..k} : k \in 0..Len(Opening)}

Fail ==
    /\ phase' = "stopping"
    /\ tx' = rows
    /\ UNCHANGED <<config, rows, listing, queue, done, written, savedFrom>>

-----------------------------------------------------------------------------
(* The start of a run *)

\* A purge empties the platform inside a savepoint, which the discovery ends.
Start ==
    /\ phase = "start" /\ source # "lostart"
    /\ phase' = "prepare"
    /\ tx' = IF purge THEN NoRows ELSE tx
    /\ UNCHANGED <<config, rows, listing, queue, done, written, savedFrom, browser>>

\* Lost Art commits its purge before it looks for anything.
StartLostArt ==
    /\ phase = "start" /\ source = "lostart"
    /\ phase' = "list"
    /\ tx' = IF purge THEN NoRows ELSE tx
    /\ rows' = tx'
    /\ UNCHANGED <<config, listing, queue, done, written, savedFrom, browser>>

Prepare ==
    /\ phase = "prepare"
    /\ phase' = IF source \in {"lottissimo", "sothebys"} THEN "count" ELSE "list"
    /\ IF source = "dorotheum" THEN StartBrowser(Open) ELSE UNCHANGED browser
    /\ UNCHANGED <<config, rows, tx, listing, queue, done, written, savedFrom>>

PrepareFails ==
    /\ phase = "prepare"
    /\ Fail
    /\ IF source = "dorotheum" THEN \E b \in Partly : StartBrowser(b) ELSE UNCHANGED browser

-----------------------------------------------------------------------------
(* Discovery: one action reads one page.  A page that is not fetched is     *)
(* None; a challenge or an error page in its place shows no lots.           *)

NoPage == None
Challenge == <<>>
Shows == Listings \cup {Challenge, NoPage}
Fetched(p) == p # NoPage

\* One page is read, the lots collected are now lots, and the loop goes on or not.
Read(p, lots, stop) ==
    /\ read' = IF Fetched(p) THEN Append(read, p) ELSE read
    /\ found' = lots
    /\ page' = page + 1
    /\ phase' = IF stop THEN "listed" ELSE "list"
    /\ UNCHANGED <<config, rows, tx, queue, done, written, savedFrom>>

New(p) == IF Fetched(p) THEN Unseen(found, p) ELSE <<>>
AtLast(n) == n # None /\ page >= n

\* ChristiesScraper.get_urls: the first answer says how many pages there are.
ListChristies(p) ==
    LET lots == UpToLimit(found \o New(p))
    IN  /\ source = "christies" /\ phase = "list"
        /\ \E total \in (IF page = 1 THEN 0..MaxPages ELSE {pages}) :
             /\ pages' = total
             /\ Read(p, lots, \/ p \in {NoPage, Challenge}
                              \/ Enough(lots)
                              \/ AtLast(total) \/ AtLast(pageLimit))
        /\ UNCHANGED <<counted, browser>>

\* DrouotScraper.get_urls: until a page shows nothing new.
ListDrouot(p) ==
    /\ source = "drouot" /\ phase = "list"
    /\ Read(p, found \o New(p), New(p) = <<>> \/ AtLast(pageLimit))
    /\ UNCHANGED <<pages, counted, browser>>

\* DorotheumScraper.get_urls: without max_pages, the first page only; a page
\* that is not fetched is passed over.
ListDorotheum(p) ==
    LET lots == found \o New(p)
    IN  /\ source = "dorotheum" /\ phase = "list"
        /\ Read(p, lots, \/ pageLimit = None \/ AtLast(pageLimit)
                         \/ (Fetched(p) /\ page > 1 /\ New(p) = <<>>)
                         \/ (Fetched(p) /\ Enough(lots)))
        /\ UNCHANGED <<pages, counted, browser>>

\* LottissimoScraper.fetch_html: the page comes over HTTP, or through a
\* browser that is started when it is first needed.
MaybeBrowser == browser' \in {browser, Open}

\* LottissimoScraper._get_page_urls reads the first page, and the default
\* listing when it cannot; get_urls takes that page from its cache.
CountLottissimo(p) ==
    LET lots == UpToLimit(New(p))
    IN  /\ source = "lottissimo" /\ phase \in {"count", "recount"}
        /\ IF Fetched(p)
           THEN \E total \in 1..MaxPages :
                  /\ pages' = IF pageLimit = None \/ total < pageLimit THEN total ELSE pageLimit
                  /\ Read(p, lots, Enough(lots) \/ page >= pages')
           ELSE /\ phase' = IF phase = "count" THEN "recount" ELSE "listed"
                /\ UNCHANGED <<config, rows, tx, page, pages, read, found, queue, done,
                               written, savedFrom>>
        /\ MaybeBrowser
        /\ UNCHANGED counted

ListLottissimo(p) ==
    LET lots == UpToLimit(found \o New(p))
    IN  /\ source = "lottissimo" /\ phase = "list"
        /\ Read(p, lots, (Fetched(p) /\ Enough(lots)) \/ page >= pages)
        /\ MaybeBrowser
        /\ UNCHANGED <<pages, counted>>

\* iter_auction_urls: calendar pages, here of one auction each, until one is
\* not fetched or shows nothing new.
ReadCalendar ==
    /\ source = "sothebys" /\ phase = "count"
    /\ \/ /\ pages < MaxPages /\ ~(pageLimit # None /\ pages >= pageLimit)
          /\ pages' = pages + 1
          /\ UNCHANGED phase
       \/ /\ phase' = IF pages = 0 THEN "listed" ELSE "list"
          /\ UNCHANGED pages
    /\ UNCHANGED <<config, rows, tx, page, read, found, counted, queue, done, written,
                   savedFrom, browser>>

\* SothebysScraper.get_urls: the lots of one auction that are not stored yet.
Yield(acc, l) ==
    IF tx[l] # None \/ Contains(acc.found, l) THEN acc
    ELSE [found |-> IF acc.counted >= skip THEN Append(acc.found, l) ELSE acc.found,
          counted |-> acc.counted + 1]

ListAuction(p) ==
    LET acc == FoldLeft(Yield, [found |-> found, counted |-> counted],
                        IF Fetched(p) THEN Firsts(p, limit) ELSE <<>>)
    IN  /\ source = "sothebys" /\ phase = "list"
        /\ Read(p, acc.found, page >= pages)
        /\ counted' = acc.counted
        /\ UNCHANGED <<pages, browser>>

\* LostArtScraper.get_urls.
ListLostArt(p) ==
    LET lots == found \o New(p)
    IN  /\ source = "lostart" /\ phase = "list"
        /\ Read(p, lots, New(p) = <<>> \/ Enough(lots) \/ AtLast(pageLimit))
        /\ UNCHANGED <<pages, counted, browser>>

\* A browser that does not start, or an answer that cannot be read.
ListFails ==
    /\ phase \in {"list", "count", "recount"}
    /\ Fail
    /\ IF source = "lottissimo" THEN \E b \in Partly : StartBrowser(b) ELSE UNCHANGED browser

\* The queue is known and the savepoint released; after a purge it may not be empty.
Selected == IF source = "sothebys" THEN found ELSE Cut(found)

ForgetListing == /\ page' = 1 /\ pages' = 0 /\ counted' = 0
                 /\ read' = <<>> /\ found' = <<>>

TakeQueue ==
    /\ phase = "listed"
    /\ queue' = Selected
    /\ ForgetListing
    /\ IF Selected = <<>> /\ purge /\ source # "lostart"
       THEN phase' = "stopping" /\ tx' = rows
       ELSE phase' = (IF Selected = <<>> THEN "ending" ELSE "scrape") /\ UNCHANGED tx
    /\ UNCHANGED <<config, rows, done, written, savedFrom, browser>>

-----------------------------------------------------------------------------
(* One lot *)

Lot == queue[done + 1]
Before(l) == IF tx[l] = None THEN [title |-> None, artist |-> None, images |-> {}] ELSE tx[l]

\* upsert_auction_artwork, upsert_lost_artwork: a value that is None is not written.
Upsert(r, title, artist) ==
    [r EXCEPT !.title = IF title = None THEN @ ELSE title,
              !.artist = IF artist = None THEN @ ELSE artist]

\* Mutant: every download replaces the links.
SetImagesAlways(r, d) == [r EXCEPT !.images = d.got]

\* set_lot_images: a complete download is authoritative, an incomplete one adds.
SetImages(r, d) == [r EXCEPT !.images = IF d.got = d.offered THEN d.got ELSE @ \cup d.got]

\* _clear_artist_columns, _clear_missing_identity_columns, _clear_title_column.
ClearTitle(r, d) == IF d.title = None THEN [r EXCEPT !.title = None] ELSE r
\* Mutant: a lot page without an artist leaves the column alone.
ClearNothing(r, d) == r

ClearArtist(r, d) == IF d.artist = None THEN [r EXCEPT !.artist = None] ELSE r

Orelse(value, made) == IF value = None THEN made ELSE value

\* The run structure after a lot: a batch is full, all lots are processed, or neither.
Processed(full) ==
    /\ done' = done + 1
    /\ phase' = IF full THEN "commit"
                ELSE IF done + 1 < Len(queue) THEN "scrape" ELSE "final"
    /\ UNCHANGED <<config, rows, listing, queue>>

FullBatch == (done + 1) % CommitEvery = 0

Save(d, row) ==
    /\ tx' = [tx EXCEPT ![Lot] = row]
    /\ savedFrom' = [savedFrom EXCEPT ![Lot] = d]
    /\ Processed(FullBatch)
    /\ UNCHANGED written

\* Without a page of its own a lot is saved from what the search said of it.
ScrapeChristies(d) ==
    /\ source = "christies" /\ phase = "scrape"
    /\ Save(d, ClearArtist(SetImages(Upsert(Before(Lot), d.title, d.artist), d), d))
    /\ UNCHANGED browser

ScrapeDorotheum(d) ==
    /\ source = "dorotheum" /\ phase = "scrape"
    /\ Save(d, ClearArtist(ClearTitle(SetImages(Upsert(Before(Lot), d.title, d.artist), d), d), d))
    /\ UNCHANGED browser

ScrapeDrouot(d) ==
    /\ source = "drouot" /\ phase = "scrape" /\ d.title # None
    /\ Save(d, SetImages(Upsert(Before(Lot), d.title, d.artist), d))
    /\ UNCHANGED browser

ScrapeLottissimo(d) ==
    /\ source = "lottissimo" /\ phase = "scrape"
    /\ Save(d, ClearTitle(SetImages(Upsert(Before(Lot), d.title, d.artist), d), d))
    /\ MaybeBrowser

ScrapeSothebys(d) ==
    /\ source = "sothebys" /\ phase = "scrape"
    /\ Save(d, SetImages(Upsert(Before(Lot), Orelse(d.title, "made"), d.artist), d))
    /\ UNCHANGED browser

\* LostArtScraper.scrape_url: a page that is not fetched has no fields, and the
\* list of artists and the images are replaced whatever could be read.
ScrapeLostArt(d) ==
    /\ source = "lostart" /\ phase = "scrape"
    /\ tx' = [tx EXCEPT ![Lot] =
                [title |-> Orelse(d.title, "made"), artist |-> d.artist, images |-> d.got]]
    /\ savedFrom' = [savedFrom EXCEPT ![Lot] = d]
    /\ written' = written + 1
    /\ Processed((written + 1) % CommitEvery = 0)
    /\ UNCHANGED browser

\* No page, a challenge, or a page without a lot (or, for Drouot, a title).
PassOver ==
    /\ phase = "scrape" /\ source # "christies"
    /\ Processed(source # "lostart" /\ FullBatch)
    /\ IF source = "lottissimo" THEN MaybeBrowser ELSE UNCHANGED browser
    /\ UNCHANGED <<tx, written, savedFrom>>

ScrapeFails ==
    /\ phase = "scrape"
    /\ Fail
    /\ IF source = "lottissimo" THEN \E b \in Partly : StartBrowser(b) ELSE UNCHANGED browser

-----------------------------------------------------------------------------
(* Batches and the end of the run *)

CommitBatch ==
    /\ phase = "commit"
    /\ rows' = tx
    /\ phase' = IF done < Len(queue) THEN "scrape" ELSE "final"
    /\ savedFrom' = NoRows
    /\ UNCHANGED <<config, tx, listing, queue, done, written, browser>>

\* _commit_batch after the loop; _commit_remaining only when something is pending.
FinalCommit ==
    /\ phase = "final"
    /\ rows' = IF source = "lostart" /\ written % CommitEvery = 0 THEN rows ELSE tx
    /\ phase' = "ending"
    /\ UNCHANGED <<config, tx, listing, queue, done, written, savedFrom, browser>>

\* The fence refuses, or PostgreSQL does.
CommitFails ==
    /\ phase \in {"commit", "final"}
    /\ Fail
    /\ UNCHANGED browser

\* _after_run, then Database.__exit__: commit, or roll back after an exception.
Finish ==
    /\ phase \in {"ending", "stopping"}
    /\ phase' = IF phase = "ending" THEN "done" ELSE "failed"
    /\ rows' = IF phase = "ending" THEN tx ELSE rows
    /\ browser' = {}
    /\ UNCHANGED <<config, tx, listing, queue, done, written, savedFrom>>

Ended == phase \in {"done", "failed", "crashed"}

Crash ==
    /\ ~Ended
    /\ phase' = "crashed"
    /\ tx' = rows /\ browser' = {}
    /\ UNCHANGED <<config, rows, listing, queue, done, written, savedFrom>>

List == \E p \in Shows :
    \/ ListChristies(p) \/ ListDrouot(p) \/ ListDorotheum(p)
    \/ CountLottissimo(p) \/ ListLottissimo(p) \/ ListAuction(p) \/ ListLostArt(p)

Scrape == \E d \in Details :
    \/ ScrapeChristies(d) \/ ScrapeDorotheum(d) \/ ScrapeDrouot(d)
    \/ ScrapeLottissimo(d) \/ ScrapeSothebys(d) \/ ScrapeLostArt(d)

Run ==
    \/ Start \/ StartLostArt \/ Prepare \/ PrepareFails
    \/ List \/ ReadCalendar \/ ListFails \/ TakeQueue
    \/ Scrape \/ PassOver \/ ScrapeFails
    \/ CommitBatch \/ FinalCommit \/ CommitFails \/ Finish

SourceNext == Run \/ Crash

SourceSpec == SourceInit /\ [][SourceNext]_sourceVars

-----------------------------------------------------------------------------
(* Properties *)

SourceTypeOK ==
    /\ source \in Sources /\ purge \in BOOLEAN /\ skip \in Skips
    /\ limit \in Limits /\ pageLimit \in PageLimits
    /\ rows \in [Lots -> Rows \cup {None}] /\ tx \in [Lots -> Rows \cup {None}]
    /\ phase \in {"start", "prepare", "count", "recount", "list", "listed", "scrape",
                  "commit", "final", "ending", "stopping", "done", "failed", "crashed"}
    /\ page \in Nat \ {0} /\ pages \in 0..MaxPages /\ counted \in Nat
    /\ read \in Seq(Seq(Lots)) /\ found \in Seq(Lots) /\ queue \in Seq(Lots)
    /\ done \in 0..Len(queue) /\ written \in 0..done
    /\ savedFrom \in [Lots -> Details \cup {None}]
    /\ browser \subseteq Open

\* The lots handed to the scraping loop are those of the pages that were read,
\* each once, in listing order, without the first skip, up to the row limit,
\* wherever the loop of a source stopped and whatever pages it could not read.
QueueIsWhatWasRead ==
    phase = "listed" =>
        IF source = "sothebys"
        THEN LET shown == FlattenSeq([i \in 1..Len(read) |-> Firsts(read[i], limit)])
                 stored == SetToSeq({l \in Lots : tx[l] # None})
             IN  /\ skip = 0 => Selected = Unseen(stored, shown)
                 /\ Unseen(<<>>, Selected) = Selected
        ELSE Selected = Cut(Unseen(<<>>, FlattenSeq(read)))

\* A row saved in this run does not mix a title or an artist of an earlier page
\* into what the lot's page shows now, for the sources that see to it.
RowsFollowPages ==
    \A l \in Lots : phase \notin {"stopping", "failed", "crashed"} /\ savedFrom[l] # None =>
        /\ source # "christies" => tx[l].title # "old"
        /\ source \in {"christies", "dorotheum", "lostart"} => tx[l].artist = savedFrom[l].artist

\* What a crash can cost: outside a purge at most one batch of saved lots is not
\* committed; a run that ends has committed or dropped all of it, has looked at
\* every lot unless it failed, and leaves no browser behind.
AtMostABatch ==
    /\ ~purge => Cardinality({l \in Lots : tx[l] # rows[l]}) <= CommitEvery
    /\ phase \in {"done", "failed"} => tx = rows /\ browser = {}
    /\ phase = "done" => done = Len(queue)

\* What a run writes is what it read, and what it has not committed is little.
RowsFollowRun == RowsFollowPages /\ AtMostABatch

\* A committed row of an auction platform goes only in a purge that found lots to
\* replace it, and a committed image link only when the lot's page, or that purge,
\* no longer has it: no failed page, download, batch or run takes either away.
NothingLostBlindly ==
    [][\A l \in Lots :
         source \notin {"lostart", "christies"} /\ rows[l] # None =>
             \/ purge /\ queue # <<>>
             \/ /\ rows'[l] # None
                /\ \A i \in rows[l].images \ rows'[l].images :
                       savedFrom[l] # None /\ i \notin savedFrom[l].offered]_sourceVars

=============================================================================

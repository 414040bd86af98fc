--------------------------- MODULE BoardCollection ---------------------------
(***************************************************************************)
(* What one collection of a source makes of a job board that changes while *)
(* it is read: the requests of each provider with their pages and retries  *)
(* (researcher.py, dice.py, public_feeds.py, web_search.py), the decision  *)
(* about each posting (classification.py, content.py), and the postings    *)
(* that the result transaction stores and closes (run_one).                *)
(*                                                                         *)
(* Runs of one source follow each other here; CollectionQueue has their    *)
(* leases and SourceRefresh runs whose transactions overlap.  A posting is *)
(* its key on the board and what the code tells apart of its content.      *)
(***************************************************************************)
EXTENDS Naturals, Sequences, FiniteSets

CONSTANTS
  Offer,      \* postings that the board may list, as [key, content]
  PageSize,   \* postings on a page, 100 in the code
  FeedLimit,  \* postings that Jobicy returns, 200 in the code
  PageLimit,  \* pages of Lever at most, 200 in the code
  Words,      \* search words of Dice are 1..Words, 18 in the code
  MaxListed,  \* bound: postings on the board at one time
  MaxChanges, \* bound: changes of the board during one run
  None        \* no stored job

Provider == {"ashby", "greenhouse", "lever", "jobicy", "remotive", "dice"}

Key == {p.key : p \in Offer}

\* What title_match finds in a title.
Title == [level : {"Other", "Director", "C-suite"}, executive : BOOLEAN, data : BOOLEAN,
          ai : BOOLEAN, science : BOOLEAN, cdo : BOOLEAN, hedged : BOOLEAN]

Content == [title : Title, country : {"US", "other", ""}, saysUS : BOOLEAN,
            flags : SUBSET {"prompt_injection", "credential"},
            hidden : BOOLEAN, words : SUBSET (1..Words)]

ASSUME BoardAssumption ==
  /\ Offer \subseteq [key : Key, content : Content]
  /\ {PageSize, FeedLimit, PageLimit, Words, MaxListed} \subseteq Nat \ {0}
  /\ MaxChanges \in Nat
  /\ None \notin [content : Content, verdict : {"match", "review"}, open : BOOLEAN]

VARIABLES
  provider,  \* of the source
  board,     \* the postings listed, the newest first
  pc,        \* where the run is
  word,      \* the search word in hand, 1 for all but Dice
  page,      \* the page asked for
  attempt,   \* of one request
  rows,      \* the postings collected, of each key the first one
  details,   \* Greenhouse: the postings whose detail is still to be fetched
  job,       \* jobs: per key the content, the verdict and whether it is open
  shown,     \* history: postings listed at some moment of the run
  steady,    \* history: postings listed at each moment of the run
  changes,   \* history: changes of the board during the run
  withdrawn, \* history: those of them that took a posting away
  untold     \* history: words whose first answer did not tell the number of pages

fetch == <<word, page, attempt, rows, details>>
history == <<shown, steady, changes, withdrawn, untold>>
vars == <<provider, board, pc, fetch, job, history>>

------------------------------------------------------------------------------
\* title_match: "match", "review" or "exclude".
TitleVerdict(t) ==
  LET leads == t.executive \/ (t.level = "Director" /\ (t.data \/ t.ai)) IN
  IF t.science /\ ~(t.data \/ t.executive) THEN "exclude"
  ELSE IF t.cdo /\ ~t.executive THEN "review"
  ELSE IF ~leads THEN "exclude"
  ELSE IF t.hedged THEN "review" ELSE "match"

\* geography: a country that is given decides, a location must say so itself.
Geography(c) ==
  CASE c.country = "US" -> "us"
    [] c.country = "other" -> "outside_us"
    [] OTHER -> IF c.saysUS THEN "us" ELSE "unknown"

\* Mutant of Verdict: the country is decided before the content is quarantined.
QuarantineLast(c) ==
  LET title == TitleVerdict(c.title)
      place == Geography(c)
  IN  IF "credential" \in c.flags THEN "exclude"
      ELSE IF c.flags # {} THEN "review"
      ELSE IF place = "outside_us" THEN "exclude"
      ELSE IF title = "match" /\ place = "unknown" THEN "review" ELSE title

\* classify: findings put any title under review, except outside the US.
Verdict(c) ==
  LET title == IF c.flags # {} THEN "review" ELSE TitleVerdict(c.title)
      place == Geography(c)
  IN  IF "credential" \in c.flags \/ place = "outside_us" THEN "exclude"
      ELSE IF title = "match" /\ place = "unknown" THEN "review" ELSE title

Eligible(c) == Verdict(c) # "exclude"

------------------------------------------------------------------------------
\* The places on the board of the postings that a request looks through.
Listing(w) ==
  {i \in 1..Len(board) : provider = "dice" => w \in board[i].content.words}

\* Which one of them a place is.
Rank(w, i) == Cardinality({j \in Listing(w) : j <= i})

\* How many postings a request answers with.
Batch ==
  CASE provider \in {"lever", "dice"} -> PageSize
    [] provider = "jobicy" -> FeedLimit
    [] OTHER -> MaxListed

\* One page of what is listed now.
Answer ==
  {i \in Listing(word) :
     (page - 1) * Batch < Rank(word, i) /\ Rank(word, i) <= page * Batch}

\* What a client leaves out of an answer: isListed, internal_job_id.
Hidden(p) == provider \in {"ashby", "greenhouse"} /\ p.content.hidden

\* The postings of an answer that a client keeps.
Kept == {p \in {board[i] : i \in Answer} : ~Hidden(p)}

\* Mutant of More: the pages of Dice are not capped.
MoreUncapped(told) ==
  \/ provider = "lever" /\ Cardinality(Answer) = PageSize
  \/ provider = "dice" /\ told /\ page * PageSize < Cardinality(Listing(word))

\* Mutant of More: a page without a new posting is taken for the last one.
MoreUnlessKnown(told) ==
  \/ provider = "lever" /\ Cardinality(Answer) = PageSize /\ ~(Kept \subseteq rows)
  \/ provider = "dice" /\ page < 2 /\ told /\ page * PageSize < Cardinality(Listing(word))

\* A short page is the last one of Lever; Dice is asked for two pages at most, and
\* for one if the first answer does not tell how many there are (totalPages or 1).
More(told) ==
  \/ provider = "lever" /\ Cardinality(Answer) = PageSize
  \/ provider = "dice" /\ page < 2 /\ told /\ page * PageSize < Cardinality(Listing(word))

Listed == {board[i] : i \in 1..Len(board)}

Keys(postings) == {p.key : p \in postings}

------------------------------------------------------------------------------
Init ==
  /\ provider \in Provider
  /\ board = <<>>
  /\ pc = "idle"
  /\ word = 1 /\ page = 1 /\ attempt = 0 /\ rows = {} /\ details = {}
  /\ job = [k \in Key |-> None]
  /\ shown = {} /\ steady = {} /\ changes = 0 /\ withdrawn = 0 /\ untold = {}

\* The board lists other postings, `gone` of the old ones not any more; what a run can
\* have seen is remembered.
Change(listing, gone) ==
  /\ board' = listing
  /\ IF pc = "idle" THEN UNCHANGED history
     ELSE LET now == {listing[i] : i \in 1..Len(listing)} IN
          /\ changes < MaxChanges /\ changes' = changes + 1
          /\ shown' = shown \union now /\ steady' = steady \intersect now
          /\ withdrawn' = withdrawn + gone /\ UNCHANGED untold
  /\ UNCHANGED <<provider, pc, fetch, job>>

Post(p) ==
  /\ Len(board) < MaxListed
  /\ p.key \notin Keys(Listed)
  /\ Change(<<p>> \o board, 0)

Withdraw(i) ==
  Change([j \in 1..(Len(board) - 1) |-> IF j < i THEN board[j] ELSE board[j + 1]], 1)

Edit(p) ==
  /\ p \notin Listed /\ p.key \in Keys(Listed)
  /\ Change([i \in 1..Len(board) |-> IF board[i].key = p.key THEN p ELSE board[i]], 0)

Begin ==
  /\ pc = "idle"
  /\ pc' = "fetching"
  /\ word' = 1 /\ page' = 1 /\ attempt' = 0 /\ rows' = {} /\ details' = {}
  /\ shown' = Listed /\ steady' = Listed
  /\ changes' = 0 /\ withdrawn' = 0 /\ untold' = {}
  /\ UNCHANGED <<provider, board, job>>

\* What a run that ends forgets.
Finish ==
  /\ pc' = "idle"
  /\ word' = 1 /\ page' = 1 /\ attempt' = 0 /\ rows' = {} /\ details' = {}
  /\ shown' = {} /\ steady' = {} /\ changes' = 0 /\ withdrawn' = 0 /\ untold' = {}

\* A status other than 200, a deferred retry, an answer of the wrong type or
\* size, a timeout, or one link that is not safe: the run fails as a whole.
Fail ==
  /\ pc \in {"fetching", "details"}
  /\ Finish
  /\ UNCHANGED <<provider, board, job>>

\* Mutant of GiveUp: a page that cannot be had ends the list.
GiveUpQuietly ==
  /\ attempt = 2 \/ provider = "dice"
  /\ pc' = "collected" /\ details' = {}
  /\ UNCHANGED <<provider, board, word, page, attempt, rows, job, history>>

\* Busy for the third time, or Dice, which is asked once.
GiveUp == (attempt = 2 \/ provider = "dice") /\ Fail

\* Mutant of Retry: the third attempt starts over.
RetryForever ==
  /\ pc \in {"fetching", "details"}
  /\ provider # "dice"
  /\ attempt' = (attempt + 1) % 3
  /\ UNCHANGED <<provider, board, pc, word, page, rows, details, job, history>>

\* 429 or 5xx without a long Retry-After.
Retry ==
  /\ pc \in {"fetching", "details"}
  /\ attempt < 2 /\ provider # "dice"
  /\ attempt' = attempt + 1
  /\ UNCHANGED <<provider, board, pc, word, page, rows, details, job, history>>

Collected(done) ==
  IF provider = "greenhouse"
  THEN /\ details' = {p \in done : TitleVerdict(p.content.title) # "exclude"}
       /\ pc' = "details"
  ELSE pc' = "collected" /\ details' = {}

\* A page arrives; what follows is the next page, the next word, or the end.
\* The rows of a key that was seen are duplicates, which run_one passes over.
\* The first answer to a word of Dice may leave out its number of pages.
Page ==
  LET all == rows \union {p \in Kept : p.key \notin Keys(rows)} IN
  /\ pc = "fetching"
  /\ attempt' = 0 /\ rows' = all
  /\ \E told \in BOOLEAN :
       /\ told \/ (provider = "dice" /\ page = 1)
       /\ ~(provider = "lever" /\ More(told) /\ page = PageLimit)
       /\ \/ /\ More(told)
             /\ page' = page + 1 /\ UNCHANGED <<pc, word, details>>
          \/ /\ ~More(told) /\ provider = "dice" /\ word < Words
             /\ word' = word + 1 /\ page' = 1 /\ UNCHANGED <<pc, details>>
          \/ /\ ~More(told) /\ ~(provider = "dice" /\ word < Words)
             /\ Collected(all) /\ UNCHANGED <<word, page>>
       /\ untold' = IF told THEN untold ELSE untold \union {word}
  /\ UNCHANGED <<provider, board, job, shown, steady, changes, withdrawn>>

\* The detail of a Greenhouse posting that is still there; it has gone otherwise
\* and the run fails.
Detail ==
  /\ pc = "details"
  /\ \E p \in details :
       /\ p.key \in Keys(Listed)
       /\ details' = details \ {p}
  /\ attempt' = 0
  /\ UNCHANGED <<provider, board, pc, word, page, rows, job, history>>

DetailsDone ==
  /\ pc = "details" /\ details = {}
  /\ pc' = "collected"
  /\ UNCHANGED <<provider, board, fetch, job, history>>

\* The postings that are stored.
Stored == {p \in rows : Eligible(p.content)}

Upserted(k) ==
  LET c == (CHOOSE p \in Stored : p.key = k).content
  IN  [content |-> c, verdict |-> Verdict(c), open |-> TRUE]

\* Mutant of Store: nothing tells postings that were not seen.
StoreOnly ==
  /\ pc = "collected"
  /\ job' = [k \in Key |->
       IF k \in Keys(Stored) THEN Upserted(k) ELSE job[k]]
  /\ Finish
  /\ UNCHANGED <<provider, board>>

\* The result transaction: upserts, and the rows it has not touched are closed.
Store ==
  /\ pc = "collected"
  /\ job' = [k \in Key |->
       IF k \in Keys(Stored) THEN Upserted(k)
       ELSE IF job[k] = None THEN None ELSE [job[k] EXCEPT !.open = FALSE]]
  /\ Finish
  /\ UNCHANGED <<provider, board>>

Fetch == Page \/ Detail \/ DetailsDone \/ Store

Environment ==
  \/ \E p \in Offer : Post(p) \/ Edit(p)
  \/ \E i \in 1..Len(board) : Withdraw(i)

Next == Environment \/ Begin \/ Fetch \/ Retry \/ GiveUp \/ Fail

\* A request is answered or times out; the answers the client gets are not up to
\* it, the attempts it makes are.
Fairness == WF_vars(Fetch \/ Retry \/ GiveUp \/ Fail)

Spec == Init /\ [][Next]_vars /\ Fairness

------------------------------------------------------------------------------
\* The variables have their types, and no client goes past its last page.
TypeOK ==
  /\ provider \in Provider
  /\ board \in Seq(Offer) /\ Len(board) <= MaxListed
  /\ pc \in {"idle", "fetching", "details", "collected"}
  /\ word \in 1..Words /\ page \in 1..(IF provider = "dice" THEN 2 ELSE PageLimit)
  /\ attempt \in 0..2
  /\ rows \subseteq Offer /\ details \subseteq Offer
  /\ job \in [Key -> {None} \union
              [content : Content, verdict : {"match", "review"}, open : BOOLEAN]]
  /\ shown \subseteq Offer /\ steady \subseteq shown
  /\ changes \in 0..MaxChanges /\ withdrawn \in 0..changes /\ untold \subseteq 1..Words

Open == {k \in Key : job[k] # None /\ job[k].open}

\* No posting with a secret or from outside the US is ever stored, and what is
\* stored as a match is clean and says that it is in the US, through whatever
\* edits its posting has gone (classify and the continue of run_one).
StoredAdmissible ==
  \A k \in Key : job[k] # None =>
    /\ "credential" \notin job[k].content.flags
    /\ Geography(job[k].content) # "outside_us"
    /\ job[k].verdict = "match" =>
         job[k].content.flags = {} /\ Geography(job[k].content) = "us"

\* How far the answers to a word of Dice reach: the code takes an answer that does not
\* tell the number of pages for the only page.
Span(w, mute) == (IF w \in mute THEN 1 ELSE 2) * PageSize

\* The places of a board that the requests of a provider reach.
Reach ==
  CASE provider = "dice" ->
         UNION {{i \in Listing(w) : Rank(w, i) <= Span(w, untold)} : w \in 1..Words}
    [] provider = "jobicy" -> {i \in 1..Len(board) : i <= FeedLimit}
    [] OTHER -> 1..Len(board)

Reachable == {p \in {board[i] : i \in Reach} : ~Hidden(p)}

\* A collection that completes while the board stands still leaves open exactly the
\* eligible postings that its requests reach, whatever pages, words, retries,
\* duplicates and earlier runs there were: no page is left out and none is taken
\* for the end of the list.
StillBoardExact ==
  [][pc = "collected" /\ pc' = "idle" /\ changes = 0 =>
       Open' = Keys({p \in Reachable : Eligible(p.content)})]_vars

\* What is open after a run lies between what was listed throughout the run and
\* what was listed at some moment of it, although postings come, go and change
\* while it is fetched: providers that answer with the whole list at once lose
\* nothing that stayed, and no provider leaves anything open of earlier runs or
\* with content it did not have (the upserts and the UPDATE of run_one).
CatalogFollowsBoard ==
  [][pc = "collected" /\ pc' = "idle" =>
       /\ provider \in {"ashby", "greenhouse", "remotive"} =>
            \A p \in steady :
              Eligible(p.content) /\ ~p.content.hidden =>
                p.key \in Open' /\ job'[p.key].content = p.content
       /\ \A k \in Open' : [key |-> k, content |-> job'[k].content] \in shown]_vars

\* The postings of a source that were listed throughout a run and should be open after
\* it, and are not, or not with their content.
Missed ==
  {p \in steady : /\ Eligible(p.content)
                  /\ ~(p.key \in Open' /\ job'[p.key].content = p.content)}

\* Lever is read by offset while its board changes.  A posting that stays is passed
\* over only when one before it is withdrawn and it moves up across the border of the
\* pages read so far: a run misses no more postings than are withdrawn while it
\* lasts, and those that are added or edited cost none (collect, researcher.py:43-54).
MissedAreWithdrawals ==
  [][pc = "collected" /\ pc' = "idle" /\ provider = "lever" =>
       Cardinality(Missed) <= withdrawn]_vars

\* Each collection ends, however often the source is busy, however many pages it
\* has and however the board changes while they are fetched: its requests and
\* their attempts are bounded.
CollectionEnds == pc = "fetching" ~> pc = "idle"

------------------------------------------------------------------------------
\* A key has one posting on the board and one row.
OneOfEach ==
  /\ \A i, j \in 1..Len(board) : board[i].key = board[j].key => i = j
  /\ \A p, q \in rows : p.key = q.key => p = q

\* Where each provider's requests can be.
Asked ==
  /\ provider \notin {"lever", "dice"} => page = 1
  /\ provider # "dice" => word = 1
  /\ pc = "fetching" /\ word = 1 /\ page = 1 => rows = {}
  /\ pc = "fetching" => \A w \in untold : w < word

\* What a run has collected was listed during it, and what stayed had its key to itself.
Collecting ==
  pc # "idle" =>
    /\ Listed \union rows \subseteq shown /\ steady \subseteq Listed
    /\ \A p \in steady, q \in shown : p.key = q.key => p = q

\* A list that comes as a whole has all that stayed on the board.
WholeList ==
  pc \in {"details", "collected"} /\ provider \in {"ashby", "greenhouse", "remotive"} =>
    {p \in steady : ~p.content.hidden} \subseteq rows

\* The places that the requests before page n of word v reach.
Before(v, n, mute) ==
  UNION {{i \in Listing(w) :
            Rank(w, i) <= IF w < v THEN Span(w, mute) ELSE (n - 1) * Batch} : w \in 1..v}

\* On a board that stands still the rows are what has been reached.
StillRows ==
  changes = 0 =>
    /\ pc = "fetching" =>
         rows = {p \in {board[i] : i \in Before(word, page, untold)} : ~Hidden(p)}
    /\ pc \in {"details", "collected"} => rows = Reachable

\* The places that the pages of Lever have passed so far.
Behind ==
  {i \in 1..Len(board) : pc = "fetching" => i <= (page - 1) * PageSize}

\* What stayed listed, was not collected, and will not be.
PassedOver == {p \in steady \ rows : \E i \in Behind : board[i] = p}

\* Each withdrawal lets one posting slip past.
FewPassedOver ==
  pc # "idle" /\ provider = "lever" =>
    IsFiniteSet(PassedOver) /\ Cardinality(PassedOver) <= withdrawn

\* The inductive invariant.
IInv ==
  /\ TypeOK /\ StoredAdmissible
  /\ OneOfEach /\ Asked /\ Collecting /\ WholeList /\ StillRows /\ FewPassedOver

------------------------------------------------------------------------------
(* Why a run ends: the safety half of CollectionEnds. *)

\* The requests for pages that are left, the one in hand included.
PagesLeft ==
  CASE provider = "lever" -> PageLimit + 1 - page
    [] provider = "dice" -> 2 * (Words - word) + 3 - page
    [] OTHER -> 1

\* A bound on the steps that a run has left: each request has three attempts.
Left ==
  CASE pc = "fetching" -> 3 * (PagesLeft + MaxListed) + 5 - attempt
    [] pc = "details" -> 3 * Cardinality(details) + 4 - attempt
    [] pc = "collected" -> 1
    [] OTHER -> 0

\* It is used up when the run is over, not before.
LeftSound == Left \in Nat /\ (Left = 0 <=> pc = "idle")

\* Whatever the board does and however often it is busy, each step that a run takes
\* brings it closer to its end: no page, attempt or detail is asked for again
\* (the loops of researcher.py:21-54, dice.py:59-77 and web_search.py:39).
RequestsRunOut ==
  [][pc # "idle" => UNCHANGED <<pc, fetch>> \/ Left' < Left]_vars
==============================================================================

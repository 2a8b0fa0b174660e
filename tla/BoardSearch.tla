----------------------------- MODULE BoardSearch -----------------------------
(***************************************************************************)
(* One search over a list of employer boards (greenhouse, ashby, lever):   *)
(* feeds are read page by page through the shared cache, a request is      *)
(* retried while its failure is transient, and one budget is spent in two  *)
(* passes, the first of which caps every board at its fair share.  Boards  *)
(* change, and cached pages run out, while the postings already found are  *)
(* being ingested.                                                         *)
(***************************************************************************)
EXTENDS Ranking, SequencesExt

CONSTANTS
  BoardList,          \* the boards of the query, in order
  Jobs,               \* the postings a board may list
  Wanted,             \* those of them the query accepts
  Limits,             \* values of SearchQuery.limit
  PageSize,           \* PAGE_SIZE
  MaxPages,           \* MAX_PAGES_PER_COMPANY
  MaxAttempts,        \* DEFAULT_MAX_ATTEMPTS
  MaxBoardChanges     \* bound: postings published or withdrawn

ASSUME BoardSearchAssumption ==
  /\ BoardList \in Seq(STRING) /\ BoardList # <<>>
  /\ IsFiniteSet(Jobs) /\ Wanted \subseteq Jobs
  /\ Limits \subseteq Nat \ {0}
  /\ {PageSize, MaxPages, MaxAttempts} \subseteq Nat \ {0} /\ MaxBoardChanges \in Nat

VARIABLES
  paged,    \* the provider reads pages (lever); otherwise the whole board is one document
  limit,    \* the budget
  feed,     \* what each board lists, newest first
  pages,    \* the cached pages of each board
  search,   \* where the search is
  yielded,  \* the postings yielded, in order
  met,      \* ghost: wanted postings the first pass read on each board
  lost,     \* ghost: boards that failed or answered nonsense
  changed   \* postings published or withdrawn so far

searchVars == <<paged, limit, feed, pages, search, yielded, met, lost, changed>>
-----------------------------------------------------------------------------
BoardsAsked == DOMAIN BoardList
\* The code knows a posting by its external_id alone (greenhouse.py 907, lever.py 1010):
\* here boards share no id, a job of two boards being two postings.
Posting(b, j) == [board |-> b, job |-> j]
From(b) == {i \in DOMAIN yielded : yielded[i].board = b}
SizeOfPage == IF paged THEN PageSize ELSE Cardinality(Jobs) + 1

\* A board lists a posting once.
Feeds == {s \in BoundedSeq(Jobs, Cardinality(Jobs)) : IsInjective(s)}
PageOf(b, n) ==
  SubSeq(feed[b], (n - 1) * SizeOfPage + 1, Min({n * SizeOfPage, Len(feed[b])}))

SearchInit ==
  /\ paged \in BOOLEAN
  /\ limit \in Limits
  /\ feed \in [BoardsAsked -> Feeds]
  /\ pages = [b \in BoardsAsked |-> <<>>]
  /\ search = [going |-> TRUE, pass |-> 1, board |-> 1, page |-> 1, got |-> 0, tries |-> 1]
  /\ yielded = <<>>
  /\ met = [b \in BoardsAsked |-> {}]
  /\ lost = {}
  /\ changed = 0

WholeBudget == limit
FairShare ==
  IF Len(BoardList) <= 1 THEN limit ELSE Max({1, limit \div Len(BoardList)})
Cap == IF search.pass = 1 THEN FairShare ELSE limit
Room == Min({limit - Len(yielded), Cap - search.got})

\* Where the search goes from a board it is through with.
NextBoard ==
  CASE search.board < Len(BoardList) ->
         [search EXCEPT !.board = @ + 1, !.page = 1, !.got = 0, !.tries = 1]
    [] search.board = Len(BoardList) /\ search.pass = 1 ->
         [search EXCEPT !.pass = 2, !.board = 1, !.page = 1, !.got = 0, !.tries = 1]
    [] OTHER -> [search EXCEPT !.going = FALSE]

\* What the query accepts and was not yielded yet is yielded, up to the cap and the budget;
\* a full page that left room is followed by the next.
TakePage(items) ==
  LET b     == search.board
      fresh == Subsequence(items, {i \in DOMAIN items :
                 items[i] \in Wanted /\ Posting(b, items[i]) \notin ToSet(yielded)})
      taken == SubSeq(fresh, 1, Min({Room, Len(fresh)}))
      more  == Len(fresh) < Room /\ Len(items) = SizeOfPage /\ search.page < MaxPages
  IN /\ yielded' = yielded \o [i \in DOMAIN taken |-> Posting(b, taken[i])]
     /\ met' = IF search.pass = 1 THEN [met EXCEPT ![b] = @ \cup (ToSet(items) \cap Wanted)]
               ELSE met
     /\ search' =
          CASE Len(yielded) + Len(taken) >= limit -> [search EXCEPT !.going = FALSE]
            [] Len(yielded) + Len(taken) < limit /\ more ->
                 [search EXCEPT !.page = @ + 1, !.got = @ + Len(taken), !.tries = 1]
            [] OTHER -> NextBoard

\* A page that is cached may have run out, so that it has to be asked for again.
Asking == search.going
Store(items) ==
  pages' = [pages EXCEPT ![search.board] =
              [n \in DOMAIN @ \cup {search.page} |-> IF n = search.page THEN items ELSE @[n]]]

ReadCached ==
  /\ search.going /\ search.page \in DOMAIN pages[search.board]
  /\ TakePage(pages[search.board][search.page])
  /\ UNCHANGED <<paged, limit, feed, pages, lost, changed>>

ReadAnswered ==
  /\ Asking
  /\ Store(PageOf(search.board, search.page))
  /\ TakePage(PageOf(search.board, search.page))
  /\ UNCHANGED <<paged, limit, feed, lost, changed>>

\* A JSON document that is not a feed counts as an empty one, and is cached as one.
ReadMalformed ==
  /\ Asking
  /\ Store(<<>>)
  /\ TakePage(<<>>)
  /\ lost' = lost \cup {search.board}
  /\ UNCHANGED <<paged, limit, feed, changed>>

\* A timeout, a broken connection, 429 or 5xx: asked again after a pause.
Retry ==
  /\ Asking /\ search.tries < MaxAttempts
  /\ search' = [search EXCEPT !.tries = @ + 1]
  /\ UNCHANGED <<paged, limit, feed, pages, yielded, met, lost, changed>>

\* A status that is final, no JSON, or the last attempt: only this board is given up.
BoardFails ==
  /\ Asking
  /\ lost' = lost \cup {search.board}
  /\ search' = NextBoard
  /\ UNCHANGED <<paged, limit, feed, pages, yielded, met, changed>>

BoardChanges ==
  \E b \in BoardsAsked, j \in Jobs :
    /\ search.going /\ changed < MaxBoardChanges
    /\ feed' = [feed EXCEPT ![b] = IF j \in ToSet(@)
                                   THEN Subsequence(@, {i \in DOMAIN @ : @[i] # j})
                                   ELSE <<j>> \o @]
    /\ changed' = changed + 1
    /\ UNCHANGED <<paged, limit, pages, search, yielded, met, lost>>

SearchNext ==
  \/ ReadCached \/ ReadAnswered \/ ReadMalformed \/ Retry \/ BoardFails
  \/ BoardChanges

SearchSpec == SearchInit /\ [][SearchNext]_searchVars
-----------------------------------------------------------------------------
SearchTypeOK ==
  /\ paged \in BOOLEAN /\ limit \in Limits
  /\ feed \in [BoardsAsked -> Feeds]
  /\ \A b \in BoardsAsked :
       DOMAIN pages[b] \subseteq 1 .. MaxPages /\ \A n \in DOMAIN pages[b] : pages[b][n] \in Feeds
  /\ search \in [going : BOOLEAN, pass : 1 .. 2, board : BoardsAsked, page : 1 .. MaxPages,
                 got : 0 .. limit, tries : 1 .. MaxAttempts]
  /\ yielded \in Seq([board : BoardsAsked, job : Wanted])
  /\ met \in [BoardsAsked -> SUBSET Wanted]
  /\ lost \subseteq BoardsAsked
  /\ changed \in 0 .. MaxBoardChanges

(* "Every board is represented before any board is allowed a second helping" (base.py:198):
   while boards fail, feeds move between two reads of them and pages are served stale, no
   board gets more than an even part of the budget before the last one was asked, each
   board that answers gets its part or all it had, nothing is yielded twice, and budget
   is left over only when every board is exhausted, or read to its last page allowed. *)
BoardsShareTheBudget ==
  LET part == Max({1, limit \div Len(BoardList)})
  IN /\ Len(yielded) <= limit /\ IsInjective(yielded)
     /\ search.pass = 1 => \A b \in BoardsAsked : Cardinality(From(b)) <= part
     /\ search.pass = 2 => \A b \in BoardsAsked \ lost :
                             Cardinality(From(b)) >= Min({part, Cardinality(met[b])})
     /\ ~search.going /\ Len(yielded) < limit /\ lost = {} /\ changed = 0 =>
          \A b \in BoardsAsked : \A n \in DOMAIN feed[b] :
            n <= MaxPages * SizeOfPage /\ feed[b][n] \in Wanted =>
              Posting(b, feed[b][n]) \in ToSet(yielded)
=============================================================================

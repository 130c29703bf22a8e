-------------------------------- MODULE Menus --------------------------------
(***************************************************************************)
(* The screens of the operator's bot (src/src/telegram_bot.rs): a message  *)
(* in the chat shows what the database held when it was drawn, and its     *)
(* buttons name pages and reviews by position.  They may be pressed at any *)
(* later time, when deposits, the handler, the clock and the cleanup have  *)
(* changed the tables underneath.                                          *)
(*                                                                         *)
(* Of a record only the status is kept here.  Setting it reads the record  *)
(* and writes it back, which is one step for the status; AdminBot and      *)
(* DepositHandler have both.                                               *)
(***************************************************************************)
EXTENDS Cleanup, SequencesExt

CONSTANTS
  ExchangeChain,  \* [Exchanges -> {"tron", "bsc"}]
  PerPage,        \* per_page, 5 in the code
  Reviews,        \* transaction hashes that may come under review, ordered
  ReviewOf,       \* [Reviews -> Exchanges]: the exchange with the address
  Underpaid       \* those whose amount is below the expected one

ASSUME MenusAssumption ==
  /\ Exchanges \subseteq Nat \ {0} /\ IsFiniteSet(Exchanges)
  /\ ExchangeChain \in [Exchanges -> {"tron", "bsc"}]
  /\ PerPage \in Nat \ {0}
  /\ Reviews \subseteq Nat /\ IsFiniteSet(Reviews)
  /\ ReviewOf \in [Reviews -> Exchanges]
  /\ Underpaid \subseteq Reviews

VARIABLES
  reviews,  \* tree "manual_review", of which the keys
  chat,     \* the message the operator looks at
  command,  \* the Resolve command being handled; a chat's updates are handled in turn
  pressed   \* history: the review button just pressed, if one was

vars == <<cleanupVars, reviews, chat, command, pressed>>

Kinds == {"none", "page", "exchange", "reviews"}

Message ==
  [kind   : Kinds,
   page   : Nat,                          \* page and number of pages
   total  : Nat,
   ex     : Exchanges \cup {0},           \* exchange, and its status when drawn
   drawn  : Statuses,
   listed : Seq(Reviews)]                 \* reviews, by position

NoMessage ==
  [kind |-> "none", page |-> 0, total |-> 0, ex |-> 0, drawn |-> "absent", listed |-> <<>>]

Command ==
  [pc   : {"idle", "amountsGet", "amountsPut", "statusPut"},
   ex   : Exchanges \cup {0},
   copy : Statuses,  \* what set_exchange_amounts read
   seen : Statuses]  \* history: the exchange when the button was drawn, or when it was found

NoCommand == [pc |-> "idle", ex |-> 0, copy |-> "absent", seen |-> "absent"]

TypeOK ==
  /\ CleanupTypeOK
  /\ reviews \subseteq Reviews
  /\ chat \in Message
  /\ command \in Command
  /\ \A p \in pressed : p \in [label : Reviews, hit : Reviews, newer : SUBSET Reviews]

Init ==
  CleanupInit /\ reviews = {} /\ chat = NoMessage /\ command = NoCommand /\ pressed = {}

Draw(message) ==
  /\ command = NoCommand
  /\ chat' = message /\ pressed' = {}
  /\ UNCHANGED <<cleanupVars, reviews, command>>

-----------------------------------------------------------------------------
(* The list of exchanges, a page at a time.                                 *)

\* The elements of a finite set of numbers, in order.
InKeyOrder(S) ==
  CHOOSE list \in [1..Cardinality(S) -> S] :
    \A i, j \in 1..Cardinality(S) : i < j => list[i] < list[j]

\* get_pending_exchanges
PendingOf(c) ==
  {e \in Exchanges : ExchangeChain[e] = c /\ status[e] = "pending" /\ expires[e] > clock}

AllPending == InKeyOrder(PendingOf("tron")) \o InKeyOrder(PendingOf("bsc"))

\* Faulty: the last page, when it is not full, does not count.
TotalPagesFull(n) == n \div PerPage

\* div_ceil
TotalPages(n) == (n + PerPage - 1) \div PerPage

AtLeastOne(n) == IF n < 1 THEN 1 ELSE n

\* page.clamp(1, total_pages.max(1))
Clamp(page, total) == IF page < 1 THEN 1 ELSE IF page > total THEN total ELSE page

\* The slice [start..end] of a list of n exchanges for a page asked for.
Slice(asked, n) ==
  LET page  == Clamp(asked, AtLeastOne(TotalPages(n)))
      start == (page - 1) * PerPage
      left  == IF n > start THEN n - start ELSE 0
  IN  [page |-> page, start |-> start,
       end |-> start + (IF PerPage < left THEN PerPage ELSE left)]

\* cmd_exchanges_page and show_exchanges_page.
ShowPage(asked) ==
  LET n == Len(AllPending) IN
  Draw([NoMessage EXCEPT !.kind = "page", !.page = Slice(asked, n).page,
                         !.total = AtLeastOne(TotalPages(n))])

\* The buttons to the previous and the next page.
TurnPage ==
  /\ chat.kind = "page"
  /\ \/ chat.page > 1 /\ ShowPage(chat.page - 1)
     \/ chat.page < chat.total /\ ShowPage(chat.page + 1)

-----------------------------------------------------------------------------
(* One exchange and its Resolve button.                                     *)

\* Faulty: the button is drawn for a settled exchange as well.
ResolvableSent == {"pending", "deposit_detected", "error", "sent"}

\* build_exchange_kb
Resolvable == {"pending", "deposit_detected", "error"}

\* /exchange and the Details button.  One that is not there is only reported.
ShowExchange(e) ==
  /\ status[e] # "absent"
  /\ Draw([NoMessage EXCEPT !.kind = "exchange", !.ex = e, !.drawn = status[e]])

\* The message of a button that did its work loses its buttons, but the chat
\* may hold the same message twice.
Used == chat' \in {NoMessage, chat}

\* A command sets out to work on exchange e.
Begin(pc, e, seen) == command' = [NoCommand EXCEPT !.pc = pc, !.ex = e, !.seen = seen]

\* The Resolve button of an exchange, whatever its status is by now.
PressResolve ==
  /\ command = NoCommand
  /\ chat.kind = "exchange" /\ chat.drawn \in Resolvable
  /\ status[chat.ex] # "absent"
  /\ Begin("statusPut", chat.ex, chat.drawn)
  /\ pressed' = {}
  /\ UNCHANGED <<cleanupVars, reviews, chat>>

\* set_exchange_amounts reads the record, and writes it back with the status
\* it read.
AmountsGet ==
  /\ command.pc = "amountsGet"
  /\ command' = [command EXCEPT !.pc = "amountsPut", !.copy = status[command.ex]]
  /\ UNCHANGED <<cleanupVars, reviews, chat, pressed>>

AmountsPut ==
  /\ command.pc = "amountsPut"
  /\ status' = [status EXCEPT ![command.ex] = command.copy]
  /\ command' = [command EXCEPT !.pc = "statusPut", !.copy = "absent"]
  /\ UNCHANGED <<clock, expires, toRemove, cleaning, handling, reviews, chat, pressed>>

\* set_exchange_status, and the end of the command: the event, which AdminBot
\* follows, changes nothing here.
StatusPut ==
  /\ command.pc = "statusPut"
  /\ status' = [status EXCEPT ![command.ex] = "deposit_detected"]
  /\ command' = NoCommand
  /\ Used
  /\ UNCHANGED <<clock, expires, toRemove, cleaning, handling, reviews, pressed>>

-----------------------------------------------------------------------------
(* The list of reviews.                                                     *)

\* A monitor stores a review; resolved stays false, so none ever leaves.
AddReview(h) ==
  /\ h \notin reviews
  /\ reviews' = reviews \cup {h}
  /\ UNCHANGED <<cleanupVars, chat, command, pressed>>

\* get_manual_reviews, in the order of their keys.
ReviewList == InKeyOrder(reviews)

\* /reviews and build_reviews_view, whose buttons carry positions.
ShowReviews == Draw([NoMessage EXCEPT !.kind = "reviews", !.listed = ReviewList])

\* What resolving a review does: an underpaid one is refused, another has the
\* pending exchange of its address written.
Resolve(h) ==
  IF h \notin Underpaid /\ status[ReviewOf[h]] = "pending"
  THEN Begin("amountsGet", ReviewOf[h], "pending")
  ELSE UNCHANGED command

\* /resolve names the review by its hash.
ResolveByHash(h) ==
  /\ command = NoCommand
  /\ h \in reviews
  /\ Resolve(h)
  /\ pressed' = {}
  /\ UNCHANGED <<cleanupVars, reviews, chat>>

\* The button at position i resolves the review of a list read afresh.
PressAt(i, position) ==
  /\ command = NoCommand
  /\ chat.kind = "reviews" /\ i \in 1..Len(chat.listed)
  /\ IF position <= Len(ReviewList)
     THEN /\ Resolve(ReviewList[position])
          /\ pressed' = {[label |-> chat.listed[i], hit |-> ReviewList[position],
                          newer |-> reviews \ ToSet(chat.listed)]}
     ELSE UNCHANGED <<command, pressed>>
  /\ UNCHANGED <<cleanupVars, reviews, chat>>

\* Faulty: the position on the button is taken as counted from one.
PressReviewOffByOne(i) == PressAt(i, i + 1)

PressReview(i) == PressAt(i, i)

-----------------------------------------------------------------------------
Next ==
  \/ CleanupNext /\ UNCHANGED <<reviews, chat, command, pressed>>
  \/ ShowPage(1) \/ TurnPage
  \/ \E e \in Exchanges : ShowExchange(e)
  \/ PressResolve \/ AmountsGet \/ AmountsPut \/ StatusPut
  \/ \E h \in Reviews : AddReview(h) \/ ResolveByHash(h)
  \/ ShowReviews
  \/ \E i \in 1..Cardinality(Reviews) : PressReview(i)

Spec == Init /\ [][Next]_vars

-----------------------------------------------------------------------------
\* Whatever page a button asks for, also one drawn when the list was longer,
\* the slice taken lies within the list (it would stop the handler otherwise),
\* and the pages together show every pending exchange exactly once
\* (show_exchanges_page).
PagesShowEveryPending ==
  LET n == Len(AllPending)
      Shows(page, k) == Slice(page, n).start < k /\ k <= Slice(page, n).end
  IN  /\ \A asked \in 0..Cardinality(Exchanges) + 1 :
           /\ 0 <= Slice(asked, n).start
           /\ Slice(asked, n).start <= Slice(asked, n).end /\ Slice(asked, n).end <= n
      /\ \A k \in 1..n :
           /\ \E page \in 1..TotalPages(n) : Shows(page, k)
           /\ \A p, q \in 1..TotalPages(n) : Shows(p, k) /\ Shows(q, k) => p = q

\* The button of a review resolves the review it names, or, when one that
\* sorts before it was stored after the list was drawn, one that sorts no later
\* (build_reviews_view, callback_handler).
MispressNeedsEarlierReview ==
  \A p \in pressed :
    \/ p.hit = p.label
    \/ p.hit < p.label /\ \E h \in p.newer : h < p.label

\* An exchange that is being paid or is paid goes back to "pending" or
\* "deposit_detected" only by a command that set out when it was open: a button
\* drawn before it got that far, or a review whose command found it pending
\* before the handler took it.  The handler itself never takes one back, though
\* it writes its statuses without looking (callback_handler, cmd_resolve).
OnlyOldCommandsReopen ==
  [][\A e \in Exchanges :
       status[e] \in {"sending", "sent"} /\ status'[e] \in {"pending", "deposit_detected"} =>
         command.ex = e /\ command.seen \in {"pending", "deposit_detected", "error"}]_vars
=============================================================================

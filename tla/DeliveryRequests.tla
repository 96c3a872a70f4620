-------------------------- MODULE DeliveryRequests --------------------------
(***************************************************************************)
(* Statements about one leg of one delivery, from the form in the browser  *)
(* (frontend pages/DeliveriesPage.tsx) to the record (deliveries.event),   *)
(* over a network that loses and delays requests and loses answers.  A     *)
(* page sends the version it shows and a request id that it renews when    *)
(* the statement changes, and it reports an answer or a failure.           *)
(*                                                                         *)
(* The leg carries one allocation and is released; the pages belong to     *)
(* planners, who may state everything.  Differences and their resolution   *)
(* are in Deliveries.                                                      *)
(***************************************************************************)
EXTENDS Integers, Sequences, FiniteSets

CONSTANTS
  Pages,        \* the pages on which the delivery is open
  Ordered,      \* the quantity allocated
  Typed,        \* the quantities that are stated
  Notes,        \* the recipient, time and reason of a statement
  MaxRequests,  \* bound: the requests one page sends
  MaxVersion    \* bound: the versions of the record

ASSUME RequestsAssumption ==
  /\ Ordered \in Nat /\ Typed \subseteq Nat \ {0} /\ MaxRequests \in Nat /\ MaxVersion \in Nat

Kinds == {"load", "receipt", "correction"}

\* An EventIn without its version; corrects is 0 unless it corrects.
Statement ==
  [page : Pages, id : Nat, kind : Kinds, quantity : Nat, note : Notes, corrects : Nat]

NoStatement == [kind |-> "none"]

VARIABLES
  record,   \* its version, its events, and whether the next leg is under way
  pages,    \* what each page shows, and the state of its form
  flying,   \* the requests on their way to the application
  answers   \* the answers on their way back

requestsVars == <<record, pages, flying, answers>>

TypedPage ==
  [version : Nat, events : Nat,              \* the record it shows
   sent : Statement \cup {NoStatement},      \* the last request; its kind is requestKind
   kept : BOOLEAN,                           \* the form still holds what was sent
   number : Nat, busy : BOOLEAN,             \* the requests it has sent
   told : {"nothing", "saved", "refused", "failed"}]

RequestsTypeOK ==
  /\ record \in [version : Nat, events : Seq([statement : Statement, informed : Nat]), onward : BOOLEAN]
  /\ pages \in [Pages -> TypedPage]
  /\ \A m \in flying :
       m \in [number : Nat, version : Nat, informed : Nat, statement : Statement]
  /\ \A m \in answers :
       m \in [page : Pages, number : Nat, saved : BOOLEAN, version : Nat, events : Nat]

-----------------------------------------------------------------------------
(* The page *)

\* The statement that page p makes next.  It is the last one again, perhaps
\* with another recipient, time or reason, which leave the request id alone;
\* or a quantity is typed or the kind is another one: the id is the number of
\* its first try.  A correction is of the last statement the page shows.
Retried(p, note) == [pages[p].sent EXCEPT !.note = note]

Fresh(p, k, n, note) ==
  [page |-> p, id |-> pages[p].number + 1, kind |-> k, quantity |-> n, note |-> note,
   corrects |-> IF k = "correction" THEN pages[p].events ELSE 0]

\* submitEvent
Submit(p, s) ==
  LET page == pages[p]
  IN  /\ ~page.busy /\ page.number < MaxRequests
      /\ s.kind = "correction" => page.events > 0
      /\ flying' = flying \cup {[number |-> page.number + 1, version |-> page.version,
                                 informed |-> page.events, statement |-> s]}
      /\ pages' = [pages EXCEPT ![p].busy = TRUE, ![p].told = "nothing", ![p].sent = s,
                                ![p].kept = TRUE, ![p].number = @ + 1]
      /\ UNCHANGED <<record, answers>>

\* accept: another version empties the form, and with it the request id.
Shown(page, version, events) ==
  IF version = page.version THEN page
  ELSE [page EXCEPT !.version = version, !.events = events, !.kept = FALSE]

\* The awaited answer: of the request sent last, unless the page gave it up.
Receive(m) ==
  LET page == pages[m.page]
  IN  /\ answers' = answers \ {m}
      /\ pages' = [pages EXCEPT ![m.page] =
           IF m.saved
           THEN [Shown(page, m.version, m.events) EXCEPT
                  !.busy = FALSE, !.told = "saved", !.kept = FALSE]
           ELSE [page EXCEPT !.busy = FALSE, !.told = "refused"]]
      /\ UNCHANGED <<record, flying>>

\* The connection breaks: the page reports a failure, and the answer has
\* nowhere to go.  The request may still arrive; a lost one never does.
Fail(p) ==
  /\ pages[p].busy
  /\ pages' = [pages EXCEPT ![p].busy = FALSE, ![p].told = "failed"]
  /\ answers' = {m \in answers : m.page # p}
  /\ UNCHANGED <<record, flying>>

Reload(p) ==
  /\ ~pages[p].busy
  /\ pages' = [pages EXCEPT ![p] =
       [Shown(@, record.version, Len(record.events)) EXCEPT !.told = "nothing"]]
  /\ UNCHANGED <<record, flying, answers>>

-----------------------------------------------------------------------------
(* The application *)

\* The effective statements, those that no correction replaces, of what is
\* loaded or received.  A correction states what its target states.
Kind(events, i) == events[i].statement.kind

Corrected(events) ==
  {events[j].statement.corrects : j \in {i \in DOMAIN events : Kind(events, i) = "correction"}}

Origin(events) ==
  LET origin[i \in 0..Len(events)] ==
        IF i = 0 THEN "none"
        ELSE IF Kind(events, i) # "correction" THEN Kind(events, i)
        ELSE origin[events[i].statement.corrects]
  IN  origin

\* The quantity stated: the number of <<i, n>>, the n-th unit of statement i.
Stated(events, kind) ==
  Cardinality({u \in (DOMAIN events) \X (1..Ordered) :
    /\ u[1] \notin Corrected(events)
    /\ Origin(events)[u[1]] = kind
    /\ u[2] <= events[u[1]].statement.quantity})

Received(events) == Stated(events, "receipt")
Loaded(events) == Stated(events, "load")

\* A request id that is recorded already.
Recorded(s) ==
  {i \in DOMAIN record.events :
     record.events[i].statement.id = s.id /\ record.events[i].statement.page = s.page}

\* The leg is completed when all is received; a correction may reopen it.
Allowed(s) ==
  /\ s.kind = "correction" \/ Received(record.events) # Ordered
  /\ s.kind = "correction" =>
       s.corrects \in DOMAIN record.events \ Corrected(record.events)

Fits(events) ==
  /\ \A i \in DOMAIN events : events[i].statement.quantity <= Ordered
  /\ Loaded(events) <= Ordered
  /\ Received(events) <= Loaded(events)

\* Mutant: only a version that does not exist yet is refused.
check_version_older(m) == m.version <= record.version

check_version(m) == record.version = m.version

\* Mutant: the version is checked before the request id is looked up.
Retry_late(m) == check_version(m) /\ Recorded(m.statement) # {}

\* The request was carried out before, whatever has happened since.
Retry(m) == Recorded(m.statement) # {}

\* A request ends in one of three ways: refused, answered from the record, or
\* recorded.
Refuse(m) ==
  \/ m.statement.kind = "correction" /\ record.onward
  \/ Retry(m) /\ \E i \in Recorded(m.statement) : record.events[i].statement # m.statement
  \/ ~Retry(m) /\
       \/ ~check_version(m)
       \/ ~Allowed(m.statement)
       \/ ~Fits(Append(record.events, [statement |-> m.statement, informed |-> m.informed]))

Answer(m, saved) ==
  answers' = answers \cup
    {[page |-> m.statement.page, number |-> m.number, saved |-> saved,
      version |-> record'.version, events |-> Len(record'.events)] :
       p \in {q \in {m.statement.page} : pages[q].busy /\ pages[q].number = m.number}}

Serve(m) ==
  /\ flying' = flying \ {m}
  /\ UNCHANGED pages
  /\ \/ Refuse(m) /\ UNCHANGED record /\ Answer(m, FALSE)
     \/ ~Refuse(m) /\ Retry(m) /\ UNCHANGED record /\ Answer(m, TRUE)
     \/ /\ ~Refuse(m) /\ ~Retry(m)
        /\ record.version < MaxVersion
        /\ record' = [record EXCEPT
             !.version = @ + 1,
             !.events = Append(@, [statement |-> m.statement, informed |-> m.informed])]
        /\ Answer(m, TRUE)

\* Another request of the delivery is accepted: a document is issued, a file
\* uploaded, or the next leg started.
Elsewhere(onward) ==
  /\ record.version < MaxVersion
  /\ record' = [record EXCEPT !.version = @ + 1, !.onward = @ \/ onward]
  /\ UNCHANGED <<pages, flying, answers>>

\* The pages open before anything is loaded.
RequestsInit ==
  /\ record = [version |-> 1, events |-> <<>>, onward |-> FALSE]
  /\ pages = [p \in Pages |-> [version |-> 1, events |-> 0, sent |-> NoStatement,
                               kept |-> FALSE, number |-> 0, busy |-> FALSE, told |-> "nothing"]]
  /\ flying = {} /\ answers = {}

RequestsNext ==
  \/ \E p \in Pages :
       \/ \E note \in Notes : pages[p].kept /\ Submit(p, Retried(p, note))
       \/ \E k \in Kinds, n \in Typed, note \in Notes : Submit(p, Fresh(p, k, n, note))
       \/ Fail(p)
       \/ Reload(p)
  \/ \E m \in answers : Receive(m)
  \/ \E m \in flying : Serve(m)
  \/ \E onward \in BOOLEAN : Elsewhere(onward)

RequestsSpec == RequestsInit /\ [][RequestsNext]_requestsVars

-----------------------------------------------------------------------------
\* "A retried request cannot accidentally add a second identical receipt"
\* (docs/deliveries.md:55), and no other statement either: whatever is lost,
\* delayed, retried or typed again, a statement is recorded only on top of the
\* very evidence its page showed, so that none is recorded twice.
RecordedOnce ==
  \A i \in DOMAIN record.events : record.events[i].informed = i - 1

\* What a page is told about the statement it sent last is true, whatever
\* became of earlier tries: when it is saved, the record holds it; when a load
\* or a receipt is refused, the record does not hold it and never will.
AnswersAreTrue ==
  \A p \in Pages :
    LET s == pages[p].sent
        recorded == \E i \in DOMAIN record.events : record.events[i].statement = s
    IN  /\ pages[p].told = "saved" => recorded
        /\ pages[p].told = "refused" /\ s.kind # "correction" => ~recorded
=============================================================================

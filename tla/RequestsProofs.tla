--------------------------- MODULE RequestsProofs ---------------------------
(***************************************************************************)
(* Proofs about DeliveryRequests, for any pages, quantities and number of  *)
(* requests, over a network that loses, delays and reorders.               *)
(*                                                                         *)
(* RecordedOnce rests on what a version stands for: whatever page, request *)
(* or answer holds the current version also holds the current number of    *)
(* events, so that the check of the version is a check of the evidence.    *)
(*                                                                         *)
(* AnswersAreTrue is about every try of a statement, also those still on   *)
(* their way: a statement that was refused stays refused (Dead), because   *)
(* tries alike are refused alike and later versions refuse what was sent   *)
(* before.                                                                 *)
(***************************************************************************)
EXTENDS DeliveryRequests, SequenceTheorems, TLAPS

\* A version that is current comes with the evidence that is current.
Current(version, events) ==
  /\ version \in Nat /\ events \in Nat /\ version <= record.version
  /\ version = record.version => events = Len(record.events)

RecordOK ==
  /\ record \in [version : Nat, events : Seq([statement : Statement, informed : Nat]), onward : BOOLEAN]
  /\ \A i \in DOMAIN record.events : record.events[i].informed = i - 1

PagesOK ==
  /\ pages \in [Pages -> TypedPage]
  /\ \A p \in Pages : /\ Current(pages[p].version, pages[p].events)
                      /\ pages[p].kept => pages[p].sent \in Statement

FlyingOK ==
  \A m \in flying :
    /\ m \in [number : Nat, version : Nat, informed : Nat, statement : Statement]
    /\ Current(m.version, m.informed)

AnswersOK ==
  \A m \in answers :
    /\ m \in [page : Pages, number : Nat, saved : BOOLEAN, version : Nat, events : Nat]
    /\ Current(m.version, m.events)

RequestsInv == RecordOK /\ PagesOK /\ FlyingOK /\ AnswersOK

-----------------------------------------------------------------------------
(* The page *)

LEMMA Statements ==
  ASSUME RequestsInv, NEW p \in Pages, NEW note \in Notes
  PROVE  /\ pages[p].kept => Retried(p, note) \in Statement
         /\ \A k \in Kinds, n \in Typed : Fresh(p, k, n, note) \in Statement
  <1>1. pages[p].number \in Nat /\ pages[p].events \in Nat /\ Typed \subseteq Nat
    BY RequestsAssumption DEF RequestsInv, PagesOK, TypedPage
  <1>2. pages[p].kept => Retried(p, note) \in Statement
    BY DEF RequestsInv, PagesOK, Retried, Statement
  <1>3. \A k \in Kinds, n \in Typed : Fresh(p, k, n, note) \in Statement
    BY <1>1 DEF Fresh, Statement
  <1>4. QED
    BY <1>2, <1>3

LEMMA Submitted ==
  ASSUME RequestsInv, NEW p \in Pages, NEW s \in Statement, Submit(p, s)
  PROVE  RequestsInv'
  <1> DEFINE page == pages[p]
             request == [number |-> page.number + 1, version |-> page.version,
                         informed |-> page.events, statement |-> s]
  <1>1. page \in TypedPage /\ Current(page.version, page.events)
    BY DEF RequestsInv, PagesOK
  <1>2. UNCHANGED <<record, answers>> /\ flying' = flying \cup {request}
    BY DEF Submit
  <1>3. pages' = [pages EXCEPT ![p].busy = TRUE, ![p].told = "nothing", ![p].sent = s,
                               ![p].kept = TRUE, ![p].number = @ + 1]
    BY DEF Submit
  <1>4. PagesOK'
    <2>1. pages' \in [Pages -> TypedPage]
      BY <1>1, <1>3 DEF RequestsInv, PagesOK, TypedPage
    <2>2. pages'[p].version = page.version /\ pages'[p].events = page.events /\ pages'[p].sent = s
      BY <1>1, <1>3 DEF RequestsInv, PagesOK, TypedPage
    <2>3. \A q \in Pages \ {p} : pages'[q] = pages[q]
      BY <1>3 DEF RequestsInv, PagesOK
    <2>4. QED
      BY <1>1, <1>2, <2>1, <2>2, <2>3 DEF RequestsInv, PagesOK, Current
  <1>5. request \in [number : Nat, version : Nat, informed : Nat, statement : Statement]
        /\ Current(request.version, request.informed)
    BY <1>1 DEF TypedPage
  <1>6. FlyingOK'
    BY <1>2, <1>5 DEF RequestsInv, FlyingOK, Current
  <1>7. QED
    BY <1>2, <1>4, <1>6 DEF RequestsInv, RecordOK, AnswersOK, Current

\* What a page shows after an answer, a failure or a reload.
LEMMA Showed ==
  ASSUME RequestsInv, NEW p \in Pages, NEW page \in TypedPage,
         pages' = [pages EXCEPT ![p] = page],
         Current(page.version, page.events), page.kept => page.sent \in Statement,
         UNCHANGED <<record, flying>>, answers' \subseteq answers
  PROVE  RequestsInv'
  <1>1. PagesOK'
    BY DEF RequestsInv, PagesOK, Current
  <1>2. QED
    BY <1>1 DEF RequestsInv, RecordOK, FlyingOK, AnswersOK, Current

LEMMA AnswerReceived ==
  ASSUME RequestsInv, NEW m \in answers, Receive(m)
  PROVE  RequestsInv'
  <1> DEFINE page == pages[m.page]
             shown == Shown(page, m.version, m.events)
             new == IF m.saved THEN [shown EXCEPT !.busy = FALSE, !.told = "saved", !.kept = FALSE]
                    ELSE [page EXCEPT !.busy = FALSE, !.told = "refused"]
  <1>1. m.page \in Pages /\ Current(m.version, m.events) /\ m.version \in Nat /\ m.events \in Nat
    BY DEF RequestsInv, AnswersOK
  <1>2. page \in TypedPage /\ Current(page.version, page.events)
        /\ (page.kept => page.sent \in Statement)
    BY <1>1 DEF RequestsInv, PagesOK
  <1>3. shown \in TypedPage /\ Current(shown.version, shown.events)
    BY <1>1, <1>2 DEF Shown, TypedPage
  <1>4. new \in TypedPage /\ Current(new.version, new.events) /\ (new.kept => new.sent \in Statement)
    BY <1>2, <1>3 DEF TypedPage
  <1>5. QED
    BY <1>1, <1>4, Showed DEF Receive

LEMMA Failed ==
  ASSUME RequestsInv, NEW p \in Pages, Fail(p)
  PROVE  RequestsInv'
  <1> DEFINE page == [pages[p] EXCEPT !.busy = FALSE, !.told = "failed"]
  <1>1. page \in TypedPage /\ Current(page.version, page.events)
        /\ (page.kept => page.sent \in Statement)
    BY DEF RequestsInv, PagesOK, TypedPage
  <1>2. pages' = [pages EXCEPT ![p] = page]
    BY DEF Fail, RequestsInv, PagesOK
  <1>3. QED
    BY <1>1, <1>2, Showed DEF Fail

LEMMA Reloaded ==
  ASSUME RequestsInv, NEW p \in Pages, Reload(p)
  PROVE  RequestsInv'
  <1> DEFINE shown == Shown(pages[p], record.version, Len(record.events))
             page == [shown EXCEPT !.told = "nothing"]
  <1>1. record.version \in Nat /\ Len(record.events) \in Nat
    BY LenProperties DEF RequestsInv, RecordOK
  <1>2. Current(record.version, Len(record.events))
    BY <1>1 DEF Current
  <1>3. shown \in TypedPage /\ Current(shown.version, shown.events)
        /\ (shown.kept => shown.sent \in Statement)
    BY <1>1, <1>2 DEF Shown, RequestsInv, PagesOK, TypedPage
  <1>4. page \in TypedPage /\ Current(page.version, page.events)
        /\ (page.kept => page.sent \in Statement)
    BY <1>3 DEF TypedPage
  <1>5. QED
    BY <1>4, Showed DEF Reload

-----------------------------------------------------------------------------
(* The application *)

\* A new version leaves everything that pages, requests and answers hold behind.
LEMMA Behind ==
  ASSUME RequestsInv, record'.version = record.version + 1, record' \in [version : Nat, events :
           Seq([statement : Statement, informed : Nat]), onward : BOOLEAN]
  PROVE  \A v, e : Current(v, e) => Current(v, e)'
  BY DEF RequestsInv, RecordOK, Current

LEMMA Answered ==
  ASSUME NEW m, RequestsInv, m \in [number : Nat, version : Nat, informed : Nat, statement : Statement],
         RecordOK', UNCHANGED pages, flying' \subseteq flying,
         \A v, e : Current(v, e) => Current(v, e)',
         NEW saved \in BOOLEAN, Answer(m, saved)
  PROVE  RequestsInv'
  <1> DEFINE answer == [page |-> m.statement.page, number |-> m.number, saved |-> saved,
                        version |-> record'.version, events |-> Len(record'.events)]
  <1>1. record'.version \in Nat /\ Len(record'.events) \in Nat
    BY LenProperties DEF RecordOK
  <1>2. \A v, e : v = record'.version /\ e = Len(record'.events) => Current(v, e)'
    BY <1>1 DEF Current
  <1>3. answer \in [page : Pages, number : Nat, saved : BOOLEAN, version : Nat, events : Nat]
    BY <1>1 DEF Statement
  <1>4. answers' \subseteq answers \cup {answer}
    BY DEF Answer
  <1>5. AnswersOK'
    <2>1. ASSUME NEW a \in answers'
          PROVE  /\ a \in [page : Pages, number : Nat, saved : BOOLEAN, version : Nat, events : Nat]
                 /\ Current(a.version, a.events)'
      <3>1. CASE a \in answers
        BY <3>1 DEF RequestsInv, AnswersOK
      <3>2. CASE a = answer
        BY <1>2, <1>3, <3>2
      <3>3. QED
        BY <1>4, <2>1, <3>1, <3>2
    <2>2. QED
      BY <2>1 DEF AnswersOK
  <1>6. PagesOK' /\ FlyingOK'
    BY DEF RequestsInv, PagesOK, FlyingOK
  <1>7. QED
    BY <1>5, <1>6 DEF RequestsInv

\* The step that matters: what is recorded was sent from the current version.
LEMMA Appended ==
  ASSUME RequestsInv, NEW m \in flying, ~Refuse(m), ~Retry(m),
         record' = [record EXCEPT
             !.version = @ + 1,
             !.events = Append(@, [statement |-> m.statement, informed |-> m.informed])]
  PROVE  RecordOK' /\ \A v, e : Current(v, e) => Current(v, e)'
  <1> DEFINE event == [statement |-> m.statement, informed |-> m.informed]
             n == Len(record.events)
             Event == [statement : Statement, informed : Nat]
  <1>1. m.informed = n
    BY DEF Refuse, check_version, RequestsInv, FlyingOK, Current
  <1>2. record.events \in Seq(Event) /\ event \in Event /\ n \in Nat
    BY LenProperties DEF RequestsInv, RecordOK, FlyingOK
  <1>3. /\ record'.events = Append(record.events, event)
        /\ record'.version = record.version + 1 /\ record'.onward = record.onward
    BY DEF RequestsInv, RecordOK
  <1>4. /\ record'.events \in Seq(Event) /\ DOMAIN record'.events = 1..(n + 1)
        /\ \A i \in 1..n : record'.events[i] = record.events[i]
        /\ record'.events[n + 1] = event
    BY <1>2, <1>3, AppendProperties, LenProperties
  <1>5. record' \in [version : Nat, events : Seq(Event), onward : BOOLEAN]
    <2>1. Append(record.events, event) \in Seq(Event)
      BY <1>3, <1>4
    <2>2. record \in [version : Nat, events : Seq(Event), onward : BOOLEAN]
      BY DEF RequestsInv, RecordOK
    <2>3. record' = [[record EXCEPT !.version = @ + 1] EXCEPT !.events = Append(record.events, event)]
      BY <2>2
    <2>4. [record EXCEPT !.version = @ + 1] \in [version : Nat, events : Seq(Event), onward : BOOLEAN]
      BY <2>2
    <2>5. QED
      BY <2>1, <2>3, <2>4
  <1>6. ASSUME NEW i \in DOMAIN record'.events
        PROVE  record'.events[i].informed = i - 1
    <2>1. CASE i \in 1..n
      BY <1>2, <1>4, <2>1, LenProperties DEF RequestsInv, RecordOK
    <2>2. CASE i = n + 1
      BY <1>1, <1>2, <1>4, <2>2
    <2>3. QED
      BY <1>2, <1>4, <1>6, <2>1, <2>2
  <1>7. QED
    BY <1>3, <1>5, <1>6, Behind DEF RecordOK

LEMMA Served ==
  ASSUME RequestsInv, NEW m \in flying, Serve(m)
  PROVE  RequestsInv'
  <1>1. /\ m \in [number : Nat, version : Nat, informed : Nat, statement : Statement]
        /\ UNCHANGED pages /\ flying' \subseteq flying
    BY DEF Serve, RequestsInv, FlyingOK
  <1>2. ASSUME NEW saved \in BOOLEAN, UNCHANGED record, Answer(m, saved)
        PROVE  RequestsInv'
    <2>1. RecordOK' /\ \A v, e : Current(v, e) => Current(v, e)'
      BY <1>2 DEF RequestsInv, RecordOK, Current
    <2>2. QED
      BY <1>1, <1>2, <2>1, Answered
  <1>3. CASE /\ ~Refuse(m) /\ ~Retry(m) /\ Answer(m, TRUE)
             /\ record' = [record EXCEPT
                  !.version = @ + 1,
                  !.events = Append(@, [statement |-> m.statement, informed |-> m.informed])]
    <2>1. RecordOK' /\ \A v, e : Current(v, e) => Current(v, e)'
      BY <1>3, Appended
    <2>2. QED
      BY <1>1, <1>3, <2>1, Answered
  <1>4. QED
    BY <1>2, <1>3 DEF Serve

LEMMA ElsewhereAccepted ==
  ASSUME RequestsInv, NEW onward \in BOOLEAN, Elsewhere(onward)
  PROVE  RequestsInv'
  <1>1. /\ record'.version = record.version + 1 /\ record'.events = record.events
        /\ record' \in [version : Nat, events : Seq([statement : Statement, informed : Nat]),
                        onward : BOOLEAN]
    <2>1. record \in [version : Nat, events : Seq([statement : Statement, informed : Nat]),
                      onward : BOOLEAN]
      BY DEF RequestsInv, RecordOK
    <2>2. record' = [record EXCEPT !.version = @ + 1, !.onward = @ \/ onward]
      BY DEF Elsewhere
    <2>3. (record.onward \/ onward) \in BOOLEAN /\ record.version + 1 \in Nat
      BY <2>1
    <2>4. QED
      BY <2>1, <2>2, <2>3
  <1>2. \A v, e : Current(v, e) => Current(v, e)'
    BY <1>1, Behind
  <1>3. QED
    BY <1>1, <1>2 DEF Elsewhere, RequestsInv, RecordOK, PagesOK, FlyingOK, AnswersOK

-----------------------------------------------------------------------------
\* The inductive invariant.
THEOREM RequestsInvariance == RequestsSpec => []RequestsInv
  <1>1. RequestsInit => RequestsInv
    <2> SUFFICES ASSUME RequestsInit PROVE RequestsInv
      OBVIOUS
    <2>1. record.version = 1 /\ record.events = <<>> /\ Len(record.events) = 0
      BY DEF RequestsInit
    <2>2. RecordOK
      BY <2>1 DEF RequestsInit, RecordOK
    <2>3. PagesOK
      BY <2>1 DEF RequestsInit, PagesOK, TypedPage, Current
    <2>4. QED
      BY <2>2, <2>3 DEF RequestsInit, RequestsInv, FlyingOK, AnswersOK
  <1>2. RequestsInv /\ [RequestsNext]_requestsVars => RequestsInv'
    <2> SUFFICES ASSUME RequestsInv, [RequestsNext]_requestsVars
                 PROVE  RequestsInv'
      OBVIOUS
    <2>1. CASE UNCHANGED requestsVars
      BY <2>1 DEF requestsVars, RequestsInv, RecordOK, PagesOK, FlyingOK, AnswersOK, Current
    <2>2. ASSUME NEW p \in Pages, NEW note \in Notes, pages[p].kept, Submit(p, Retried(p, note))
          PROVE  RequestsInv'
      BY <2>2, Statements, Submitted
    <2>3. ASSUME NEW p \in Pages, NEW k \in Kinds, NEW n \in Typed, NEW note \in Notes,
                 Submit(p, Fresh(p, k, n, note))
          PROVE  RequestsInv'
      BY <2>3, Statements, Submitted
    <2>4. QED
      BY <2>1, <2>2, <2>3, AnswerReceived, Failed, Reloaded, Served, ElsewhereAccepted DEF RequestsNext
  <1>3. QED
    BY <1>1, <1>2, PTL DEF RequestsSpec

\* Whatever is lost, delayed, retried or typed again, a statement is recorded
\* only on top of the evidence that its page showed (event, check_version and
\* the request ids).
THEOREM NothingRecordedTwice == RequestsSpec => []RecordedOnce
  <1>1. RequestsInv => RecordedOnce
    BY DEF RequestsInv, RecordOK, RecordedOnce
  <1>2. QED
    BY <1>1, RequestsInvariance, PTL

-----------------------------------------------------------------------------
(* What a page is told is true: the invariant *)

Holds(s) == \E i \in DOMAIN record.events : record.events[i].statement = s

\* The record does not hold s, and no request for it that is still on its way
\* will be carried out.
Dead(s) == ~Holds(s) /\ \A m \in flying : m.statement = s => Refuse(m)

\* A page and a request id are recorded once.
OncePerId ==
  \A i, j \in DOMAIN record.events :
    LET s == record.events[i].statement
        t == record.events[j].statement
    IN  s.page = t.page /\ s.id = t.id => i = j

\* The requests of a page have numbers of their own, and none shows more than
\* the page; the last one is what the page has sent, from what it shows.
Numbered ==
  /\ \A m \in flying :
       LET page == pages[m.statement.page]
       IN  /\ m.number <= page.number /\ m.version <= page.version
           /\ m.number = page.number => m.statement = page.sent
           /\ m.number = page.number /\ page.busy => m.version = page.version
  /\ \A p \in Pages : pages[p].sent \in Statement => pages[p].sent.page = p
  /\ \A m, n \in flying : m.statement.page = n.statement.page /\ m.number = n.number => m = n

\* Answer a is the one its page waits for, and true.
AwaitedTrue(a) ==
  LET page == pages[a.page]
  IN  /\ page.busy /\ a.number = page.number /\ a.version >= page.version
      /\ \A m \in flying : m.statement.page = a.page => m.number # a.number
      /\ a.saved => Holds(page.sent)
      /\ ~a.saved /\ page.sent.kind # "correction" => Dead(page.sent)

Awaited ==
  /\ \A a \in answers : AwaitedTrue(a)
  /\ \A a, b \in answers : a.page = b.page => a = b

ToldTrue ==
  \A p \in Pages :
    LET s == pages[p].sent
    IN  /\ pages[p].told = "saved" => Holds(s)
        /\ pages[p].told = "refused" /\ s.kind # "correction" => Dead(s)

AnswersInv == OncePerId /\ Numbered /\ Awaited /\ ToldTrue

-----------------------------------------------------------------------------
(* A statement that is refused stays refused *)

\* Another try of a statement that is refused, not later than this one, is too.
LEMMA RefusedAlike ==
  ASSUME RequestsInv, NEW m \in flying, NEW n \in flying, m.statement = n.statement,
         n.version <= m.version, Refuse(m)
  PROVE  Refuse(n)
  <1>1. /\ m.version \in Nat /\ n.version \in Nat /\ m.version <= record.version
        /\ record.version \in Nat
        /\ m.version = record.version => m.informed = Len(record.events)
        /\ n.version = record.version => n.informed = Len(record.events)
    BY DEF RequestsInv, FlyingOK, RecordOK, Current
  <1>2. CASE check_version(n)
    <2>1. check_version(m) /\ m.informed = n.informed
      BY <1>1, <1>2 DEF check_version
    <2>2. QED
      BY <1>2, <2>1 DEF Refuse, Retry
  <1>3. CASE ~check_version(n)
    BY <1>3 DEF Refuse, Retry
  <1>4. QED
    BY <1>2, <1>3

\* A new version refuses whatever was sent before it.
LEMMA DeadStays ==
  ASSUME RequestsInv, RecordOK', NEW s, Dead(s), flying' \subseteq flying, ~Holds(s)',
         record'.version = record.version + 1
  PROVE  Dead(s)'
  <1>1. ASSUME NEW n \in flying', n.statement = s
        PROVE  Refuse(n)'
    <2>1. ~check_version(n)'
      BY DEF check_version, RequestsInv, FlyingOK, RecordOK, Current
    <2>2. CASE ~Retry(n)'
      BY <2>1, <2>2 DEF Refuse
    <2>3. CASE Retry(n)'
      <3>1. \E i \in Recorded(n.statement)' : record'.events[i].statement # n.statement
        BY <1>1, <2>3 DEF Retry, Recorded, Holds
      <3>2. QED
        BY <2>3, <3>1 DEF Refuse
    <2>4. QED
      BY <2>2, <2>3
  <1>2. QED
    BY <1>1 DEF Dead

LEMMA DeadSame ==
  ASSUME NEW s, Dead(s), UNCHANGED record, \A m \in flying' : m.statement = s => m \in flying
  PROVE  Dead(s)'
  <1>1. Holds(s)' <=> Holds(s)
    BY DEF Holds
  <1>2. \A m : Refuse(m)' <=> Refuse(m)
    BY DEF Refuse, Retry, Recorded, check_version, Allowed
  <1>3. QED
    BY <1>1, <1>2 DEF Dead

-----------------------------------------------------------------------------
(* The steps of a page *)

\* A page that has its answer, gave it up or is loaded again.
LEMMA PageTurns ==
  ASSUME RequestsInv, AnswersInv, NEW p \in Pages, NEW page \in TypedPage,
         pages' = [pages EXCEPT ![p] = page], UNCHANGED <<record, flying>>,
         page.number = pages[p].number, page.sent = pages[p].sent, ~page.busy,
         page.version >= pages[p].version,
         answers' = {a \in answers : a.page # p},
         page.told = "saved" => Holds(page.sent),
         page.told = "refused" /\ page.sent.kind # "correction" => Dead(page.sent)
  PROVE  AnswersInv'
  <1>1. /\ pages'[p] = page /\ \A q \in Pages : q # p => pages'[q] = pages[q]
        /\ pages \in [Pages -> TypedPage]
    BY DEF RequestsInv, PagesOK
  <1>2. /\ \A s : Holds(s) => Holds(s)'
        /\ \A s : Dead(s) => Dead(s)'
    BY DeadSame DEF Holds
  <1>3. OncePerId'
    BY DEF AnswersInv, OncePerId
  <1>4. Numbered'
    <2>1. ASSUME NEW m \in flying
          PROVE  LET now == pages'[m.statement.page]
                 IN  /\ m.number <= now.number /\ m.version <= now.version
                     /\ m.number = now.number => m.statement = now.sent
                     /\ m.number = now.number /\ now.busy => m.version = now.version
      <3>1. /\ m.statement.page \in Pages /\ m.version \in Nat
            /\ pages[p].version \in Nat /\ page.version \in Nat
        BY <1>1 DEF RequestsInv, FlyingOK, Statement, TypedPage
      <3>2. QED
        BY <1>1, <3>1 DEF AnswersInv, Numbered
    <2>2. \A q \in Pages : pages'[q].sent = pages[q].sent
      BY <1>1
    <2>3. QED
      BY <2>1, <2>2 DEF AnswersInv, Numbered
  <1>5. Awaited'
    <2>1. \A a \in answers' : a \in answers /\ a.page \in Pages /\ pages'[a.page] = pages[a.page]
      BY <1>1 DEF RequestsInv, AnswersOK
    <2>2. QED
      BY <1>2, <2>1 DEF AnswersInv, Awaited, AwaitedTrue
  <1>6. ToldTrue'
    BY <1>1, <1>2 DEF AnswersInv, ToldTrue
  <1>7. QED
    BY <1>3, <1>4, <1>5, <1>6 DEF AnswersInv

LEMMA ReceiveTrue ==
  ASSUME RequestsInv, AnswersInv, NEW m \in answers, Receive(m)
  PROVE  AnswersInv'
  <1> DEFINE p == m.page
             page == pages[p]
             new == IF m.saved
                    THEN [Shown(page, m.version, m.events) EXCEPT
                            !.busy = FALSE, !.told = "saved", !.kept = FALSE]
                    ELSE [page EXCEPT !.busy = FALSE, !.told = "refused"]
  <1>1. /\ p \in Pages /\ m.version \in Nat /\ m.events \in Nat /\ m.version >= page.version
        /\ m.saved => Holds(page.sent)
        /\ ~m.saved /\ page.sent.kind # "correction" => Dead(page.sent)
        /\ \A a \in answers : a.page = p => a = m
    BY DEF RequestsInv, AnswersOK, AnswersInv, Awaited, AwaitedTrue
  <1>2. page \in TypedPage
    BY <1>1 DEF RequestsInv, PagesOK
  <1>3. /\ new \in TypedPage /\ new.number = page.number /\ new.sent = page.sent /\ ~new.busy
        /\ new.version >= page.version
        /\ new.told = IF m.saved THEN "saved" ELSE "refused"
    <2> DEFINE shown == Shown(page, m.version, m.events)
    <2>1. /\ shown \in TypedPage /\ shown.number = page.number /\ shown.sent = page.sent
          /\ shown.version >= page.version
      BY <1>1, <1>2 DEF Shown, TypedPage
    <2>2. new = IF m.saved
                THEN [shown EXCEPT !.busy = FALSE, !.told = "saved", !.kept = FALSE]
                ELSE [page EXCEPT !.busy = FALSE, !.told = "refused"]
      OBVIOUS
    <2> HIDE DEF shown, new
    <2>3. CASE m.saved
      <3>1. new = [shown EXCEPT !.busy = FALSE, !.told = "saved", !.kept = FALSE]
        BY <2>2, <2>3
      <3>2. new \in TypedPage
        BY <2>1, <3>1 DEF TypedPage
      <3>3. ~new.busy
        BY <2>1, <3>1 DEF TypedPage
      <3>4. /\ new.number = shown.number /\ new.sent = shown.sent
            /\ new.version = shown.version /\ new.told = "saved"
        BY <2>1, <3>1 DEF TypedPage
      <3>5. QED
        BY <2>1, <2>3, <3>2, <3>3, <3>4
    <2>4. CASE ~m.saved
      <3>1. new = [page EXCEPT !.busy = FALSE, !.told = "refused"]
        BY <2>2, <2>4
      <3>2. new \in TypedPage
        BY <1>2, <3>1 DEF TypedPage
      <3>3. ~new.busy
        BY <1>2, <3>1 DEF TypedPage
      <3>4. /\ new.number = page.number /\ new.sent = page.sent
            /\ new.version = page.version /\ new.told = "refused"
        BY <1>2, <3>1 DEF TypedPage
      <3>5. page.version \in Nat
        BY <1>2 DEF TypedPage
      <3>6. QED
        BY <2>4, <3>2, <3>3, <3>4, <3>5
    <2>5. QED
      BY <2>3, <2>4
  <1>4. answers' = {a \in answers : a.page # p}
    BY <1>1 DEF Receive
  <1>5. pages' = [pages EXCEPT ![p] = new] /\ UNCHANGED <<record, flying>>
    BY DEF Receive
  <1> HIDE DEF new
  <1>6. QED
    BY <1>1, <1>3, <1>4, <1>5, PageTurns

LEMMA FailTrue ==
  ASSUME RequestsInv, AnswersInv, NEW p \in Pages, Fail(p)
  PROVE  AnswersInv'
  <1> DEFINE page == [pages[p] EXCEPT !.busy = FALSE, !.told = "failed"]
  <1>1. /\ page \in TypedPage /\ page.number = pages[p].number /\ page.sent = pages[p].sent
        /\ ~page.busy /\ page.version >= pages[p].version /\ page.told = "failed"
    <2>1. pages[p] \in TypedPage
      BY DEF RequestsInv, PagesOK
    <2>2. page \in TypedPage
      BY <2>1 DEF TypedPage
    <2>3. ~page.busy
      BY <2>1 DEF TypedPage
    <2>4. /\ page.number = pages[p].number /\ page.sent = pages[p].sent
          /\ page.version = pages[p].version /\ page.told = "failed"
      BY <2>1 DEF TypedPage
    <2>5. pages[p].version \in Nat
      BY <2>1 DEF TypedPage
    <2>6. QED
      BY <2>2, <2>3, <2>4, <2>5
  <1>2. pages' = [pages EXCEPT ![p] = page] /\ UNCHANGED <<record, flying>>
        /\ answers' = {a \in answers : a.page # p}
    BY DEF Fail, RequestsInv, PagesOK
  <1> HIDE DEF page
  <1>3. QED
    BY <1>1, <1>2, PageTurns

LEMMA ReloadTrue ==
  ASSUME RequestsInv, AnswersInv, NEW p \in Pages, Reload(p)
  PROVE  AnswersInv'
  <1> DEFINE page == [Shown(pages[p], record.version, Len(record.events)) EXCEPT !.told = "nothing"]
  <1>1. record.version \in Nat /\ Len(record.events) \in Nat /\ pages[p] \in TypedPage
        /\ record.version >= pages[p].version /\ ~pages[p].busy
    BY LenProperties DEF RequestsInv, RecordOK, PagesOK, Current, Reload
  <1>2. /\ page \in TypedPage /\ page.number = pages[p].number /\ page.sent = pages[p].sent
        /\ ~page.busy /\ page.version >= pages[p].version /\ page.told = "nothing"
    BY <1>1 DEF Shown, TypedPage
  <1>3. pages' = [pages EXCEPT ![p] = page] /\ UNCHANGED <<record, flying, answers>>
    BY DEF Reload
  <1>4. answers' = {a \in answers : a.page # p}
    BY <1>1, <1>3 DEF AnswersInv, Awaited, AwaitedTrue
  <1> HIDE DEF page
  <1>5. QED
    BY <1>2, <1>3, <1>4, PageTurns

\* What is sent is the page's own.
LEMMA SubmitTrue ==
  ASSUME RequestsInv, AnswersInv, NEW p \in Pages, NEW s \in Statement, s.page = p, Submit(p, s)
  PROVE  AnswersInv'
  <1> DEFINE page == pages[p]
             request == [number |-> page.number + 1, version |-> page.version,
                         informed |-> page.events, statement |-> s]
  <1>1. /\ ~page.busy /\ page \in TypedPage /\ UNCHANGED <<record, answers>>
        /\ flying' = flying \cup {request}
    BY DEF Submit, RequestsInv, PagesOK
  <1>2. /\ pages'[p].number = page.number + 1 /\ pages'[p].version = page.version
        /\ pages'[p].sent = s /\ pages'[p].told = "nothing"
        /\ \A q \in Pages : q # p => pages'[q] = pages[q]
    BY <1>1 DEF Submit, RequestsInv, PagesOK, TypedPage
  <1>3. page.number \in Nat /\ page.version \in Nat
    BY <1>1 DEF TypedPage
  <1>4. \A t : Holds(t) => Holds(t)'
    BY <1>1 DEF Holds
  <1>5. \A t : t # s /\ Dead(t) => Dead(t)'
    BY <1>1, DeadSame
  <1>6. ASSUME NEW q \in Pages, q # p
        PROVE  pages[q].sent # s
    BY <1>6 DEF AnswersInv, Numbered
  <1>7. \A a \in answers : a.page \in Pages /\ a.page # p
    BY <1>1 DEF RequestsInv, AnswersOK, AnswersInv, Awaited, AwaitedTrue
  <1>8. \A m \in flying : m.statement.page \in Pages /\ m.number \in Nat
    BY DEF RequestsInv, FlyingOK, Statement
  <1>9. OncePerId'
    BY <1>1 DEF AnswersInv, OncePerId
  <1>10. Numbered'
    <2>1. ASSUME NEW m \in flying'
          PROVE  LET now == pages'[m.statement.page]
                 IN  /\ m.number <= now.number /\ m.version <= now.version
                     /\ m.number = now.number => m.statement = now.sent
                     /\ m.number = now.number /\ now.busy => m.version = now.version
      <3>1. CASE m = request
        BY <1>2, <1>3, <3>1
      <3>2. CASE m \in flying /\ m.statement.page = p
        <4>1. m.number <= page.number /\ m.version <= page.version /\ m.number \in Nat
          BY <1>8, <3>2 DEF AnswersInv, Numbered
        <4>2. QED
          BY <1>2, <1>3, <3>2, <4>1
      <3>3. CASE m \in flying /\ m.statement.page # p
        BY <1>2, <1>8, <3>3 DEF AnswersInv, Numbered
      <3>4. QED
        BY <1>1, <3>1, <3>2, <3>3
    <2>2. ASSUME NEW m \in flying', NEW n \in flying',
                 m.statement.page = n.statement.page, m.number = n.number
          PROVE  m = n
      <3>1. \A k \in flying : k.statement.page = p => k.number # request.number
        BY <1>3, <1>8 DEF AnswersInv, Numbered
      <3>2. request.statement.page = p
        OBVIOUS
      <3> HIDE DEF request
      <3>3. QED
        BY <1>1, <2>2, <3>1, <3>2 DEF AnswersInv, Numbered
    <2>3. \A q \in Pages : pages'[q].sent \in Statement => pages'[q].sent.page = q
      BY <1>2 DEF AnswersInv, Numbered
    <2>4. QED
      BY <2>1, <2>2, <2>3 DEF Numbered
  <1>11. Awaited'
    <2>1. ASSUME NEW a \in answers
          PROVE  AwaitedTrue(a)'
      <3>1. a.page \in Pages /\ a.page # p /\ pages'[a.page] = pages[a.page]
        BY <1>2, <1>7
      <3>2. request.statement.page # a.page
        BY <3>1
      <3>3. \A m \in flying' : m \in flying \/ m.statement.page # a.page
        BY <1>1, <3>2
      <3>4. AwaitedTrue(a)
        BY DEF AnswersInv, Awaited
      <3>5. pages[a.page].sent # s
        BY <1>6, <3>1
      <3> HIDE DEF request
      <3>6. QED
        BY <1>4, <1>5, <3>1, <3>3, <3>4, <3>5 DEF AwaitedTrue
    <2>2. QED
      BY <1>1, <2>1 DEF AnswersInv, Awaited
  <1>12. ToldTrue'
    BY <1>2, <1>4, <1>5, <1>6 DEF AnswersInv, ToldTrue
  <1>13. QED
    BY <1>9, <1>10, <1>11, <1>12 DEF AnswersInv

-----------------------------------------------------------------------------
(* The steps of the application *)

\* Nothing that was true of a statement becomes untrue.
Lasting ==
  /\ \A s : Holds(s) => Holds(s)'
  /\ \A s : Dead(s) => Dead(s)'
  /\ record'.version \in Nat /\ record'.version >= record.version

LEMMA AnswerTrue ==
  ASSUME RequestsInv, AnswersInv, NEW m \in flying, UNCHANGED pages, flying' = flying \ {m},
         Lasting, OncePerId', NEW saved \in BOOLEAN, Answer(m, saved),
         saved => Holds(m.statement)',
         ~saved /\ m.statement.kind # "correction" /\ pages[m.statement.page].busy
           /\ m.number = pages[m.statement.page].number => Dead(m.statement)'
  PROVE  AnswersInv'
  <1> DEFINE p == m.statement.page
             page == pages[p]
             answer == [page |-> m.statement.page, number |-> m.number, saved |-> saved,
                        version |-> record'.version, events |-> Len(record'.events)]
  <1>1. p \in Pages /\ page.version <= record.version /\ page.version \in Nat
        /\ record.version \in Nat
    BY DEF RequestsInv, FlyingOK, Statement, PagesOK, Current, RecordOK, TypedPage
  <1>2. \A a \in answers' : \/ a \in answers
                            \/ a = answer /\ page.busy /\ page.number = m.number
    BY DEF Answer
  <1>3. Numbered'
    BY DEF AnswersInv, Numbered
  <1>4. ToldTrue'
    BY DEF AnswersInv, ToldTrue, Lasting
  <1>5. \A n \in flying' : n.statement.page = p => n.number # m.number
    BY DEF AnswersInv, Numbered
  <1>6. \A a \in answers : a.page = p => page.number # m.number
    BY DEF AnswersInv, Awaited, AwaitedTrue
  <1>7. Awaited'
    <2>1. ASSUME NEW a \in answers
          PROVE  AwaitedTrue(a)'
      BY DEF AnswersInv, Awaited, AwaitedTrue, Lasting
    <2>2. ASSUME NEW a, a = answer, page.busy, page.number = m.number
          PROVE  AwaitedTrue(a)'
      <3>1. page.sent = m.statement
        BY <2>2 DEF AnswersInv, Numbered
      <3>2. a.version >= page.version
        BY <1>1, <2>2 DEF Lasting
      <3>3. a.page = p /\ a.number = m.number /\ a.saved = saved
        BY <2>2
      <3>4. pages'[a.page] = page
        BY <3>3
      <3>5. /\ a.saved => Holds(page.sent)'
            /\ ~a.saved /\ page.sent.kind # "correction" => Dead(page.sent)'
        BY <2>2, <3>1, <3>3
      <3>6. QED
        BY <1>5, <2>2, <3>2, <3>3, <3>4, <3>5 DEF AwaitedTrue
    <2>3. answer.page = p
      OBVIOUS
    <2> HIDE DEF answer, p
    <2>4. \A a \in answers' : AwaitedTrue(a)'
      BY <1>2, <2>1, <2>2
    <2>5. \A a, b \in answers' : a.page = b.page => a = b
      BY <1>2, <1>6, <2>3 DEF AnswersInv, Awaited
    <2>6. QED
      BY <2>4, <2>5 DEF Awaited
  <1>8. QED
    BY <1>3, <1>4, <1>7 DEF AnswersInv

LEMMA ServeTrue ==
  ASSUME RequestsInv, AnswersInv, NEW m \in flying, Serve(m)
  PROVE  AnswersInv'
  <1> DEFINE s == m.statement
  <1>1. flying' = flying \ {m} /\ UNCHANGED pages
    BY DEF Serve
  <1>2. ASSUME UNCHANGED record
        PROVE  Lasting /\ OncePerId'
    <2>1. \A t : Dead(t) => Dead(t)'
      BY <1>1, <1>2, DeadSame
    <2>2. QED
      BY <1>2, <2>1 DEF Lasting, Holds, RequestsInv, RecordOK, AnswersInv, OncePerId
  <1>3. ASSUME Refuse(m), UNCHANGED record, Answer(m, FALSE)
        PROVE  AnswersInv'
    <2>1. ASSUME s.kind # "correction", pages[s.page].busy, m.number = pages[s.page].number
          PROVE  Dead(s)'
      <3>1. ~Holds(s)
        <4>1. ASSUME NEW i \in DOMAIN record.events, record.events[i].statement = s
              PROVE  FALSE
          <5>1. i \in Recorded(s) /\ Retry(m)
            BY <4>1 DEF Recorded, Retry
          <5>2. PICK j \in Recorded(s) : record.events[j].statement # s
            BY <1>3, <2>1, <5>1 DEF Refuse
          <5>3. i = j
            BY <5>1, <5>2 DEF Recorded, AnswersInv, OncePerId
          <5>4. QED
            BY <4>1, <5>2, <5>3
        <4>2. QED
          BY <4>1 DEF Holds
      <3>2. ASSUME NEW n \in flying, n.statement = s
            PROVE  Refuse(n)
        <4>1. n.version <= m.version
          BY <2>1, <3>2 DEF AnswersInv, Numbered
        <4>2. QED
          BY <1>3, <3>2, <4>1, RefusedAlike
      <3>3. Dead(s)
        BY <3>1, <3>2 DEF Dead
      <3>4. QED
        BY <1>1, <1>3, <3>3, DeadSame
    <2>2. QED
      BY <1>1, <1>2, <1>3, <2>1, AnswerTrue
  <1>4. ASSUME ~Refuse(m), Retry(m), UNCHANGED record, Answer(m, TRUE)
        PROVE  AnswersInv'
    <2>1. Holds(s)'
      BY <1>4 DEF Refuse, Retry, Recorded, Holds
    <2>2. QED
      BY <1>1, <1>2, <1>4, <2>1, AnswerTrue
  <1>5. ASSUME ~Refuse(m), ~Retry(m), Answer(m, TRUE),
               record' = [record EXCEPT
                 !.version = @ + 1,
                 !.events = Append(@, [statement |-> m.statement, informed |-> m.informed])]
        PROVE  AnswersInv'
    <2> DEFINE n == Len(record.events)
               event == [statement |-> s, informed |-> m.informed]
               Event == [statement : Statement, informed : Nat]
    <2>1. record.events \in Seq(Event) /\ event \in Event /\ n \in Nat
          /\ record.version \in Nat
      BY LenProperties DEF RequestsInv, RecordOK, FlyingOK
    <2>2. record'.events = Append(record.events, event) /\ record'.version = record.version + 1
      BY <1>5 DEF RequestsInv, RecordOK
    <2>3. /\ DOMAIN record.events = 1..n /\ DOMAIN record'.events = 1..(n + 1)
          /\ \A i \in 1..n : record'.events[i] = record.events[i]
          /\ record'.events[n + 1].statement = s
      BY <2>1, <2>2, AppendProperties, LenProperties
    <2>4. \A i \in 1..(n + 1) : i \in 1..n \/ i = n + 1
      BY <2>1
    <2>5. \A t : Holds(t) => Holds(t)'
      BY <2>1, <2>3 DEF Holds
    <2>6. Holds(s)'
      BY <2>1, <2>3 DEF Holds
    <2>7. OncePerId'
      <3>1. \A i \in 1..n : LET t == record.events[i].statement IN ~(t.page = s.page /\ t.id = s.id)
        BY <1>5, <2>3 DEF Retry, Recorded
      <3>2. QED
        BY <2>3, <2>4, <3>1 DEF AnswersInv, OncePerId
    <2>8. ASSUME NEW t, Dead(t)
          PROVE  Dead(t)'
      <3>1. t # s
        BY <1>5, <2>8 DEF Dead
      <3>2. ~Holds(t)'
        BY <2>3, <2>4, <2>8, <3>1 DEF Dead, Holds
      <3>3. RecordOK'
        BY <1>5, Appended
      <3>4. QED
        BY <1>1, <2>2, <2>8, <3>2, <3>3, DeadStays
    <2>9. Lasting
      BY <2>1, <2>2, <2>5, <2>8 DEF Lasting
    <2>10. QED
      BY <1>1, <1>5, <2>6, <2>7, <2>9, AnswerTrue
  <1>6. QED
    BY <1>3, <1>4, <1>5 DEF Serve

LEMMA ElsewhereTrue ==
  ASSUME RequestsInv, AnswersInv, NEW onward \in BOOLEAN, Elsewhere(onward)
  PROVE  AnswersInv'
  <1>1. /\ record'.version = record.version + 1 /\ record'.events = record.events
        /\ UNCHANGED <<pages, flying, answers>>
    BY DEF Elsewhere, RequestsInv, RecordOK
  <1>2. \A s : Holds(s)' <=> Holds(s)
    BY <1>1 DEF Holds
  <1>3. \A s : Dead(s) => Dead(s)'
    <2>1. RecordOK'
      BY ElsewhereAccepted DEF RequestsInv
    <2>2. \A s : Dead(s) => ~Holds(s)'
      BY <1>2 DEF Dead
    <2>3. QED
      BY <1>1, <2>1, <2>2, DeadStays
  <1>4. QED
    BY <1>1, <1>2, <1>3 DEF AnswersInv, OncePerId, Numbered, Awaited, AwaitedTrue, ToldTrue

-----------------------------------------------------------------------------
\* What a page is told about the statement it sent last is true, over a network
\* that loses, delays and reorders: saved means recorded, and what is refused
\* is not recorded and will not be (DeliveriesPage submitEvent, event).
THEOREM ToldTheTruth == RequestsSpec => []AnswersAreTrue
  <1>1. RequestsInit => AnswersInv
    <2> SUFFICES ASSUME RequestsInit PROVE AnswersInv
      OBVIOUS
    <2>1. record.events = <<>> /\ flying = {} /\ answers = {}
      BY DEF RequestsInit
    <2>2. \A p \in Pages : pages[p].sent = NoStatement /\ pages[p].told = "nothing"
      BY DEF RequestsInit
    <2>3. NoStatement \notin Statement
      BY DEF NoStatement, Statement, Kinds
    <2>4. QED
      BY <2>1, <2>2, <2>3 DEF AnswersInv, OncePerId, Numbered, Awaited, AwaitedTrue, ToldTrue
  <1>2. RequestsInv /\ AnswersInv /\ [RequestsNext]_requestsVars => AnswersInv'
    <2> SUFFICES ASSUME RequestsInv, AnswersInv, [RequestsNext]_requestsVars
                 PROVE  AnswersInv'
      OBVIOUS
    <2>1. CASE UNCHANGED requestsVars
      <3>1. UNCHANGED <<record, pages, flying, answers>>
        BY <2>1 DEF requestsVars
      <3>2. \A s : (Holds(s) => Holds(s)') /\ (Dead(s) => Dead(s)')
        BY <3>1, DeadSame DEF Holds
      <3>3. QED
        BY <3>1, <3>2 DEF AnswersInv, OncePerId, Numbered, Awaited, AwaitedTrue, ToldTrue
    <2>2. ASSUME NEW p \in Pages, NEW note \in Notes, pages[p].kept, Submit(p, Retried(p, note))
          PROVE  AnswersInv'
      <3>1. pages[p].sent \in Statement /\ pages[p].sent.page = p
        BY <2>2 DEF RequestsInv, PagesOK, AnswersInv, Numbered
      <3>2. Retried(p, note) \in Statement /\ Retried(p, note).page = p
        BY <2>2, <3>1, Statements DEF Retried, Statement
      <3>3. QED
        BY <2>2, <3>2, SubmitTrue
    <2>3. ASSUME NEW p \in Pages, NEW k \in Kinds, NEW n \in Typed, NEW note \in Notes,
                 Submit(p, Fresh(p, k, n, note))
          PROVE  AnswersInv'
      <3>1. Fresh(p, k, n, note) \in Statement /\ Fresh(p, k, n, note).page = p
        BY Statements DEF Fresh
      <3>2. QED
        BY <2>3, <3>1, SubmitTrue
    <2>4. QED
      BY <2>1, <2>2, <2>3, ReceiveTrue, FailTrue, ReloadTrue, ServeTrue, ElsewhereTrue DEF RequestsNext
  <1>3. AnswersInv => AnswersAreTrue
    BY DEF AnswersInv, ToldTrue, AnswersAreTrue, Holds, Dead
  <1>4. QED
    BY <1>1, <1>2, <1>3, RequestsInvariance, PTL DEF RequestsSpec
=============================================================================

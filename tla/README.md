# EMCargo: a TLA+ model of the parts with a protocol in them

EMCargo is a shipment administration: a FastAPI back end over SQLite
(`src/backend/app`) and a React client (`src/frontend`). Most of its code reads,
computes or renders. This project models what several people, threads, processes or
messages do to the same state: planning and moving goods, releasing dangerous goods,
the interview that fills in a shipment, the update of the installation, the local
model, the locks under them. It also models two of its algorithms, where the order in
which a load is put together must not matter.

## Inventory

| part | code | state | what is hard |
|---|---|---|---|
| deliveries | `services/deliveries.py`, `schemas/deliveries.py`, `api/routes/deliveries.py` | one JSON value per delivery: legs, allocations, source snapshots, append-only events; a version | concurrent reservations of one shipment, stale snapshots, reviews of what has since changed, corrections |
| statements | the same, and `pages/DeliveriesPage.tsx` | versions and request ids | lost answers, retries with the same or another id |
| follow-ups | `services/delivery_followups.py` | a link from a delivery to the disposition it continues, and back | a chain of deliveries that report completion and withdraw it |
| units and unloading | `services/delivery_{unloading,load_units,cargo}.py` | occupation of equipment and load units by legs | sharing by time and by unload evidence |
| uploads | `services/delivery_documents.py`, `api/routes/deliveries.py` | the write lock, the event loop | a lock held while a coroutine waits |
| shipment history | `services/history.py`, `api/routes/history.py` | kept shipments | guard of reserved goods, a row loaded before the lock |
| DG review | `services/dg_review.py`, `api/routes/dg_reviews.py` | pending, approved, rejected reviews of a shipment | check-then-insert, a decision against a new save, what is kept without a routing |
| interview | `services/assistant/orchestrator.py`, `dg/autofill.py`, `AssistantModal.tsx`, `assistantState.ts`, `WizardPage.tsx` | a draft that travels between wizard, panel and server; the panel's history | late answers, rows that are removed or become something else |
| local model | `services/assistant/runtime.py` | a server process, files, a download | two starts, a removal under an install, a server that never gets ready |
| in-app updater | `services/updater.py`, `update_helper.py`, `api/routes/meta.py` | containers, a state file | a crash between two container calls, lost answers |
| groupage | `services/dg/trip.py`, `dg/compliance.py` | none; a load grows and gets its quantities | what was said of a part of the load, or before all was known, and what is open that counts as nothing |
| segregation | `services/dg/compliance.py` | none; lines in an order | what one pair hides of another |
| stops, inventory, grants, import, trips | `services/delivery_{routing,inventory,import}.py`, `temporary_deliveries.py`, `trips.py` | parts of the delivery's value, links | two commits, expiry |
| cargo identity, work queue, departments | `services/{cargo_storage,cargo,work_queue,departments}.py` | ids of boxes, owners of work | a box in two open shipments |
| accounts | `core/security.py`, `services/{password_reset,two_factor}.py` | sessions, tokens | |
| pure parts | `calculator/`, `parser/`, `units.py`, `container_loading.py`, the rest of `services/dg/` | none | algorithms on texts, tables and decimals |
| input and output | documents, EDIFACT, mail, branding, catalogue sync, eFTI, DGSA | files | |

How they meet. A delivery *reads* kept shipments when it is saved (it stores a snapshot
of each) and compares the snapshot with the shipment when it plans, reviews, releases
and starts. The history *calls* `guard_source` before it changes or deletes a shipment
and `dg_review.enforce` before it keeps one. A disposition of a difference *creates*
another delivery, which writes to its parent in its own transaction. Every writing
delivery handler takes one database lock (`deliveries.lock`) and commits once; an upload
takes it on the event loop. A page *sends* the version it shows. The wizard *gives* its
shipment to the panel, the panel sends it with every turn and gives it back; the server
keeps nothing of it. A turn may *start* the model server. The updater ends the
application and with it all of this.

What makes each part correct: reservations that stay covered and valid; a leg's status
that is what its evidence says; reviews of what is really moved and kept; a chain of
follow-ups that agrees with itself; one record per thing a user stated, and true
answers; one user of a unit at a time; facts under the goods they were said of; one
model server, and only a verified model; always one working installation; a judgement
of a load that no further goods, quantities or order of lines turn round.

## Modules

| module | what it is |
|---|---|
| `DeliveryValue` | the data of one delivery and the functions over it |
| `Deliveries` | kept shipments and all deliveries, with units and unloading; one action per handler |
| `StockLedger` | what the two promise together: goods are taken only as far as they are there, and what goods are taken from does not change. `Deliveries` implements it |
| `Keeping` | `Deliveries` with the update of a kept shipment opened into the steps other requests come between |
| `DeliveryRequests` | statements about a leg from the form in the browser to the record, over a network that loses and delays |
| `DgReviews` | submission, decision, and keeping of dangerous goods by concurrent sessions |
| `UploadLock` | the write lock, the event loop and the threads |
| `Interview` | wizard, panel and turns of the interview |
| `AssistantRuntime` | model server, installs, removal, turns |
| `Updater` | the update thread, the helper that exchanges the containers, a daemon whose calls can fail |
| `Carriage` | goods put on one vehicle, and what road rules say of the load |
| `Stowage` | lines of a consignment, and what is said of keeping them apart at sea and in the air |
| `MC*` | instances for TLC. `MCPlanning`, `MCExecution`, `MCRequests` and `MCServer` put several scenes into one run: the first step chooses one, and nothing is shared between them. `MCReopening` adds to `DgReviews` a memory of what a shipment was created with |
| `*Proofs` | theorems, for every value of the constants |

### Deliveries

`shipments[s]` is the contents of kept shipment `s`, named by a *revision*: `cargo` and
`export` of the row matter only through equality with a snapshot, the quantity of the
goods (`Stock`) and whether they are dangerous (`Dangerous`). `deliveries[d]` is
`Delivery.data_json`. A delivery without legs stands for an id that is not in use.

The legs' dozens of inputs are one value of `Plans`. What the guards ask of them are
sets and functions: `Placed` (origin and destination), `Assigned` (carrier and planned
start), `Manual` (the modal coverage asks for a review), `Cleared` (`validate_cargo`,
`verify_sources` and the checks of `assessment` raise nothing), `Box` and `Equipment`
(load unit, truck), `Before` (one period ends before another begins) and `Unscheduled`.
A run chooses all outcomes of the checks, without the checks.

An event keeps its kind, leg, quantities, what it corrects and its disposition. Totals
over events are counted as sets of units, so that one definition serves TLC and the
proofs. One action is one accepted request: a handler takes the lock before it reads,
commits once at its end, and rolls back when it raises, so a refused request is no
action. `create`, `edit`, `plan`, `unplan`, `review`, `release`, `start`, `cancel`,
`close`; `event` is split by kind; `keep`, `forget` and `discard_kept` are the
history's. `save` is part of each, with `sync_parent` and its recursion unfolded as far
as chains reach (`may_follow`). `Keeping` exists because `history.keep` is the
exception: the route loads the row without the lock, and `keep` takes the lock only when
the new contents differ from that row.

### Requests of the office

`DeliveryRequests`: `pages` holds what each page shows and the state of its form,
`flying` and `answers` the network, `record` the row. The handler is one step; the id is
renewed, and the answer believed, where the page's code does so.

`DgReviews`: what a request reads before it writes is a step of its own, since the
routes run in threads without a lock; from its first write to its commit it holds the
database, which makes that one step. `released` is a history variable. The code asks for
a release only of shipments with a routing (`Routed`; `dg_review.py:124`). One without may
be saved without a review, or with one that is pending or has been forgotten, and then
points at no review, or makes that review point at it. A session is of the submitter;
colleagues who may use a release but do not own it, and who then do not move its pointer,
are left out, as are drafts and shipments with a cargo plan.

`Interview`: the wizard's lines and entries, the panel's draft and steps, and the turns
under way. Goods are told apart by what they may be; a fact is whether it is known, and
of which goods and substance it was said, which the code does not store and the
properties are about. Rows are numbered by position in `dgEntries`, as in the code, and
the calculation that renumbers them is a step of its own, late as its timer.

### The server

`Updater`: `containers` are the application containers the daemon has, `file` is
`update-state.json`, `worker[c]` the update thread of the process in container `c`,
`helper[h]` where `main()` is. One action is one call to the daemon with what the code
does next. A call is carried out and answered, refused, or breaks off before it is
carried out or after.

`UploadLock`: an upload runs on the one loop, waits for the database on it, and gives
the loop away while a spooled file is read, the lock in hand. A wait ends when the lock
is free or after the busy timeout.

`AssistantRuntime`: what runs under `_lock` is one step, everything else is not. Files
have inodes, so that a thread goes on writing what was renamed or deleted.

`Carriage`, `Stowage`: the checks are operators of the load, one per function of the
code; goods come and go, and in `Carriage` quantities are filled in one step at a time,
and so are the inner quantity, the gross mass and the number of packages that limited
quantities are judged by. What is open counts nothing in the points and in the 8 tonnes,
as in the code. The class field of an explosive and the compatibility group of its
classification code are one `subdivision`, as the lookup fills them in.
Tables and provisions are constants: the code reads them from JSON.

## Runs

Four runs pass, eight show a violation.

| run | scenes and bounds | shows |
|---|---|---|
| `planning` | *goods*: two deliveries, two shipments, two revisions of the first (the second has less stock and is dangerous), no evidence. *units*: two deliveries, or one and its follow-up, that want one container and one truck, in one period or in turn, four events of both together | `NoOverallocation`, `SourceIntact`, `ReleaseReviewed`, `ImplementsLedger`; `UnitsTakeTurns`, `BoxPassedOnEmpty` |
| `execution` | *differences*: a delivery, its return or redelivery, and the follow-up of that; two units, three events each. *transfer*: two legs, five events | `TypeOK`, `CompletionIsSettled`, `FollowupsMirrored`, `ImplementsLedger`; the same of two legs, `TransferCorrected`, `TransferLoadsForward`, `TransferFrozen` |
| `requests` | *statements*: two pages, two requests each, two under way, three versions. *releases*: two sessions, two contents with a routing and one without, two reviews, two rows. *interview*: two rows, two articles of which one can be two substances, land and air rules together, two turns under way, one step back | `RecordedOnce`, `AnswersAreTrue`; `KeptAsReleased`, `DecisionFinal`, `KeptOnce`; `AnswersBelong`, `ReadyIsComplete`, `LateAnswersDropped` |
| `server` | *update*: three containers, two helpers, one fault of any kind. *uploads*: three uploads, two of them spooled, two other requests. *assistant*: two turns with one install, or two installs, and stop and removal; two servers, a model of two chunks. *load*: four products of two consignments, the fields of limited quantities open of one of them. *segregation*: three lines of twelve goods | `TypeOK`, `OneRunning`, `SingleUpdate`, `WorkingInstallation`, `DoneIsTrue`, `ProgressEnds`; `NothingOverwritten`, `UploadsEnd`; `OneServer`, `ModelVerified`, `TurnsEnd`, `DownloadsEnd`; `RefusalStands`, `LossIsReal`, `PairsDecide`, `MarkStands`; `PairsApart`, `EveryPairTold` |
| `extra_stock`, `stale_keep`, `update_lost`, `reused_row`, `partial_unlocks`, `required_skipped`, `moved_answers`, `order_of_lines` | small instances | findings 1 to 8 |

### Why the bounds are enough

An overallocation needs two reservations and a stock of two; a stale snapshot needs two
revisions; a correction of a correction needs three events, one that withdraws a
completion four; withdrawing through a chain needs three deliveries. *goods* has no
evidence because reservations depend on a leg's status only through `RESERVED`, which a
started leg never leaves. A unit changes hands between two deliveries. A request that
comes late, between two others of its page, needs a second page and a renewed id. A
review decided under a save needs two sessions; contents without a routing matter by the
row they take from others, for which one of them and one review will do. Facts are mixed up by two rows and two
substances; an answer that is too late needs two turns. A second update after a failed
one needs two helpers and three containers. A deadlock between loop and lock needs one
upload that holds the lock and one that holds the loop; the third is one more that comes
after them. A name that hides another pair needs three lines.

`MaxFaults` is 1: that is what the rollback is written for. It is a real limit: the
rollback reads no answers, so with a second fault, a refused removal of the unhealthy
successor, `OneRunning` and `WorkingInstallation` do not hold. A killed helper is rolled
back by nobody: `WorkingInstallation` speaks of helpers that ended. `age` assumes that
the waits of helper (60, 90 and 180 seconds at most) and thread end within the 20 minutes
the state file is trusted. `SingleUpdate` leaves out the lost answer of the helper's
start: the thread then reports a failure while the helper runs. `ModelVerified` is about
installs that do not overlap: two that overlap write one `.part` file.

Symmetry is used where only safety is checked: deliveries, legs and allocations of a
role, and in `requests` pages with sessions and notes with contents that have a routing,
which get the same model values because they never meet; `Routed` is a set of whole
orbits. `FewUnderWay`, `FewReviews` (beside contents without a routing one other contents
and one review) and `FewEvents` are constraints over safety properties only. `requests` and `server` may stop: all pages done, an
update over.

### Fairness

The deliveries, the office and the load have none: every action is a request that
somebody may never send. In `server` each of these runs on by itself and is weakly fair:
the update thread and each helper (straight-line programs whose calls have time
limits), a request that has arrived (`Proceed`; a wait for the lock ends by the busy
timeout), a turn (its wait for the server has a deadline) and an install (its
connections time out). Nobody has to ask for an update, a turn or an install, a model
server may stay silent for ever, and no fairness is assumed of faults.

## What is proved

| module | theorems |
|---|---|
| `DeliveriesProofs` | `TypeCorrect`, `SourcesStayIntact`, `NeverOverallocated`; `ImplementsTheLedger`, the refinement |
| `ExecutionProofs` | `ReviewsPrecedeRelease`, `CompletionSettled`, `FollowupsMirror`, `LoadsGoForward`, `CorrectionsInChains`, `UnitsUsedInTurn`, `BoxesKnownEmpty`, `ExecutedStaysFrozen` |
| `DgReviewsProofs` | `OnlyReleasedIsKept`, `DecisionsStand`, `OneRowForEach` |
| `UploadLockProofs` | `UploadsOverwriteNothing` |
| `RequestsProofs` | `NothingRecordedTwice`, `ToldTheTruth` |
| `AssistantProofs` | `NeverTwoServers`, `OnlyThePinnedModel`; of the interview `LateAnswersChangeNothing`, `AnswersStayWithSubstance`, `ReadyLacksNothing` |
| `UpdaterProofs` | `UpdateTyped`, `ReportIsTrue`, `OneUpdate`; with at most one fault `OneApplication`, `InstallationWorks` |
| `CarriageProofs` | `MixedLoadingIsPairwise`, `LossOfTheCombination`, `RefusalsStand`, `MarksStand`; of the segregation `PairsAreApart`, `NoPairUntold` |

Each holds for all constants that satisfy the assumption of its module, the bounds
included. Those of `CarriageProofs` are about operators and need only types; all others
rest on an inductive invariant.

*Deliveries, the books.* `NoOverallocation` compares what is held with the stock of the
*present* contents, while `reserve` compares it with the stock of the *snapshot*:
`SourceIntact` makes the two the same. Both need `TypeOK`. And saving one delivery writes
its ancestors through `sync_parent`, which sets a leg's status: that gives or takes no
reservation only if that leg is already in execution, which is `Linked`. A value *yields*
to another if it holds no more. Every handler but three changes a delivery to a value that
yields; `plan` and `edit` check all reservations against current snapshots, and `create`
makes only drafts. So each request is a step of `Books`: nothing new is held of a
shipment, or all that is held fits. The refinement uses the same: `Books` is the ledger's
`Book`, the retention steps are its `Change` and `Clear`.

*Deliveries, the execution.* `InOrder` is the books' invariant with `Sane`, which says of
one value that it is `Good` and of all values together how they hang together:

| part | says | is there because |
|---|---|---|
| `LegOK` | the review fits, a reservation is of goods, the status is what the evidence says | it is what three of the theorems say |
| `Rooted`, `Named` | a follow-up has one leg; its disposition names it; chains are as deep as the code lets them be | `sync_parent` finds the disposition through the link, and stops at the top |
| `Told` | the disposition knows whether the follow-up is complete | a parent's status depends on it; it fails for a moment inside a request, between the save of the child and that of its parents, so that the steps of a chain are proved one by one |
| `Evidenced`, `Formed` | only started legs have evidence; a correction corrects what is earlier | a leg that starts has nothing to be consistent with; corrections end somewhere |
| `LoadsForward`, `Corrected` | the theorems of the same content, of one value | consistency of a leg is decided with the leg before it |
| `InTurn` | what a live leg needs and another has not given up, they use in turn | `UnitsInTurn` and `BoxKnownEmpty` are its two sides: a leg that is over still needs the unit its goods were not accounted for in, and may become live again |

A request either changes a delivery so that its started legs keep all that this reads
(`Same`), or adds one event to one leg. `ExecutedFrozen` is an action property over the same
invariant.

*DG reviews.* A request is checked in one step and writes in another, so the invariant
says what the check leaves behind: what an approved review holds, and what a request
with a routing carries to its write, has been released. `OnlyReleasedIsKept` says nothing
of what is kept without one: the server does not ask.

*Uploads.* Whoever has passed the check of the version holds the database, so that the
version is still current when it saves, also while the loop serves others.

*Statements.* Whatever page, request or answer holds the current version also holds the
current number of events: a check of the version is a check of the evidence. For
`AnswersAreTrue` the invariant follows every try: a page's requests have numbers, the
answer it waits for is to the last, and what was refused is *dead*, which is to say that
the record does not hold it and every try still under way will be refused.

*Model server.* Only the server started last may be alive. While no two installs
have been at work together, the inode an install writes is neither the model nor anybody
else's, and what a sound install has written so far is right.

*Interview.* Behind a closed panel nobody waits for an answer, and only there somebody
works in the wizard: late answers follow from that alone. The two other theorems need
`InterviewInv`, which relates the wizard, the panel and the turns:

| part | says | is there because |
|---|---|---|
| `Sane` | goods have numbers of their own | an answer finds its goods, and the wizard its positions, by number |
| `Good` | goods have one entry at most, and what it says was said of its substance | with two entries the answer could be written into the other one |
| `Concerns` | when a question about dangerous goods is shown, each entry is of the substance of its goods, and one is of the substance that was asked about | a turn derives the entries again before it applies the answer: were one of them out of date, the question would be about a product that is gone by then |
| `Complete`, `Matches` | when the panel says that the shipment is ready, its draft lacks nothing, and the wizard has the same goods and no entry that the draft has not | `ReadyIsComplete` is about the wizard |
| `Steadies` | every step to go back to was such a state | `goBack` restores a draft, its question and its screen together |
| `CallsKept` | one turn at most is waited for, and it carries the draft that is shown | an answer of any other draft could be about another substance |

`Good` and `Concerns` are claimed only until an entry has outlived the removal of a line,
as `AnswersBelong` is: what becomes of it then is the finding `moved_answers`. The
lemmas follow one turn: what is derived (`SyncKeepsDraft`, `SyncSettles`), what an answer
changes (`Answered`), and what is asked next (`NextQuestion`); and the way from the wizard
to the panel and back (`Handed`, `AppliedAs`). They rest on lemmas about sequences:
what is put together of sequences holds what they hold (`Flattened`), and a filter keeps
each item that counts once (`Filtered`). `NoSubstance`, assumed in `Interview`, says that a
rejected or unconfirmed line is not one that has a substance.

*Updater.* Three invariants. `General` holds whatever goes wrong: types, one application of
the earlier release, and what a helper knows where it is; `DoneIsTrue` follows.
`Ordered` adds that, while no answer of the daemon has been lost, a helper at work is alone.
`Expected` adds what a helper finds where it is (`Stage`) and what is left when none is at
work (`Quiet`). It needs `MaxFaults <= 1`, the hypothesis of the last two theorems, which
is what the rollback is written for: with a second fault both properties are false (see
the bounds above).

*Loads.* Between two groups mixed loading is pairwise by definition; within one the code
counts labels, and the lemmas about cardinalities say that two labels are two products.
The points of a load are a sum over a set. A sum of natural numbers is proved to be the
cardinality of a set of marks, by well-founded induction over the subsets of a finite set,
so that a sum over the goods is the sum over the consignments and grows with the set. The
mass of limited quantities is such a sum: filling in adds lines to it and takes none away,
so that what is over 8 tonnes stays over (`MassGrows`). The other direction is false, and
`MarksStand` leaves out the decision that rests on it (see the end of the findings).

*Segregation.* Where the names of two goods are theirs alone each check says of them what
two lines alone would be told (`found_of`, check by check), weighing column 16b looks at
findings of the same names only, and the exception for class 8 asks that both are acids.
Where a name is shared there is still a first pair with these names that is reported, and
what the weighing takes back from the class table has a finding of column 16b beside it.

Only model-checked. Liveness (`ProgressEnds`, `UploadsEnd`, `TurnsEnd`, `DownloadsEnd`),
which the prover has no means for. `TransferSettled`,
`TransferCorrected`, `TransferLoadsForward`, `TransferFrozen`, `UnitsTakeTurns` and
`BoxPassedOnEmpty` are instances, in a scene of their own, of properties that
`ExecutionProofs` proves of `Deliveries`.

## Findings

1. `extra_stock`: after a redelivery is opened the original leg still accepts the rest
   of the goods, and both are received (`deliveries.py:580`).
2. `stale_keep`: an update of a kept shipment that equals the row it loaded, but not the
   row it replaces, is not guarded (`history.py:143`).
3. `update_lost`: when only the answer of the removal of the old container is lost, the
   rollback removes the healthy successor too (`update_helper.py:185`).
4. `reused_row`: a review points at its shipment by a row id that SQLite gives out again
   (`routes/history.py:268`).
5. `partial_unlocks`: an install over an installed model unlocks the assistant with half
   a binary (`runtime.py:118`).
6. `required_skipped`: a question that is optional on land and required by air can be
   skipped (`autofill.py:601`).
7. `moved_answers`: with a row removed and another not yet counted, the assistant has
   the removed goods' answers under the next row (`assistantState.ts:59`).
8. `order_of_lines`: of two lines with one UN number and name only the first is compared
   with a third in the segregation table; a stricter second is not reported
   (`compliance.py:4267`).

Also seen, without a run: the action `start` does not compare units again, so a leg
whose period begins after the planned end of another can be started while that one still
has the truck (`deliveries.py:465`); a closed shipment is reopened without a look at its
reusable units (`work_queue.py:232`); a calculation that is awaited while the panel is
opened derives the entries from what there was before (`WizardPage.tsx:661`), which
`Interview`, where a calculation is one step, does not show.

Two more follow from the models as they stand. Dangerous goods without a routing are kept
unreleased with the release policy on (`dg_review.py:124`, expected by
`test_dg_review_permissions.py:107-108`), while `docs/dg-review.md:44-46` says that
completed-history saving enforces the release: `KeptAsReleased` is therefore about
`Routed`. And packages of limited quantities of which something is open count 0 kg
(`compliance.py:5717`), so that the mark is reported as not required, "within the 8
tonnes", where filling in makes it required (`trip.py:246`): `MarkStands` therefore leaves
that decision out.

## Not modelled

* Sign-in, accounts, two-factor codes, password reset, permissions and departments: who
  may act. The models have people who may, and what they do to each other's work.
* Stops and distributions, delivery inventory, the import of trips, grants: values that
  are checked against themselves inside one request, projections, or signed links.
  One of their hazards, a stop between the two commits of an import, is listed.
* Cargo identities: which box is where. One line of goods per shipment: quantities of
  different lines never meet in the code of the deliveries.
* A full disk when the updater writes its file; the checks of `capability`; the
  templates and the configuration the helper copies.
* What the language model is asked; parties and references in the interview; the DG
  step's manual form.
* Tunnel codes, placards, marks, stowage categories and the lookup of substances: read
  per product from tables, with no state, order or other party to go wrong with.
* Text: parsers of quantities and names, the calculator, documents, labels, EDIFACT.
  These, the data tables in Python (names of substances in four languages, rules) and
  the screens are most of the repository's lines. The map covers what coordinates; the
  rest would be transliteration.

## Plan

Next: cargo identities as a module next to `Keeping`, with the reopening of closed
shipments, and stops with their distributions as a refinement of an allocation. Of the
interview, the documents' fields and the questions that only some answers call for.

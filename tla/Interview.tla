----------------------------- MODULE Interview -----------------------------
(***************************************************************************)
(* The assistant's interview about a shipment: the wizard that holds the   *)
(* shipment (pages/WizardPage.tsx), the panel that asks                    *)
(* (components/AssistantModal.tsx, utils/assistantState.ts) and the server *)
(* that works out the questions (services/assistant/orchestrator.py step,  *)
(* services/dg/autofill.py open_questions_for).  The server keeps nothing: *)
(* the draft travels with every turn and its answer replaces the draft.    *)
(*                                                                         *)
(* Goods are told apart by what they may be, and facts by whether they are *)
(* known and of what they were said.  Left out: the fields of documents,   *)
(* which the wizard asks for itself (it sends no documents to the panel),  *)
(* DG fields that only some values of other fields call for, goods that    *)
(* state their UN number, contents or weight, rows added by hand, a UN     *)
(* number typed over a rejection, cargo plans, imported documents, and the *)
(* manual form of the DG step.  A calculation is one step: that its answer *)
(* comes late, with the panel opened in between, is left out as well.      *)
(***************************************************************************)
EXTENDS Naturals, Sequences, SequencesExt, FiniteSets

CONSTANTS
  Articles,    \* what goods can be
  Candidates,  \* Candidates[k]: the substances that article k can be
  Vague,       \* the articles that are stated without a clear count
  Explosive,   \* the substances of class 1
  Profiles,    \* the regulations of the modality
  None, Rejected,
  MaxId,       \* bound: the number of a goods line
  MaxBack,     \* bound: how many steps Previous goes back, and with how many lines,
               \* as long as entries have not outlived the removal of a line
  MaxCalls     \* bound: turns under way, abandoned ones included

ASSUME InterviewAssumption ==
  /\ Vague \subseteq Articles /\ MaxId \in Nat /\ MaxBack \in Nat /\ MaxCalls \in Nat
  /\ DOMAIN Candidates = Articles

Substances == UNION {Candidates[k] : k \in Articles}

\* A substance goes by its UN number, which neither of them is.
ASSUME NoSubstance == {None, Rejected} \cap Substances = {}

Ids == 1..MaxId
Fields == {"carriage_mode", "net_mass_liters_per_package", "net_explosive_mass"}

Unknown == <<>>

\* What is known of a field: nothing, or of which goods and substance it was said.
Facts == [Fields -> {Unknown} \cup (Ids \X Substances)]
Blank == [f \in Fields |-> Unknown]

GoodsLine ==
  [id : Ids, article : Articles,
   names : SUBSET Substances,                  \* dg_name_candidates
   un : Substances \cup {None, Rejected},      \* confirmed_un, or dg_dismissed
   counted : BOOLEAN]

Entry == [line : Nat, un : Substances, facts : Facts]

\* The draft as it travels, and the wizard's, whose lines know no names and
\* whose entries are numbered by position.
IsDraft(s) ==
  /\ s = [lines |-> s.lines, entries |-> s.entries, skipped |-> s.skipped]
  /\ \A i \in DOMAIN s.lines : s.lines[i] \in GoodsLine
  /\ \A i \in DOMAIN s.entries : s.entries[i] \in Entry
  /\ s.skipped \subseteq (Nat \X Fields)

VARIABLES
  wizard,   \* draftLines, dgEntries and skippedQuestions
  standing, \* whether result belongs to the lines, the signature that the
            \* assistant left (assistantDraftSignature), and whether entries have
            \* outlived the removal of a line
  panel,    \* the panel: open, its working draft, question, screen and history
  calls     \* the turns under way

interviewVars == <<wizard, standing, panel, calls>>

-----------------------------------------------------------------------------
(* The server: services/assistant/orchestrator.py *)

Collect(seq, Op(_)) == FlattenSeq([i \in DOMAIN seq |-> Op(seq[i])])
When(condition, item) == IF condition THEN <<item>> ELSE <<>>
Only(seq, Test(_)) == Collect(seq, LAMBDA x : When(Test(x), x))

\* The facts that the regulations of the modality want of a substance, in the
\* order in which open_questions_for asks for them.
Land == Profiles \cap {"ADR", "RID", "ADN"} # {}

mentions(un) ==
  LET ask(field, required) == [field |-> field, required |-> required]
  IN  When(Land, ask("carriage_mode", TRUE))
      \o When(un \in Explosive, ask("net_explosive_mass", TRUE))
      \o When(Land /\ un \notin Explosive, ask("net_mass_liters_per_package", FALSE))
      \o When("IATA_DGR" \in Profiles, ask("net_mass_liters_per_package", TRUE))

\* A field that is empty is asked for once, the way it is mentioned first.
open_questions_for(entry) ==
  LET seq == mentions(entry.un)
  IN  Collect([i \in DOMAIN seq |-> i],
        LAMBDA i : When(/\ entry.facts[seq[i].field] = Unknown
                        /\ \A j \in 1..(i - 1) : seq[j].field # seq[i].field, seq[i]))

\* The entries of goods, the last of them where there are several (by_line).
entry_of(entries, id) == {i \in DOMAIN entries : entries[i].line = id
                            /\ \A j \in DOMAIN entries : entries[j].line = id => j <= i}

\* Mutant: the number of another substance leaves the rest of the product.
other_product_renamed(entry, un) == [entry EXCEPT !.un = un]

\* A different substance invalidates the old classification.
other_product(entry, un) == [entry EXCEPT !.un = un, !.facts = Blank]

\* The lines that are confirmed have an entry each, at the place where it was or
\* after the others, and the entries of rejected lines go.
_sync_dg_entries(s) ==
  LET goods == {s.lines[i] : i \in DOMAIN s.lines}
      rejected == {line.id : line \in {g \in goods : g.un = Rejected}}
      left == Only(s.entries, LAMBDA e : e.line \notin rejected)
      changed(i) == {line \in goods : /\ line.un \in Substances \ {left[i].un}
                                      /\ i \in entry_of(left, line.id)}
      refreshed(i) == IF changed(i) = {} THEN left[i]
                      ELSE other_product(left[i], (CHOOSE line \in changed(i) : TRUE).un)
      added == Only(s.lines, LAMBDA line : line.un \in Substances /\ entry_of(left, line.id) = {})
  IN  [s EXCEPT !.entries =
         [i \in DOMAIN left |-> refreshed(i)]
         \o [i \in DOMAIN added |-> [line |-> added[i].id, un |-> added[i].un, facts |-> Blank]]]

question(scope, id, field, required) ==
  [scope |-> scope, line |-> id, field |-> field, required |-> required, un |-> None]

NoQuestion == question("none", 0, "none", FALSE)

dg_question(entry, q) ==
  [question("dg_question", entry.line, q.field, q.required) EXCEPT !.un = entry.un]

\* Mutant: what was skipped is not asked for again, whatever it has become.
asked_unless_skipped(s, entry, q) == <<entry.line, q.field>> \notin s.skipped

\* A skipped question that has become required is asked after all.
asked(s, entry, q) == <<entry.line, q.field>> \in s.skipped => q.required

_all_pending(s) ==
  IF s.lines = <<>> THEN <<question("goods_intake", 0, "none", TRUE)>>
  ELSE Collect(s.lines, LAMBDA line :
         When(~line.counted, question("goods_quantity", line.id, "quantity", TRUE)))
       \o Collect(s.lines, LAMBDA line :
         When(line.names # {} /\ line.un = None, question("un_confirm", line.id, "none", TRUE)))
       \o Collect(s.entries, LAMBDA entry :
         Collect(open_questions_for(entry), LAMBDA q :
           When(asked(s, entry, q), dg_question(entry, q))))

_next_pending(s) == IF _all_pending(s) = <<>> THEN NoQuestion ELSE _all_pending(s)[1]

LineAt(s, id) == CHOOSE i \in DOMAIN s.lines : s.lines[i].id = id

\* The answers that _apply_answer understands.  To skip what is required, and
\* all that it does not understand, leaves everything as it was: see Fail.
answers_to(s, q) ==
  CASE q.scope = "un_confirm"   -> s.lines[LineAt(s, q.line)].names \cup {Rejected}
    [] q.scope = "goods_intake" -> Articles
    [] OTHER                    -> {"given"} \cup (IF q.required THEN {} ELSE {"skip"})

\* next_id is one more than the ids that are left.
new_id(s) == 1 + Max({0} \cup {s.lines[i].id : i \in DOMAIN s.lines})

added_line(s, article) ==
  [id |-> new_id(s), article |-> article, names |-> Candidates[article], un |-> None,
   counted |-> article \notin Vague]

_apply_answer(s, q, answer) ==
  LET i == LineAt(s, q.line)
      e == CHOOSE j \in DOMAIN s.entries :
             s.entries[j].line = q.line /\ \A k \in 1..(j - 1) : s.entries[k].line # q.line
  IN  IF answer = "skip" THEN [s EXCEPT !.skipped = @ \cup {<<q.line, q.field>>}]
      ELSE CASE q.scope = "goods_intake"   -> [s EXCEPT !.lines = Append(@, added_line(s, answer))]
             [] q.scope = "goods_quantity" -> [s EXCEPT !.lines[i].counted = TRUE]
             [] q.scope = "un_confirm"     -> [s EXCEPT !.lines[i].un = answer]
             [] q.scope = "dg_question"    ->
                  [s EXCEPT !.entries[e].facts[q.field] = <<q.line, q.un>>]

\* A question that is revised, as far as the panel offers it.
revisable(s) ==
  {question("goods_quantity", s.lines[i].id, "quantity", TRUE) : i \in DOMAIN s.lines}

\* One turn: what is derived, the answer, and what is derived from that.
step(m) ==
  LET before == _sync_dg_entries(m.state)
      after  == _sync_dg_entries(_apply_answer(before, m.question, m.answer))
  IN  CASE m.action = "revise" -> [state |-> before, pending |-> m.question]
        [] m.action = "start"  -> [state |-> before, pending |-> _next_pending(before)]
        [] m.action = "answer" -> [state |-> after, pending |-> _next_pending(after)]

-----------------------------------------------------------------------------
(* The wizard: pages/WizardPage.tsx, utils/assistantState.ts *)

\* What a calculation depends on, which is not the number of a line.
signatureOf(lines) ==
  [i \in DOMAIN lines |-> <<lines[i].article, lines[i].counted>>]

\* The names come from the last calculation; the number of a line from its
\* position, which no line may have (any longer).
buildAssistantState ==
  LET named(i) == IF standing.result THEN Candidates[wizard.lines[i].article] ELSE {}
      at(i) == wizard.entries[i].line
      id(i) == IF at(i) \in DOMAIN wizard.lines THEN wizard.lines[at(i)].id ELSE at(i)
  IN  [wizard EXCEPT
        !.lines = [i \in DOMAIN @ |-> [@[i] EXCEPT !.names = named(i)]],
        !.entries = [i \in DOMAIN @ |-> [@[i] EXCEPT !.line = id(i)]]]

\* applyAssistantState; it clears the result when the lines have changed.
Applied(s) ==
  LET has_line(e) == \E i \in DOMAIN s.lines : s.lines[i].id = e.line
      kept == Only(s.entries, has_line)
  IN  /\ wizard' =
           [s EXCEPT !.lines = [i \in DOMAIN @ |-> [@[i] EXCEPT !.names = {}]],
                     !.entries = [i \in DOMAIN kept |-> [kept[i] EXCEPT !.line = LineAt(s, kept[i].line)]]]
      /\ standing' = [standing EXCEPT
           !.result = @ /\ signatureOf(s.lines) = signatureOf(wizard.lines),
           !.signed = signatureOf(s.lines)]

AllCounted == \A i \in DOMAIN wizard.lines : wizard.lines[i].counted

\* Work in the wizard, with the panel closed.
Manual == ~panel.open /\ calls' = {[m EXCEPT !.overtaken = TRUE] : m \in calls} /\ UNCHANGED panel

removeLine(i) ==
  /\ Manual
  /\ wizard' = [wizard EXCEPT !.lines = RemoveAt(@, i)]
  /\ standing' = [standing EXCEPT !.result = FALSE, !.renumbered = @ \/ wizard.entries # <<>>]

\* Another UN number for a line, or an answer to the suggestion; neither is
\* part of the signature.
decide_substance(i, un) ==
  /\ Manual
  /\ wizard' = [wizard EXCEPT !.lines[i].un = un]
  /\ UNCHANGED standing

\* calculateFromDraft: entries of other lines than the assistant left go.
AsLeft == standing.signed = signatureOf(wizard.lines)
calculated(entries) == IF AsLeft THEN entries ELSE <<>>
Calculated == standing' = [standing EXCEPT !.result = TRUE, !.renumbered = @ /\ AsLeft]

calculateFromDraft ==
  /\ Manual /\ AllCounted /\ wizard.lines # <<>>
  /\ wizard' = [wizard EXCEPT !.entries = calculated(@)]
  /\ Calculated

\* goFromLines: the entries are prepared again, and an entry of the same
\* position and substance keeps its answers (retainAssistantDgAnswers).
prepared(i) ==
  LET blank == [line |-> i, un |-> wizard.lines[i].un, facts |-> Blank]
      old == {j \in DOMAIN wizard.entries : wizard.entries[j].line = i}
      first == CHOOSE j \in old : \A k \in old : j <= k
  IN  IF /\ AsLeft /\ old # {}
         /\ wizard.entries[first].un = blank.un
      THEN wizard.entries[first] ELSE blank

goFromLines ==
  LET dangerous == Only([i \in DOMAIN wizard.lines |-> i], LAMBDA i : wizard.lines[i].un \in Substances)
  IN  /\ Manual /\ AllCounted /\ wizard.lines # <<>>
      /\ wizard' = [wizard EXCEPT !.entries =
           IF dangerous = <<>> THEN calculated(@)
           ELSE [i \in DOMAIN dangerous |-> prepared(dangerous[i])]]
      /\ Calculated

-----------------------------------------------------------------------------
(* The panel: components/AssistantModal.tsx *)

Empty == [lines |-> <<>>, entries |-> <<>>, skipped |-> {}]

Turn(state, q, answer, action) ==
  [state |-> state, question |-> q, answer |-> answer, action |-> action,
   late |-> FALSE, overtaken |-> FALSE]

\* The sequence number moves on: no answer to an earlier request counts, and
\* what it carries does not matter any more.
Advance(set) ==
  {[Turn(Empty, NoQuestion, "none", "start") EXCEPT !.late = TRUE, !.overtaken = m.overtaken] :
     m \in set}

\* send
Send(turn) ==
  /\ Cardinality(calls) < MaxCalls
  /\ calls' = Advance(calls) \cup {turn}

\* What a closed panel holds is of no account: opening it starts afresh.
ClosedPanel == [open |-> FALSE, busy |-> FALSE, working |-> Empty, pending |-> NoQuestion,
                screen |-> "describe", history |-> <<>>]

\* The panel opens on the wizard's data, and asks what is next when there are
\* goods already.
Open ==
  LET initial == buildAssistantState
  IN  /\ ~panel.open
      /\ panel' = [ClosedPanel EXCEPT !.open = TRUE, !.busy = initial.lines # <<>>,
                                      !.working = initial]
      /\ IF initial.lines = <<>> THEN calls' = Advance(calls)
         ELSE Send(Turn(initial, NoQuestion, "none", "start"))
      /\ UNCHANGED <<wizard, standing>>

\* Mutant: closing leaves the sequence number alone.
abandon_nothing(set) == set

abandon(set) == Advance(set)

Close ==
  /\ panel.open
  /\ panel' = ClosedPanel
  /\ calls' = abandon(calls)
  /\ UNCHANGED <<wizard, standing>>

Idling == panel.open /\ ~panel.busy

\* Goods are described, or the question is answered.
Reply ==
  LET q == IF panel.screen = "describe" THEN question("goods_intake", 0, "none", TRUE)
           ELSE panel.pending
  IN  /\ Idling /\ panel.screen # "ready"
      /\ q.scope = "goods_intake" => new_id(panel.working) <= MaxId
      /\ \E answer \in answers_to(panel.working, q) : Send(Turn(panel.working, q, answer, "answer"))
      /\ panel' = [panel EXCEPT !.busy = TRUE]
      /\ UNCHANGED <<wizard, standing>>

Revise ==
  /\ Idling
  /\ \E q \in revisable(panel.working) : Send(Turn(panel.working, q, "none", "revise"))
  /\ panel' = [panel EXCEPT !.busy = TRUE]
  /\ UNCHANGED <<wizard, standing>>

AddGoods ==
  /\ Idling /\ panel.screen = "ready"
  /\ panel' = [panel EXCEPT !.screen = "describe", !.pending = NoQuestion]
  /\ UNCHANGED <<wizard, standing, calls>>

\* An answer of the server.  Only the one that is waited for counts.
Deliver(m) ==
  LET result == step(m)
      snapshot == [state |-> m.state, pending |-> panel.pending, screen |-> panel.screen]
      stack == IF m.action = "start" THEN panel.history
               ELSE IF Len(result.state.lines) > MaxBack \/ standing.renumbered THEN <<>>
               ELSE Append(panel.history, snapshot)
  IN  /\ calls' = calls \ {m}
      /\ IF m.late THEN UNCHANGED <<wizard, standing, panel>>
         ELSE /\ panel' = [panel EXCEPT
                   !.busy = FALSE, !.working = result.state, !.pending = result.pending,
                   !.screen = IF result.pending = NoQuestion THEN "ready"
                              ELSE IF result.pending.scope = "goods_intake" THEN "describe"
                              ELSE "question",
                   !.history = SubSeq(stack, 1 + Len(stack) - (IF Len(stack) < MaxBack
                                                               THEN Len(stack) ELSE MaxBack), Len(stack))]
              /\ IF m.action = "revise" THEN UNCHANGED <<wizard, standing>> ELSE Applied(result.state)

\* No answer, or one that was not understood: everything stays as it is.
Fail_turn(m) ==
  /\ calls' = calls \ {m}
  /\ panel' = IF m.late THEN panel ELSE [panel EXCEPT !.busy = FALSE]
  /\ UNCHANGED <<wizard, standing>>

goBack ==
  /\ Idling /\ panel.history # <<>>
  /\ LET snapshot == Last(panel.history)
     IN  /\ panel' = [panel EXCEPT !.working = snapshot.state, !.pending = snapshot.pending,
                        !.screen = snapshot.screen, !.history = Front(@)]
         /\ Applied(snapshot.state)
  /\ UNCHANGED calls

-----------------------------------------------------------------------------
InterviewInit ==
  /\ wizard = Empty
  /\ standing = [result |-> FALSE, signed |-> <<>>, renumbered |-> FALSE]
  /\ panel = ClosedPanel
  /\ calls = {}

InterviewNext ==
  \/ \E i \in DOMAIN wizard.lines :
       \/ removeLine(i)
       \/ \E un \in Candidates[wizard.lines[i].article] \cup {None, Rejected} :
            decide_substance(i, un)
  \/ calculateFromDraft \/ goFromLines
  \/ Open \/ Close \/ Reply \/ Revise \/ AddGoods \/ goBack
  \/ \E m \in calls : Deliver(m) \/ Fail_turn(m)

InterviewSpec == InterviewInit /\ [][InterviewNext]_interviewVars
-----------------------------------------------------------------------------
\* What is recorded about dangerous goods was said of the substance that they
\* are recorded as, however the substance of the goods was changed meanwhile.
AnswersBelong == ~standing.renumbered =>
  \A draft \in {wizard, panel.working} : \A i \in DOMAIN draft.entries : \A f \in Fields :
    LET entry == draft.entries[i]
    IN  entry.facts[f] # Unknown => entry.facts[f][2] = entry.un

\* "late responses cannot overwrite the wizard after the panel closes"
\* (AssistantModal.tsx): an answer to a question that was asked before somebody
\* worked in the wizard changes nothing there.
LateAnswersDropped ==
  [][\A m \in calls \ calls' : m.overtaken => wizard' = wizard]_interviewVars

\* When the panel says that the shipment is ready, the wizard lacks nothing
\* that the questions require, whatever was skipped, gone back to or revised.
ReadyIsComplete ==
  Idling /\ panel.screen = "ready" =>
    /\ AllCounted
    /\ \A i \in DOMAIN wizard.lines :
         panel.working.lines[i].names # {} => wizard.lines[i].un # None
    /\ \A i \in DOMAIN wizard.entries :
         LET open == open_questions_for(wizard.entries[i])
         IN  \A j \in DOMAIN open : ~open[j].required

\* "A required question cannot be skipped" (docs/user-guide.md:348): when the
\* panel says that the shipment is ready, all that a regulation of the modality
\* requires is known.
RequiredAsked ==
  Idling /\ panel.screen = "ready" =>
    \A i \in DOMAIN wizard.entries : LET seq == mentions(wizard.entries[i].un) IN
      \A j \in DOMAIN seq : seq[j].required => wizard.entries[i].facts[seq[j].field] # Unknown

\* "Questions about quantities and DG facts remain attached to their goods when
\* rows have been removed or renumbered" (docs/user-guide.md:354).
FactsStayWithGoods ==
  \A i \in DOMAIN panel.working.entries : \A f \in Fields :
    LET entry == panel.working.entries[i]
    IN  entry.facts[f] # Unknown => entry.facts[f][1] = entry.line

InterviewTypeOK ==
  /\ IsDraft(wizard) /\ IsDraft(panel.working)
=============================================================================

---------------------------- MODULE MCInterview ----------------------------
(***************************************************************************)
(* Goods for the interview: drums, that are stated without a clear count   *)
(* and are harmless, and rockets, that are one of two substances.          *)
(***************************************************************************)
EXTENDS Interview, TLC

CONSTANTS drums, rockets, flammable, explosive

MCCandidates == (drums :> {}) @@ (rockets :> {flammable, explosive})

\* Bounds: a line of each of the goods; a single line once entries have
\* outlived the removal of one; and the fewer lines, the more turns.
FewGoods ==
  /\ \A i, j \in DOMAIN wizard.lines :
       i # j => wizard.lines[i].article # wizard.lines[j].article
  /\ standing.renumbered => Len(wizard.lines) <= 1
  /\ Len(wizard.lines) + Cardinality(calls) <= 3
=============================================================================

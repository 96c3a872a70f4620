--------------------------- MODULE UpdaterProofs ---------------------------
(***************************************************************************)
(* Theorems of Updater for every number of containers and helpers: one     *)
(* update at a time, one application at a time, a working installation     *)
(* when it is over, and a report of success that is true.                  *)
(***************************************************************************)
EXTENDS Updater, FiniteSetTheorems, TLAPS

Record ==
  [name : {"emcargo"} \cup Helpers, release : {"present", "next"}, running : BOOLEAN, sound : BOOLEAN]

\* A healthy application of the new release.
Works(c) == c \in running /\ containers[c].sound /\ containers[c].release = "next"

Typed ==
  /\ containers \in [DOMAIN containers -> Record] /\ DOMAIN containers \subseteq Containers
  /\ file \in [phase : PHASES, recent : BOOLEAN]
  /\ worker \in [Containers -> [at : {"idle", "pull", "create", "start", "failing"},
                                helper : Helpers \cup {None}]]
  /\ helper \in [Helpers -> [at : Active \cup {"none", "created", "ended", "died"},
                             old : Containers \cup {None}, name : {None, "emcargo"} \cup Helpers,
                             new : Containers \cup {None}]]
  /\ faults \subseteq Faults

\* There is one application of the release that is there: the one that is
\* updated, whoever updates it.
Origins ==
  /\ \A c \in DOMAIN containers : containers[c].release = "present" => c = Original
  /\ \A c \in Containers : worker[c].at # "idle" => c = Original
  /\ \A c \in Containers : worker[c].at = "start" =>
       /\ worker[c].helper \in Helpers
       /\ helper[worker[c].helper] =
            [at |-> "created", old |-> Original, name |-> None, new |-> None]
  /\ \A h \in Helpers : helper[h].at # "none" => helper[h].old = Original

\* Where a helper is before it has a successor.
Early == {"none", "created", "inspect", "retain", "stop", "rename", "create"}

\* What a helper knows where it is; each has a successor of its own.
Knows ==
  /\ \A h \in Helpers :
       /\ helper[h].at \in Active \ {"inspect"} => helper[h].name \in {"emcargo"} \cup Helpers
       /\ helper[h].at \in {"start", "watch", "delete", "report", "undo_delete"} => helper[h].new # None
       /\ helper[h].at \in Early => helper[h].new = None
       /\ helper[h].new # Original
       /\ helper[h].at \in {"delete", "report"} => Works(helper[h].new)
  /\ \A g, h \in Helpers : g # h /\ helper[g].new = helper[h].new => helper[g].new = None
  /\ file.phase = "done" => \E h \in Helpers : helper[h].at = "ended" /\ Works(helper[h].new)

\* While a helper is at work the file says so and no thread is at work.
Alone ==
  /\ \A c \in Containers : worker[c].at = "start" => file.phase \in IN_PROGRESS /\ file.recent
  /\ \A c \in Containers : worker[c].at # "failing"
  /\ \A g \in active :
       /\ \A h \in active : g = h
       /\ \A c \in Containers : worker[c].at = "idle"
       /\ file.phase \in IN_PROGRESS /\ file.recent

\* The installed application alone, under a name, running or not.
Only(name, run) ==
  containers = [c \in {Original} |->
    [name |-> name, release |-> "present", running |-> run, sound |-> TRUE]]

\* It, stopped and put aside by h, and its successor.
Beside(h, run) ==
  /\ DOMAIN containers = {Original, helper[h].new}
  /\ containers[Original] = [name |-> h, release |-> "present", running |-> FALSE, sound |-> TRUE]
  /\ containers[helper[h].new].name = "emcargo" /\ containers[helper[h].new].release = "next"
  /\ containers[helper[h].new].running = run
  /\ containers[helper[h].new].sound \/ faults # {}

\* What helper h finds where it is.
Stage(h) ==
  LET at == helper[h].at IN
  /\ at # "inspect" => helper[h].name = "emcargo"
  /\ at \in {"inspect", "retain", "stop", "undo_report"} => Only("emcargo", TRUE)
  /\ at = "rename" => Only("emcargo", FALSE)
  /\ at = "create" => Only(h, FALSE)
  /\ at = "start" => Beside(h, FALSE)
  /\ at \in {"watch", "delete"} => Beside(h, TRUE)
  /\ at = "report" => running = {helper[h].new} /\ containers[helper[h].new].name = "emcargo"
  /\ at \in {"undo_delete", "undo_rename", "undo_start", "undo_report"} => faults # {}
  /\ at = "undo_delete" => \E run \in BOOLEAN : Beside(h, run)
  /\ at = "undo_rename" => \E n \in {"emcargo", h}, run \in BOOLEAN : Only(n, run)
  /\ at = "undo_start" => \E run \in BOOLEAN : Only("emcargo", run)

\* What is there when no helper is at work.
Quiet ==
  \/ Only("emcargo", TRUE) /\ file.phase # "done"
  \/ /\ \A c \in Containers : worker[c].at = "idle"
     /\ Original \notin running
     /\ \/ /\ file.phase = "done"
           /\ \E c \in Containers : running = {c} /\ Works(c) /\ containers[c].name = "emcargo"
        \/ /\ \E h \in Helpers : helper[h].at = "died"
           /\ \A x, y \in running : x = y

InPlace ==
  /\ active = {} => Quiet
  /\ \A h \in active : Stage(h)

General == Typed /\ Origins /\ Knows

-----------------------------------------------------------------------------
(* What the steps of a helper have in common *)

\* Helper h goes on with what it knows.
Turned(h) ==
  /\ helper[h].at \in Active
  /\ helper' = [helper EXCEPT ![h] = helper'[h]]
  /\ helper'[h] \in [at : Active \cup {"ended", "died"}, old : {Original},
                     name : {None, "emcargo"} \cup Helpers, new : Containers \cup {None}]
  /\ helper'[h].at \in Active \ {"inspect"} => helper'[h].name \in {"emcargo"} \cup Helpers
  /\ helper'[h].at \in {"start", "watch", "delete", "report", "undo_delete"} => helper'[h].new # None
  /\ helper'[h].at \in Early => helper'[h].new = None
  /\ helper'[h].at \in {"delete", "report"} => helper'[h].new = helper[h].new
  /\ helper'[h].at = "report" => helper[h].at = "delete"
  /\ helper[h].at = "report" => helper'[h].at = "died" \/ helper'[h].new = helper[h].new
  /\ \/ helper'[h].new \in {helper[h].new, None}
     \/ helper'[h].new # Original /\ \A g \in Helpers : helper[g].new # helper'[h].new

\* The containers are what they were, but for those that h may touch.
Changed(h) ==
  /\ containers' \in [DOMAIN containers' -> Record] /\ DOMAIN containers' \subseteq Containers
  /\ \A c \in DOMAIN containers' : containers'[c].release = "present" => c = Original
  /\ \A c : /\ Works(c) /\ c # Original
            /\ helper[h].at = "undo_delete" => c # helper[h].new
            => Works(c)'

\* It reports where it is.
Reported(h) ==
  /\ \/ UNCHANGED file /\ helper'[h].at # "ended"
     \/ file' = [phase |-> "stopping", recent |-> TRUE] /\ helper'[h].at # "ended"
     \/ file' = [phase |-> "failed", recent |-> TRUE] /\ helper'[h].at = "ended"
     \/ /\ file' = [phase |-> "done", recent |-> TRUE]
        /\ helper'[h].at = "ended" /\ helper[h].at = "report"
  /\ worker' = [c \in Containers |-> worker'[c]]
  /\ \A c \in Containers : worker'[c] \in {worker[c], Idle}
  /\ faults \subseteq faults' /\ faults' \subseteq Faults

Moved(h) ==
  Turned(h) /\ Changed(h) /\ Reported(h)
    /\ (helper'[h].at = "delete" => Works(helper[h].new)')

\* A helper that goes on to x.
LEMMA Goes ==
  ASSUME Typed, Origins, NEW h \in Helpers, NEW x, go(h, x), helper[h].at \in Active
  PROVE  /\ helper' = [helper EXCEPT ![h] = helper'[h]]
         /\ helper'[h] = [at |-> x, old |-> Original,
                          name |-> helper[h].name, new |-> helper[h].new]
<1>1. helper[h].old = Original
  BY DEF Origins, Active
<1> QED
  BY <1>1 DEF Typed, go

\* The containers are those there were.
LEMMA KeepsContainers ==
  ASSUME Typed, Origins, UNCHANGED containers, NEW h
  PROVE  Changed(h)
BY DEF Typed, Origins, Changed, Works, running

\* Container c is set to r.
LEMMA SetsContainer ==
  ASSUME Typed, Origins, NEW h, NEW c \in Containers, NEW r \in Record,
         \A x : Works(x) /\ x # Original => x # c \/ (r.running /\ r.sound /\ r.release = "next"),
         r.release = "present" => c = Original,
         DOMAIN containers' = DOMAIN containers \cup {c},
         \A x \in DOMAIN containers' : containers'[x] = IF x = c THEN r ELSE containers[x],
         containers' = [x \in DOMAIN containers' |-> containers'[x]]
  PROVE  Changed(h)
<1>1. \A x \in DOMAIN containers' : containers'[x] \in Record
  BY DEF Typed
<1>2. \A x : Works(x) /\ x # Original => Works(x)'
  BY DEF Works, running, Typed
<1> QED
  BY <1>1, <1>2 DEF Typed, Origins, Changed


\* Container c is gone.
LEMMA DropsContainer ==
  ASSUME Typed, Origins, NEW h \in Helpers, NEW c, containers' = without(c),
         c = Original \/ (helper[h].at = "undo_delete" /\ c = helper[h].new)
  PROVE  Changed(h)
<1>1. /\ DOMAIN containers' = DOMAIN containers \ {c}
      /\ \A x \in DOMAIN containers' : containers'[x] = containers[x]
      /\ containers' = [x \in DOMAIN containers' |-> containers'[x]]
  BY DEF without, Restrict
<1>2. \A x : Works(x) /\ x # c => Works(x)'
  BY <1>1 DEF Works, running
<1> QED
  BY <1>1, <1>2 DEF Typed, Origins, Changed

\* What a helper knows is of the right kind, and so is what it goes on with.
LEMMA GoesOn ==
  ASSUME General, NEW h \in Helpers, helper[h].at \in Active \ {"inspect"},
         NEW x \in Active \cup {"ended", "died"}, go(h, x),
         x \in {"start", "watch", "delete", "report", "undo_delete"} => helper[h].new # None,
         x \in {"stop", "rename", "create"} => helper[h].at \in {"retain", "stop", "rename"},
         x \notin {"inspect", "retain"}, x = "report" => helper[h].at = "delete"
  PROVE  Turned(h) /\ helper'[h].at = x /\ helper'[h].new = helper[h].new
<1>1. helper[h].name \in {"emcargo"} \cup Helpers /\ helper[h].old = Original
  BY DEF General, Knows, Origins, Active
<1>2. /\ helper' = [helper EXCEPT ![h] = helper'[h]]
      /\ helper'[h] = [at |-> x, old |-> Original, name |-> helper[h].name, new |-> helper[h].new]
  BY Goes DEF General
<1>3. /\ helper[h].name \in {None, "emcargo"} \cup Helpers /\ helper[h].new \in Containers \cup {None}
      /\ helper[h].at \in Early => helper[h].new = None
  BY DEF General, Typed, Knows
<1> QED
  BY <1>1, <1>2, <1>3 DEF Turned, Active, Early

\* Nobody's thread, and no news.
LEMMA SaysNothing ==
  ASSUME Typed, NEW h, UNCHANGED <<file, worker>>, helper'[h].at # "ended",
         faults \subseteq faults', faults' \subseteq Faults
  PROVE  Reported(h)
BY DEF Typed, Reported

\* The rollback starts where there is something to roll back.
LEMMA RollsBack ==
  ASSUME NEW h
  PROVE  /\ rollback(h) \in {"undo_rename", "undo_delete"}
         /\ rollback(h) = "undo_delete" => helper[h].new # None
BY DEF rollback

\* What a call does to the faults, and what it leaves.
LEMMA Calls ==
  ASSUME Typed, NEW possible, NEW after, NEW result,
         call(possible, after, result)
  PROVE  faults \subseteq faults' /\ faults' \subseteq Faults
BY DEF call, fail, Typed


-----------------------------------------------------------------------------
(* The steps of a helper, one by one *)

LEMMA InspectMoves == ASSUME General, NEW h \in Helpers, inspect(h) PROVE Moved(h)
<1> DEFINE old == helper[h].old
<1>1. PICK result \in {"ok", "refused", "raised"} :
        /\ call(old \in DOMAIN containers, containers, result)
        /\ helper' = [helper EXCEPT
             ![h].at   = CASE result = "ok" -> "retain" [] result = "refused" -> "ended"
                           [] OTHER -> "died",
             ![h].name = IF result = "ok" THEN containers[old].name ELSE None]
        /\ IF result = "refused" THEN write_state("failed") ELSE UNCHANGED file
  BY DEF inspect
<1>2. /\ helper[h].at = "inspect" /\ UNCHANGED worker
      /\ old = Original /\ helper[h] = [at |-> "inspect", old |-> old, name |-> helper[h].name, new |-> helper[h].new]
      /\ helper[h].new = None
  BY DEF inspect, General, Typed, Origins, Knows, Early
<1>3. result = "ok" => old \in DOMAIN containers /\ containers[old].name \in {"emcargo"} \cup Helpers
  BY <1>1 DEF call, General, Typed, Record
<1>4. helper'[h] = [at |-> CASE result = "ok" -> "retain" [] result = "refused" -> "ended" [] OTHER -> "died",
                    old |-> old, name |-> IF result = "ok" THEN containers[old].name ELSE None,
                    new |-> helper[h].new]
  BY <1>1, <1>2 DEF General, Typed
<1>5. helper' = [helper EXCEPT ![h] = helper'[h]]
  BY <1>1, <1>4 DEF General, Typed
<1>6. Turned(h)
  <2> HIDE DEF old
  <2>1. CASE result = "ok"
    BY <1>2, <1>3, <1>4, <1>5, <2>1 DEF Turned, Active, Early
  <2>2. CASE result = "refused"
    BY <1>2, <1>4, <1>5, <2>2 DEF Turned, Active, Early
  <2>3. CASE result = "raised"
    BY <1>2, <1>4, <1>5, <2>3 DEF Turned, Active, Early
  <2> QED
    BY <1>1, <2>1, <2>2, <2>3
<1>7. UNCHANGED containers
  BY <1>1 DEF call
<1>8. faults \subseteq faults' /\ faults' \subseteq Faults
  BY <1>1, Calls DEF General
<1>9. Reported(h)
  BY <1>1, <1>2, <1>4, <1>8 DEF Reported, write_state, General, Typed
<1> QED
  BY <1>4, <1>6, <1>7, <1>9, KeepsContainers DEF Moved, General

\* The original stops, starts, or gets another name.
LEMMA SetsOriginal ==
  ASSUME General, NEW h \in Helpers, Original \in DOMAIN containers,
         \/ \E b \in BOOLEAN : containers' = [containers EXCEPT ![Original].running = b]
         \/ \E n \in {"emcargo"} \cup Helpers : containers' = [containers EXCEPT ![Original].name = n]
  PROVE  Changed(h)
<1>1. containers[Original] \in Record /\ Original \in Containers
  BY UpdaterAssumption DEF General, Typed
<1>2. \E r \in Record : containers' = [containers EXCEPT ![Original] = r]
  <2>1. CASE \E b \in BOOLEAN : containers' = [containers EXCEPT ![Original].running = b]
    <3>1. PICK b \in BOOLEAN : containers' = [containers EXCEPT ![Original].running = b]
      BY <2>1
    <3>2. [containers[Original] EXCEPT !.running = b] \in Record
      BY <1>1 DEF Record
    <3> QED
      BY <3>1, <3>2
  <2>2. CASE \E n \in {"emcargo"} \cup Helpers : containers' = [containers EXCEPT ![Original].name = n]
    <3>1. PICK n \in {"emcargo"} \cup Helpers : containers' = [containers EXCEPT ![Original].name = n]
      BY <2>2
    <3>2. [containers[Original] EXCEPT !.name = n] \in Record
      BY <1>1 DEF Record
    <3> QED
      BY <3>1, <3>2
  <2> QED
    BY <2>1, <2>2
<1>3. PICK r \in Record : containers' = [containers EXCEPT ![Original] = r]
  BY <1>2
<1>4. containers' = [x \in DOMAIN containers |-> IF x = Original THEN r ELSE containers[x]]
  BY <1>3
<1>5. DOMAIN containers' = DOMAIN containers \cup {Original}
  BY <1>4
<1>6. \A x \in DOMAIN containers' : containers'[x] = IF x = Original THEN r ELSE containers[x]
  BY <1>4
<1>7. containers' = [x \in DOMAIN containers' |-> containers'[x]]
  BY <1>4
<1> QED
  BY <1>1, <1>5, <1>6, <1>7, SetsContainer DEF General

LEMMA RetainTemplatesMoves ==
  ASSUME General, NEW h \in Helpers, retain_templates(h) PROVE Moved(h)
<1>1. /\ helper[h].at = "retain" /\ (go(h, "stop") \/ go(h, rollback(h)))
      /\ UNCHANGED containers
      /\ faults \subseteq faults' /\ faults' \subseteq Faults
  BY DEF retain_templates, step, call, fail, General, Typed
<1>2. Turned(h) /\ helper'[h].at \in Active \ {"delete"}
  BY <1>1, GoesOn, RollsBack DEF Active
<1>3. Changed(h)
  BY <1>1, KeepsContainers DEF General
<1>4. Reported(h)
  BY <1>1, <1>2 DEF retain_templates, Reported, write_state, General, Typed, Active
<1> QED
  BY <1>1, <1>2, <1>3, <1>4 DEF Moved

LEMMA StopMoves == ASSUME General, NEW h \in Helpers, stop(h) PROVE Moved(h)
<1> DEFINE old == helper[h].old
<1>1. /\ helper[h].at = "stop" /\ (go(h, "rename") \/ go(h, rollback(h)))
      /\ UNCHANGED containers \/ (/\ old \in DOMAIN containers
                                  /\ containers' = [containers EXCEPT ![old].running = FALSE])
      /\ faults \subseteq faults' /\ faults' \subseteq Faults
  BY DEF stop, step, call, fail, General, Typed
<1>2. Turned(h) /\ helper'[h].at \in Active \ {"delete"}
  BY <1>1, GoesOn, RollsBack DEF Active
<1>3. old = Original
  BY <1>1 DEF General, Origins
<1>4. Changed(h)
  BY <1>1, <1>3, KeepsContainers, SetsOriginal DEF General
<1>5. Reported(h)
  BY <1>1, <1>2, <1>3 DEF stop, Reported, Active, General, Typed
<1> QED
  BY <1>1, <1>2, <1>4, <1>5 DEF Moved

LEMMA RenameMoves == ASSUME General, NEW h \in Helpers, rename(h) PROVE Moved(h)
<1>1. /\ helper[h].at = "rename" /\ (go(h, "create") \/ go(h, rollback(h)))
      /\ \/ UNCHANGED containers
         \/ /\ helper[h].old \in DOMAIN containers
            /\ containers' = [containers EXCEPT ![helper[h].old].name = h]
      /\ faults \subseteq faults' /\ faults' \subseteq Faults
  BY DEF rename, step, call, fail, General, Typed
<1>2. Turned(h) /\ helper'[h].at \in Active \ {"delete"}
  BY <1>1, GoesOn, RollsBack DEF Active
<1>3. helper[h].old = Original
  BY <1>1 DEF General, Origins
<1>4. Changed(h)
  BY <1>1, <1>3, KeepsContainers, SetsOriginal DEF General
<1>5. Reported(h)
  BY <1>1, <1>2, SaysNothing DEF rename, Active, General
<1> QED
  BY <1>1, <1>2, <1>4, <1>5 DEF Moved

\* What create() does to what a helper knows.
LEMMA SucceededBy ==
  ASSUME General, NEW h \in Helpers, helper[h].at # "none", NEW x, NEW n,
         helper' = [helper EXCEPT ![h].at = x, ![h].new = n]
  PROVE  /\ helper'[h] = [at |-> x, old |-> Original, name |-> helper[h].name, new |-> n]
         /\ helper' = [helper EXCEPT ![h] = helper'[h]]
<1>1. helper[h].old = Original
  BY DEF General, Origins
<1>2. PICK A, N, S : helper \in [Helpers -> [at : A, old : Containers \cup {None}, name : N, new : S]]
  BY DEF General, Typed
<1>3. helper'[h] = [at |-> x, old |-> Original, name |-> helper[h].name, new |-> n]
  BY <1>1, <1>2
<1> QED
  BY <1>2, <1>3

LEMMA CreateMoves == ASSUME General, NEW h \in Helpers, create(h) PROVE Moved(h)
<1>1. PICK c \in Containers \ (DOMAIN containers \cup {helper[g].old : g \in Helpers}
                                 \cup {helper[g].new : g \in Helpers}),
           sound \in BOOLEAN, result \in {"ok", "refused", "raised", "lost"} :
        LET new == [name |-> helper[h].name, release |-> "next", running |-> FALSE, sound |-> sound]
            after == [x \in DOMAIN containers \cup {c} |-> IF x = c THEN new ELSE containers[x]]
        IN  /\ IF sound THEN call(named(helper[h].name) = {}, after, result)
               ELSE result = "ok" /\ named(helper[h].name) = {} /\ fail("unsound") /\ containers' = after
            /\ helper' = [helper EXCEPT
                 ![h].at  = IF result = "ok" THEN "start" ELSE rollback(h),
                 ![h].new = IF result = "ok" THEN c ELSE None]
  BY DEF create
<1> DEFINE new == [name |-> helper[h].name, release |-> "next", running |-> FALSE, sound |-> sound]
<1>2. /\ helper[h].at = "create" /\ UNCHANGED <<file, worker>>
      /\ helper[h].old = Original /\ helper[h].name \in {"emcargo"} \cup Helpers
      /\ helper[h].new = None
  BY DEF create, General, Typed, Origins, Knows, Active, Early
<1>3. /\ UNCHANGED containers
         \/ containers' = [x \in DOMAIN containers \cup {c} |-> IF x = c THEN new ELSE containers[x]]
      /\ faults \subseteq faults' /\ faults' \subseteq Faults
  <2> HIDE DEF new
  <2>1. CASE sound
    BY <1>1, <2>1 DEF call, fail, General, Typed, new
  <2>2. CASE ~sound
    BY <1>1, <2>2 DEF fail, General, Typed, new
  <2> QED
    BY <2>1, <2>2
<1>4. Changed(h)
  <2>1. CASE UNCHANGED containers
    BY <2>1, KeepsContainers DEF General
  <2>2. CASE containers' = [x \in DOMAIN containers \cup {c} |-> IF x = c THEN new ELSE containers[x]]
    <3>1. new \in Record /\ new.release # "present"
      BY <1>1, <1>2 DEF Record
    <3> HIDE DEF new
    <3>2. \A x : Works(x) /\ x # Original => x # c
      BY <1>1 DEF Works, running
    <3> QED
      BY <1>1, <2>2, <3>1, <3>2, SetsContainer DEF General
  <2> QED
    BY <1>3, <2>1, <2>2
<1>5. /\ helper'[h] = [at |-> IF result = "ok" THEN "start" ELSE rollback(h), old |-> Original,
                       name |-> helper[h].name, new |-> IF result = "ok" THEN c ELSE None]
      /\ helper' = [helper EXCEPT ![h] = helper'[h]]
  <2> DEFINE x == IF result = "ok" THEN "start" ELSE rollback(h)
             n == IF result = "ok" THEN c ELSE None
  <2>1. helper' = [helper EXCEPT ![h].at = x, ![h].new = n] /\ helper[h].at # "none"
    BY <1>1, <1>2
  <2> HIDE DEF x, n
  <2>2. /\ helper'[h] = [at |-> x, old |-> Original, name |-> helper[h].name, new |-> n]
        /\ helper' = [helper EXCEPT ![h] = helper'[h]]
    BY <2>1, SucceededBy
  <2> QED
    BY <2>2 DEF x, n
<1>6. Turned(h)
  <2>1. c \in Containers /\ c # Original /\ \A g \in Helpers : helper[g].new # c
    BY <1>1, <1>2
  <2>2. CASE result = "ok"
    <3>1. c # None
      BY <2>1, UpdaterAssumption
    <3> QED
      BY <1>2, <1>5, <2>1, <2>2, <3>1 DEF Turned, Active, Early
  <2>3. CASE result # "ok"
    BY <1>2, <1>5, <2>3 DEF Turned, Active, Early, rollback
  <2> QED
    BY <2>2, <2>3
<1>7. helper'[h].at \in Active \ {"delete"}
  BY <1>5, RollsBack DEF Active
<1>8. Reported(h)
  BY <1>2, <1>3, <1>7, SaysNothing DEF Active, General
<1> QED
  BY <1>4, <1>6, <1>7, <1>8 DEF Moved

\* A container that is there is started.
LEMMA StartsContainer ==
  ASSUME General, NEW h \in Helpers, NEW c \in DOMAIN containers,
         containers' = [containers EXCEPT ![c].running = TRUE]
  PROVE  Changed(h)
<1>1. containers[c] \in Record /\ c \in Containers
  BY DEF General, Typed
<1>2. PICK r \in Record :
        /\ containers' = [containers EXCEPT ![c] = r] /\ r.running
        /\ r.release = containers[c].release /\ r.sound = containers[c].sound
  <2>1. [containers[c] EXCEPT !.running = TRUE] \in Record
    BY <1>1 DEF Record
  <2>2. /\ [containers[c] EXCEPT !.running = TRUE].running
        /\ [containers[c] EXCEPT !.running = TRUE].release = containers[c].release
        /\ [containers[c] EXCEPT !.running = TRUE].sound = containers[c].sound
    BY <1>1 DEF Record
  <2> QED
    BY <2>1, <2>2
<1>3. r.release = "present" => c = Original
  BY <1>2 DEF General, Origins
<1>4. containers' = [x \in DOMAIN containers |-> IF x = c THEN r ELSE containers[x]]
  BY <1>2
<1>5. DOMAIN containers' = DOMAIN containers \cup {c}
  BY <1>4
<1>6. \A x \in DOMAIN containers' : containers'[x] = IF x = c THEN r ELSE containers[x]
  BY <1>4
<1>7. containers' = [x \in DOMAIN containers' |-> containers'[x]]
  BY <1>4
<1>8. \A x : Works(x) /\ x # Original => x # c \/ (r.running /\ r.sound /\ r.release = "next")
  BY <1>2 DEF Works
<1> QED
  BY <1>1, <1>3, <1>5, <1>6, <1>7, <1>8, SetsContainer DEF General

LEMMA StartMoves == ASSUME General, NEW h \in Helpers, start(h) PROVE Moved(h)
<1> DEFINE new == helper[h].new
<1>1. /\ helper[h].at = "start" /\ (go(h, "watch") \/ go(h, rollback(h)))
      /\ \/ UNCHANGED containers
         \/ new \in DOMAIN containers /\ containers' = [containers EXCEPT ![new].running = TRUE]
      /\ faults \subseteq faults' /\ faults' \subseteq Faults
  <2>1. PICK possible \in startable(new) :
          step(h, "start", possible, [containers EXCEPT ![new].running = TRUE],
               "watch", rollback(h), rollback(h))
    BY DEF start
  <2>2. possible = FALSE \/ (possible = TRUE /\ new \in DOMAIN containers)
    BY DEF startable
  <2> HIDE DEF new
  <2>3. CASE possible = FALSE
    BY <2>1, <2>3 DEF step, call, fail, General, Typed
  <2>4. CASE possible = TRUE /\ new \in DOMAIN containers
    BY <2>1, <2>4 DEF step, call, fail, General, Typed
  <2> QED
    BY <2>2, <2>3, <2>4
<1>2. Turned(h) /\ helper'[h].at \in Active \ {"delete"}
  <2>1. new # None
    BY <1>1 DEF General, Knows
  <2> QED
    BY <1>1, <2>1, GoesOn, RollsBack DEF Active
<1>3. Changed(h)
  BY <1>1, KeepsContainers, StartsContainer DEF General
<1>4. Reported(h)
  BY <1>1, <1>2, SaysNothing DEF start, Active, General
<1> QED
  BY <1>1, <1>2, <1>3, <1>4 DEF Moved

LEMMA WaitMoves == ASSUME General, NEW h \in Helpers, wait_until_running(h) PROVE Moved(h)
<1> DEFINE new == helper[h].new
<1>1. /\ helper[h].at = "watch" /\ UNCHANGED containers
      /\ (go(h, "delete") /\ new \in running /\ containers[new].sound) \/ go(h, rollback(h))
      /\ faults \subseteq faults' /\ faults' \subseteq Faults
  BY DEF wait_until_running, step, call, fail, General, Typed
<1>2. new # None /\ new # Original
  BY <1>1 DEF General, Knows
<1>3. Turned(h) /\ helper'[h].at \in Active
  BY <1>1, <1>2, GoesOn, RollsBack DEF Active
<1>4. helper'[h].at = "delete" => Works(new)'
  <2>1. CASE go(h, "delete") /\ new \in running /\ containers[new].sound
    <3>1. helper'[h].new = new
      BY <1>1, <1>2, <2>1, GoesOn DEF Active
    <3>2. Works(new)
      BY <1>2, <2>1 DEF Works, running, General, Typed, Origins, Record
    <3> QED
      BY <1>1, <3>1, <3>2 DEF Works, running
  <2>2. CASE go(h, rollback(h))
    BY <1>1, <1>2, <2>2, GoesOn, RollsBack DEF Active
  <2> QED
    BY <1>1, <2>1, <2>2
<1>5. Changed(h)
  BY <1>1, KeepsContainers DEF General
<1>6. Reported(h)
  BY <1>1, <1>3, SaysNothing DEF wait_until_running, Active, General
<1> QED
  BY <1>1, <1>3, <1>4, <1>5, <1>6 DEF Moved

LEMMA DeleteMoves == ASSUME General, NEW h \in Helpers, delete(h) PROVE Moved(h)
<1>1. /\ helper[h].at = "delete" /\ (go(h, "report") \/ go(h, rollback(h)))
      /\ UNCHANGED containers \/ containers' = without(helper[h].old)
      /\ faults \subseteq faults' /\ faults' \subseteq Faults
  BY DEF delete, step, call, fail, General, Typed
<1>2. helper[h].new # None /\ helper[h].old = Original
  BY <1>1 DEF General, Knows, Origins
<1>3. Turned(h) /\ helper'[h].at \in Active \ {"delete"}
  BY <1>1, <1>2, GoesOn, RollsBack DEF Active
<1>4. Changed(h)
  BY <1>1, <1>2, KeepsContainers, DropsContainer DEF General
<1>5. Reported(h)
  BY <1>1, <1>3, SaysNothing DEF delete, Active, General
<1> QED
  BY <1>1, <1>3, <1>4, <1>5 DEF Moved

LEMMA ReportMoves == ASSUME General, NEW h \in Helpers, report(h) PROVE Moved(h)
<1>1. helper[h].at = "report" /\ go(h, "ended") /\ UNCHANGED <<containers, worker, faults>>
  BY DEF report
<1>2. Turned(h) /\ helper'[h].at = "ended"
  BY <1>1, GoesOn DEF Active
<1>3. Changed(h)
  BY <1>1, KeepsContainers DEF General
<1>4. Reported(h)
  BY <1>1, <1>2 DEF report, Reported, write_state, General, Typed
<1> QED
  BY <1>2, <1>3, <1>4 DEF Moved

LEMMA UndoDeleteMoves == ASSUME General, NEW h \in Helpers, undo_delete(h) PROVE Moved(h)
<1>1. /\ helper[h].at = "undo_delete" /\ (go(h, "undo_rename") \/ go(h, "died"))
      /\ UNCHANGED containers \/ containers' = without(helper[h].new)
      /\ faults \subseteq faults' /\ faults' \subseteq Faults
  BY DEF undo_delete, step, call, fail, General, Typed
<1>2. Turned(h) /\ helper'[h].at \in {"undo_rename", "died"}
  BY <1>1, GoesOn DEF Active
<1>3. Changed(h)
  BY <1>1, KeepsContainers, DropsContainer DEF General
<1>4. Reported(h)
  BY <1>1, <1>2, SaysNothing DEF undo_delete, General
<1> QED
  BY <1>1, <1>2, <1>3, <1>4 DEF Moved

LEMMA UndoRenameMoves == ASSUME General, NEW h \in Helpers, undo_rename(h) PROVE Moved(h)
<1> DEFINE old == helper[h].old
<1>1. /\ helper[h].at = "undo_rename" /\ (go(h, "undo_start") \/ go(h, "died"))
      /\ \/ UNCHANGED containers
         \/ /\ old \in DOMAIN containers
            /\ containers' = [containers EXCEPT ![old].name = helper[h].name]
      /\ faults \subseteq faults' /\ faults' \subseteq Faults
  BY DEF undo_rename, step, call, fail, General, Typed
<1>2. Turned(h) /\ helper'[h].at \in {"undo_start", "died"}
  BY <1>1, GoesOn DEF Active
<1>3. old = Original /\ helper[h].name \in {"emcargo"} \cup Helpers
  BY <1>1 DEF General, Origins, Knows, Active
<1>4. Changed(h)
  BY <1>1, <1>3, KeepsContainers, SetsOriginal DEF General
<1>5. Reported(h)
  BY <1>1, <1>2, SaysNothing DEF undo_rename, General
<1> QED
  BY <1>1, <1>2, <1>4, <1>5 DEF Moved

LEMMA UndoStartMoves == ASSUME General, NEW h \in Helpers, undo_start(h) PROVE Moved(h)
<1> DEFINE old == helper[h].old
<1>1. /\ helper[h].at = "undo_start" /\ (go(h, "undo_report") \/ go(h, "died"))
      /\ \/ UNCHANGED containers
         \/ old \in DOMAIN containers /\ containers' = [containers EXCEPT ![old].running = TRUE]
      /\ faults \subseteq faults' /\ faults' \subseteq Faults
  <2>1. PICK possible \in startable(old) \cup {FALSE : x \in {old} \ DOMAIN containers} :
          step(h, "undo_start", possible, [containers EXCEPT ![old].running = TRUE],
               "undo_report", "undo_report", "died")
    BY DEF undo_start
  <2>2. possible = FALSE \/ (possible = TRUE /\ old \in DOMAIN containers)
    BY DEF startable
  <2> HIDE DEF old
  <2>3. CASE possible = FALSE
    BY <2>1, <2>3 DEF step, call, fail, General, Typed
  <2>4. CASE possible = TRUE /\ old \in DOMAIN containers
    BY <2>1, <2>4 DEF step, call, fail, General, Typed
  <2> QED
    BY <2>2, <2>3, <2>4
<1>2. Turned(h) /\ helper'[h].at \in {"undo_report", "died"}
  BY <1>1, GoesOn DEF Active
<1>3. Changed(h)
  BY <1>1, KeepsContainers, StartsContainer DEF General
<1>4. Reported(h)
  BY <1>1, <1>2, SaysNothing DEF undo_start, General
<1> QED
  BY <1>1, <1>2, <1>3, <1>4 DEF Moved

LEMMA UndoReportMoves == ASSUME General, NEW h \in Helpers, undo_report(h) PROVE Moved(h)
<1>1. helper[h].at = "undo_report" /\ go(h, "ended") /\ UNCHANGED <<containers, worker, faults>>
  BY DEF undo_report
<1>2. Turned(h) /\ helper'[h].at = "ended"
  BY <1>1, GoesOn DEF Active
<1>3. Changed(h)
  BY <1>1, KeepsContainers DEF General
<1>4. Reported(h)
  BY <1>1, <1>2 DEF undo_report, Reported, write_state, General, Typed
<1> QED
  BY <1>2, <1>3, <1>4 DEF Moved

LEMMA KillMoves == ASSUME General, NEW h \in Helpers, kill(h) PROVE Moved(h)
<1>1. helper[h].at \in Active /\ go(h, "died") /\ UNCHANGED <<containers, file, worker>>
  BY DEF kill, active
<1>2. /\ helper' = [helper EXCEPT ![h] = helper'[h]]
      /\ helper'[h] = [at |-> "died", old |-> Original, name |-> helper[h].name, new |-> helper[h].new]
  BY <1>1, Goes DEF General
<1>3. Turned(h)
  <2>1. helper[h].name \in {None, "emcargo"} \cup Helpers /\ helper[h].new \in Containers \cup {None}
    BY DEF General, Typed
  <2> QED
    BY <1>1, <1>2, <2>1 DEF Turned, Early, Active
<1>4. Changed(h)
  BY <1>1, KeepsContainers DEF General
<1>5. Reported(h)
  BY <1>1, <1>2, SaysNothing DEF kill, fail, General, Typed
<1> QED
  BY <1>2, <1>3, <1>4, <1>5 DEF Moved

\* Whatever a helper does.
LEMMA MainMoves == ASSUME General, NEW h \in Helpers, main(h) \/ kill(h) PROVE Moved(h)
BY InspectMoves, RetainTemplatesMoves, StopMoves, RenameMoves, CreateMoves, StartMoves,
   WaitMoves, DeleteMoves, ReportMoves, UndoDeleteMoves, UndoRenameMoves, UndoStartMoves,
   UndoReportMoves, KillMoves DEF main

-----------------------------------------------------------------------------
(* What holds whatever goes wrong *)

\* A move keeps what is general.
LEMMA MovedGeneral ==
  ASSUME General, NEW h \in Helpers, Moved(h) PROVE General'
<1>1. /\ Turned(h) /\ Changed(h) /\ Reported(h)
      /\ helper'[h].at = "delete" => Works(helper[h].new)'
  BY DEF Moved
<1>2. \A g \in Helpers : g # h => helper'[g] = helper[g]
  BY <1>1 DEF Turned, General, Typed
<1>3. Typed'
  <2>1. containers' \in [DOMAIN containers' -> Record] /\ DOMAIN containers' \subseteq Containers
    BY <1>1 DEF Changed
  <2>2. file' \in [phase : PHASES, recent : BOOLEAN] /\ faults' \subseteq Faults
    <3>1. \A p \in {"stopping", "failed", "done"} :
            [phase |-> p, recent |-> TRUE] \in [phase : PHASES, recent : BOOLEAN]
      BY DEF PHASES, IN_PROGRESS
    <3>2. file \in [phase : PHASES, recent : BOOLEAN]
      BY DEF General, Typed
    <3> QED
      BY <1>1, <3>1, <3>2 DEF Reported
  <2>3. worker' \in [Containers -> [at : {"idle", "pull", "create", "start", "failing"},
                                    helper : Helpers \cup {None}]]
    BY <1>1 DEF Reported, Idle, General, Typed
  <2>4. helper' \in [Helpers -> [at : Active \cup {"none", "created", "ended", "died"},
                                 old : Containers \cup {None}, name : {None, "emcargo"} \cup Helpers,
                                 new : Containers \cup {None}]]
    BY <1>1, UpdaterAssumption DEF Turned, General, Typed
  <2> QED
    BY <2>1, <2>2, <2>3, <2>4 DEF Typed, Record
<1>4. Origins'
  <2>1. \A c \in Containers : worker'[c].at # "idle" => worker'[c] = worker[c]
    BY <1>1 DEF Reported, Idle
  <2>2. helper[h].at # "created" /\ helper'[h].old = Original
    BY <1>1 DEF Turned, Active
  <2>3. \A c \in DOMAIN containers' : containers'[c].release = "present" => c = Original
    BY <1>1 DEF Changed
  <2> QED
    BY <1>2, <2>1, <2>2, <2>3 DEF General, Origins
<1>5. Knows'
  <2>1. \A g \in Helpers :
          /\ helper'[g].at \in Active \ {"inspect"} => helper'[g].name \in {"emcargo"} \cup Helpers
          /\ helper'[g].at \in {"start", "watch", "delete", "report", "undo_delete"} => helper'[g].new # None
          /\ helper'[g].at \in Early => helper'[g].new = None
          /\ helper'[g].new # Original
    <3>1. helper'[h].new # Original
      BY <1>1, UpdaterAssumption DEF Turned, General, Knows
    <3> QED
      BY <1>1, <1>2, <3>1 DEF Turned, General, Knows
  <2>2. \A f, g \in Helpers : f # g /\ helper'[f].new = helper'[g].new => helper'[f].new = None
    BY <1>1, <1>2 DEF Turned, General, Knows
  <2>3. \A c : /\ Works(c) /\ c # Original
               /\ helper[h].at = "undo_delete" => c # helper[h].new
               => Works(c)'
    BY <1>1 DEF Changed
  <2>4. \A g \in Helpers : g # h /\ helper[g].at \in {"delete", "report", "ended"} /\ Works(helper[g].new)
                             => Works(helper[g].new)'
    <3>1. \A g \in Helpers : g # h /\ Works(helper[g].new) /\ helper[h].at = "undo_delete" =>
            helper[g].new # helper[h].new
      BY DEF General, Knows
    <3> QED
      BY <1>2, <2>3, <3>1 DEF General, Knows
  <2>5. ASSUME NEW g \in Helpers, helper'[g].at \in {"delete", "report"}
        PROVE  Works(helper[g].new)'
    <3>1. CASE g # h
      BY <1>2, <2>4, <2>5, <3>1 DEF General, Knows
    <3>2. CASE g = h /\ helper'[g].at = "delete"
      BY <1>1, <3>2 DEF Turned
    <3>3. CASE g = h /\ helper'[g].at = "report"
      BY <1>1, <2>3, <3>3 DEF Turned, General, Knows
    <3> QED
      BY <2>5, <3>1, <3>2, <3>3
  <2>6. ASSUME file'.phase = "done"
        PROVE  \E g \in Helpers : helper'[g].at = "ended" /\ Works(helper[g].new)'
    <3>1. CASE UNCHANGED file
      <4>1. PICK g \in Helpers : helper[g].at = "ended" /\ Works(helper[g].new)
        BY <2>6, <3>1 DEF General, Knows
      <4>2. g # h
        BY <1>1, <4>1 DEF Turned, Active
      <4> QED
        BY <1>2, <2>4, <4>1, <4>2
    <3>2. CASE file' # file
      <4>1. helper'[h].at = "ended" /\ helper[h].at = "report"
        BY <1>1, <2>6, <3>2 DEF Reported
      <4> QED
        BY <1>1, <2>3, <4>1 DEF Turned, General, Knows
    <3> QED
      BY <3>1, <3>2
  <2> QED
    BY <2>1, <2>2, <2>5, <2>6 DEF Knows, Works, running
<1> QED
  BY <1>3, <1>4, <1>5 DEF General

\* So does a step of the application.
Threaded(c) ==
  /\ UNCHANGED containers /\ faults \subseteq faults' /\ faults' \subseteq Faults
  /\ worker' = [worker EXCEPT ![c] = worker'[c]]
  /\ worker'[c] \in [at : {"idle", "pull", "create", "start", "failing"}, helper : Helpers \cup {None}]
  /\ worker'[c].at # "idle" => c = Original
  /\ UNCHANGED file \/ \E p \in {"pulling", "handed_over", "failed"} : write_state(p)
  /\ \/ UNCHANGED helper /\ (worker'[c].at = "start" => worker'[c] = worker[c])
     \/ \E h \in Helpers :
          /\ helper[h] = NoHelper /\ c = Original
          /\ worker'[c] = [at |-> "start", helper |-> h]
          /\ helper' = [helper EXCEPT ![h] = [at |-> "created", old |-> c, name |-> None, new |-> None]]
     \/ /\ worker[c].at = "start" /\ worker'[c].at # "start"
        /\ helper' = [helper EXCEPT ![worker[c].helper].at = "inspect"]

LEMMA ThreadedGeneral ==
  ASSUME General, NEW c \in Containers, Threaded(c) PROVE General'
<1>1. \A x \in Containers : x # c => worker'[x] = worker[x]
  BY DEF Threaded, General, Typed
<1>2. /\ Typed'
  <2>1. worker' \in [Containers -> [at : {"idle", "pull", "create", "start", "failing"},
                                    helper : Helpers \cup {None}]]
    BY DEF Threaded, General, Typed
  <2>2. file' \in [phase : PHASES, recent : BOOLEAN]
    <3>1. \A p \in {"pulling", "handed_over", "failed"} :
            [phase |-> p, recent |-> TRUE] \in [phase : PHASES, recent : BOOLEAN]
      BY DEF PHASES, IN_PROGRESS
    <3>2. file \in [phase : PHASES, recent : BOOLEAN]
      BY DEF General, Typed
    <3> QED
      BY <3>1, <3>2 DEF Threaded, write_state
  <2>3. helper' \in [Helpers -> [at : Active \cup {"none", "created", "ended", "died"},
                                 old : Containers \cup {None}, name : {None, "emcargo"} \cup Helpers,
                                 new : Containers \cup {None}]]
    BY DEF Threaded, General, Typed, Active
  <2> QED
    BY <2>1, <2>2, <2>3 DEF Threaded, General, Typed, Record
<1>3. CASE UNCHANGED helper /\ (worker'[c].at = "start" => worker'[c] = worker[c])
  <2>1. Origins'
    BY <1>1, <1>3 DEF Threaded, General, Origins
  <2>2. file'.phase = "done" => UNCHANGED file
    BY DEF Threaded, write_state
  <2>3. Knows'
    BY <1>3, <2>2 DEF Threaded, General, Knows, Works, running
  <2> QED
    BY <1>2, <2>1, <2>3 DEF General
<1>4. ASSUME NEW h \in Helpers, helper' = [helper EXCEPT ![h] = helper'[h]],
             helper[h].at \in {"none", "created"}, helper'[h].at \in {"created", "inspect"},
             helper'[h].old = Original, helper'[h].new = None,
             \A x \in Containers : worker'[x].at = "start" /\ worker'[x].helper = h =>
               helper'[h] = [at |-> "created", old |-> Original, name |-> None, new |-> None],
             worker'[c].at = "start" => worker'[c].helper = h
      PROVE  General'
  <2>1. \A g \in Helpers : g # h => helper'[g] = helper[g]
    BY <1>4 DEF General, Typed
  <2>2. Origins'
    BY <1>1, <1>4, <2>1 DEF Threaded, General, Origins
  <2>3. file'.phase = "done" => UNCHANGED file
    BY DEF Threaded, write_state
  <2>4. Original # None
    BY UpdaterAssumption
  <2>5. \A x : Works(x) => /\ x \in DOMAIN containers' /\ containers'[x].running
                          /\ containers'[x].sound /\ containers'[x].release = "next"
    BY DEF Threaded, Works, running
  <2>6. \A g \in Helpers :
          /\ helper'[g].at \in Active \ {"inspect"} => helper'[g].name \in {"emcargo"} \cup Helpers
          /\ helper'[g].at \in {"start", "watch", "delete", "report", "undo_delete"} => helper'[g].new # None
          /\ helper'[g].at \in Early => helper'[g].new = None
          /\ helper'[g].new # Original
    BY <1>4, <2>1, <2>4 DEF General, Knows, Active
  <2>7. \A f, g \in Helpers : f # g /\ helper'[f].new = helper'[g].new => helper'[f].new = None
    BY <1>4, <2>1 DEF General, Knows
  <2>8. \A g \in Helpers : helper'[g].at \in {"delete", "report"} => Works(helper'[g].new)
    BY <1>4, <2>1 DEF General, Knows
  <2>9. file'.phase = "done" => \E g \in Helpers : helper'[g].at = "ended" /\ Works(helper'[g].new)
    BY <1>4, <2>1, <2>3 DEF General, Knows
  <2>10. Knows'
    BY <2>5, <2>6, <2>7, <2>8, <2>9 DEF Knows, Works, running
  <2> QED
    BY <1>2, <2>2, <2>10 DEF General
<1>5. CASE \E h \in Helpers :
          /\ helper[h] = NoHelper /\ c = Original
          /\ worker'[c] = [at |-> "start", helper |-> h]
          /\ helper' = [helper EXCEPT ![h] = [at |-> "created", old |-> c, name |-> None, new |-> None]]
  <2>1. PICK h \in Helpers :
          /\ helper[h] = NoHelper /\ c = Original
          /\ worker'[c] = [at |-> "start", helper |-> h]
          /\ helper' = [helper EXCEPT ![h] = [at |-> "created", old |-> c, name |-> None, new |-> None]]
    BY <1>5
  <2>2. helper'[h] = [at |-> "created", old |-> Original, name |-> None, new |-> None]
    BY <2>1 DEF General, Typed
  <2>3. helper[h].at = "none"
    BY <2>1 DEF NoHelper
  <2>4. helper' = [helper EXCEPT ![h] = helper'[h]]
    BY <2>1, <2>2
  <2>5. worker'[c].helper = h
    BY <2>1
  <2> QED
    BY <1>4, <2>2, <2>3, <2>4, <2>5
<1>6. CASE /\ worker[c].at = "start" /\ worker'[c].at # "start"
           /\ helper' = [helper EXCEPT ![worker[c].helper].at = "inspect"]
  <2> DEFINE h == worker[c].helper
  <2>1. /\ h \in Helpers /\ c = Original
        /\ helper[h] = [at |-> "created", old |-> Original, name |-> None, new |-> None]
    BY <1>6 DEF General, Origins
  <2>2. helper'[h] = [at |-> "inspect", old |-> Original, name |-> None, new |-> None]
    BY <1>6, <2>1 DEF General, Typed
  <2>3. helper' = [helper EXCEPT ![h] = helper'[h]]
    BY <1>6, <2>1, <2>2 DEF General, Typed
  <2>4. \A x \in Containers : worker'[x].at # "start"
    BY <1>1, <1>6, <2>1 DEF General, Origins
  <2>5. helper[h].at = "created" /\ helper'[h].at = "inspect" /\ helper'[h].old = Original
          /\ helper'[h].new = None /\ h \in Helpers
    BY <2>1, <2>2
  <2> HIDE DEF h
  <2> QED
    BY <1>4, <2>3, <2>4, <2>5
<1> QED
  BY <1>3, <1>5, <1>6 DEF Threaded

\* What the calls of a thread leave behind.
LEMMA ThreadCalls ==
  ASSUME Typed, NEW result \in {"ok", "refused", "raised", "lost"}, call(TRUE, containers, result)
  PROVE  UNCHANGED containers /\ faults \subseteq faults' /\ faults' \subseteq Faults
BY DEF call, fail, Typed

\* A thread whose record is replaced.
LEMMA TurnsThread ==
  ASSUME Typed, NEW c \in Containers, NEW r, worker' = [worker EXCEPT ![c] = r]
  PROVE  worker' = [worker EXCEPT ![c] = worker'[c]] /\ worker'[c] = r
BY DEF Typed

LEMMA AtThread ==
  ASSUME Typed, NEW c \in Containers, NEW x, worker' = [worker EXCEPT ![c].at = x]
  PROVE  /\ worker' = [worker EXCEPT ![c] = worker'[c]]
         /\ worker'[c] = [at |-> x, helper |-> worker[c].helper]
<1>1. worker'[c] = [at |-> x, helper |-> worker[c].helper]
  BY DEF Typed
<1> QED
  BY <1>1 DEF Typed

\* The thread is over.
LEMMA ThreadIdle ==
  ASSUME Typed, NEW c \in Containers, worker' = [worker EXCEPT ![c] = Idle]
  PROVE  /\ worker' = [worker EXCEPT ![c] = worker'[c]] /\ worker'[c].at = "idle"
         /\ worker'[c] \in [at : {"idle", "pull", "create", "start", "failing"},
                            helper : Helpers \cup {None}]
<1>1. worker' = [worker EXCEPT ![c] = worker'[c]] /\ worker'[c] = Idle
  BY TurnsThread
<1> QED
  BY <1>1 DEF Idle

LEMMA ApplyThreads ==
  ASSUME General, NEW c \in Containers, update_apply(c) \/ apply(c) \/ restart(c)
  PROVE  Threaded(c)
<1>1. Typed /\ worker[c].helper \in Helpers \cup {None} /\ (worker[c].at # "idle" => c = Original)
  BY DEF General, Typed, Origins
<1>2. CASE update_apply(c)
  <2>1. worker' = [worker EXCEPT ![c].at = "pull"] /\ write_state("pulling")
        /\ UNCHANGED <<containers, helper, faults>>
        /\ c \in DOMAIN containers /\ containers[c].release = "present"
    BY <1>2 DEF update_apply, running
  <2>2. /\ worker' = [worker EXCEPT ![c] = worker'[c]]
        /\ worker'[c] = [at |-> "pull", helper |-> worker[c].helper]
    BY <1>1, <2>1, AtThread
  <2>3. c = Original
    BY <2>1 DEF General, Origins
  <2> QED
    BY <1>1, <2>1, <2>2, <2>3 DEF Threaded, Typed
<1>3. CASE pull(c)
  <2>1. PICK result \in {"ok", "refused", "raised"} :
          /\ call(TRUE, containers, result)
          /\ IF result = "ok"
             THEN worker' = [worker EXCEPT ![c].at = "create"] /\ UNCHANGED file
             ELSE give_up(c)
    BY <1>3 DEF pull
  <2>2. UNCHANGED containers /\ faults \subseteq faults' /\ faults' \subseteq Faults /\ UNCHANGED helper
    BY <1>1, <1>3, <2>1, ThreadCalls DEF pull
  <2>3. c = Original
    BY <1>1, <1>3 DEF pull
  <2>4. CASE result = "ok"
    <3>1. /\ worker' = [worker EXCEPT ![c] = worker'[c]]
          /\ worker'[c] = [at |-> "create", helper |-> worker[c].helper]
      BY <1>1, <2>1, <2>4, AtThread
    <3> QED
      BY <1>1, <2>1, <2>2, <2>3, <2>4, <3>1 DEF Threaded
  <2>5. CASE result # "ok"
    <3>1. worker' = [worker EXCEPT ![c] = Idle] /\ write_state("failed")
      BY <2>1, <2>5 DEF give_up
    <3> QED
      BY <1>1, <2>2, <3>1, ThreadIdle DEF Threaded
  <2> QED
    BY <2>4, <2>5
<1>4. ASSUME NEW h \in Helpers, create_helper(c, h) PROVE Threaded(c)
  <2>1. PICK result \in {"ok", "refused", "raised"} :
          /\ call(TRUE, containers, result)
          /\ IF result = "ok"
             THEN /\ worker' = [worker EXCEPT ![c] = [at |-> "start", helper |-> h]]
                  /\ helper' = [helper EXCEPT ![h] = [NoHelper EXCEPT !.at = "created", !.old = c]]
                  /\ write_state("handed_over")
             ELSE give_up(c) /\ UNCHANGED helper
    BY <1>4 DEF create_helper
  <2>2. UNCHANGED containers /\ faults \subseteq faults' /\ faults' \subseteq Faults
    BY <1>1, <2>1, ThreadCalls
  <2>3. c = Original /\ helper[h] = NoHelper
    BY <1>1, <1>4 DEF create_helper
  <2>4. CASE result = "ok"
    <3> DEFINE r == [at |-> "start", helper |-> h]
    <3>1. worker' = [worker EXCEPT ![c] = r]
      BY <2>1, <2>4
    <3> HIDE DEF r
    <3>2. worker' = [worker EXCEPT ![c] = worker'[c]] /\ worker'[c] = r
      BY <1>1, <3>1, TurnsThread
    <3> USE DEF r
    <3>3. [NoHelper EXCEPT !.at = "created", !.old = c]
            = [at |-> "created", old |-> c, name |-> None, new |-> None]
      <4> DEFINE m == [NoHelper EXCEPT !.at = "created"]
      <4>1. m = [at |-> "created", old |-> None, name |-> None, new |-> None]
        BY DEF NoHelper
      <4> HIDE DEF m
      <4>2. [m EXCEPT !.old = c] = [at |-> "created", old |-> c, name |-> None, new |-> None]
        BY <4>1
      <4> QED
        BY <4>2 DEF m
    <3>4. helper' = [helper EXCEPT ![h] = [at |-> "created", old |-> c, name |-> None, new |-> None]]
      BY <2>1, <2>4, <3>3
    <3>5. write_state("handed_over")
      BY <2>1, <2>4
    <3>6. \E g \in Helpers :
            /\ helper[g] = NoHelper /\ c = Original
            /\ worker'[c] = [at |-> "start", helper |-> g]
            /\ helper' = [helper EXCEPT ![g] = [at |-> "created", old |-> c, name |-> None, new |-> None]]
      BY <2>3, <3>2, <3>4
    <3>7. worker'[c] \in [at : {"idle", "pull", "create", "start", "failing"}, helper : Helpers \cup {None}]
      BY <3>2
    <3>8. worker' = [worker EXCEPT ![c] = worker'[c]]
      BY <3>2
    <3> HIDE DEF r
    <3> QED
      BY <2>2, <2>3, <3>5, <3>6, <3>7, <3>8 DEF Threaded
  <2>5. CASE result # "ok"
    <3>1. worker' = [worker EXCEPT ![c] = Idle] /\ write_state("failed") /\ UNCHANGED helper
      BY <2>1, <2>5 DEF give_up
    <3> QED
      BY <1>1, <2>2, <3>1, ThreadIdle DEF Threaded
  <2> QED
    BY <2>4, <2>5
<1>5. CASE start_helper(c)
  <2>1. PICK result \in {"ok", "refused", "raised", "lost"} :
          /\ call(TRUE, containers, result)
          /\ IF result \in {"ok", "lost"}
             THEN helper' = [helper EXCEPT ![worker[c].helper].at = "inspect"]
             ELSE UNCHANGED helper
          /\ CASE result = "ok"   -> worker' = [worker EXCEPT ![c] = Idle] /\ UNCHANGED file
               [] result = "lost" -> worker' = [worker EXCEPT ![c].at = "failing"] /\ UNCHANGED file
               [] OTHER           -> give_up(c)
    BY <1>5 DEF start_helper
  <2>2. UNCHANGED containers /\ faults \subseteq faults' /\ faults' \subseteq Faults
    BY <1>1, <2>1, ThreadCalls
  <2>3. worker[c].at = "start" /\ c = Original
    BY <1>1, <1>5 DEF start_helper
  <2>4. CASE result = "ok"
    <3>1. worker' = [worker EXCEPT ![c] = Idle] /\ UNCHANGED file
          /\ helper' = [helper EXCEPT ![worker[c].helper].at = "inspect"]
      BY <2>1, <2>4
    <3> QED
      BY <1>1, <2>2, <2>3, <3>1, ThreadIdle DEF Threaded
  <2>5. CASE result = "lost"
    <3>1. worker' = [worker EXCEPT ![c].at = "failing"] /\ UNCHANGED file
          /\ helper' = [helper EXCEPT ![worker[c].helper].at = "inspect"]
      BY <2>1, <2>5
    <3>2. /\ worker' = [worker EXCEPT ![c] = worker'[c]]
          /\ worker'[c] = [at |-> "failing", helper |-> worker[c].helper]
      BY <1>1, <3>1, AtThread
    <3> QED
      BY <1>1, <2>2, <2>3, <3>1, <3>2 DEF Threaded
  <2>6. CASE result \in {"refused", "raised"}
    <3>1. worker' = [worker EXCEPT ![c] = Idle] /\ write_state("failed") /\ UNCHANGED helper
      BY <2>1, <2>6 DEF give_up
    <3> QED
      BY <1>1, <2>2, <3>1, ThreadIdle DEF Threaded
  <2> QED
    BY <2>4, <2>5, <2>6
<1>6. CASE time_out(c) \/ restart(c)
  <2>1. worker' = [worker EXCEPT ![c] = Idle] /\ (UNCHANGED file \/ write_state("failed"))
        /\ UNCHANGED <<containers, helper>> /\ faults \subseteq faults' /\ faults' \subseteq Faults
    BY <1>1, <1>6 DEF time_out, restart, give_up, fail, Typed
  <2> QED
    BY <1>1, <2>1, ThreadIdle DEF Threaded
<1> QED
  BY <1>2, <1>3, <1>4, <1>5, <1>6 DEF apply

\* What is general is inductive.
LEMMA InitGeneral == Init => General
<1> SUFFICES ASSUME Init PROVE General
  OBVIOUS
<1>1. Typed
  BY UpdaterAssumption DEF Init, Typed, Record, PHASES, Idle, NoHelper
<1>2. Origins
  BY DEF Init, Origins, Idle, NoHelper
<1>3. Knows
  BY UpdaterAssumption DEF Init, Knows, NoHelper, Active, Early
<1> QED
  BY <1>1, <1>2, <1>3 DEF General

\* Every step keeps types, origins and what the helpers know.
LEMMA NextGeneral == General /\ [Next]_vars => General'
<1> SUFFICES ASSUME General, [Next]_vars PROVE General'
  OBVIOUS
<1>1. CASE UNCHANGED vars
  BY <1>1 DEF vars, General, Typed, Origins, Knows, Works, running
<1>2. CASE age
  <2>1. /\ UNCHANGED <<containers, worker, helper, faults>> /\ file'.phase = file.phase
        /\ file' \in [phase : PHASES, recent : BOOLEAN]
    BY <1>2 DEF age, General, Typed
  <2> QED
    BY <2>1 DEF General, Typed, Origins, Knows, Works, running
<1> QED
  BY <1>1, <1>2, MainMoves, MovedGeneral, ApplyThreads, ThreadedGeneral DEF Next

-----------------------------------------------------------------------------
(* One update at a time *)

Ordered == General /\ ("lost" \notin faults => Alone)

\* A helper that moves is the one that is at work.
LEMMA MovedAlone ==
  ASSUME General, Alone, NEW h \in Helpers, Moved(h) PROVE Alone'
<1>1. Turned(h) /\ Reported(h) /\ \A g \in Helpers : g # h => helper'[g] = helper[g]
  BY DEF Moved, Turned, General, Typed
<1>2. h \in active
  BY <1>1 DEF Turned, active
<1>3. /\ \A g \in active : g = h
      /\ \A c \in Containers : worker[c].at = "idle"
      /\ file.phase \in IN_PROGRESS /\ file.recent
  BY <1>2 DEF Alone
<1>4. \A g \in Helpers : helper'[g].at \in Active => g = h
  BY <1>1, <1>3 DEF active
<1>5. \A c \in Containers : worker'[c].at = "idle"
  BY <1>1, <1>3 DEF Reported, Idle
<1>6. helper'[h].at \in Active => file'.phase \in IN_PROGRESS /\ file'.recent
  BY <1>1, <1>3 DEF Reported, IN_PROGRESS, Active
<1> QED
  BY <1>4, <1>5, <1>6 DEF Alone, active

\* A thread that is at work is alone as well, and so is the helper it starts.
LEMMA ApplyAlone ==
  ASSUME General, Alone, NEW c \in Containers, update_apply(c) \/ apply(c) \/ restart(c),
         "lost" \notin faults'
  PROVE  Alone'
<1>1. Threaded(c)
  BY ApplyThreads
<1>2. \A x \in Containers : x # c => worker'[x] = worker[x]
  BY <1>1 DEF Threaded, General, Typed
<1>3. \A x \in Containers : worker[x].at # "idle" => x = Original
  BY DEF General, Origins
<1>4. CASE restart(c)
  <2>1. worker'[c].at = "idle" /\ UNCHANGED <<file, helper>>
    BY <1>4 DEF restart, Idle, General, Typed
  <2> QED
    BY <1>2, <2>1 DEF Alone, active
<1>5. CASE update_apply(c) \/ pull(c) \/ \E h \in Helpers : create_helper(c, h)
  <2>1. active = {}
    BY <1>5 DEF update_apply, pull, create_helper, Alone, Idle
  <2>2. \A h \in Helpers : helper'[h].at \notin Active
    <3>1. CASE UNCHANGED helper
      BY <2>1, <3>1 DEF active
    <3>2. CASE \E h \in Helpers :
                 helper' = [helper EXCEPT ![h] = [at |-> "created", old |-> c, name |-> None, new |-> None]]
      <4>1. PICK h \in Helpers :
              helper' = [helper EXCEPT ![h] = [at |-> "created", old |-> c, name |-> None, new |-> None]]
        BY <3>2
      <4>2. helper'[h].at = "created" /\ \A g \in Helpers : g # h => helper'[g] = helper[g]
        BY <4>1 DEF General, Typed
      <4> QED
        BY <2>1, <4>2 DEF active, Active
    <3>3. worker[c].at # "start"
      <4>1. worker[c] = Idle \/ worker[c].at \in {"pull", "create"}
        BY <1>5 DEF update_apply, pull, create_helper
      <4> QED
        BY <4>1 DEF Idle
    <3> QED
      BY <1>1, <3>1, <3>2, <3>3 DEF Threaded
  <2>3. worker'[c].at # "failing"
    <3>1. CASE update_apply(c)
      BY <3>1 DEF update_apply, General, Typed
    <3>2. CASE pull(c)
      BY <3>2 DEF pull, give_up, Idle, General, Typed
    <3>3. CASE \E h \in Helpers : create_helper(c, h)
      BY <3>3 DEF create_helper, give_up, Idle, General, Typed
    <3> QED
      BY <1>5, <3>1, <3>2, <3>3
  <2>4. worker'[c].at = "start" => file'.phase \in IN_PROGRESS /\ file'.recent
    <3>1. CASE update_apply(c)
      BY <3>1 DEF update_apply, General, Typed
    <3>2. CASE pull(c)
      BY <3>2 DEF pull, give_up, Idle, General, Typed
    <3>3. ASSUME NEW h \in Helpers, create_helper(c, h)
          PROVE  worker'[c].at = "idle" \/ write_state("handed_over")
      BY <3>3 DEF create_helper, give_up, Idle, General, Typed
    <3> QED
      BY <1>5, <3>1, <3>2, <3>3 DEF write_state, IN_PROGRESS
  <2>5. \A x \in Containers : x # c => worker'[x].at # "start"
    BY <1>2, <1>3, <1>5, <2>1 DEF update_apply, pull, create_helper, Idle, running, General, Origins
  <2> QED
    BY <1>2, <2>2, <2>3, <2>4, <2>5 DEF Alone, active
<1>6. CASE start_helper(c)
  <2>1. /\ worker[c].at = "start" /\ active = {} /\ c = Original
        /\ file.phase \in IN_PROGRESS /\ file.recent
    BY <1>3, <1>6 DEF start_helper, Alone
  <2>2. \A x \in Containers : x # c => worker'[x].at = "idle"
    BY <1>2, <1>3, <2>1
  <2>3. worker'[c].at = "idle" /\ (UNCHANGED file \/ UNCHANGED helper)
    <3>1. PICK result \in {"ok", "refused", "raised", "lost"} :
            /\ call(TRUE, containers, result)
            /\ result \notin {"ok", "lost"} => UNCHANGED helper
            /\ CASE result = "ok"   -> worker' = [worker EXCEPT ![c] = Idle] /\ UNCHANGED file
                 [] result = "lost" -> worker' = [worker EXCEPT ![c].at = "failing"] /\ UNCHANGED file
                 [] OTHER           -> give_up(c)
      BY <1>6 DEF start_helper
    <3>2. result # "lost"
      BY <3>1 DEF call, fail
    <3>3. CASE result = "ok"
      BY <3>1, <3>3 DEF Idle, General, Typed
    <3>4. CASE result \in {"refused", "raised"}
      BY <3>1, <3>4 DEF give_up, Idle, General, Typed
    <3> QED
      BY <3>2, <3>3, <3>4
  <2>4. \A g \in Helpers : helper'[g].at \in Active => g = worker[c].helper /\ ~ UNCHANGED helper
    <3>1. CASE UNCHANGED helper
      BY <2>1, <3>1 DEF active
    <3>2. CASE helper' # helper
      <4>1. helper' = [helper EXCEPT ![worker[c].helper].at = "inspect"]
        BY <1>6, <3>2 DEF start_helper
      <4> QED
        BY <2>1, <3>2, <4>1 DEF active, General, Typed
    <3> QED
      BY <3>1, <3>2
  <2> QED
    BY <2>1, <2>2, <2>3, <2>4 DEF Alone, active
<1>7. ~ time_out(c)
  BY DEF time_out, Alone
<1> QED
  BY <1>4, <1>5, <1>6, <1>7 DEF apply

\* Whatever goes wrong, a helper at work keeps further updates off.
LEMMA NextOrdered == Ordered /\ [Next]_vars => Ordered'
<1> SUFFICES ASSUME Ordered, [Next]_vars, "lost" \notin faults' PROVE Alone'
  BY NextGeneral DEF Ordered
<1>1. General
  BY DEF Ordered
<1>2. CASE UNCHANGED vars
  BY <1>2 DEF vars, Ordered, Alone, active
<1>3. CASE age
  <2>1. Alone /\ active = {} /\ UNCHANGED <<helper, worker>>
        /\ \A c \in Containers : worker[c].at \in {"idle", "pull"}
    BY <1>3 DEF age, Ordered
  <2> QED
    BY <2>1 DEF Alone, active
<1>4. ASSUME NEW h \in Helpers, main(h) \/ kill(h) PROVE Alone'
  <2>1. Moved(h)
    BY <1>1, <1>4, MainMoves
  <2>2. "lost" \notin faults
    BY <2>1 DEF Moved, Reported
  <2> QED
    BY <1>1, <2>1, <2>2, MovedAlone DEF Ordered
<1>5. ASSUME NEW c \in Containers, update_apply(c) \/ apply(c) \/ restart(c) PROVE Alone'
  <2>1. Threaded(c)
    BY <1>1, <1>5, ApplyThreads
  <2>2. "lost" \notin faults
    BY <2>1 DEF Threaded
  <2> QED
    BY <1>1, <1>5, <2>2, ApplyAlone DEF Ordered
<1> QED
  BY <1>2, <1>3, <1>4, <1>5 DEF Next

-----------------------------------------------------------------------------
(* One application at a time *)

\* With one fault at most, the second does not happen.
LEMMA FailOnce ==
  ASSUME MaxFaults <= 1, Typed, NEW kind, fail(kind)
  PROVE  faults = {} /\ faults' = {kind}
<1>1. IsFiniteSet(AllFaults)
  <2>1. AllFaults = {"refused", "raised"} \cup {"lost", "unsound"} \cup {"killed", "restarted"}
    BY DEF AllFaults
  <2>2. \A a, b : IsFiniteSet({a, b})
    <3> TAKE a, b
    <3>1. {a, b} = {a} \cup {b} /\ IsFiniteSet({a})
      BY FS_Singleton
    <3> QED
      BY <3>1, FS_Singleton, FS_AddElement
  <2> QED
    BY <2>1, <2>2, FS_Union
<1>2. IsFiniteSet(faults)
  BY <1>1, FS_Subset, UpdaterAssumption DEF Typed
<1>3. Cardinality(faults) \in Nat /\ Cardinality(faults) < MaxFaults
  BY <1>2, FS_CardinalityType DEF fail
<1>4. Cardinality(faults) = 0
  BY <1>3, UpdaterAssumption
<1>5. faults = {}
  BY <1>2, <1>4, FS_EmptySet
<1> QED
  BY <1>5 DEF fail

\* What it means that the installed application is alone.
LEMMA OnlyThere ==
  ASSUME NEW n, NEW b, Only(n, b)
  PROVE  /\ DOMAIN containers = {Original} /\ containers[Original].name = n
         /\ containers[Original].running = b /\ containers[Original].sound
         /\ containers[Original].release = "present"
         /\ running = IF b THEN {Original} ELSE {}
         /\ \A m : named(m) = IF m = n THEN {Original} ELSE {}
BY DEF Only, running, named

\* Alone and renamed, it is alone under its new name.
LEMMA OnlyRenamed ==
  ASSUME NEW n, NEW b, NEW m, Only(n, b), containers' = [containers EXCEPT ![Original].name = m]
  PROVE  Only(m, b)'
<1> DEFINE old == [name |-> n, release |-> "present", running |-> b, sound |-> TRUE]
           new == [name |-> m, release |-> "present", running |-> b, sound |-> TRUE]
<1>1. PICK t : t = TRUE
  OBVIOUS
<1>2. old = [name |-> n, release |-> "present", running |-> b, sound |-> t]
  BY <1>1
<1> HIDE DEF old
<1>3. [old EXCEPT !.name = m] = [name |-> m, release |-> "present", running |-> b, sound |-> t]
  BY <1>2
<1>4. [old EXCEPT !.name = m] = new
  BY <1>1, <1>3
<1> HIDE DEF new
<1>5. containers = [c \in {Original} |-> old]
  BY DEF Only, old
<1>6. containers' = [c \in {Original} |-> new]
  BY <1>4, <1>5
<1> QED
  BY <1>6 DEF Only, new

\* Alone and started or stopped, it is alone.
LEMMA OnlyRuns ==
  ASSUME NEW n, NEW b, NEW r, Only(n, b), containers' = [containers EXCEPT ![Original].running = r]
  PROVE  Only(n, r)'
<1> DEFINE old == [name |-> n, release |-> "present", running |-> b, sound |-> TRUE]
           new == [name |-> n, release |-> "present", running |-> r, sound |-> TRUE]
<1>1. PICK t : t = TRUE
  OBVIOUS
<1>2. old = [name |-> n, release |-> "present", running |-> b, sound |-> t]
  BY <1>1
<1> HIDE DEF old
<1>3. [old EXCEPT !.running = r] = [name |-> n, release |-> "present", running |-> r, sound |-> t]
  BY <1>2
<1>4. [old EXCEPT !.running = r] = new
  BY <1>1, <1>3
<1> HIDE DEF new
<1>5. containers = [c \in {Original} |-> old]
  BY DEF Only, old
<1>6. containers' = [c \in {Original} |-> new]
  BY <1>4, <1>5
<1> QED
  BY <1>6 DEF Only, new

\* The application put aside and its successor are two containers.
LEMMA BesideThere ==
  ASSUME General, NEW h \in Helpers, NEW b \in BOOLEAN, Beside(h, b)
  PROVE  /\ helper[h].new # Original
         /\ Original \in DOMAIN containers \ running
         /\ helper[h].new \in DOMAIN containers
         /\ running = IF b THEN {helper[h].new} ELSE {}
BY DEF Beside, running, General, Knows

\* Without the successor, the application that was put aside is alone.
LEMMA BesideLeft ==
  ASSUME General, NEW h \in Helpers, NEW b, Beside(h, b), containers' = without(helper[h].new)
  PROVE  Only(h, FALSE)'
<1>1. helper[h].new # Original
  BY DEF General, Knows
<1>2. containers' = [x \in {Original} |-> containers[x]]
  BY <1>1 DEF Beside, without, Restrict
<1> QED
  BY <1>2 DEF Beside, Only

\* The successor is started beside an application that stays stopped.
LEMMA BesideRuns ==
  ASSUME General, NEW h \in Helpers, NEW b, Beside(h, b),
         containers' = [containers EXCEPT ![helper[h].new].running = TRUE],
         helper'[h].new = helper[h].new, faults' = faults
  PROVE  Beside(h, TRUE)'
<1> DEFINE new == helper[h].new
<1>1. new # Original /\ new \in DOMAIN containers /\ containers[new] \in Record
  BY DEF General, Knows, Typed, Beside
<1>2. /\ DOMAIN containers' = DOMAIN containers /\ containers'[Original] = containers[Original]
      /\ containers'[new] = [containers[new] EXCEPT !.running = TRUE]
  BY <1>1
<1>3. /\ containers'[new].name = containers[new].name /\ containers'[new].running
      /\ containers'[new].release = containers[new].release
      /\ containers'[new].sound = containers[new].sound
  BY <1>1, <1>2 DEF Record
<1> HIDE DEF new
<1>4. helper'[h].new = new
  BY DEF new
<1>5. Beside(h, b) = (/\ DOMAIN containers = {Original, new}
  /\ containers[Original] = [name |-> h, release |-> "present", running |-> FALSE, sound |-> TRUE]
  /\ containers[new].name = "emcargo" /\ containers[new].release = "next"
  /\ containers[new].running = b
  /\ (containers[new].sound \/ faults # {}))
  BY DEF Beside, new
<1> QED
  BY <1>2, <1>3, <1>4, <1>5 DEF Beside

\* Where the containers stay, both stay where they are.
LEMMA BesideSame ==
  ASSUME NEW h, NEW b, Beside(h, b), UNCHANGED containers,
         helper'[h].new = helper[h].new, faults \subseteq faults'
  PROVE  Beside(h, b)'
BY DEF Beside

\* Helper h is at work where it should be, and nothing else is.
Updating(h) ==
  /\ MaxFaults <= 1 /\ General /\ Stage(h) /\ helper[h].at \in Active
  /\ \A c \in Containers : worker[c].at = "idle"
  /\ file.phase \in IN_PROGRESS

Arrives(h) == IF helper[h].at \in Active THEN Stage(h) ELSE Quiet

\* Where a helper goes it brings its name and its successor.
LEMMA Brings ==
  ASSUME General, NEW h \in Helpers, helper[h].at \in Active, NEW x, go(h, x)
  PROVE  /\ helper'[h].at = x /\ helper'[h].name = helper[h].name
         /\ helper'[h].new = helper[h].new
<1>1. helper'[h] = [at |-> x, old |-> Original, name |-> helper[h].name, new |-> helper[h].new]
  BY Goes DEF General
<1> QED
  BY <1>1

\* The rollback of a helper without a successor, and of one with it.
LEMMA RollsBackTo ==
  ASSUME General, NEW h \in Helpers, helper[h].at \in Active
  PROVE  /\ helper[h].at \in Early => rollback(h) = "undo_rename"
         /\ helper[h].at \in {"start", "watch", "delete"} => rollback(h) = "undo_delete"
BY DEF rollback, General, Knows

\* A stage of the rollback is reached with the original as it is.
LEMMA UndoesOnly ==
  ASSUME NEW h \in Helpers, NEW n \in {"emcargo", h}, NEW b \in BOOLEAN, Only(n, b),
         UNCHANGED containers, helper'[h].at = "undo_rename",
         helper'[h].name = "emcargo", faults' # {}
  PROVE  Arrives(h)'
<1>1. Only(n, b)'
  BY DEF Only
<1>2. Stage(h)'
  BY <1>1 DEF Stage
<1> QED
  BY <1>2 DEF Arrives, Active

LEMMA UndoesBeside ==
  ASSUME NEW h \in Helpers, NEW b \in BOOLEAN, Beside(h, b), UNCHANGED containers,
         helper'[h].at = "undo_delete", helper'[h].name = "emcargo",
         helper'[h].new = helper[h].new, faults \subseteq faults', faults' # {}
  PROVE  Arrives(h)'
<1>1. Beside(h, b)'
  BY BesideSame
<1>2. Stage(h)'
  BY <1>1 DEF Stage
<1> QED
  BY <1>2 DEF Arrives, Active

LEMMA InspectArrives ==
  ASSUME NEW h \in Helpers, Updating(h), inspect(h) PROVE Arrives(h)'
<1> DEFINE old == helper[h].old
<1>1. helper[h].at = "inspect" /\ old = Original /\ Only("emcargo", TRUE) /\ General
  BY DEF inspect, Updating, Stage, General, Origins
<1>2. PICK result \in {"ok", "refused", "raised"} :
        /\ call(old \in DOMAIN containers, containers, result)
        /\ helper' = [helper EXCEPT
             ![h].at   = CASE result = "ok" -> "retain" [] result = "refused" -> "ended"
                           [] OTHER -> "died",
             ![h].name = IF result = "ok" THEN containers[old].name ELSE None]
        /\ IF result = "refused" THEN write_state("failed") ELSE UNCHANGED file
  BY DEF inspect
<1>3. Only("emcargo", TRUE)'
  BY <1>1, <1>2 DEF call, Only
<1>4. CASE result = "ok"
  <2>1. containers[old].name = "emcargo"
    BY <1>1, OnlyThere
  <2>2. helper'[h].at = "retain" /\ helper'[h].name = "emcargo"
    BY <1>1, <1>2, <1>4, <2>1 DEF General, Typed
  <2> QED
    BY <1>3, <2>2 DEF Arrives, Stage, Active
<1>5. CASE result # "ok"
  <2>1. helper'[h].at \in {"ended", "died"} /\ file'.phase # "done"
    BY <1>1, <1>2, <1>5 DEF General, Typed, write_state, Updating, IN_PROGRESS
  <2> QED
    BY <1>3, <2>1 DEF Arrives, Quiet, Active
<1> QED
  BY <1>4, <1>5

LEMMA RetainArrives ==
  ASSUME NEW h \in Helpers, Updating(h), retain_templates(h), "lost" \notin faults'
  PROVE  Arrives(h)'
<1>1. helper[h].at = "retain" /\ helper[h].name = "emcargo" /\ Only("emcargo", TRUE) /\ General
  BY DEF retain_templates, step, Updating, Stage
<1>2. helper[h].old = Original /\ Original \in DOMAIN containers
  BY <1>1, OnlyThere DEF General, Origins
<1>3. \/ go(h, "stop") /\ UNCHANGED containers
      \/ faults' # {} /\ UNCHANGED containers /\ go(h, rollback(h))
  BY <1>1, <1>2 DEF retain_templates, step, call, fail
<1>4. CASE go(h, "stop") /\ UNCHANGED containers
  <2>1. Only("emcargo", TRUE)'
    BY <1>1, <1>4 DEF Only
  <2>2. helper'[h].at = "stop" /\ helper'[h].name = "emcargo"
    BY <1>1, <1>4, Brings DEF Active
  <2> QED
    BY <2>1, <2>2 DEF Arrives, Stage, Active
<1>5. CASE faults' # {} /\ UNCHANGED containers /\ go(h, rollback(h))
  BY <1>1, <1>5, Brings, RollsBackTo, UndoesOnly DEF Active, Early
<1> QED
  BY <1>3, <1>4, <1>5

LEMMA StopArrives ==
  ASSUME NEW h \in Helpers, Updating(h), stop(h), "lost" \notin faults'
  PROVE  Arrives(h)'
<1>1. helper[h].at = "stop" /\ helper[h].name = "emcargo" /\ Only("emcargo", TRUE) /\ General
  BY DEF stop, step, Updating, Stage
<1>2. helper[h].old = Original /\ Original \in DOMAIN containers
  BY <1>1, OnlyThere DEF General, Origins
<1>3. \/ go(h, "rename") /\ containers' = [containers EXCEPT ![Original].running = FALSE]
      \/ faults' # {} /\ UNCHANGED containers /\ go(h, rollback(h))
  BY <1>1, <1>2 DEF stop, step, call, fail
<1>4. CASE go(h, "rename") /\ containers' = [containers EXCEPT ![Original].running = FALSE]
  <2>1. Only("emcargo", FALSE)'
    BY <1>1, <1>4, OnlyRuns
  <2>2. helper'[h].at = "rename" /\ helper'[h].name = "emcargo"
    BY <1>1, <1>4, Brings DEF Active
  <2> QED
    BY <2>1, <2>2 DEF Arrives, Stage, Active
<1>5. CASE faults' # {} /\ UNCHANGED containers /\ go(h, rollback(h))
  BY <1>1, <1>5, Brings, RollsBackTo, UndoesOnly DEF Active, Early
<1> QED
  BY <1>3, <1>4, <1>5

LEMMA RenameArrives ==
  ASSUME NEW h \in Helpers, Updating(h), rename(h), "lost" \notin faults'
  PROVE  Arrives(h)'
<1>1. helper[h].at = "rename" /\ helper[h].name = "emcargo" /\ Only("emcargo", FALSE) /\ General
  BY DEF rename, step, Updating, Stage
<1>2. helper[h].old = Original /\ Original \in DOMAIN containers /\ named(h) = {}
  BY <1>1, OnlyThere, UpdaterAssumption DEF General, Origins
<1>3. \/ go(h, "create") /\ containers' = [containers EXCEPT ![Original].name = h]
      \/ faults' # {} /\ UNCHANGED containers /\ go(h, rollback(h))
  BY <1>1, <1>2 DEF rename, step, call, fail
<1>4. CASE go(h, "create") /\ containers' = [containers EXCEPT ![Original].name = h]
  <2>1. Only(h, FALSE)'
    BY <1>1, <1>4, OnlyRenamed
  <2>2. helper'[h].at = "create" /\ helper'[h].name = "emcargo"
    BY <1>1, <1>4, Brings DEF Active
  <2> QED
    BY <2>1, <2>2 DEF Arrives, Stage, Active
<1>5. CASE faults' # {} /\ UNCHANGED containers /\ go(h, rollback(h))
  BY <1>1, <1>5, Brings, RollsBackTo, UndoesOnly DEF Active, Early
<1> QED
  BY <1>3, <1>4, <1>5

LEMMA CreateArrives ==
  ASSUME NEW h \in Helpers, Updating(h), create(h), "lost" \notin faults'
  PROVE  Arrives(h)'
<1>1. helper[h].at = "create" /\ helper[h].name = "emcargo" /\ Only(h, FALSE) /\ General
  BY DEF create, Updating, Stage
<1>2. named("emcargo") = {}
  BY <1>1, OnlyThere, UpdaterAssumption
<1>3. PICK c \in Containers \ (DOMAIN containers \cup {helper[g].old : g \in Helpers}
                                 \cup {helper[g].new : g \in Helpers}),
           sound \in BOOLEAN, result \in {"ok", "refused", "raised", "lost"} :
        LET new == [name |-> helper[h].name, release |-> "next", running |-> FALSE, sound |-> sound]
            after == [x \in DOMAIN containers \cup {c} |-> IF x = c THEN new ELSE containers[x]]
        IN  /\ IF sound THEN call(named(helper[h].name) = {}, after, result)
               ELSE result = "ok" /\ named(helper[h].name) = {} /\ fail("unsound") /\ containers' = after
            /\ helper' = [helper EXCEPT
                 ![h].at  = IF result = "ok" THEN "start" ELSE rollback(h),
                 ![h].new = IF result = "ok" THEN c ELSE None]
  BY DEF create
<1> DEFINE new == [name |-> "emcargo", release |-> "next", running |-> FALSE, sound |-> sound]
           after == [x \in DOMAIN containers \cup {c} |-> IF x = c THEN new ELSE containers[x]]
           at == IF result = "ok" THEN "start" ELSE rollback(h)
           next == IF result = "ok" THEN c ELSE None
<1>4. /\ IF sound THEN call(TRUE, after, result)
         ELSE result = "ok" /\ fail("unsound") /\ containers' = after
      /\ helper' = [helper EXCEPT ![h].at = at, ![h].new = next]
  BY <1>1, <1>2, <1>3
<1> HIDE DEF new, after, at, next
<1>5. helper'[h] = [at |-> at, old |-> Original, name |-> helper[h].name, new |-> next]
  <2>1. helper' = [helper EXCEPT ![h].at = at, ![h].new = next] /\ helper[h].at # "none" /\ General
    BY <1>1, <1>4
  <2>2. /\ helper'[h] = [at |-> at, old |-> Original, name |-> helper[h].name, new |-> next]
        /\ helper' = [helper EXCEPT ![h] = helper'[h]]
    BY <2>1, SucceededBy
  <2> QED
    BY <2>2
<1>6. CASE result = "ok"
  <2>1. containers' = after /\ (sound \/ faults' # {})
    BY <1>4, <1>6 DEF call, fail
  <2>2. helper'[h].at = "start" /\ helper'[h].name = "emcargo" /\ helper'[h].new = c
    BY <1>1, <1>5, <1>6 DEF at, next
  <2>3. DOMAIN containers = {Original} /\ c # Original
    BY <1>1, <1>3, OnlyThere
  <2>4. /\ DOMAIN containers' = {Original, c} /\ containers'[c] = new
        /\ containers'[Original] = containers[Original]
    BY <2>1, <2>3 DEF after
  <2>5. containers[Original] = [name |-> h, release |-> "present", running |-> FALSE, sound |-> TRUE]
    BY <1>1 DEF Only
  <2>6. new.name = "emcargo" /\ new.release = "next" /\ new.running = FALSE /\ new.sound = sound
    BY DEF new
  <2>7. Beside(h, FALSE)'
    BY <2>1, <2>2, <2>4, <2>5, <2>6 DEF Beside
  <2> QED
    BY <2>2, <2>7 DEF Arrives, Stage, Active
<1>7. CASE result # "ok"
  <2>1. UNCHANGED containers /\ faults' # {}
    BY <1>4, <1>7 DEF call, fail
  <2>2. helper'[h].at = "undo_rename" /\ helper'[h].name = "emcargo"
    BY <1>1, <1>5, <1>7, RollsBackTo DEF at, Active, Early
  <2> QED
    BY <1>1, <2>1, <2>2, UndoesOnly
<1> QED
  BY <1>6, <1>7

LEMMA StartArrives ==
  ASSUME NEW h \in Helpers, Updating(h), start(h), "lost" \notin faults'
  PROVE  Arrives(h)'
<1> DEFINE new == helper[h].new
<1>1. PICK possible \in startable(new) :
        step(h, "start", possible, [containers EXCEPT ![new].running = TRUE],
             "watch", rollback(h), rollback(h))
  BY DEF start
<1>2. helper[h].at = "start" /\ helper[h].name = "emcargo" /\ Beside(h, FALSE) /\ General
  BY <1>1 DEF step, Updating, Stage
<1>3. possible = TRUE
  BY <1>2, BesideThere DEF startable
<1> HIDE DEF new
<1>4. \/ go(h, "watch") /\ containers' = [containers EXCEPT ![new].running = TRUE] /\ faults' = faults
      \/ /\ faults' # {} /\ faults \subseteq faults' /\ UNCHANGED containers
         /\ go(h, rollback(h))
  BY <1>1, <1>3 DEF step, call, fail
<1>5. CASE go(h, "watch") /\ containers' = [containers EXCEPT ![new].running = TRUE] /\ faults' = faults
  <2>1. helper'[h].at = "watch" /\ helper'[h].name = "emcargo" /\ helper'[h].new = helper[h].new
    BY <1>2, <1>5, Brings DEF Active
  <2>2. Beside(h, TRUE)'
    BY <1>2, <1>5, <2>1, BesideRuns DEF new
  <2> QED
    BY <2>1, <2>2 DEF Arrives, Stage, Active
<1>6. CASE faults' # {} /\ faults \subseteq faults' /\ UNCHANGED containers /\ go(h, rollback(h))
  BY <1>2, <1>6, Brings, RollsBackTo, UndoesBeside DEF Active
<1> QED
  BY <1>4, <1>5, <1>6

LEMMA WaitArrives ==
  ASSUME NEW h \in Helpers, Updating(h), wait_until_running(h), "lost" \notin faults'
  PROVE  Arrives(h)'
<1>1. helper[h].at = "watch" /\ helper[h].name = "emcargo" /\ Beside(h, TRUE) /\ General
  BY DEF wait_until_running, step, Updating, Stage
<1>2. UNCHANGED containers /\ faults \subseteq faults'
  BY DEF wait_until_running, step, call, fail
<1>3. go(h, "delete") \/ (go(h, rollback(h)) /\ faults' # {})
  <2>1. helper[h].new \in running /\ (containers[helper[h].new].sound \/ faults # {})
    BY <1>1, BesideThere DEF Beside
  <2> QED
    BY <1>2, <2>1 DEF wait_until_running, step, call, fail
<1>4. CASE go(h, "delete")
  <2>1. helper'[h].at = "delete" /\ helper'[h].name = "emcargo" /\ helper'[h].new = helper[h].new
    BY <1>1, <1>4, Brings DEF Active
  <2>2. Beside(h, TRUE)'
    BY <1>1, <1>2, <2>1, BesideSame
  <2> QED
    BY <2>1, <2>2 DEF Arrives, Stage, Active
<1>5. CASE go(h, rollback(h)) /\ faults' # {}
  BY <1>1, <1>2, <1>5, Brings, RollsBackTo, UndoesBeside DEF Active
<1> QED
  BY <1>3, <1>4, <1>5

LEMMA DeleteArrives ==
  ASSUME NEW h \in Helpers, Updating(h), delete(h), "lost" \notin faults'
  PROVE  Arrives(h)'
<1> DEFINE new == helper[h].new
<1>1. helper[h].at = "delete" /\ helper[h].name = "emcargo" /\ Beside(h, TRUE) /\ General
  BY DEF delete, step, Updating, Stage
<1>2. /\ helper[h].old = Original /\ Original \in DOMAIN containers \ running
      /\ running = {new} /\ new # Original /\ containers[new].name = "emcargo" /\ new \in DOMAIN containers
  BY <1>1, BesideThere DEF General, Origins, Beside
<1>3. \/ go(h, "report") /\ containers' = without(Original)
      \/ go(h, "report") /\ UNCHANGED containers
      \/ /\ faults' # {} /\ faults \subseteq faults' /\ UNCHANGED containers
         /\ go(h, rollback(h))
  BY <1>1, <1>2 DEF delete, step, call, fail
<1>4. CASE go(h, "report") /\ (containers' = without(Original) \/ UNCHANGED containers)
  <2>1. helper'[h].at = "report" /\ helper'[h].name = "emcargo" /\ helper'[h].new = new
    BY <1>1, <1>4, Brings DEF Active
  <2>2. running' = {new} /\ containers'[new].name = "emcargo"
    <3>1. CASE UNCHANGED containers
      BY <1>2, <3>1 DEF running
    <3>2. CASE containers' = without(Original)
      <4>1. /\ DOMAIN containers' = DOMAIN containers \ {Original}
            /\ \A c \in DOMAIN containers' : containers'[c] = containers[c]
        BY <3>2 DEF without, Restrict
      <4>2. running' = running \ {Original}
        BY <4>1 DEF running
      <4> QED
        BY <1>2, <4>1, <4>2
    <3> QED
      BY <1>4, <3>1, <3>2
  <2> QED
    BY <2>1, <2>2 DEF Arrives, Stage, Active
<1>5. CASE faults' # {} /\ faults \subseteq faults' /\ UNCHANGED containers /\ go(h, rollback(h))
  BY <1>1, <1>5, Brings, RollsBackTo, UndoesBeside DEF Active
<1> QED
  BY <1>3, <1>4, <1>5

LEMMA ReportArrives ==
  ASSUME NEW h \in Helpers, Updating(h), report(h)
  PROVE  Arrives(h)'
<1> DEFINE new == helper[h].new
<1>1. /\ helper[h].at = "report" /\ running = {new} /\ containers[new].name = "emcargo"
      /\ General /\ Works(new) /\ new # Original
  BY DEF report, Updating, Stage, General, Knows
<1>2. helper'[h].at = "ended" /\ file'.phase = "done" /\ UNCHANGED <<containers, worker>>
  BY <1>1, Brings DEF report, write_state, Active
<1>3. new \in Containers
  BY <1>1 DEF Works, running, General, Typed
<1>4. \A c \in Containers : worker'[c].at = "idle"
  BY <1>2 DEF Updating
<1> HIDE DEF new
<1>5. running' = {new} /\ Original \notin running' /\ containers'[new].name = "emcargo"
  BY <1>1, <1>2 DEF running
<1>6. \A c : Works(c) => /\ c \in running' /\ containers'[c].sound
                         /\ containers'[c].release = "next"
  BY <1>2 DEF Works, running
<1>7. Quiet'
  BY <1>1, <1>2, <1>3, <1>4, <1>5, <1>6 DEF Quiet, Works
<1> QED
  BY <1>2, <1>7 DEF Arrives, Active

LEMMA UndoDeleteArrives ==
  ASSUME NEW h \in Helpers, Updating(h), undo_delete(h), "lost" \notin faults'
  PROVE  Arrives(h)'
<1> DEFINE new == helper[h].new
<1>1. helper[h].at = "undo_delete" /\ helper[h].name = "emcargo" /\ faults # {} /\ General
  BY DEF undo_delete, step, Updating, Stage
<1>2. PICK b \in BOOLEAN : Beside(h, b)
  BY <1>1 DEF Updating, Stage
<1>3. new \in DOMAIN containers
  BY <1>1, <1>2, BesideThere
<1>4. \A kind : ~ fail(kind)
  BY <1>1, FailOnce DEF Updating, General
<1>5. go(h, "undo_rename") /\ containers' = without(new) /\ faults' = faults
  BY <1>3, <1>4 DEF undo_delete, step, call
<1>6. helper'[h].at = "undo_rename" /\ helper'[h].name = "emcargo"
  BY <1>1, <1>5, Brings DEF Active
<1>7. Only(h, FALSE)'
  BY <1>1, <1>2, <1>5, BesideLeft
<1> QED
  BY <1>1, <1>5, <1>6, <1>7 DEF Arrives, Stage, Active

LEMMA UndoRenameArrives ==
  ASSUME NEW h \in Helpers, Updating(h), undo_rename(h), "lost" \notin faults'
  PROVE  Arrives(h)'
<1>1. helper[h].at = "undo_rename" /\ helper[h].name = "emcargo" /\ faults # {} /\ General
  BY DEF undo_rename, step, Updating, Stage
<1>2. PICK n \in {"emcargo", h}, b \in BOOLEAN : Only(n, b)
  BY <1>1 DEF Updating, Stage
<1>3. helper[h].old = Original /\ Original \in DOMAIN containers
      /\ named("emcargo") = IF n = "emcargo" THEN {Original} ELSE {}
  BY <1>1, <1>2, OnlyThere DEF General, Origins
<1>4. \A kind : ~ fail(kind)
  BY <1>1, FailOnce DEF Updating, General
<1>5. /\ go(h, "undo_start") /\ faults' = faults
      /\ \/ containers' = [containers EXCEPT ![Original].name = "emcargo"]
         \/ n = "emcargo" /\ UNCHANGED containers
  BY <1>1, <1>3, <1>4 DEF undo_rename, step, call
<1>6. helper'[h].at = "undo_start" /\ helper'[h].name = "emcargo"
  BY <1>1, <1>5, Brings DEF Active
<1>7. Only("emcargo", b)'
  <2>1. CASE containers' = [containers EXCEPT ![Original].name = "emcargo"]
    BY <1>2, <2>1, OnlyRenamed
  <2>2. CASE n = "emcargo" /\ UNCHANGED containers
    BY <1>2, <2>2 DEF Only
  <2> QED
    BY <1>5, <2>1, <2>2
<1> QED
  BY <1>1, <1>5, <1>6, <1>7 DEF Arrives, Stage, Active

LEMMA UndoStartArrives ==
  ASSUME NEW h \in Helpers, Updating(h), undo_start(h), "lost" \notin faults'
  PROVE  Arrives(h)'
<1> DEFINE old == helper[h].old
<1>1. helper[h].at = "undo_start" /\ helper[h].name = "emcargo" /\ faults # {} /\ General
  BY DEF undo_start, step, Updating, Stage
<1>2. PICK b \in BOOLEAN : Only("emcargo", b)
  BY <1>1 DEF Updating, Stage
<1>3. old = Original /\ Original \in DOMAIN containers /\ running \subseteq {Original}
  BY <1>1, <1>2, OnlyThere DEF General, Origins
<1>4. PICK possible \in startable(old) \cup {FALSE : x \in {old} \ DOMAIN containers} :
        step(h, "undo_start", possible, [containers EXCEPT ![old].running = TRUE],
             "undo_report", "undo_report", "died")
  BY DEF undo_start
<1>5. possible = TRUE
  BY <1>3 DEF startable
<1>6. \A kind : ~ fail(kind)
  BY <1>1, FailOnce DEF Updating, General
<1> HIDE DEF old
<1>7. go(h, "undo_report") /\ containers' = [containers EXCEPT ![old].running = TRUE] /\ faults' = faults
  BY <1>4, <1>5, <1>6 DEF step, call
<1>8. helper'[h].at = "undo_report" /\ helper'[h].name = "emcargo"
  BY <1>1, <1>7, Brings DEF Active
<1>9. Only("emcargo", TRUE)'
  BY <1>2, <1>3, <1>7, OnlyRuns
<1> QED
  BY <1>1, <1>7, <1>8, <1>9 DEF Arrives, Stage, Active

LEMMA UndoReportArrives ==
  ASSUME NEW h \in Helpers, Updating(h), undo_report(h)
  PROVE  Arrives(h)'
<1>1. helper[h].at = "undo_report" /\ Only("emcargo", TRUE) /\ General
  BY DEF undo_report, Updating, Stage
<1>2. helper'[h].at = "ended" /\ file'.phase = "failed" /\ UNCHANGED containers
  BY <1>1, Brings DEF undo_report, write_state, Active
<1>3. Only("emcargo", TRUE)'
  BY <1>1, <1>2 DEF Only
<1> QED
  BY <1>2, <1>3 DEF Arrives, Quiet, Active

LEMMA KillArrives ==
  ASSUME NEW h \in Helpers, Updating(h), kill(h)
  PROVE  Arrives(h)'
<1>1. /\ helper[h].at \in Active /\ go(h, "died") /\ General /\ faults = {}
      /\ UNCHANGED <<containers, file, worker>>
  BY FailOnce DEF kill, active, Updating, General
<1>2. helper'[h].at = "died"
  BY <1>1, Brings
<1>3. file'.phase # "done" /\ \A c \in Containers : worker'[c].at = "idle"
  BY <1>1 DEF Updating, IN_PROGRESS
<1>4. CASE Only("emcargo", TRUE)
  <2>1. Only("emcargo", TRUE)'
    BY <1>1, <1>4 DEF Only
  <2> QED
    BY <1>2, <1>3, <2>1 DEF Arrives, Quiet, Active
<1>5. CASE Original \notin running /\ \A x, y \in running : x = y
  <2>1. Original \notin running' /\ \A x, y \in running' : x = y
    BY <1>1, <1>5 DEF running
  <2> QED
    BY <1>2, <1>3, <2>1 DEF Arrives, Quiet, Active
<1>6. Only("emcargo", TRUE) \/ (Original \notin running /\ \A x, y \in running : x = y)
  <2>1. CASE helper[h].at \in {"inspect", "retain", "stop"}
    BY <2>1 DEF Updating, Stage
  <2>2. CASE helper[h].at \in {"rename", "create"}
    BY <2>2, OnlyThere DEF Updating, Stage
  <2>3. CASE helper[h].at \in {"start", "watch", "delete"}
    BY <1>1, <2>3, BesideThere DEF Updating, Stage
  <2>4. CASE helper[h].at = "report"
    BY <1>1, <2>4 DEF Updating, Stage, General, Knows
  <2> QED
    BY <1>1, <2>1, <2>2, <2>3, <2>4 DEF Updating, Stage, Active
<1> QED
  BY <1>4, <1>5, <1>6

LEMMA MainArrives ==
  ASSUME NEW h \in Helpers, Updating(h), main(h) \/ kill(h), "lost" \notin faults'
  PROVE  Arrives(h)'
BY InspectArrives, RetainArrives, StopArrives, RenameArrives, CreateArrives, StartArrives,
   WaitArrives, DeleteArrives, ReportArrives, UndoDeleteArrives, UndoRenameArrives,
   UndoStartArrives, UndoReportArrives, KillArrives DEF main

\* While no helper is at work, a thread keeps what there is; it is at work
\* only for an application that runs.
LEMMA ApplyQuiet ==
  ASSUME General, Quiet, NEW c \in Containers, update_apply(c) \/ apply(c) \/ restart(c)
  PROVE  Quiet'
<1>1. Threaded(c) /\ UNCHANGED containers /\ running' = running
  BY ApplyThreads DEF Threaded, running
<1>2. \A h \in Helpers : helper[h].at = "died" => helper'[h].at = "died"
  <2>1. CASE UNCHANGED helper
    BY <2>1
  <2>2. CASE \E h \in Helpers :
               /\ helper[h] = NoHelper
               /\ helper' = [helper EXCEPT ![h] = [at |-> "created", old |-> c, name |-> None, new |-> None]]
    BY <2>2 DEF NoHelper, General, Typed
  <2>3. CASE worker[c].at = "start" /\ helper' = [helper EXCEPT ![worker[c].helper].at = "inspect"]
    <3>1. helper[worker[c].helper].at = "created" /\ worker[c].helper \in Helpers
      BY <2>3 DEF General, Origins
    <3> QED
      BY <2>3, <3>1 DEF General, Typed
  <2> QED
    BY <1>1, <2>1, <2>2, <2>3 DEF Threaded
<1>3. \A x \in Containers : x # c => worker'[x] = worker[x]
  BY <1>1 DEF Threaded, General, Typed
<1>4. CASE Only("emcargo", TRUE) /\ file.phase # "done"
  <2>1. file'.phase # "done"
    BY <1>1, <1>4 DEF Threaded, write_state
  <2> QED
    BY <1>1, <1>4, <2>1 DEF Quiet, Only
<1>5. CASE \A x \in Containers : worker[x].at = "idle" /\ Original \notin running
  <2>1. restart(c)
    <3>1. ~ apply(c)
      BY <1>5 DEF apply, pull, create_helper, start_helper, time_out
    <3>2. ~ update_apply(c)
      BY <1>5 DEF update_apply, General, Origins, running
    <3> QED
      BY <3>1, <3>2
  <2>2. worker'[c].at = "idle" /\ UNCHANGED file
    BY <2>1 DEF restart, Idle, General, Typed
  <2>3. \A x \in Containers : worker'[x].at = "idle"
    BY <1>3, <1>5, <2>2
  <2>4. \A x : Works(x) => Works(x)' /\ containers'[x].name = containers[x].name
    BY <1>1 DEF Works
  <2>5. Only("emcargo", TRUE) => Only("emcargo", TRUE)'
    BY <1>1 DEF Only
  <2> QED
    BY <1>1, <1>2, <1>5, <2>2, <2>3, <2>4, <2>5 DEF Quiet
<1> QED
  BY <1>4, <1>5 DEF Quiet

\* Once a helper is started it finds the application as it is installed.
LEMMA ApplyStarts ==
  ASSUME General, Alone, Quiet, active = {}, NEW c \in Containers,
         update_apply(c) \/ apply(c) \/ restart(c), NEW h \in Helpers, helper'[h].at \in Active
  PROVE  Stage(h)'
<1>1. Threaded(c)
  BY ApplyThreads
<1>2. helper[h].at \notin Active
  BY DEF active
<1>3. /\ worker[c].at = "start" /\ UNCHANGED containers
      /\ helper' = [helper EXCEPT ![worker[c].helper].at = "inspect"]
  <2>1. ~ UNCHANGED helper
    BY <1>2
  <2>2. ~ \E g \in Helpers :
            helper' = [helper EXCEPT ![g] = [at |-> "created", old |-> c, name |-> None, new |-> None]]
    BY <1>2 DEF Active, General, Typed
  <2> QED
    BY <1>1, <2>1, <2>2 DEF Threaded
<1>4. helper'[h].at = "inspect"
  BY <1>2, <1>3 DEF General, Typed
<1>5. Only("emcargo", TRUE)
  BY <1>3 DEF Quiet
<1>6. Only("emcargo", TRUE)'
  BY <1>3, <1>5 DEF Only
<1> QED
  BY <1>4, <1>6 DEF Stage

\* The installation is where the helper, or nobody, expects it.
Expected == "lost" \notin faults => InPlace

\* Every step keeps the installation as its helper, or nobody, expects it.
LEMMA NextExpected ==
  ASSUME MaxFaults <= 1, Ordered, Expected, [Next]_vars PROVE Expected'
<1> SUFFICES ASSUME "lost" \notin faults' PROVE InPlace'
  BY DEF Expected
<1>1. General /\ General' /\ Ordered'
  BY NextOrdered DEF Ordered
<1>2. "lost" \notin faults
  <2>1. faults \subseteq faults'
    <3>1. CASE \E h \in Helpers : main(h) \/ kill(h)
      BY <1>1, <3>1, MainMoves DEF Moved, Reported
    <3>2. CASE \E c \in Containers : update_apply(c) \/ apply(c) \/ restart(c)
      BY <1>1, <3>2, ApplyThreads DEF Threaded
    <3> QED
      BY <3>1, <3>2 DEF Next, vars, age
  <2> QED
    BY <2>1
<1>3. Alone /\ InPlace
  BY <1>2 DEF Ordered, Expected
<1>4. CASE UNCHANGED vars
  <2>1. /\ UNCHANGED <<containers, file, worker, helper, faults>>
        /\ active' = active /\ running' = running
    BY <1>4 DEF vars, active, running
  <2>2. /\ \A n, b : Only(n, b) => Only(n, b)'
        /\ \A c : Works(c) => Works(c)'
    BY <2>1 DEF Only, Works
  <2>3. \A h \in Helpers : \A b : Beside(h, b) => Beside(h, b)'
    BY <2>1, BesideSame
  <2>4. \A h \in active : Stage(h)'
    <3> SUFFICES ASSUME NEW h \in active PROVE Stage(h)'
      OBVIOUS
    <3>1. Stage(h) /\ h \in Helpers
      BY <1>3 DEF InPlace, active
    <3> QED
      BY <2>1, <2>2, <2>3, <3>1 DEF Stage
  <2>5. active = {} => Quiet'
    BY <1>3, <2>1, <2>2 DEF InPlace, Quiet
  <2> QED
    BY <2>1, <2>4, <2>5 DEF InPlace
<1>5. CASE age
  <2>1. active = {} /\ Quiet
    BY <1>3, <1>5 DEF age, InPlace
  <2>2. UNCHANGED <<containers, worker, helper, faults>> /\ file'.phase = file.phase
    BY <1>1, <1>5 DEF age, General, Typed
  <2>3. Quiet' /\ active' = {}
    BY <2>1, <2>2 DEF Quiet, Only, Works, active, running
  <2> QED
    BY <2>3 DEF InPlace
<1>6. ASSUME NEW h \in Helpers, main(h) \/ kill(h) PROVE InPlace'
  <2>1. Moved(h) /\ h \in active
    BY <1>1, <1>6, MainMoves DEF Moved, Turned, active
  <2>2. Updating(h)
    BY <1>1, <1>3, <2>1 DEF Updating, Alone, InPlace, active
  <2>3. Arrives(h)'
    BY <1>6, <2>2, MainArrives
  <2>4. \A g \in Helpers : helper'[g].at \in Active => g = h
    BY <1>1, <1>3, <2>1 DEF Alone, active, Moved, Turned, General, Typed
  <2> QED
    BY <2>3, <2>4 DEF InPlace, Arrives, active
<1>7. ASSUME NEW c \in Containers, update_apply(c) \/ apply(c) \/ restart(c) PROVE InPlace'
  <2>1. CASE active = {}
    <3>1. Quiet'
      BY <1>1, <1>3, <1>7, <2>1, ApplyQuiet DEF InPlace
    <3>2. \A h \in Helpers : helper'[h].at \in Active => Stage(h)'
      BY <1>1, <1>3, <1>7, <2>1, ApplyStarts DEF InPlace
    <3> QED
      BY <3>1, <3>2 DEF InPlace, active
  <2>2. CASE active # {}
    <3>1. restart(c)
      BY <1>3, <1>7, <2>2 DEF Alone, apply, pull, create_helper, start_helper, time_out, update_apply
    <3>2. UNCHANGED <<containers, helper, file>> /\ faults \subseteq faults'
      BY <3>1 DEF restart, fail
    <3>3. \A h \in Helpers : helper[h].at \in Active => Stage(h)'
      <4> SUFFICES ASSUME NEW h \in Helpers, helper[h].at \in Active PROVE Stage(h)'
        OBVIOUS
      <4>1. Stage(h)
        BY <1>3 DEF InPlace, active
      <4>2. \A b : Beside(h, b) => Beside(h, b)'
        BY <3>2, BesideSame
      <4>3. \A n, b : Only(n, b) => Only(n, b)'
        BY <3>2 DEF Only
      <4>4. running' = running /\ (faults # {} => faults' # {})
        BY <3>2 DEF running
      <4> QED
        BY <3>2, <4>1, <4>2, <4>3, <4>4 DEF Stage
    <3> QED
      BY <2>2, <3>2, <3>3 DEF InPlace, active
  <2> QED
    BY <2>1, <2>2
<1> QED
  BY <1>4, <1>5, <1>6, <1>7 DEF Next

\* The installation as it is found: nobody is at work on it.
LEMMA InitOrdered == Init => Ordered /\ Expected
<1> SUFFICES ASSUME Init PROVE Ordered /\ Expected
  OBVIOUS
<1>1. General
  BY InitGeneral
<1>2. /\ \A c \in Containers : worker[c] = Idle
      /\ \A h \in Helpers : helper[h] = NoHelper
  BY DEF Init
<1>3. active = {}
  BY <1>2 DEF active, Active, NoHelper
<1>4. Alone
  BY <1>2, <1>3 DEF Alone, Idle
<1>5. Only("emcargo", TRUE) /\ file.phase # "done"
  BY DEF Init, Only
<1>6. InPlace
  BY <1>3, <1>5 DEF InPlace, Quiet
<1> QED
  BY <1>1, <1>4, <1>6 DEF Ordered, Expected

-----------------------------------------------------------------------------
(* The theorems *)

\* A set without two different members has at most one.
LEMMA AtMostOne ==
  ASSUME NEW S, \A x, y \in S : x = y PROVE Cardinality(S) <= 1
<1>1. CASE S = {}
  BY <1>1, FS_EmptySet
<1>2. ASSUME NEW x \in S PROVE Cardinality(S) <= 1
  <2>1. S = {x}
    BY <1>2
  <2> QED
    BY <2>1, FS_Singleton
<1> QED
  BY <1>1, <1>2

\* The invariant without a bound on what goes wrong.
LEMMA AlwaysOrdered == Spec => []Ordered
<1>1. Init => Ordered
  BY InitOrdered
<1>2. Ordered /\ [Next]_vars => Ordered'
  BY NextOrdered
<1> QED
  BY <1>1, <1>2, PTL DEF Spec

\* And with it, where at most one thing goes wrong.
LEMMA AlwaysExpected == ASSUME MaxFaults <= 1 PROVE Spec => [](Ordered /\ Expected)
<1>1. Init => Ordered /\ Expected
  BY InitOrdered
<1>2. Ordered /\ Expected /\ [Next]_vars => (Ordered /\ Expected)'
  BY NextOrdered, NextExpected
<1> QED
  BY <1>1, <1>2, PTL DEF Spec

\* The variables keep their types, and the exception handler deletes a
\* successor only where there is one (update_helper.py main).
THEOREM UpdateTyped == Spec => []TypeOK
<1>1. Ordered => TypeOK
  <2> SUFFICES ASSUME Typed, Knows PROVE TypeOK
    BY DEF Ordered, General
  <2>1. \A h \in Helpers : helper[h].at = "undo_delete" => helper[h].new \in Containers
    BY DEF Typed, Knows, Active
  <2>2. \A c \in DOMAIN containers : containers[c] \in Record
    BY DEF Typed
  <2> QED
    BY <2>1, <2>2 DEF TypeOK, Typed, Record
<1> QED
  BY <1>1, AlwaysOrdered, PTL

\* "Updated" is only ever reported while a healthy application of the new
\* release runs, whatever goes wrong and however often
\* (update_helper.py:182-188).
THEOREM ReportIsTrue == Spec => []DoneIsTrue
<1>1. Ordered => DoneIsTrue
  BY DEF Ordered, General, Knows, Works, DoneIsTrue
<1> QED
  BY <1>1, AlwaysOrdered, PTL

\* No two helpers are ever at work at a time, however often the application
\* restarts and loses its lock, as long as no answer of the daemon is lost
\* (meta.py:131-143).
THEOREM OneUpdate == Spec => []SingleUpdate
<1>1. Ordered => SingleUpdate
  <2> SUFFICES ASSUME Alone PROVE Cardinality(active) <= 1
    BY DEF Ordered, SingleUpdate
  <2> QED
    BY AtMostOne DEF Alone
<1> QED
  BY <1>1, AlwaysOrdered, PTL

\* Wherever a helper is, one application runs at most.
LEMMA ExpectedOne == ASSUME Ordered, Expected PROVE OneRunning
<1> SUFFICES ASSUME "lost" \notin faults PROVE \A x, y \in running : x = y
  BY AtMostOne DEF OneRunning
<1>1. InPlace
  BY DEF Expected
<1>2. \A n, b : Only(n, b) => running \subseteq {Original}
  BY DEF Only, running
<1>3. CASE active = {}
  BY <1>1, <1>2, <1>3 DEF InPlace, Quiet
<1>4. ASSUME NEW h \in active PROVE \A x, y \in running : x = y
  <2>1. Stage(h) /\ h \in Helpers /\ helper[h].at \in Active
    BY <1>1 DEF InPlace, active
  <2>2. \A b : Beside(h, b) => running \subseteq {helper[h].new}
    BY DEF Beside, running
  <2>3. \/ \E n, b : Only(n, b)
        \/ \E b : Beside(h, b)
        \/ running = {helper[h].new}
    BY <2>1 DEF Stage, Active
  <2> QED
    BY <1>2, <2>2, <2>3
<1> QED
  BY <1>3, <1>4

\* Two applications never run side by side on one data directory, wherever
\* the one thing that goes wrong does (update_helper.py:159-199).
THEOREM OneApplication == ASSUME MaxFaults <= 1 PROVE Spec => []OneRunning
<1>1. Ordered /\ Expected => OneRunning
  BY ExpectedOne
<1> QED
  BY <1>1, AlwaysExpected, PTL

\* An update that was not killed leaves one working application under the
\* name of the installation: the new release if it is reported done, the
\* earlier one otherwise (update_helper.py:190-199).
THEOREM InstallationWorks == ASSUME MaxFaults <= 1 PROVE Spec => []WorkingInstallation
<1>1. Ordered /\ Expected => WorkingInstallation
  <2> SUFFICES ASSUME Expected, active = {}, "lost" \notin faults,
                      \A h \in Helpers : helper[h].at # "died"
               PROVE  \E c \in DOMAIN containers :
                        /\ running = {c} /\ containers[c].sound /\ containers[c].name = "emcargo"
                        /\ containers[c].release = IF file.phase = "done" THEN "next" ELSE "present"
    BY DEF WorkingInstallation
  <2>1. Quiet
    BY DEF Expected, InPlace
  <2>2. CASE Only("emcargo", TRUE) /\ file.phase # "done"
    BY <2>2 DEF Only, running
  <2>3. ASSUME NEW c \in Containers, file.phase = "done", running = {c}, Works(c),
               containers[c].name = "emcargo"
        PROVE  WorkingInstallation
    BY <2>3 DEF Works, running, WorkingInstallation
  <2> QED
    BY <2>1, <2>2, <2>3 DEF Quiet, WorkingInstallation
<1> QED
  BY <1>1, AlwaysExpected, PTL

=============================================================================

------------------------------ MODULE Updater ------------------------------
(***************************************************************************)
(* The in-app update (api/routes/meta.py update_apply, services/updater.py *)
(* start_update, update_helper.py main).  The application pulls the new    *)
(* release and starts a helper container, which replaces the application's *)
(* container and reports into the state file that both share.              *)
(*                                                                         *)
(* Both talk to the container daemon.  A call is carried out and answered, *)
(* refused, or breaks off: before it is carried out ("raised") or, when    *)
(* only the answer is lost, after it ("lost").                             *)
(***************************************************************************)
EXTENDS Integers, FiniteSets, Functions

CONSTANTS
  Containers,  \* ids of application containers
  Original,    \* the one that is installed
  Helpers,     \* helper containers; also the names their victims are put under
  None,
  Faults,      \* what can go wrong, of AllFaults
  MaxFaults    \* bound: how many things go wrong

AllFaults == {"refused", "raised", "lost", "unsound", "killed", "restarted"}

ASSUME UpdaterAssumption ==
  /\ Original \in Containers /\ None \notin Containers \cup Helpers
  /\ "emcargo" \notin Helpers
  /\ Faults \subseteq AllFaults /\ MaxFaults \in Nat

VARIABLES
  containers,  \* the application containers there are: name, release, ...
  file,        \* update-state.json: its phase, and whether it is under 20 minutes old
  worker,      \* worker[c]: the update thread of the application in c
  helper,      \* helper[h]: where main() is, and its variables
  faults       \* what went wrong

vars == <<containers, file, worker, helper, faults>>

IN_PROGRESS == {"pulling", "handed_over", "stopping"}

Idle == [at |-> "idle", helper |-> None]
NoHelper == [at |-> "none", old |-> None, name |-> None, new |-> None]

\* Where a helper is while it runs.
Active ==
  {"inspect", "retain", "stop", "rename", "create", "start", "watch", "delete", "report",
   "undo_delete", "undo_rename", "undo_start", "undo_report"}

active == {h \in Helpers : helper[h].at \in Active}
running == {c \in DOMAIN containers : containers[c].running}
fresh == {h \in Helpers : helper[h] = NoHelper}
named(n) == {c \in DOMAIN containers : containers[c].name = n}

-----------------------------------------------------------------------------
(* The daemon *)

fail(kind) ==
  /\ kind \in Faults /\ Cardinality(faults) < MaxFaults
  /\ faults' = faults \cup {kind}

\* A call that makes the containers "after", if it is possible.
call(possible, after, result) ==
  \/ possible /\ result = "ok" /\ containers' = after /\ UNCHANGED faults
  \/ ~possible /\ result = "refused" /\ UNCHANGED <<containers, faults>>
  \/ result \in {"refused", "raised"} /\ fail(result) /\ UNCHANGED containers
  \/ possible /\ result = "lost" /\ fail(result) /\ containers' = after

without(c) == Restrict(containers, DOMAIN containers \ {c})

\* Another application that runs may hold the ports of c, or not.
startable(c) == {TRUE : x \in {c} \cap DOMAIN containers} \cup {FALSE : x \in running \ {c}}

-----------------------------------------------------------------------------
(* The application in container c *)

write_state(phase) == file' = [phase |-> phase, recent |-> TRUE]

\* Mutant: only the lock of the process tells that an update is under way.
update_apply_locked(c) ==
  /\ c \in running /\ containers[c].release = "present"
  /\ worker[c] = Idle /\ fresh /= {}
  /\ write_state("pulling")
  /\ worker' = [worker EXCEPT ![c].at = "pull"]
  /\ UNCHANGED <<containers, helper, faults>>

\* Refused while this process works on an update, or while the state file
\* says that one is under way and is not 20 minutes old.  Bound: an update
\* for which no member of Helpers is left is not asked for.
update_apply(c) ==
  /\ c \in running /\ containers[c].release = "present"
  /\ worker[c] = Idle /\ fresh /= {}
  /\ ~(file.phase \in IN_PROGRESS /\ file.recent)
  /\ write_state("pulling")
  /\ worker' = [worker EXCEPT ![c].at = "pull"]
  /\ UNCHANGED <<containers, helper, faults>>

\* The thread ends with an exception, which it reports.
give_up(c) == write_state("failed") /\ worker' = [worker EXCEPT ![c] = Idle]

pull(c) ==
  /\ worker[c].at = "pull"
  /\ \E result \in {"ok", "refused", "raised"} :
       /\ call(TRUE, containers, result)
       /\ IF result = "ok"
          THEN worker' = [worker EXCEPT ![c].at = "create"] /\ UNCHANGED file
          ELSE give_up(c)
  /\ UNCHANGED helper

\* Creates the helper and announces it before it can report itself.
create_helper(c, h) ==
  /\ worker[c].at = "create" /\ helper[h] = NoHelper
  /\ \E result \in {"ok", "refused", "raised"} :
       /\ call(TRUE, containers, result)
       /\ IF result = "ok"
          THEN /\ worker' = [worker EXCEPT ![c] = [at |-> "start", helper |-> h]]
               /\ helper' = [helper EXCEPT ![h] = [NoHelper EXCEPT !.at = "created", !.old = c]]
               /\ write_state("handed_over")
          ELSE give_up(c) /\ UNCHANGED helper

start_helper(c) ==
  /\ worker[c].at = "start"
  /\ \E result \in {"ok", "refused", "raised", "lost"} :
       /\ call(TRUE, containers, result)
       /\ IF result \in {"ok", "lost"}
          THEN helper' = [helper EXCEPT ![worker[c].helper].at = "inspect"]
          ELSE UNCHANGED helper
       /\ CASE result = "ok"   -> worker' = [worker EXCEPT ![c] = Idle] /\ UNCHANGED file
            [] result = "lost" -> worker' = [worker EXCEPT ![c].at = "failing"] /\ UNCHANGED file
            [] OTHER           -> give_up(c)

\* The request whose answer was lost has timed out.
time_out(c) ==
  worker[c].at = "failing" /\ give_up(c) /\ UNCHANGED <<containers, helper, faults>>

\* The application's process ends and the daemon starts it again.
restart(c) ==
  /\ c \in running
  /\ fail("restarted")
  /\ worker' = [worker EXCEPT ![c] = Idle]
  /\ UNCHANGED <<containers, file, helper>>

-----------------------------------------------------------------------------
(* Helper h: main(), one action per call *)

\* Mutant: the successor that does not work is left where it is.
rollback_beside(h) == "undo_rename"

\* Mutant: a successor is deleted although none was created.
rollback_always(h) == "undo_delete"

\* Where the exception handler starts.
rollback(h) == IF helper[h].new = None THEN "undo_rename" ELSE "undo_delete"

go(h, at) == helper' = [helper EXCEPT ![h].at = at]

\* The call of helper h at "at", and where it goes on after each result.
step(h, at, possible, after, ok, refused, raised) ==
  /\ helper[h].at = at
  /\ \E result \in {"ok", "refused", "raised", "lost"} :
       /\ call(possible, after, result)
       /\ go(h, CASE result = "ok"      -> ok
                  [] result = "refused" -> refused
                  [] OTHER              -> raised)

\* Mutant: the container that is not there is nobody's report.
inspect_silent(h) ==
  LET old == helper[h].old
  IN  /\ helper[h].at = "inspect"
      /\ \E result \in {"ok", "refused", "raised"} :
           /\ call(old \in DOMAIN containers, containers, result)
           /\ helper' = [helper EXCEPT
                ![h].at   = CASE result = "ok" -> "retain" [] result = "refused" -> "ended"
                              [] OTHER -> "died",
                ![h].name = IF result = "ok" THEN containers[old].name ELSE None]
      /\ UNCHANGED <<file, worker>>

\* Outside the exception handler: a call that breaks off ends the helper.
inspect(h) ==
  LET old == helper[h].old
  IN  /\ helper[h].at = "inspect"
      /\ \E result \in {"ok", "refused", "raised"} :
           /\ call(old \in DOMAIN containers, containers, result)
           /\ helper' = [helper EXCEPT
                ![h].at   = CASE result = "ok" -> "retain" [] result = "refused" -> "ended"
                              [] OTHER -> "died",
                ![h].name = IF result = "ok" THEN containers[old].name ELSE None]
           /\ IF result = "refused" THEN write_state("failed") ELSE UNCHANGED file
      /\ UNCHANGED worker

\* Copies the templates, then says that it stops the application.
retain_templates(h) ==
  /\ step(h, "retain", helper[h].old \in DOMAIN containers, containers,
          "stop", rollback(h), rollback(h))
  /\ IF helper'[h].at = "stop" THEN write_state("stopping") ELSE UNCHANGED file
  /\ UNCHANGED worker

\* Stops the application and waits; its update thread, if any, is gone.
stop(h) ==
  LET old == helper[h].old
  IN  /\ step(h, "stop", old \in DOMAIN containers, [containers EXCEPT ![old].running = FALSE],
              "rename", rollback(h), rollback(h))
      /\ worker' = IF containers' = containers THEN worker ELSE [worker EXCEPT ![old] = Idle]
      /\ UNCHANGED file

rename(h) ==
  LET old == helper[h].old
  IN  /\ step(h, "rename", old \in DOMAIN containers /\ named(h) = {},
              [containers EXCEPT ![old].name = h], "create", rollback(h), rollback(h))
      /\ UNCHANGED <<file, worker>>

\* The successor may turn out never to become healthy.
create(h) ==
  /\ helper[h].at = "create"
  /\ \E c \in Containers \ (DOMAIN containers \cup {helper[g].old : g \in Helpers}
                              \cup {helper[g].new : g \in Helpers}),
       sound \in BOOLEAN, result \in {"ok", "refused", "raised", "lost"} :
       LET new == [name |-> helper[h].name, release |-> "next", running |-> FALSE, sound |-> sound]
           after == [x \in DOMAIN containers \cup {c} |-> IF x = c THEN new ELSE containers[x]]
       IN  /\ IF sound THEN call(named(helper[h].name) = {}, after, result)
              ELSE result = "ok" /\ named(helper[h].name) = {} /\ fail("unsound") /\ containers' = after
           /\ helper' = [helper EXCEPT
                ![h].at  = IF result = "ok" THEN "start" ELSE rollback(h),
                ![h].new = IF result = "ok" THEN c ELSE None]
  /\ UNCHANGED <<file, worker>>

start(h) ==
  LET new == helper[h].new
  IN  /\ \E possible \in startable(new) :
           step(h, "start", possible, [containers EXCEPT ![new].running = TRUE],
                "watch", rollback(h), rollback(h))
      /\ UNCHANGED <<file, worker>>

\* Mutant: a successor that runs is good enough.
wait_until_started(h) ==
  LET new == helper[h].new
  IN  /\ step(h, "watch", new \in running, containers,
              "delete", rollback(h), rollback(h))
      /\ UNCHANGED <<file, worker>>

\* The successor is watched until it is healthy or the time is up.
wait_until_running(h) ==
  LET new == helper[h].new
  IN  /\ step(h, "watch", new \in running /\ containers[new].sound, containers,
              "delete", rollback(h), rollback(h))
      /\ UNCHANGED <<file, worker>>

delete(h) ==
  LET old == helper[h].old
  IN  /\ step(h, "delete", old \in DOMAIN containers \ running, without(old),
              "report", "report", rollback(h))
      /\ UNCHANGED <<file, worker>>

report(h) ==
  /\ helper[h].at = "report" /\ go(h, "ended") /\ write_state("done")
  /\ UNCHANGED <<containers, worker, faults>>

\* The exception handler.  It reads no answers, and a call that breaks off
\* ends the helper.
undo_delete(h) ==
  LET new == helper[h].new
  IN  /\ step(h, "undo_delete", new \in DOMAIN containers, without(new),
              "undo_rename", "undo_rename", "died")
      /\ UNCHANGED <<file, worker>>

undo_rename(h) ==
  LET old == helper[h].old
  IN  /\ step(h, "undo_rename", old \in DOMAIN containers /\ named(helper[h].name) = {},
              [containers EXCEPT ![old].name = helper[h].name],
              "undo_start", "undo_start", "died")
      /\ UNCHANGED <<file, worker>>

undo_start(h) ==
  LET old == helper[h].old
  IN  /\ \E possible \in startable(old) \cup {FALSE : x \in {old} \ DOMAIN containers} :
           step(h, "undo_start", possible, [containers EXCEPT ![old].running = TRUE],
                "undo_report", "undo_report", "died")
      /\ UNCHANGED <<file, worker>>

undo_report(h) ==
  /\ helper[h].at = "undo_report" /\ go(h, "ended") /\ write_state("failed")
  /\ UNCHANGED <<containers, worker, faults>>

\* The helper's process ends where it is.
kill(h) ==
  /\ h \in active
  /\ fail("killed")
  /\ go(h, "died")
  /\ UNCHANGED <<containers, file, worker>>

-----------------------------------------------------------------------------
(* 20 minutes pass.  Every wait of a helper, and every call that the       *)
(* thread makes after the pull, has a limit of minutes at most: by then    *)
(* the helper has ended or died and the thread has started it.             *)
age ==
  /\ file.recent /\ active = {}
  /\ \A c \in Containers : worker[c].at \in {"idle", "pull"}
  /\ file' = [file EXCEPT !.recent = FALSE]
  /\ UNCHANGED <<containers, worker, helper, faults>>

apply(c) ==
  pull(c) \/ (\E h \in Helpers : create_helper(c, h)) \/ start_helper(c) \/ time_out(c)

main(h) ==
  \/ inspect(h) \/ retain_templates(h) \/ stop(h) \/ rename(h) \/ create(h) \/ start(h)
  \/ wait_until_running(h) \/ delete(h) \/ report(h)
  \/ undo_delete(h) \/ undo_rename(h) \/ undo_start(h) \/ undo_report(h)

Init ==
  /\ containers = [c \in {Original} |->
       [name |-> "emcargo", release |-> "present", running |-> TRUE, sound |-> TRUE]]
  /\ file = [phase |-> "none", recent |-> FALSE]
  /\ worker = [c \in Containers |-> Idle]
  /\ helper = [h \in Helpers |-> NoHelper]
  /\ faults = {}

Next ==
  \/ \E c \in Containers : update_apply(c) \/ apply(c) \/ restart(c)
  \/ \E h \in Helpers : main(h) \/ kill(h)
  \/ age

Spec == Init /\ [][Next]_vars

\* The thread and the helper run on; nobody has to ask for an update.
FairSpec ==
  /\ Spec
  /\ \A c \in Containers : WF_vars(apply(c))
  /\ \A h \in Helpers : WF_vars(main(h))

-----------------------------------------------------------------------------
(* Properties *)

PHASES == {"none", "done", "failed"} \cup IN_PROGRESS

\* What the variables hold; a helper deletes a successor only where it has one.
TypeOK ==
  /\ DOMAIN containers \subseteq Containers
  /\ \A c \in DOMAIN containers :
       containers[c] \in [name : {"emcargo"} \cup Helpers, release : {"present", "next"},
                          running : BOOLEAN, sound : BOOLEAN]
  /\ file \in [phase : PHASES, recent : BOOLEAN]
  /\ \A c \in Containers : /\ worker[c].at \in {"idle", "pull", "create", "start", "failing"}
                            /\ worker[c].helper \in Helpers \cup {None}
  /\ \A h \in Helpers : /\ helper[h].at \in Active \cup {"none", "created", "ended", "died"}
                         /\ helper[h].name \in {None, "emcargo"} \cup Helpers
                         /\ {helper[h].old, helper[h].new} \subseteq Containers \cup {None}
                         /\ helper[h].at = "undo_delete" => helper[h].new \in Containers
  /\ faults \subseteq Faults

\* However an update goes, a killed helper or a restart in the middle
\* included, two applications never run side by side on one data directory
\* (update_helper.py:159-199: the old one stops before the successor starts,
\* and the successor is removed before the old one is started again).  It
\* takes the answers of the daemon to arrive.
OneRunning == "lost" \notin faults => Cardinality(running) <= 1

\* Two updates of the installation are never under way at a time, although
\* the lock is released when the helper is started and is lost when the
\* application restarts (meta.py:131-143).
SingleUpdate == "lost" \notin faults => Cardinality(active) <= 1

\* When no helper is at work and none was killed or broke off, exactly one
\* application runs, under the name of the installation, and it works: the
\* new release if the update is reported done, otherwise the one that was
\* there before (update_helper.py:190-199, "an update that fails must leave
\* a working installation").
WorkingInstallation ==
  active = {} /\ "lost" \notin faults /\ (\A h \in Helpers : helper[h].at /= "died") =>
    \E c \in DOMAIN containers :
      /\ running = {c} /\ containers[c].sound /\ containers[c].name = "emcargo"
      /\ containers[c].release = IF file.phase = "done" THEN "next" ELSE "present"

\* "Updated" is only ever reported while a healthy application of the new
\* release runs, whatever answers were lost on the way
\* (update_helper.py:182-188).
DoneIsTrue ==
  file.phase = "done" =>
    \E c \in running : containers[c].sound /\ containers[c].release = "next"

\* An update that was started and meets nothing worse than refusals and an
\* unhealthy successor ends with a report of success or failure: "must also
\* terminate progress visibly" (meta.py:147-151).
ProgressEnds ==
  file.phase \in IN_PROGRESS ~>
    file.phase \in {"done", "failed"} \/ ~(faults \subseteq {"refused", "unsound"})

\* What update_helper.py:191-192 says of its exception handler: after a
\* failed update some application runs.
FailureLeavesWorking ==
  file.phase = "failed" /\ active = {} => running /= {}

=============================================================================

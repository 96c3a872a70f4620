------------------------------ MODULE MCServer ------------------------------
(***************************************************************************)
(* What one server does: its own update, the uploads that hold its         *)
(* database, the model server it starts, and the judgement of a load and   *)
(* of a consignment.  The five share neither state nor locks; an end of    *)
(* the application ends the uploads and turns with it, which no property   *)
(* here is about.  The turns meet one install, the installs each other.    *)
(***************************************************************************)
EXTENDS Updater, UploadLock, AssistantRuntime, MCCarriage, MCStowage

VARIABLE scene

ServerInit ==
  /\ Init /\ LockInit /\ CarriageInit /\ StowageInit
  /\ \/ scene \in {"update", "uploads", "load", "segregation"} /\ RuntimeInit
     \/ scene = "assistant" /\ RuntimeStart({}, Installs)
     \/ scene = "assistant" /\ \E i \in Installs : RuntimeStart(Turns, {i})

ServerNext ==
  /\ UNCHANGED scene
  /\ \/ scene = "update" /\ Next /\ UNCHANGED <<lockVars, runtimeVars, carriageVars, lines>>
     \/ scene = "uploads" /\ LockNext /\ UNCHANGED <<vars, runtimeVars, carriageVars, lines>>
     \/ scene = "assistant" /\ RuntimeNext /\ UNCHANGED <<vars, lockVars, carriageVars, lines>>
     \/ scene = "load" /\ CarriageNext /\ UNCHANGED <<vars, lockVars, runtimeVars, lines>>
     \/ scene = "segregation" /\ StowageNext /\ UNCHANGED <<vars, lockVars, runtimeVars, carriageVars>>

\* The fairness of the first three, none of which anybody has to set going.
ServerSpec ==
  /\ ServerInit /\ [][ServerNext]_<<scene, vars, lockVars, runtimeVars, carriageVars, lines>>
  /\ \A c \in Containers : WF_vars(apply(c))
  /\ \A h \in Helpers : WF_vars(main(h))
  /\ \A r \in Requests : WF_lockVars(Proceed(r))
  /\ \A r \in Turns : WF_runtimeVars(take_turn(r))
  /\ \A i \in Installs : WF_runtimeVars(run(i))
=============================================================================

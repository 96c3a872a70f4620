--------------------------- MODULE AssistantProofs ---------------------------
(***************************************************************************)
(* Proofs about the assistant: AssistantRuntime, for any turns, installs,  *)
(* servers and length of the model, and Interview, for any goods,          *)
(* substances and regulations, and any number of turns.                    *)
(*                                                                         *)
(* OneServer follows from the server started last being the only one that  *)
(* may be alive.  ModelVerified needs to know whose bytes are where: while *)
(* no two installs were at work together, the inode that an install writes *)
(* is neither the model nor anybody else's, and what a sound install has   *)
(* written so far is right.  LateAnswersDropped follows from nobody        *)
(* waiting for an answer behind a closed panel.                            *)
(*                                                                         *)
(* AnswersBelong and ReadyIsComplete follow from what the panel and the    *)
(* wizard agree on (InterviewInv): goods have one entry at most; when a    *)
(* question about dangerous goods is shown, the entries are of the         *)
(* substances of their goods and the question is about one of them; the    *)
(* one turn that is waited for carries the draft that the panel shows; and *)
(* every step of its history was such a state.  The lemmas before it say   *)
(* what the helpers for sequences, the derivation of entries, an answer    *)
(* and the choice of the next question do to a draft.                      *)
(***************************************************************************)
EXTENDS AssistantRuntime, Interview, FiniteSetTheorems, SequenceTheorems, TLAPS

\* The server that runs is the one that was started last.
LastOnly == \A n \in Servers : alive(n) => n = process

Before == {"new", "started", "server", "clear", "unpack", "unpacking", "open"}
Holding == {"write", "verify"}

\* Whoever has not opened its file yet has an inode that nobody knows.
Fresh(i) ==
  install[i].at \in Before =>
    /\ model # i /\ part # i
    /\ \A j \in Installs : install[j].at \in Holding => install[j].handle # i

\* Whoever writes alone writes the .part file, and so far what it should.
Writes(i) ==
  install[i].at \in Holding =>
    /\ install[i].handle # model
    /\ part \in {install[i].handle, Absent}
    /\ install[i].sound =>
         \A c \in 1..Chunks : c < install[i].next => inode[install[i].handle][c] = "right"

Alone ==
  /\ \A i, j \in Installs : install[i].at \in Working /\ install[j].at \in Working => i = j
  /\ part # Absent => part # model
  /\ model # Absent => \A c \in 1..Chunks : inode[model][c] = "right"
  /\ \A i \in Installs : Fresh(i) /\ Writes(i)

\* Where the handle and the position of an install are, whoever else is at work.
Steps(i) ==
  /\ install[i].at \in Before => install[i].next = 1
  /\ install[i].at = "write" => install[i].handle \in Installs /\ install[i].next \in 1..Chunks
  /\ install[i].at = "verify" => install[i].handle \in Installs /\ install[i].next = Chunks + 1

Positions == \A i \in Installs : Steps(i)

RuntimeInv == RuntimeTypeOK /\ LastOnly /\ Positions /\ (~overlapped => Alone)

\* What Alone is about.
fileVars == <<part, model, inode, install, overlapped>>

LEMMA StillAlone ==
  ASSUME Positions, ~overlapped => Alone, UNCHANGED fileVars
  PROVE  Positions' /\ (~overlapped' => Alone')
  BY DEF fileVars, Positions, Steps, Alone, Fresh, Writes

-----------------------------------------------------------------------------
(* Turns and servers *)

LEMMA Asked ==
  ASSUME RuntimeInv, NEW r \in Turns, ask(r) \/ take_turn(r)
  PROVE  RuntimeInv'
  <1>1. UNCHANGED fileVars
    BY DEF ask, take_turn, ensure_server, poll, deadline, complete, files, installing, fileVars
  <1>2. CASE ensure_server(r)
    <2>1. RuntimeTypeOK'
      BY <1>2 DEF ensure_server, go_on, unused, files, installing, TurnOver, RuntimeInv,
                  RuntimeTypeOK
    <2>2. LastOnly'
      BY <1>2 DEF ensure_server, unused, alive, RuntimeInv, RuntimeTypeOK, LastOnly
    <2>3. QED
      BY <1>1, <2>1, <2>2, StillAlone DEF RuntimeInv
  <1>3. CASE ask(r) \/ poll(r) \/ deadline(r) \/ complete(r)
    <2>1. RuntimeTypeOK'
      BY <1>3 DEF ask, poll, deadline, complete, go_on, files, installing, TurnOver,
                  RuntimeInv, RuntimeTypeOK
    <2>2. LastOnly'
      BY <1>3 DEF ask, poll, deadline, complete, alive, RuntimeInv, LastOnly
    <2>3. QED
      BY <1>1, <2>1, <2>2, StillAlone DEF RuntimeInv
  <1>4. QED
    BY <1>2, <1>3 DEF take_turn

LEMMA Served ==
  ASSUME RuntimeInv, NEW n \in Servers, serve(n)
  PROVE  RuntimeInv'
  <1>1. RuntimeTypeOK'
    BY DEF serve, alive, files, installing, RuntimeInv, RuntimeTypeOK
  <1>2. LastOnly'
    BY DEF serve, alive, RuntimeInv, RuntimeTypeOK, LastOnly
  <1>3. UNCHANGED fileVars
    BY DEF serve, files, installing, fileVars
  <1>4. QED
    BY <1>1, <1>2, <1>3, StillAlone DEF RuntimeInv

LEMMA ServerEnded ==
  ASSUME RuntimeTypeOK, LastOnly, end_server
  PROVE  /\ process' = Absent /\ server' \in [Servers -> {"ended", "starting", "healthy"}]
         /\ LastOnly'
  BY DEF RuntimeTypeOK, LastOnly, end_server, alive

LEMMA Stopped ==
  ASSUME RuntimeInv, stop_server
  PROVE  RuntimeInv'
  <1>1. UNCHANGED fileVars
    BY DEF stop_server, files, installing, fileVars
  <1>2. RuntimeTypeOK' /\ LastOnly'
    BY ServerEnded DEF stop_server, files, installing, RuntimeInv, RuntimeTypeOK
  <1>3. QED
    BY <1>1, <1>2, StillAlone DEF RuntimeInv

\* Without its files a model is not installed.
LEMMA Removed ==
  ASSUME RuntimeInv, remove
  PROVE  RuntimeInv'
  <1>1. CASE end_server /\ removing' = "stopped" /\ UNCHANGED <<turn, binary, files, installing>>
    <2>1. UNCHANGED fileVars
      BY <1>1 DEF files, installing, fileVars
    <2>2. RuntimeTypeOK' /\ LastOnly'
      BY <1>1, ServerEnded DEF files, installing, RuntimeInv, RuntimeTypeOK
    <2>3. QED
      BY <2>1, <2>2, StillAlone DEF RuntimeInv
  <1>2. CASE /\ removing' = "deleted" /\ binary' = NoBinary /\ part' = Absent /\ model' = Absent
             /\ UNCHANGED <<serving, inode, installing>>
    <2>1. RuntimeTypeOK'
      BY <1>2 DEF NoBinary, serving, installing, RuntimeInv, RuntimeTypeOK
    <2>2. LastOnly'
      BY <1>2 DEF serving, alive, RuntimeInv, LastOnly
    <2>3. \A i \in Installs : i # Absent
      BY AssistantAssumption
    <2>4. ~overlapped' => Alone'
      BY <1>2, <2>3 DEF installing, RuntimeInv, Positions, Steps, Alone, Fresh, Writes, Holding
    <2>5. Positions'
      BY <1>2 DEF installing, RuntimeInv, Positions, Steps
    <2>6. QED
      BY <2>1, <2>2, <2>4, <2>5 DEF RuntimeInv
  <1>3. CASE removing' = "no" /\ download' = "idle" /\ UNCHANGED <<serving, files, install, overlapped>>
    <2>1. UNCHANGED fileVars
      BY <1>3 DEF files, fileVars
    <2>2. RuntimeTypeOK' /\ LastOnly'
      BY <1>3 DEF serving, files, alive, RuntimeInv, RuntimeTypeOK, LastOnly
    <2>3. QED
      BY <2>1, <2>2, StillAlone DEF RuntimeInv
  <1>4. QED
    BY <1>1, <1>2, <1>3 DEF remove, serving, files, installing

-----------------------------------------------------------------------------
(* Installs *)

\* What an install changes leaves the servers alone.
LEMMA ServersApart ==
  ASSUME LastOnly, UNCHANGED serving
  PROVE  LastOnly'
  BY DEF LastOnly, serving, alive

Installation ==
  [at : {"new", "started", "over"} \cup Working, sound : BOOLEAN,
   handle : Installs \cup {Absent}, next : 1..(Chunks + 1)]

\* What an install that takes another step keeps.
LEMMA To ==
  ASSUME RuntimeTypeOK, NEW i \in Installs, NEW at \in {"started"} \cup Working, to(i, at)
  PROVE  /\ install' \in [Installs -> Installation]
         /\ \A j \in Installs :
              /\ install'[j].at = IF j = i THEN at ELSE install[j].at
              /\ install'[j].sound = install[j].sound
              /\ install'[j].handle = install[j].handle
              /\ install'[j].next = install[j].next
  <1> USE DEF Installation
  <1>1. install \in [Installs -> Installation]
    BY DEF RuntimeTypeOK
  <1>2. [install[i] EXCEPT !.at = at] \in Installation
    BY <1>1
  <1>3. \A j \in Installs : install'[j] = IF j = i THEN [install[j] EXCEPT !.at = at] ELSE install[j]
    BY <1>1 DEF to
  <1>4. install' \in [Installs -> Installation]
    BY <1>1, <1>2 DEF to
  <1>5. QED
    BY <1>1, <1>3, <1>4

\* An install goes on to another step, its file not opened yet.
LEMMA Approaches ==
  ASSUME RuntimeInv, NEW i \in Installs, NEW at \in {"started"} \cup (Working \cap Before),
         install[i].at \in Before, to(i, at), UNCHANGED <<part, model, inode>>
  PROVE  /\ Positions'
         /\ ~overlapped /\ (at \in Working => at_work \subseteq {i}) => Alone'
  <1>1. \A j \in Installs :
          /\ install'[j].at = IF j = i THEN at ELSE install[j].at
          /\ install'[j].sound = install[j].sound
          /\ install'[j].handle = install[j].handle
          /\ install'[j].next = install[j].next
    BY To, at \in {"started"} \cup Working DEF RuntimeInv
  <1>2. at \in Before /\ at \notin Holding /\ install[i].at \notin Holding
    BY DEF Before, Holding
  <1>3. Positions'
    BY <1>1, <1>2 DEF RuntimeInv, Positions, Steps, Holding
  <1>4. ASSUME ~overlapped, at \in Working => at_work \subseteq {i}
        PROVE  Alone'
    <2>1. Alone
      BY <1>4 DEF RuntimeInv
    <2>2. \A j \in Installs : Fresh(j)'
      BY <1>1, <1>2, <2>1 DEF Alone, Fresh
    <2>3. \A j \in Installs : Writes(j)'
      BY <1>1, <1>2, <2>1 DEF Alone, Writes, Holding
    <2>4. ASSUME NEW j \in Installs, NEW k \in Installs,
                 install'[j].at \in Working, install'[k].at \in Working
          PROVE  j = k
      BY <1>1, <1>4, <2>1, <2>4 DEF Alone, at_work
    <2>5. QED
      BY <2>1, <2>2, <2>3, <2>4 DEF Alone
  <1>5. QED
    BY <1>3, <1>4

\* The second part of start_download is where two installs may meet.
LEMMA Started ==
  ASSUME RuntimeInv, NEW i \in Installs, start_download(i)
  PROVE  RuntimeInv'
  <1>1. LastOnly'
    BY ServersApart DEF start_download, RuntimeInv
  <1>2. UNCHANGED <<process, server, turn, binary, part, model, inode, removing>>
    BY DEF start_download, serving, files
  <1>3. CASE install[i].at = "new" /\ to(i, "started") /\ UNCHANGED <<download, overlapped>>
    <2>1. RuntimeTypeOK'
      BY <1>2, <1>3, To DEF RuntimeInv, RuntimeTypeOK, Installation
    <2>2. Positions' /\ (~overlapped' => Alone')
      BY <1>2, <1>3, Approaches, "started" \notin Working DEF Before, Working
    <2>3. QED
      BY <1>1, <2>1, <2>2 DEF RuntimeInv
  <1>4. CASE /\ install[i].at = "started" /\ to(i, "server") /\ download' = "downloading"
             /\ overlapped' = (overlapped \/ at_work # {})
    <2>1. "server" \in {"started"} \cup Working /\ "server" \in Working \cap Before
      BY DEF Working, Before
    <2>2. install' \in [Installs -> Installation]
      BY <1>4, <2>1, To DEF RuntimeInv
    <2>3. overlapped' \in BOOLEAN
      BY <1>4
    <2>4. RuntimeTypeOK'
      BY <1>2, <1>4, <2>2, <2>3 DEF RuntimeInv, RuntimeTypeOK, Installation
    <2>5. ~overlapped' => ~overlapped /\ at_work = {}
      BY <1>4
    <2>6. Positions' /\ (~overlapped' => Alone')
      BY <1>2, <1>4, <2>1, <2>5, Approaches DEF Before
    <2>7. QED
      BY <1>1, <2>4, <2>6 DEF RuntimeInv
  <1>5. QED
    BY <1>3, <1>4 DEF start_download

LEMMA ServerInstalled ==
  ASSUME RuntimeInv, NEW i \in Installs, install_server(i)
  PROVE  RuntimeInv'
  <1>1. PICK at \in {"clear", "unpack", "unpacking", "open"} :
          to(i, at) /\ install[i].at \in {"server", "clear", "unpack", "unpacking"}
    BY DEF install_server
  <1>2. at \in Working \cap Before /\ install[i].at \in Working \cap Before
    BY <1>1 DEF Working, Before
  <1>3. RuntimeTypeOK'
    <2>1. binary' \in [directory : BOOLEAN, by : Installs \cup {Absent}, whole : BOOLEAN]
      <3>1. binary \in [directory : BOOLEAN, by : Installs \cup {Absent}, whole : BOOLEAN]
        BY DEF RuntimeInv, RuntimeTypeOK
      <3>2. [NoBinary EXCEPT !.directory = TRUE]
              \in [directory : BOOLEAN, by : Installs \cup {Absent}, whole : BOOLEAN]
        BY DEF NoBinary
      <3>3. [binary EXCEPT !.whole = @ \/ binary.by = i]
              \in [directory : BOOLEAN, by : Installs \cup {Absent}, whole : BOOLEAN]
        BY <3>1
      <3>4. [directory |-> TRUE, by |-> i, whole |-> FALSE]
              \in [directory : BOOLEAN, by : Installs \cup {Absent}, whole : BOOLEAN]
        OBVIOUS
      <3>5. QED
        BY <3>1, <3>2, <3>3, <3>4 DEF install_server
    <2>2. install' \in [Installs -> Installation]
      BY <1>1, <1>2, To DEF RuntimeInv
    <2>3. download' \in {"idle", "downloading", "done", "error"}
      BY DEF install_server, RuntimeInv, RuntimeTypeOK
    <2>4. QED
      BY <2>1, <2>2, <2>3 DEF install_server, serving, Installation, RuntimeInv, RuntimeTypeOK
  <1>4. Positions' /\ (~overlapped' => Alone')
    <2>1. UNCHANGED <<part, model, inode, overlapped>>
      BY DEF install_server
    <2>2. ~overlapped => at_work \subseteq {i}
      BY <1>2 DEF at_work, RuntimeInv, Alone
    <2>3. QED
      BY <1>1, <1>2, <2>1, <2>2, Approaches
  <1>5. QED
    BY <1>3, <1>4, ServersApart DEF install_server, RuntimeInv

\* An install that is over.
LEMMA Over ==
  ASSUME RuntimeInv, NEW i \in Installs, NEW result \in {"done", "error"}, over(i, result),
         UNCHANGED <<serving, removing, overlapped, binary, inode>>,
         part' \in {part, Absent}, model' \in Installs \cup {Absent}
  PROVE  /\ RuntimeTypeOK' /\ LastOnly'
         /\ \A j \in Installs : IF j = i THEN install'[j].at = "over" ELSE install'[j] = install[j]
  <1> DEFINE ended == NewInstall("over")
  <1>1. 1 \in 1..(Chunks + 1)
    BY AssistantAssumption
  <1>2. ended \in Installation /\ ended.at = "over"
    BY <1>1 DEF NewInstall, Installation
  <1>3. install \in [Installs -> Installation] /\ install' = [install EXCEPT ![i] = ended]
    BY DEF over, Installation, RuntimeInv, RuntimeTypeOK
  <1>4. install' \in [Installs -> Installation]
    BY <1>2, <1>3
  <1>5. RuntimeTypeOK'
    BY <1>4 DEF over, serving, Installation, RuntimeInv, RuntimeTypeOK
  <1>6. QED
    BY <1>2, <1>3, <1>5, ServersApart DEF RuntimeInv

LEMMA Failed ==
  ASSUME RuntimeInv, NEW i \in Installs, fail_anywhere(i)
  PROVE  RuntimeInv'
  <1>1. /\ RuntimeTypeOK' /\ LastOnly'
        /\ \A j \in Installs : IF j = i THEN install'[j].at = "over" ELSE install'[j] = install[j]
    BY Over DEF fail_anywhere, report_error, files, RuntimeInv, RuntimeTypeOK
  <1>2. Positions' /\ (~overlapped' => Alone')
    BY <1>1 DEF fail_anywhere, report_error, files, RuntimeInv, Positions, Steps, Alone, Fresh,
                Writes, Before, Holding, Working
  <1>3. QED
    BY <1>1, <1>2 DEF RuntimeInv

LEMMA Opened ==
  ASSUME RuntimeInv, NEW i \in Installs, open(i)
  PROVE  RuntimeInv'
  <1> DEFINE opened == IF part = Absent THEN i ELSE part
  <1>1. opened \in Installs
    BY DEF RuntimeInv, RuntimeTypeOK
  <1>2. /\ install[i].at = "open" /\ part' = opened
        /\ inode' = [inode EXCEPT ![opened] = [c \in 1..Chunks |-> "hole"]]
        /\ install' = [install EXCEPT ![i].at = "write", ![i].handle = opened]
        /\ UNCHANGED <<serving, removing, overlapped, binary, model>> /\ download' = "downloading"
    BY DEF open
  <1>3. \A j \in Installs : install'[j] = IF j = i THEN [install[j] EXCEPT !.at = "write", !.handle = opened]
                                          ELSE install[j]
    BY <1>2 DEF RuntimeInv, RuntimeTypeOK
  <1>4. RuntimeTypeOK'
    <2>1. inode' \in [Installs -> Bytes]
      BY <1>1, <1>2 DEF Bytes, RuntimeInv, RuntimeTypeOK
    <2>2. install \in [Installs -> Installation]
      BY DEF Installation, RuntimeInv, RuntimeTypeOK
    <2>3. install' \in [Installs -> Installation]
      BY <1>1, <1>2, <2>2 DEF Working, Installation
    <2>4. QED
      BY <1>1, <1>2, <2>1, <2>3 DEF serving, Installation, RuntimeInv, RuntimeTypeOK
  <1>7. install'[i].next = 1 /\ install'[i].at = "write" /\ install'[i].handle = opened
    <2>1. install[i].next = 1
      BY <1>2 DEF RuntimeInv, Positions, Steps, Before
    <2>2. install'[i] = [install[i] EXCEPT !.at = "write", !.handle = opened]
      BY <1>3
    <2>3. install[i] \in Installation
      BY DEF RuntimeInv, RuntimeTypeOK, Installation
    <2>4. QED
      BY <2>1, <2>2, <2>3 DEF Installation
  <1>8. Positions'
    <2>1. \A j \in Installs \ {i} : Steps(j)'
      <3>1. \A j \in Installs \ {i} : install'[j] = install[j]
        BY <1>3
      <3>2. QED
        BY <3>1 DEF RuntimeInv, Positions, Steps
    <2>2. Steps(i)'
      BY <1>1, <1>7, AssistantAssumption DEF Steps, Before
    <2>3. QED
      BY <2>1, <2>2 DEF Positions
  <1>5. ASSUME ~overlapped'
        PROVE  Alone'
    <2>1. Alone /\ Chunks \in Nat \ {0}
      BY <1>2, <1>5, AssistantAssumption DEF RuntimeInv
    <2>2. opened # model
      BY <1>2, <2>1, AssistantAssumption DEF Alone, Fresh, Before
    <2>3. \A j \in Installs \ {i} : install[j].at \notin Holding /\ install[j].at \notin Working
      BY <1>2, <2>1 DEF Alone, Holding, Working
    <2>4. Writes(i)'
      <3>2. install'[i].next = 1 /\ install'[i].at = "write" /\ install'[i].handle = opened
        BY <1>3, <1>7
      <3>3. \A c \in 1..Chunks : ~(c < 1)
        BY <2>1
      <3>4. opened \in Installs \ {model'} /\ part' = opened /\ 1 \in 1..Chunks
        BY <1>1, <1>2, <2>1, <2>2
      <3>5. QED
        BY <3>2, <3>3, <3>4 DEF Writes
    <2>5. \A j \in Installs : Writes(j)'
      BY <1>3, <2>3, <2>4 DEF Writes
    <2>6. ASSUME NEW j \in Installs, install'[j].at \in Before
          PROVE  Fresh(j)'
      <3>1. j # i /\ install'[j] = install[j]
        BY <1>3, <2>6 DEF Before, RuntimeInv, RuntimeTypeOK
      <3>2. opened # j
        BY <2>1, <2>6, <3>1 DEF Alone, Fresh
      <3>3. install'[i].handle = opened
        BY <1>3 DEF RuntimeInv, RuntimeTypeOK
      <3>4. ASSUME NEW k \in Installs, install'[k].at \in Holding
            PROVE  install'[k].handle # j
        BY <1>3, <2>3, <3>2, <3>3, <3>4
      <3>5. QED
        BY <1>2, <2>1, <2>6, <3>1, <3>2, <3>4 DEF Alone, Fresh
    <2>7. model # Absent => \A c \in 1..Chunks : inode'[model][c] = "right"
      BY <1>2, <2>1, <2>2 DEF Alone, RuntimeInv, RuntimeTypeOK
    <2>8. QED
      BY <1>2, <1>3, <2>1, <2>2, <2>3, <2>5, <2>6, <2>7 DEF Alone, Fresh, Working
  <1>6. QED
    BY <1>2, <1>4, <1>5, <1>8, ServersApart DEF RuntimeInv

LEMMA Wrote ==
  ASSUME RuntimeInv, NEW i \in Installs, write(i)
  PROVE  RuntimeInv'
  <1> DEFINE h == install[i].handle
             n == install[i].next
  <1>1. PICK bytes \in {"right", "wrong"} :
          /\ inode' = [inode EXCEPT ![h][n] = bytes]
          /\ install' = [install EXCEPT ![i].sound = @ /\ bytes = "right", ![i].next = @ + 1,
                                        ![i].at = IF n = Chunks THEN "verify" ELSE @]
    BY DEF write
  <1>2. /\ install[i].at = "write"
        /\ UNCHANGED <<serving, removing, overlapped, binary, part, model, download>>
    BY DEF write
  <1>3. /\ install[i].sound \in BOOLEAN /\ h \in Installs /\ n \in 1..Chunks
        /\ inode \in [Installs -> Bytes] /\ Chunks \in Nat \ {0}
    BY <1>2, AssistantAssumption DEF RuntimeInv, RuntimeTypeOK, Positions, Steps
  <1>4. /\ install'[i].sound = (install[i].sound /\ bytes = "right")
        /\ install'[i].handle = h /\ install'[i].next = n + 1
        /\ install'[i].at = IF n = Chunks THEN "verify" ELSE "write"
        /\ \A j \in Installs \ {i} : install'[j] = install[j]
    BY <1>1, <1>2 DEF RuntimeInv, RuntimeTypeOK
  <1>5. ASSUME ~overlapped'
        PROVE  Alone'
    <2>1. Alone
      BY <1>2, <1>5 DEF RuntimeInv
    <2>2. h # model /\ part \in {h, Absent}
      BY <1>2, <2>1 DEF Alone, Writes, Holding
    <2>3. /\ \A c \in 1..Chunks : inode'[h][c] = IF c = n THEN bytes ELSE inode[h][c]
          /\ \A j \in Installs \ {h} : inode'[j] = inode[j]
      BY <1>1, <1>3 DEF Bytes
    <2>4. \A j \in Installs \ {i} : install[j].at \notin Holding /\ install[j].at \notin Working
      BY <1>2, <2>1 DEF Alone, Holding, Working
    <2>5. install'[i].sound =>
            \A c \in 1..Chunks : c < n + 1 => inode'[h][c] = "right"
      <3>1. ASSUME install'[i].sound, NEW c \in 1..Chunks, c < n + 1
            PROVE  inode'[h][c] = "right"
        <4>1. install[i].sound /\ bytes = "right"
          BY <1>4, <3>1
        <4>2. CASE c = n
          BY <2>3, <4>1, <4>2
        <4>3. CASE c # n
          <5>1. c < n
            BY <1>3, <3>1, <4>3
          <5>2. inode[h][c] = "right"
            BY <1>2, <2>1, <4>1, <5>1 DEF Alone, Writes, Holding
          <5>3. QED
            BY <2>3, <4>3, <5>2
        <4>4. QED
          BY <4>2, <4>3
      <3>2. QED
        BY <3>1
    <2>6. Writes(i)'
      BY <1>2, <1>3, <1>4, <2>2, <2>5 DEF Writes
    <2>7. \A j \in Installs : Writes(j)'
      BY <1>4, <2>4, <2>6 DEF Writes
    <2>8. ASSUME NEW j \in Installs, install'[j].at \in Before
          PROVE  Fresh(j)'
      <3>1. j # i /\ install'[j] = install[j]
        BY <1>4, <2>8 DEF Before
      <3>2. h # j
        BY <1>2, <2>1, <2>8, <3>1 DEF Alone, Fresh, Holding
      <3>3. QED
        BY <1>2, <1>4, <2>1, <2>4, <2>8, <3>1, <3>2 DEF Alone, Fresh
    <2>9. model # Absent => \A c \in 1..Chunks : inode'[model][c] = "right"
      BY <1>2, <2>1, <2>2, <2>3 DEF Alone, RuntimeInv, RuntimeTypeOK
    <2>10. \A j, k \in Installs : install'[j].at \in Working /\ install'[k].at \in Working => j = k
      BY <1>4, <2>4
    <2>11. QED
      BY <1>2, <2>1, <2>7, <2>8, <2>9, <2>10 DEF Alone, Fresh
  <1>6. RuntimeTypeOK'
    <2>1. inode' \in [Installs -> Bytes]
      BY <1>1, <1>3 DEF Bytes
    <2>2. n + 1 \in 1..(Chunks + 1)
      BY <1>3
    <2>3. install' \in [Installs -> Installation]
      BY <1>1, <1>2, <1>3, <2>2 DEF Installation, Working, RuntimeInv, RuntimeTypeOK
    <2>4. QED
      BY <1>2, <2>1, <2>3 DEF serving, Installation, RuntimeInv, RuntimeTypeOK
  <1>7. Positions'
    BY <1>3, <1>4 DEF RuntimeInv, Positions, Steps, Before
  <1>8. QED
    BY <1>2, <1>5, <1>6, <1>7, ServersApart DEF RuntimeInv

\* Only right bytes take the place of the model.
LEMMA Verified ==
  ASSUME RuntimeInv, NEW i \in Installs, verify(i)
  PROVE  RuntimeInv'
  <1>1. /\ install[i].at = "verify" /\ UNCHANGED <<serving, removing, overlapped, binary, inode>>
        /\ part' = Absent
        /\ model' = model \/ (model' = part /\ part # Absent /\ install[i].sound)
    <2>1. CASE digest(i) /\ part # Absent /\ model' = part /\ part' = Absent
      BY <2>1 DEF verify, digest
    <2>2. CASE part' = Absent /\ UNCHANGED model
      BY <2>2 DEF verify, digest
    <2>3. CASE part = Absent /\ UNCHANGED <<part, model>>
      BY <2>3 DEF verify, digest
    <2>4. QED
      BY <2>1, <2>2, <2>3 DEF verify
  <1>2. PICK result \in {"done", "error"} : over(i, result)
    BY DEF verify
  <1>3. model' \in Installs \cup {Absent} /\ Chunks \in Nat
    BY <1>1, AssistantAssumption DEF RuntimeInv, RuntimeTypeOK
  <1>4. /\ RuntimeTypeOK' /\ LastOnly'
        /\ \A j \in Installs : IF j = i THEN install'[j].at = "over" ELSE install'[j] = install[j]
    BY <1>1, <1>2, <1>3, Over
  <1>5. Positions'
    BY <1>4 DEF RuntimeInv, Positions, Steps, Before
  <1>6. ASSUME ~overlapped'
        PROVE  Alone'
    <2>1. Alone
      BY <1>1, <1>6 DEF RuntimeInv
    <2>2. \A j \in Installs \ {i} : install[j].at \notin Holding /\ install[j].at \notin Working
      BY <1>1, <2>1 DEF Alone, Holding, Working
    <2>3. part # Absent /\ install[i].sound => \A c \in 1..Chunks : inode[part][c] = "right"
      <3>1. install[i].next = Chunks + 1
        BY <1>1 DEF RuntimeInv, Positions, Steps
      <3>2. \A c \in 1..Chunks : c < Chunks + 1
        BY <1>3
      <3>3. QED
        BY <1>1, <2>1, <3>1, <3>2 DEF Alone, Writes, Holding
    <2>4. model' # Absent => \A c \in 1..Chunks : inode'[model'][c] = "right"
      BY <1>1, <2>1, <2>3 DEF Alone
    <2>5. \A j \in Installs : Writes(j)'
      BY <1>4, <2>2 DEF Writes, Holding
    <2>6. ASSUME NEW j \in Installs, install'[j].at \in Before
          PROVE  Fresh(j)'
      <3>1. j # i /\ install'[j] = install[j]
        BY <1>4, <2>6 DEF Before
      <3>2. model' # j /\ part' # j
        BY <1>1, <2>1, <2>6, <3>1, AssistantAssumption DEF Alone, Fresh
      <3>3. \A k \in Installs : install'[k].at \notin Holding
        BY <1>4, <2>2 DEF Holding
      <3>4. QED
        BY <3>2, <3>3 DEF Fresh
    <2>7. QED
      BY <1>1, <1>4, <2>2, <2>4, <2>5, <2>6 DEF Alone, Fresh, Working
  <1>7. QED
    BY <1>4, <1>5, <1>6 DEF RuntimeInv

-----------------------------------------------------------------------------
\* The inductive invariant.
THEOREM RuntimeInvariance == RuntimeSpec => []RuntimeInv
  <1>1. RuntimeInit => RuntimeInv
    <2> SUFFICES ASSUME RuntimeInit PROVE RuntimeInv
      OBVIOUS
    <2> USE AssistantAssumption
    <2>1. \A i \in Installs : install[i] = NewInstall("new") /\ install[i].at = "new"
                              /\ install[i].next = 1
      BY DEF RuntimeInit, RuntimeStart, NewInstall
    <2>2. RuntimeTypeOK
      <3>1. 1 \in 1..(Chunks + 1)
        OBVIOUS
      <3>2. install \in [Installs -> Installation]
        BY <3>1 DEF RuntimeInit, RuntimeStart, NewInstall, Installation
      <3>3. inode \in [Installs -> Bytes]
        BY DEF RuntimeInit, RuntimeStart, Bytes
      <3>4. binary \in [directory : BOOLEAN, by : Installs \cup {Absent}, whole : BOOLEAN]
        BY DEF RuntimeInit, RuntimeStart, NoBinary
      <3>5. turn \in [Turns -> {"new", "asked", "waiting", "sending"} \cup TurnOver]
        BY DEF RuntimeInit, RuntimeStart
      <3>6. QED
        BY <3>2, <3>3, <3>4, <3>5 DEF RuntimeInit, RuntimeStart, Installation, RuntimeTypeOK
    <2>3. LastOnly
      BY DEF RuntimeInit, RuntimeStart, LastOnly, alive
    <2>4. Positions
      BY <2>1 DEF Positions, Steps
    <2>5. Alone
      BY <2>1 DEF RuntimeInit, RuntimeStart, Alone, Fresh, Writes, Holding, Working
    <2>6. QED
      BY <2>2, <2>3, <2>4, <2>5 DEF RuntimeInv
  <1>2. RuntimeInv /\ [RuntimeNext]_runtimeVars => RuntimeInv'
    <2> SUFFICES ASSUME RuntimeInv, [RuntimeNext]_runtimeVars
                 PROVE  RuntimeInv'
      OBVIOUS
    <2>1. CASE UNCHANGED runtimeVars
      <3>1. UNCHANGED fileVars /\ RuntimeTypeOK' /\ LastOnly'
        BY <2>1 DEF runtimeVars, fileVars, RuntimeInv, RuntimeTypeOK, LastOnly, alive
      <3>2. QED
        BY <3>1, StillAlone DEF RuntimeInv
    <2>2. CASE RuntimeNext
      BY <2>2, Asked, Served, Started, ServerInstalled, Failed, Opened, Wrote, Verified,
         Stopped, Removed DEF RuntimeNext, run
    <2>3. QED
      BY <2>1, <2>2
  <1>3. QED
    BY <1>1, <1>2, PTL DEF RuntimeSpec

\* Turns, stops and removals never leave two model servers running
\* (ensure_server and stop_server under the lock).
THEOREM NeverTwoServers == RuntimeSpec => []OneServer
  <1>1. LastOnly => OneServer
    <2> SUFFICES ASSUME LastOnly PROVE OneServer
      OBVIOUS
    <2> DEFINE running == {n \in Servers : alive(n)}
    <2>1. running \subseteq {process}
      BY DEF LastOnly
    <2>2. running = {} \/ running = {process}
      BY <2>1
    <2>3. Cardinality(running) <= 1
      <3>1. CASE running = {}
        <4>1. Cardinality({}) = 0
          BY FS_EmptySet
        <4>2. QED
          BY <3>1, <4>1
      <3>2. CASE running = {process}
        <4>1. Cardinality({process}) = 1
          BY FS_Singleton
        <4>2. QED
          BY <3>2, <4>1
      <3>3. QED
        BY <2>2, <3>1, <3>2
    <2>4. QED
      BY <2>3 DEF OneServer
  <1>2. QED
    BY <1>1, RuntimeInvariance, PTL DEF RuntimeInv

\* A model that unlocks the assistant is the pinned one, whatever was broken
\* off, removed and fetched again, as long as no two installs were at work
\* together (_fetch_verified).
THEOREM OnlyThePinnedModel == RuntimeSpec => []ModelVerified
  <1>1. RuntimeInv => ModelVerified
    BY DEF RuntimeInv, Alone, ModelVerified, installed
  <1>2. QED
    BY <1>1, RuntimeInvariance, PTL

-----------------------------------------------------------------------------
(* The interview: late answers *)

\* A turn under way, whatever it carries.
ATurn(m) ==
  /\ m = [state |-> m.state, question |-> m.question, answer |-> m.answer,
          action |-> m.action, late |-> m.late, overtaken |-> m.overtaken]
  /\ m.late \in BOOLEAN /\ m.overtaken \in BOOLEAN

\* The panel, whatever it holds.
APanel ==
  /\ panel = [open |-> panel.open, busy |-> panel.busy, working |-> panel.working,
              pending |-> panel.pending, screen |-> panel.screen, history |-> panel.history]
  /\ panel.open \in BOOLEAN

\* Nobody waits for the turns of a panel that is closed, and it is behind a
\* closed panel that the wizard is worked in.
NobodyWaits ==
  /\ APanel
  /\ \A m \in calls : ATurn(m) /\ (m.overtaken => m.late) /\ (panel.open \/ m.late)

LEMMA OvertakenAs ==
  ASSUME NEW m, ATurn(m), NEW t
  PROVE  [m EXCEPT !.overtaken = t] =
           [state |-> m.state, question |-> m.question, answer |-> m.answer,
            action |-> m.action, late |-> m.late, overtaken |-> t]
  BY DEF ATurn

LEMMA Overtake ==
  ASSUME NEW m, ATurn(m)
  PROVE  LET o == [m EXCEPT !.overtaken = TRUE]
         IN  ATurn(o) /\ o.late = m.late /\ (m.overtaken => o = m)
  <1> DEFINE o == [m EXCEPT !.overtaken = TRUE]
  <1>1. o = [state |-> m.state, question |-> m.question, answer |-> m.answer,
             action |-> m.action, late |-> m.late, overtaken |-> TRUE]
    BY OvertakenAs, Zenon
  <1>2. o.late = m.late /\ o.overtaken = TRUE
    BY <1>1
  <1>3. ATurn(o)
    BY <1>1, <1>2 DEF ATurn
  <1>4. ASSUME m.overtaken PROVE o = m
    <2>1. m.overtaken = TRUE
      BY <1>4 DEF ATurn
    <2>2. QED
      BY <1>1, <2>1 DEF ATurn
  <1>5. QED
    BY <1>2, <1>3, <1>4

LEMMA Advanced ==
  ASSUME NEW S, \A m \in S : ATurn(m)
  PROVE  \A m \in Advance(S) : ATurn(m) /\ m.late
  <1> SUFFICES ASSUME NEW m \in Advance(S) PROVE ATurn(m) /\ m.late
    OBVIOUS
  <1>1. PICK b \in S : m = [Turn(Empty, NoQuestion, "none", "start")
                              EXCEPT !.late = TRUE, !.overtaken = b.overtaken]
    BY DEF Advance
  <1>2. m = [state |-> Empty, question |-> NoQuestion, answer |-> "none", action |-> "start",
             late |-> TRUE, overtaken |-> b.overtaken]
    BY <1>1 DEF Turn
  <1>3. b.overtaken \in BOOLEAN
    BY DEF ATurn
  <1>4. QED
    BY <1>2, <1>3 DEF ATurn

LEMMA NewTurn ==
  ASSUME NEW s, NEW q, NEW a, NEW k
  PROVE  ATurn(Turn(s, q, a, k)) /\ ~Turn(s, q, a, k).overtaken
  BY DEF ATurn, Turn

\* What the panel sends is waited for, and nothing else is.
LEMMA Sent ==
  ASSUME NobodyWaits, NEW s, NEW q, NEW a, NEW k, Send(Turn(s, q, a, k))
  PROVE  \A m \in calls' : ATurn(m) /\ (m.overtaken => m.late)
  <1>1. \A m \in Advance(calls) : ATurn(m) /\ m.late
    BY Advanced DEF NobodyWaits
  <1>2. QED
    BY <1>1, NewTurn DEF Send

LEMMA WorkedIn ==
  ASSUME NobodyWaits, Manual
  PROVE  NobodyWaits' /\ (\A m \in calls \ calls' : ~m.overtaken)
  <1>1. \A m \in calls : ATurn([m EXCEPT !.overtaken = TRUE])
                         /\ [m EXCEPT !.overtaken = TRUE].late = m.late
                         /\ (m.overtaken => [m EXCEPT !.overtaken = TRUE] = m)
    BY Overtake DEF NobodyWaits
  <1>2. \A m \in calls : m.late
    BY DEF NobodyWaits, Manual
  <1>3. \A m \in calls' : ATurn(m) /\ m.late
    BY <1>1, <1>2 DEF Manual
  <1>4. APanel'
    BY DEF NobodyWaits, Manual, APanel
  <1>5. \A m \in calls : m.overtaken => m \in calls'
    BY <1>1 DEF Manual
  <1>6. QED
    BY <1>3, <1>4, <1>5 DEF NobodyWaits

LEMMA PanelOpened ==
  ASSUME NEW s, NEW b, NEW t, NEW c, NEW p,
         c = [open |-> c.open, busy |-> c.busy, working |-> c.working, pending |-> c.pending,
              screen |-> c.screen, history |-> c.history],
         p = [c EXCEPT !.open = t, !.busy = b, !.working = s]
  PROVE  p = [open |-> t, busy |-> b, working |-> s, pending |-> c.pending,
              screen |-> c.screen, history |-> c.history]
  OBVIOUS

LEMMA PanelAnswered ==
  ASSUME APanel, NEW s, NEW q, NEW z, NEW h, NEW b,
         panel' = [panel EXCEPT !.busy = b, !.working = s, !.pending = q, !.screen = z,
                                !.history = h]
  PROVE  APanel' /\ panel'.open = panel.open
  BY DEF APanel

\* Only what nobody waits for is overtaken, so that the wizard stays as it is
\* when it is answered.
LEMMA AnswersOvertaken ==
  ASSUME NobodyWaits, [InterviewNext]_interviewVars
  PROVE  NobodyWaits' /\ (\A m \in calls \ calls' : m.overtaken => wizard' = wizard)
  <1>1. CASE UNCHANGED interviewVars
    BY <1>1 DEF interviewVars, NobodyWaits, APanel
  <1>2. CASE Manual
    BY <1>2, WorkedIn
  <1>3. CASE Open
    <2> DEFINE initial == buildAssistantState
    <2>1. panel' = [open |-> TRUE, busy |-> initial.lines # <<>>, working |-> initial,
                    pending |-> NoQuestion, screen |-> "describe", history |-> <<>>]
      <3>1. panel' = [ClosedPanel EXCEPT !.open = TRUE, !.busy = initial.lines # <<>>,
                                         !.working = initial]
        BY <1>3 DEF Open
      <3> HIDE DEF initial
      <3>2. QED
        <4> DEFINE c == ClosedPanel
        <4>1. c = [open |-> c.open, busy |-> c.busy, working |-> c.working,
                   pending |-> c.pending, screen |-> c.screen, history |-> c.history]
              /\ c.pending = NoQuestion /\ c.screen = "describe" /\ c.history = <<>>
          BY DEF ClosedPanel
        <4> HIDE DEF c
        <4>2. panel' = [c EXCEPT !.open = TRUE, !.busy = initial.lines # <<>>,
                                 !.working = initial]
          BY <3>1 DEF c
        <4>3. QED
          BY <4>1, <4>2, PanelOpened, Zenon
    <2>2. APanel' /\ panel'.open
      BY <2>1 DEF APanel
    <2>3. \A m \in calls' : ATurn(m) /\ (m.overtaken => m.late)
      <3>1. CASE calls' = Advance(calls)
        BY <3>1, Advanced DEF NobodyWaits
      <3>2. CASE Send(Turn(initial, NoQuestion, "none", "start"))
        BY <3>2, Sent
      <3>3. QED
        BY <1>3, <3>1, <3>2 DEF Open
    <2>4. wizard' = wizard
      BY <1>3 DEF Open
    <2>5. QED
      BY <2>2, <2>3, <2>4 DEF NobodyWaits
  <1>4. CASE Close
    <2>1. APanel'
      BY <1>4 DEF Close, ClosedPanel, APanel
    <2>2. \A m \in calls' : ATurn(m) /\ m.late
      BY <1>4, Advanced DEF Close, abandon, NobodyWaits
    <2>3. wizard' = wizard
      BY <1>4 DEF Close
    <2>4. QED
      BY <2>1, <2>2, <2>3 DEF NobodyWaits
  <1>5. CASE Reply \/ Revise
    <2>1. panel' = [panel EXCEPT !.busy = TRUE] /\ panel.open /\ wizard' = wizard
      BY <1>5 DEF Reply, Revise, Idling
    <2>2. APanel' /\ panel'.open
      BY <2>1 DEF NobodyWaits, APanel
    <2>3. \A m \in calls' : ATurn(m) /\ (m.overtaken => m.late)
      BY <1>5, Sent DEF Reply, Revise
    <2>4. QED
      BY <2>1, <2>2, <2>3 DEF NobodyWaits
  <1>6. CASE AddGoods
    <2>1. panel' = [panel EXCEPT !.screen = "describe", !.pending = NoQuestion]
          /\ panel.open /\ calls' = calls
      BY <1>6 DEF AddGoods, Idling
    <2>2. APanel' /\ panel'.open
      BY <2>1 DEF NobodyWaits, APanel
    <2>3. QED
      BY <2>1, <2>2 DEF NobodyWaits
  <1>7. CASE goBack
    <2> DEFINE snapshot == Last(panel.history)
    <2>1. panel' = [panel EXCEPT !.working = snapshot.state, !.pending = snapshot.pending,
                     !.screen = snapshot.screen, !.history = Front(@)]
          /\ panel.open /\ calls' = calls
      BY <1>7 DEF goBack, Idling
    <2> HIDE DEF snapshot
    <2>2. APanel' /\ panel'.open
      BY <2>1 DEF NobodyWaits, APanel
    <2>3. QED
      BY <2>1, <2>2 DEF NobodyWaits
  <1>8. ASSUME NEW m \in calls, Deliver(m)
        PROVE  NobodyWaits' /\ (\A n \in calls \ calls' : n.overtaken => wizard' = wizard)
    <2>1. calls' = calls \ {m}
      BY <1>8 DEF Deliver
    <2>2. CASE m.late
      <3>1. UNCHANGED <<wizard, panel>>
        BY <1>8, <2>2 DEF Deliver
      <3>2. QED
        BY <2>1, <3>1 DEF NobodyWaits, APanel
    <2>3. CASE ~m.late
      <3> DEFINE result == step(m)
                 snapshot == [state |-> m.state, pending |-> panel.pending,
                              screen |-> panel.screen]
                 stack == IF m.action = "start" THEN panel.history
                          ELSE IF Len(result.state.lines) > MaxBack \/ standing.renumbered THEN <<>>
                          ELSE Append(panel.history, snapshot)
                 screen == IF result.pending = NoQuestion THEN "ready"
                           ELSE IF result.pending.scope = "goods_intake" THEN "describe"
                           ELSE "question"
                 history == SubSeq(stack, 1 + Len(stack) - (IF Len(stack) < MaxBack
                                                            THEN Len(stack) ELSE MaxBack), Len(stack))
      <3>1. panel' = [panel EXCEPT !.busy = FALSE, !.working = result.state,
                        !.pending = result.pending, !.screen = screen, !.history = history]
        BY <1>8, <2>3, Zenon DEF Deliver
      <3> HIDE DEF screen, history, result
      <3>2. panel.open
        BY <1>8, <2>3 DEF NobodyWaits
      <3>3. APanel' /\ panel'.open
        <4>1. APanel' /\ panel'.open = panel.open
          BY <3>1, PanelAnswered, Zenon DEF NobodyWaits
        <4>2. QED
          BY <3>2, <4>1
      <3>4. ~m.overtaken
        BY <2>3 DEF NobodyWaits
      <3>5. QED
        BY <2>1, <3>3, <3>4 DEF NobodyWaits
    <2>4. QED
      BY <2>2, <2>3
  <1>9. ASSUME NEW m \in calls, Fail_turn(m)
        PROVE  NobodyWaits' /\ (\A n \in calls \ calls' : n.overtaken => wizard' = wizard)
    <2>1. calls' = calls \ {m} /\ wizard' = wizard
          /\ panel' = IF m.late THEN panel ELSE [panel EXCEPT !.busy = FALSE]
      BY <1>9 DEF Fail_turn
    <2>2. APanel' /\ panel'.open = panel.open
      BY <2>1 DEF NobodyWaits, APanel
    <2>3. QED
      BY <2>1, <2>2 DEF NobodyWaits
  <1>10. ASSUME NEW i \in DOMAIN wizard.lines,
               \/ removeLine(i)
               \/ \E un \in Candidates[wizard.lines[i].article] \cup {None, Rejected} :
                    decide_substance(i, un)
         PROVE Manual
    BY <1>10 DEF removeLine, decide_substance
  <1>11. (calculateFromDraft \/ goFromLines) => Manual
    BY DEF calculateFromDraft, goFromLines
  <1>12. QED
    BY <1>1, <1>2, <1>3, <1>4, <1>5, <1>6, <1>7, <1>8, <1>9, <1>10, <1>11 DEF InterviewNext

\* "late responses cannot overwrite the wizard after the panel closes"
\* (AssistantModal.tsx), however many turns are under way and whatever they carry.
THEOREM LateAnswersChangeNothing == InterviewSpec => LateAnswersDropped
  <1>1. InterviewInit => NobodyWaits
    BY DEF InterviewInit, NobodyWaits, APanel, ClosedPanel
  <1>2. NobodyWaits /\ [InterviewNext]_interviewVars => NobodyWaits'
    BY AnswersOvertaken
  <1>3. NobodyWaits /\ [InterviewNext]_interviewVars
        => [\A m \in calls \ calls' : m.overtaken => wizard' = wizard]_interviewVars
    BY AnswersOvertaken
  <1>4. QED
    BY <1>1, <1>2, <1>3, PTL DEF InterviewSpec, LateAnswersDropped

-----------------------------------------------------------------------------
(* Sequences that are put together *)

\* A set of numbers that is not empty has a least one.
LEMMA Least ==
  ASSUME NEW S \in SUBSET Nat, S # {}
  PROVE  \E n \in S : \A m \in S : n <= m
  <1> DEFINE R == {ss \in Nat \X Nat : ss[1] < ss[2]}
  <1>1. IsWellFoundedOn(R, Nat)
    BY NatLessThanWellFounded DEF OpToRel
  <1>2. \A m, n \in Nat : <<m, n>> \in R <=> m < n
    OBVIOUS
  <1> HIDE DEF R
  <1>3. \E n \in S : \A m \in S : ~(<<m, n>> \in R)
    BY <1>1, WFMin
  <1>4. PICK n \in S : \A m \in S : ~(<<m, n>> \in R)
    BY <1>3
  <1>5. \A m \in S : n <= m
    <2> SUFFICES ASSUME NEW m \in S PROVE n <= m
      OBVIOUS
    <2>1. m \in Nat /\ n \in Nat
      OBVIOUS
    <2>2. ~(m < n)
      BY <1>2, <1>4, <2>1
    <2>3. QED
      BY <2>1, <2>2
  <1>6. QED
    BY <1>5

\* What is built part by part.
Grows(f, seqs, n) ==
  \A i \in 1..n : f[i] = IF i = 1 THEN seqs[1] ELSE f[i - 1] \o seqs[i]

\* Parts can be put together one after the other.
LEMMA Growing ==
  ASSUME NEW T, NEW seqs \in Seq(Seq(T)), NEW n \in 1..Len(seqs)
  PROVE  \E f \in [1..n -> Seq(T)] : Grows(f, seqs, n)
  <1> DEFINE done(k) == \E f \in [1..k -> Seq(T)] : Grows(f, seqs, k)
             missing == {k \in 1..Len(seqs) : ~done(k)}
  <1>1. Len(seqs) \in Nat /\ \A i \in 1..Len(seqs) : seqs[i] \in Seq(T)
    OBVIOUS
  <1>2. ASSUME NEW k \in missing PROVE \E m \in missing : m < k
    <2>1. k \in 1..Len(seqs) /\ ~done(k)
      OBVIOUS
    <2>2. CASE k = 1
      <3> DEFINE f == [i \in 1..1 |-> seqs[1]]
      <3>1. f \in [1..1 -> Seq(T)] /\ Grows(f, seqs, 1)
        BY <1>1, <2>1, <2>2 DEF Grows
      <3>2. QED
        BY <2>1, <2>2, <3>1
    <2>3. CASE k # 1
      <3>1. k - 1 \in 1..Len(seqs) /\ k - 1 < k
        BY <1>1, <2>1, <2>3
      <3>2. ASSUME done(k - 1) PROVE FALSE
        <4>1. PICK f \in [1..(k - 1) -> Seq(T)] : Grows(f, seqs, k - 1)
          BY <3>2
        <4> DEFINE g == [i \in 1..k |-> IF i = k THEN f[k - 1] \o seqs[k] ELSE f[i]]
        <4>2. f[k - 1] \o seqs[k] \in Seq(T)
          BY <1>1, <2>1, <3>1, ConcatProperties
        <4>3. g \in [1..k -> Seq(T)]
          BY <2>1, <4>2
        <4>4. Grows(g, seqs, k)
          <5> SUFFICES ASSUME NEW i \in 1..k
                       PROVE  g[i] = IF i = 1 THEN seqs[1] ELSE g[i - 1] \o seqs[i]
            BY DEF Grows
          <5>1. CASE i = k
            <6>1. g[k] = f[k - 1] \o seqs[k]
              <7>1. k \in 1..k
                BY <1>1, <2>1
              <7>2. QED
                BY <7>1
            <6>2. k - 1 \in 1..k /\ k - 1 # k
              BY <1>1, <2>1, <2>3
            <6>3. g[k - 1] = f[k - 1]
              BY <6>2
            <6>4. QED
              BY <2>3, <5>1, <6>1, <6>3
          <5>2. CASE i # k
            <6>1. g[i] = f[i] /\ i \in 1..(k - 1) /\ (i # 1 => g[i - 1] = f[i - 1])
              BY <1>1, <2>1, <5>2
            <6>2. QED
              BY <4>1, <6>1 DEF Grows
          <5>3. QED
            BY <5>1, <5>2
        <4>5. QED
          BY <2>1, <4>3, <4>4
      <3>3. QED
        BY <3>1, <3>2
    <2>4. QED
      BY <2>2, <2>3
  <1>3. missing = {}
    <2> SUFFICES ASSUME missing # {} PROVE FALSE
      OBVIOUS
    <2>1. missing \in SUBSET Nat
      BY <1>1
    <2> HIDE DEF missing
    <2>2. PICK k \in missing : \A m \in missing : k <= m
      BY <2>1, Least
    <2>3. PICK m \in missing : m < k
      BY <1>2
    <2>4. m \in Nat /\ k \in Nat
      BY <2>1
    <2>5. QED
      BY <2>2, <2>3, <2>4
  <1>4. QED
    BY <1>3

\* FlattenSeq is the last of them.
LEMMA Flattening ==
  ASSUME NEW T, NEW seqs \in Seq(Seq(T)), seqs # <<>>
  PROVE  \E f \in [1..Len(seqs) -> Seq(T)] :
           Grows(f, seqs, Len(seqs)) /\ FlattenSeq(seqs) = f[Len(seqs)]
  <1> DEFINE n == Len(seqs)
             Unfolds(g) == g = [i \in 1..n |-> IF i = 1 THEN seqs[i] ELSE g[i - 1] \o seqs[i]]
             h == CHOOSE g : Unfolds(g)
  <1>1. n \in Nat \ {0}
    BY EmptySeq
  <1>2. FlattenSeq(seqs) = h[n]
    BY <1>1 DEF FlattenSeq
  <1>3. PICK f \in [1..n -> Seq(T)] : Grows(f, seqs, n)
    BY <1>1, Growing
  <1>4. Unfolds(f)
    BY <1>1, <1>3 DEF Grows
  <1> HIDE DEF Unfolds
  <1>5. Unfolds(h)
    BY <1>4
  <1> HIDE DEF h
  <1>6. Grows(h, seqs, n) /\ DOMAIN h = 1..n
    BY <1>1, <1>5 DEF Unfolds, Grows
  <1>7. h \in [1..n -> Seq(T)]
    <2> DEFINE odd == {i \in 1..n : h[i] \notin Seq(T)}
    <2>1. ASSUME odd # {} PROVE FALSE
      <3>1. odd \in SUBSET Nat
        BY <1>1
      <3>2. PICK i \in odd : \A j \in odd : i <= j
        BY <2>1, <3>1, Least
      <3>3. i \in 1..n /\ h[i] \notin Seq(T)
        OBVIOUS
      <3>4. seqs[i] \in Seq(T)
        BY <3>3
      <3>5. i # 1
        <4>1. i = 1 => h[i] = seqs[1]
          BY <1>1, <1>6, <3>3 DEF Grows
        <4>2. QED
          BY <3>3, <3>4, <4>1
      <3>6. h[i - 1] \in Seq(T)
        <4>1. i - 1 \in 1..n /\ ~(i <= i - 1)
          BY <1>1, <3>3, <3>5
        <4>2. QED
          BY <3>2, <4>1
      <3>7. h[i] = h[i - 1] \o seqs[i]
        BY <1>6, <3>3, <3>5 DEF Grows
      <3>8. QED
        BY <3>3, <3>4, <3>6, <3>7, ConcatProperties
    <2>2. \A i \in 1..n : h[i] \in Seq(T)
      BY <2>1
    <2>3. h = [i \in 1..n |-> h[i]]
      BY <1>5, <1>6 DEF Unfolds
    <2>4. QED
      BY <2>2, <2>3
  <1>8. QED
    BY <1>2, <1>6, <1>7

\* What two sequences hold together.
Mixes(c, a, b) ==
  /\ \A k \in 1..Len(c) : \/ \E j \in 1..Len(a) : c[k] = a[j]
                         \/ \E j \in 1..Len(b) : c[k] = b[j]
  /\ \A j \in 1..Len(a) : \E k \in 1..Len(c) : c[k] = a[j]
  /\ \A j \in 1..Len(b) : \E k \in 1..Len(c) : c[k] = b[j]

\* Two sequences put together hold what either holds.
LEMMA Joins ==
  ASSUME NEW T, NEW a \in Seq(T), NEW b \in Seq(T), NEW c, c = a \o b
  PROVE  c \in Seq(T) /\ Mixes(c, a, b)
  <1>1. /\ c \in Seq(T) /\ Len(c) = Len(a) + Len(b) /\ Len(a) \in Nat /\ Len(b) \in Nat
        /\ \A k \in 1..Len(c) : c[k] = IF k <= Len(a) THEN a[k] ELSE b[k - Len(a)]
    BY ConcatProperties, LenProperties
  <1>2. ASSUME NEW k \in 1..Len(c)
        PROVE  \/ \E j \in 1..Len(a) : c[k] = a[j]
               \/ \E j \in 1..Len(b) : c[k] = b[j]
    <2>1. CASE k <= Len(a)
      BY <1>1, <2>1
    <2>2. CASE ~(k <= Len(a))
      <3>1. k - Len(a) \in 1..Len(b) /\ c[k] = b[k - Len(a)]
        BY <1>1, <2>2
      <3>2. QED
        BY <3>1
    <2>3. QED
      BY <2>1, <2>2
  <1>3. ASSUME NEW j \in 1..Len(a) PROVE \E k \in 1..Len(c) : c[k] = a[j]
    <2>1. j \in 1..Len(c) /\ j <= Len(a)
      BY <1>1
    <2>2. QED
      BY <1>1, <2>1
  <1>4. ASSUME NEW j \in 1..Len(b) PROVE \E k \in 1..Len(c) : c[k] = b[j]
    <2>1. Len(a) + j \in 1..Len(c) /\ ~(Len(a) + j <= Len(a)) /\ (Len(a) + j) - Len(a) = j
      BY <1>1
    <2>2. c[Len(a) + j] = b[j]
      BY <1>1, <2>1
    <2>3. QED
      BY <2>1, <2>2
  <1>5. QED
    BY <1>1, <1>2, <1>3, <1>4 DEF Mixes

\* What is put together is what the parts hold.
LEMMA Flattened ==
  ASSUME NEW T, NEW seqs \in Seq(Seq(T))
  PROVE  /\ FlattenSeq(seqs) \in Seq(T)
         /\ \A k \in 1..Len(FlattenSeq(seqs)) : \E i \in 1..Len(seqs) :
              \E j \in 1..Len(seqs[i]) : FlattenSeq(seqs)[k] = seqs[i][j]
         /\ \A i \in 1..Len(seqs) : \A j \in 1..Len(seqs[i]) :
              \E k \in 1..Len(FlattenSeq(seqs)) : FlattenSeq(seqs)[k] = seqs[i][j]
  <1>1. CASE seqs = <<>>
    BY <1>1 DEF FlattenSeq
  <1>2. CASE seqs # <<>>
    <2> DEFINE n == Len(seqs)
    <2>1. PICK f \in [1..n -> Seq(T)] : Grows(f, seqs, n) /\ FlattenSeq(seqs) = f[n]
      BY <1>2, Flattening
    <2>2. n \in Nat \ {0} /\ \A i \in 1..n : seqs[i] \in Seq(T) /\ f[i] \in Seq(T)
      BY <1>2, EmptySeq
    <2> DEFINE From(m) == \A k \in 1..Len(f[m]) : \E i \in 1..m :
                            \E j \in 1..Len(seqs[i]) : f[m][k] = seqs[i][j]
               Into(m) == \A i \in 1..m : \A j \in 1..Len(seqs[i]) :
                            \E k \in 1..Len(f[m]) : f[m][k] = seqs[i][j]
               odd == {m \in 1..n : ~(From(m) /\ Into(m))}
    <2>3. From(1) /\ Into(1)
      <3>1. 1 \in 1..n
        BY <2>2
      <3>2. f[1] = seqs[1]
        BY <2>1, <3>1 DEF Grows
      <3>3. QED
        BY <3>2
    <2>4. ASSUME NEW m \in 2..n, From(m - 1), Into(m - 1) PROVE From(m) /\ Into(m)
      <3>1. m - 1 \in 1..n /\ m \in 1..n /\ m # 1 /\ m \in 1..m
        BY <2>2
      <3>2. f[m] = f[m - 1] \o seqs[m]
        BY <2>1, <3>1 DEF Grows
      <3>3. f[m - 1] \in Seq(T) /\ seqs[m] \in Seq(T)
        BY <2>2, <3>1
      <3>4. \A i \in 1..m : i = m \/ i \in 1..(m - 1)
        BY <2>2
      <3>5. 1..(m - 1) \subseteq 1..m
        BY <2>2
      <3>9. /\ \A k \in 1..Len(f[m]) : \/ \E j \in 1..Len(f[m - 1]) : f[m][k] = f[m - 1][j]
                                      \/ \E j \in 1..Len(seqs[m]) : f[m][k] = seqs[m][j]
            /\ \A j \in 1..Len(f[m - 1]) : \E k \in 1..Len(f[m]) : f[m][k] = f[m - 1][j]
            /\ \A j \in 1..Len(seqs[m]) : \E k \in 1..Len(f[m]) : f[m][k] = seqs[m][j]
        <4> DEFINE a == f[m - 1]
                   b == seqs[m]
                   c == f[m]
        <4>1. a \in Seq(T) /\ b \in Seq(T) /\ c = a \o b
          BY <3>2, <3>3
        <4> HIDE DEF a, b, c, From, Into
        <4>2. Mixes(c, a, b)
          BY <4>1, Joins, Zenon
        <4>3. QED
          BY <4>2 DEF a, b, c, Mixes
      <3>6. From(m)
        <4> SUFFICES ASSUME NEW k \in 1..Len(f[m])
                     PROVE  \E i \in 1..m : \E j \in 1..Len(seqs[i]) : f[m][k] = seqs[i][j]
          OBVIOUS
        <4>1. CASE \E j \in 1..Len(f[m - 1]) : f[m][k] = f[m - 1][j]
          <5>1. PICK j \in 1..Len(f[m - 1]) : f[m][k] = f[m - 1][j]
            BY <4>1
          <5>2. PICK i \in 1..(m - 1) : \E l \in 1..Len(seqs[i]) : f[m - 1][j] = seqs[i][l]
            BY <2>4
          <5>3. i \in 1..m /\ \E l \in 1..Len(seqs[i]) : f[m][k] = seqs[i][l]
            BY <3>5, <5>1, <5>2
          <5>4. QED
            BY <5>3
        <4>2. CASE \E j \in 1..Len(seqs[m]) : f[m][k] = seqs[m][j]
          BY <3>1, <4>2, Zenon
        <4>3. QED
          BY <3>9, <4>1, <4>2
      <3>7. Into(m)
        <4> SUFFICES ASSUME NEW i \in 1..m, NEW j \in 1..Len(seqs[i])
                     PROVE  \E k \in 1..Len(f[m]) : f[m][k] = seqs[i][j]
          OBVIOUS
        <4>1. CASE i = m
          BY <3>9, <4>1
        <4>2. CASE i \in 1..(m - 1)
          <5>1. PICK k \in 1..Len(f[m - 1]) : f[m - 1][k] = seqs[i][j]
            BY <2>4, <4>2, Zenon
          <5>2. QED
            BY <3>9, <5>1
        <4>3. QED
          BY <3>4, <4>1, <4>2
      <3>8. QED
        BY <3>6, <3>7
    <2> HIDE DEF From, Into
    <2>5. odd = {}
      <3> SUFFICES ASSUME odd # {} PROVE FALSE
        OBVIOUS
      <3>1. odd \in SUBSET Nat
        BY <2>2
      <3>2. PICK m \in odd : \A k \in odd : m <= k
        BY <3>1, Least
      <3>3. m \in 2..n
        BY <2>2, <2>3
      <3>4. m - 1 \in 1..n /\ ~(m <= m - 1)
        BY <2>2, <3>3
      <3>5. m - 1 \notin odd
        BY <3>2, <3>4
      <3>6. From(m - 1) /\ Into(m - 1)
        BY <3>4, <3>5
      <3>7. QED
        BY <2>4, <3>3, <3>6
    <2>6. From(n) /\ Into(n) /\ n \in 1..n
      BY <2>2, <2>5
    <2>7. QED
      <3>1. f[n] = FlattenSeq(seqs) /\ f[n] \in Seq(T)
        BY <2>1, <2>2, <2>6
      <3> DEFINE F == FlattenSeq(seqs)
      <3>2. /\ \A k \in 1..Len(f[n]) : \E i \in 1..n : \E j \in 1..Len(seqs[i]) : f[n][k] = seqs[i][j]
            /\ \A i \in 1..n : \A j \in 1..Len(seqs[i]) : \E k \in 1..Len(f[n]) : f[n][k] = seqs[i][j]
        BY <2>6 DEF From, Into
      <3>3. F = f[n]
        BY <3>1
      <3> HIDE DEF F
      <3>4. /\ \A k \in 1..Len(F) : \E i \in 1..n : \E j \in 1..Len(seqs[i]) : F[k] = seqs[i][j]
            /\ \A i \in 1..n : \A j \in 1..Len(seqs[i]) : \E k \in 1..Len(F) : F[k] = seqs[i][j]
        BY <3>2, <3>3
      <3>5. QED
        BY <3>1, <3>4 DEF F
  <1>3. QED
    BY <1>1, <1>2

\* Of parts that hold one thing or nothing: which of them each is from.
PicksBy(h, c, seqs, m) ==
  /\ h \in [1..Len(c) -> 1..m]
  /\ \A k \in 1..Len(c) : seqs[h[k]] = <<c[k]>>
  /\ \A k, l \in 1..Len(c) : h[k] = h[l] => k = l
  /\ \A i \in 1..m : seqs[i] # <<>> => \E k \in 1..Len(c) : h[k] = i

Picks(c, seqs, m) == \E h : PicksBy(h, c, seqs, m)

\* The first part, when every part is one item or none.
LEMMA PicksFirst ==
  ASSUME NEW T, NEW seqs \in Seq(Seq(T)), 1 \in 1..Len(seqs), Len(seqs[1]) \in {0, 1}
  PROVE  Picks(seqs[1], seqs, 1)
  <1>1. seqs[1] \in Seq(T)
    OBVIOUS
  <1> DEFINE c == seqs[1]
             h == [k \in 1..Len(c) |-> 1]
  <1>2. CASE Len(c) = 0
    <2>1. c = <<>>
      BY <1>1, <1>2, EmptySeq
    <2>2. PicksBy(h, c, seqs, 1)
      BY <1>2, <2>1 DEF PicksBy
    <2>3. QED
      BY <2>2 DEF Picks
  <1>3. CASE Len(c) = 1
    <2>1. c = <<c[1]>>
      BY <1>1, <1>3
    <2>2. PicksBy(h, c, seqs, 1)
      BY <1>3, <2>1 DEF PicksBy
    <2>3. QED
      BY <2>2 DEF Picks
  <1>4. QED
    BY <1>2, <1>3

\* One part more.
LEMMA PicksNext ==
  ASSUME NEW T, NEW seqs \in Seq(Seq(T)), NEW m \in 2..Len(seqs), Len(seqs[m]) \in {0, 1},
         NEW a \in Seq(T), Picks(a, seqs, m - 1), NEW c, c = a \o seqs[m]
  PROVE  Picks(c, seqs, m)
  <1>1. Len(seqs) \in Nat /\ m \in Nat /\ seqs[m] \in Seq(T) /\ Len(a) \in Nat
    OBVIOUS
  <1>2. PICK h : PicksBy(h, a, seqs, m - 1)
    BY DEF Picks
  <1>3. \A i \in 1..m : i = m \/ i \in 1..(m - 1)
    BY <1>1
  <1>4. 1..(m - 1) \subseteq 1..m /\ m \in 1..m /\ m \notin 1..(m - 1)
    BY <1>1
  <1>5. CASE Len(seqs[m]) = 0
    <2>1. seqs[m] = <<>>
      BY <1>1, <1>5, EmptySeq
    <2>2. c = a
      BY <2>1
    <2>3. h \in [1..Len(a) -> 1..m]
      BY <1>2, <1>4 DEF PicksBy
    <2>4. PicksBy(h, c, seqs, m)
      BY <1>2, <1>3, <2>1, <2>2, <2>3 DEF PicksBy
    <2>5. QED
      BY <2>4 DEF Picks
  <1>6. CASE Len(seqs[m]) = 1
    <2> DEFINE n == Len(a) + 1
               x == seqs[m][1]
               g == [k \in 1..n |-> IF k = n THEN m ELSE h[k]]
    <2>1. seqs[m] = <<x>>
      BY <1>1, <1>6
    <2>2. Len(c) = n /\ c[n] = x /\ \A k \in 1..Len(a) : c[k] = a[k]
      <3>1. Len(c) = n /\ \A k \in 1..n : c[k] = IF k <= Len(a) THEN a[k] ELSE seqs[m][k - Len(a)]
        <4>1. /\ Len(a \o seqs[m]) = Len(a) + Len(seqs[m])
              /\ \A k \in 1..Len(a) + Len(seqs[m]) :
                   (a \o seqs[m])[k] = IF k <= Len(a) THEN a[k] ELSE seqs[m][k - Len(a)]
          BY <1>1, ConcatProperties, Zenon
        <4>2. Len(a) + Len(seqs[m]) = n
          BY <1>6
        <4> HIDE DEF n
        <4>3. QED
          BY <4>1, <4>2, Zenon
      <3>2. n \in 1..n /\ ~(n <= Len(a)) /\ n - Len(a) = 1
        BY <1>1
      <3>3. \A k \in 1..Len(a) : k \in 1..n /\ k <= Len(a)
        BY <1>1
      <3>4. c[n] = x
        BY <3>1, <3>2
      <3> HIDE DEF n
      <3>5. QED
        BY <3>1, <3>3, <3>4
    <2>3. /\ n \in 1..n /\ n \notin 1..Len(a) /\ 1..Len(a) \subseteq 1..n
          /\ \A k \in 1..n : k = n \/ k \in 1..Len(a)
      <3> DEFINE p == Len(a)
      <3>1. p \in Nat /\ n = p + 1
        BY <1>1
      <3> HIDE DEF p, n
      <3>2. /\ n \in 1..n /\ n \notin 1..p /\ 1..p \subseteq 1..n
            /\ \A k \in 1..n : k = n \/ k \in 1..p
        BY <3>1
      <3>3. QED
        BY <3>2 DEF p
    <2>4. g[n] = m /\ \A k \in 1..Len(a) : g[k] = h[k] /\ h[k] \in 1..(m - 1)
      BY <1>2, <2>3 DEF PicksBy
    <2>5. DOMAIN g = 1..n /\ g = [k \in 1..n |-> g[k]]
      OBVIOUS
    <2> HIDE DEF n, x, g
    <2>6. g \in [1..n -> 1..m]
      BY <1>4, <2>3, <2>4, <2>5
    <2>7. \A k \in 1..n : seqs[g[k]] = <<c[k]>>
      BY <1>2, <2>1, <2>2, <2>3, <2>4 DEF PicksBy
    <2>8. \A k, l \in 1..n : g[k] = g[l] => k = l
      BY <1>2, <1>4, <2>3, <2>4 DEF PicksBy
    <2>9. \A i \in 1..m : seqs[i] # <<>> => \E k \in 1..n : g[k] = i
      <3> SUFFICES ASSUME NEW i \in 1..m, seqs[i] # <<>> PROVE \E k \in 1..n : g[k] = i
        OBVIOUS
      <3>1. CASE i = m
        BY <2>3, <2>4, <3>1
      <3>2. CASE i \in 1..(m - 1)
        <4>1. PICK k \in 1..Len(a) : h[k] = i
          BY <1>2, <3>2 DEF PicksBy
        <4>2. QED
          BY <2>3, <2>4, <4>1
      <3>3. QED
        BY <1>3, <3>1, <3>2
    <2>10. PicksBy(g, c, seqs, m)
      BY <2>2, <2>6, <2>7, <2>8, <2>9 DEF PicksBy
    <2>11. QED
      BY <2>10 DEF Picks
  <1>7. QED
    BY <1>5, <1>6

\* What is left of parts of one item or none is one item of each that has one.
LEMMA Picked ==
  ASSUME NEW T, NEW seqs \in Seq(Seq(T)), \A i \in 1..Len(seqs) : Len(seqs[i]) \in {0, 1}
  PROVE  FlattenSeq(seqs) \in Seq(T) /\ Picks(FlattenSeq(seqs), seqs, Len(seqs))
  <1>1. FlattenSeq(seqs) \in Seq(T)
    BY Flattened
  <1>2. CASE seqs = <<>>
    <2> DEFINE h == [k \in 1..0 |-> 1]
    <2>1. FlattenSeq(seqs) = <<>> /\ Len(<<>>) = 0 /\ 1..0 = {} /\ Len(seqs) = 0
      BY <1>2 DEF FlattenSeq
    <2>2. PicksBy(h, <<>>, seqs, 0)
      BY <2>1 DEF PicksBy
    <2>3. QED
      BY <1>1, <2>1, <2>2 DEF Picks
  <1>3. CASE seqs # <<>>
    <2> DEFINE n == Len(seqs)
    <2>1. PICK f \in [1..n -> Seq(T)] : Grows(f, seqs, n) /\ FlattenSeq(seqs) = f[n]
      BY <1>3, Flattening
    <2>2. n \in Nat \ {0}
      BY <1>3, EmptySeq
    <2> DEFINE odd == {m \in 1..n : ~Picks(f[m], seqs, m)}
    <2>3. Picks(f[1], seqs, 1)
      <3>1. 1 \in 1..n
        BY <2>2
      <3>2. f[1] = seqs[1]
        BY <2>1, <3>1 DEF Grows
      <3>3. QED
        BY <3>1, <3>2, PicksFirst
    <2>4. odd = {}
      <3> SUFFICES ASSUME odd # {} PROVE FALSE
        OBVIOUS
      <3>1. odd \in SUBSET Nat
        BY <2>2
      <3>2. PICK m \in odd : \A k \in odd : m <= k
        BY <3>1, Least
      <3>3. m \in 2..n /\ m \in 1..n /\ ~Picks(f[m], seqs, m)
        BY <2>2, <2>3
      <3>4. m - 1 \in 1..n /\ ~(m <= m - 1) /\ m # 1
        BY <2>2, <3>3
      <3>5. m - 1 \notin odd
        BY <3>2, <3>4
      <3>6. Picks(f[m - 1], seqs, m - 1) /\ f[m - 1] \in Seq(T)
        BY <2>1, <3>4, <3>5
      <3>7. f[m] = f[m - 1] \o seqs[m]
        BY <2>1, <3>3, <3>4 DEF Grows
      <3>8. Len(seqs[m]) \in {0, 1}
        BY <3>3
      <3>9. QED
        BY <3>3, <3>6, <3>7, <3>8, PicksNext
    <2>5. Picks(f[n], seqs, n)
      <3>1. n \in 1..n
        BY <2>2
      <3>2. QED
        BY <2>4, <3>1
    <2>6. QED
      BY <1>1, <2>1, <2>5
  <1>4. QED
    BY <1>2, <1>3

\* A filter: what is left is what is at the places that count, each once.
Keeps(h, kept, seq, places) ==
  /\ h \in [1..Len(kept) -> 1..Len(seq)]
  /\ \A k \in 1..Len(kept) : kept[k] = seq[h[k]] /\ h[k] \in places
  /\ \A k, l \in 1..Len(kept) : h[k] = h[l] => k = l
  /\ \A i \in 1..Len(seq) : i \in places => \E k \in 1..Len(kept) : h[k] = i

\* A sequence put together of items where they count is a filter.
LEMMA Filtered ==
  ASSUME NEW T, NEW seq \in Seq(T), NEW places, NEW kept,
         kept = FlattenSeq([i \in DOMAIN seq |-> IF i \in places THEN <<seq[i]>> ELSE <<>>])
  PROVE  kept \in Seq(T) /\ \E h : Keeps(h, kept, seq, places)
  <1> DEFINE parts == [i \in DOMAIN seq |-> IF i \in places THEN <<seq[i]>> ELSE <<>>]
  <1>1. Len(seq) \in Nat /\ DOMAIN seq = 1..Len(seq) /\ \A i \in 1..Len(seq) : seq[i] \in T
    OBVIOUS
  <1>2. \A i \in 1..Len(seq) :
          /\ parts[i] = IF i \in places THEN <<seq[i]>> ELSE <<>>
          /\ parts[i] \in Seq(T) /\ Len(parts[i]) \in {0, 1}
    BY <1>1
  <1>3. parts \in [1..Len(seq) -> Seq(T)]
    BY <1>1, <1>2
  <1>4. parts \in Seq(Seq(T)) /\ Len(parts) = Len(seq)
    BY <1>1, <1>3
  <1>5. kept = FlattenSeq(parts)
    OBVIOUS
  <1> HIDE DEF parts
  <1>6. kept \in Seq(T) /\ Picks(kept, parts, Len(seq))
    BY <1>2, <1>4, <1>5, Picked
  <1>7. PICK h : PicksBy(h, kept, parts, Len(seq))
    BY <1>6 DEF Picks
  <1>8. \A k \in 1..Len(kept) : kept[k] = seq[h[k]] /\ h[k] \in places
    <2> SUFFICES ASSUME NEW k \in 1..Len(kept) PROVE kept[k] = seq[h[k]] /\ h[k] \in places
      OBVIOUS
    <2>1. h[k] \in 1..Len(seq) /\ parts[h[k]] = <<kept[k]>>
      BY <1>7 DEF PicksBy
    <2>2. parts[h[k]] # <<>>
      BY <2>1
    <2>3. h[k] \in places /\ parts[h[k]] = <<seq[h[k]]>>
      BY <1>2, <2>1, <2>2
    <2>4. QED
      BY <2>1, <2>3
  <1>9. \A i \in 1..Len(seq) : i \in places => \E k \in 1..Len(kept) : h[k] = i
    <2> SUFFICES ASSUME NEW i \in 1..Len(seq), i \in places PROVE \E k \in 1..Len(kept) : h[k] = i
      OBVIOUS
    <2>1. parts[i] = <<seq[i]>>
      BY <1>2
    <2>2. <<seq[i]>> # <<>>
      OBVIOUS
    <2>3. QED
      BY <1>7, <2>1, <2>2 DEF PicksBy
  <1>10. QED
    BY <1>6, <1>7, <1>8, <1>9 DEF PicksBy, Keeps

-----------------------------------------------------------------------------
(* The interview: what is derived from a draft *)

\* The draft as it is, but for the bound on the number of a line.
Lines == [id : Nat, article : Articles, names : SUBSET Substances,
          un : Substances \cup {None, Rejected}, counted : BOOLEAN]
Entries == [line : Nat, un : Substances, facts : [Fields -> {Unknown} \cup (Nat \X Substances)]]
Asks == Fields \cup {"none", "quantity"}
Drafts == [lines : Seq(Lines), entries : Seq(Entries), skipped : SUBSET (Nat \X Asks)]
Scopes == {"none", "goods_intake", "goods_quantity", "un_confirm", "dg_question"}
Questions ==
  {q \in [scope : Scopes, line : Nat, field : Asks, required : BOOLEAN,
          un : Substances \cup {None}] :
     q.scope = "dg_question" => q.field \in Fields /\ q.un \in Substances}

Apart(lines) == \A i, j \in DOMAIN lines : lines[i].id = lines[j].id => i = j
Sane(s) == s \in Drafts /\ Apart(s.lines)

Single(entries) == \A i, j \in DOMAIN entries : entries[i].line = entries[j].line => i = j
Belong(entries) ==
  \A i \in DOMAIN entries : \A f \in Fields :
    entries[i].facts[f] # Unknown => entries[i].facts[f][2] = entries[i].un
Good(s) == Single(s.entries) /\ Belong(s.entries)

Synced(s) ==
  \A i \in DOMAIN s.lines : \A j \in DOMAIN s.entries :
    s.entries[j].line = s.lines[i].id =>
      /\ s.lines[i].un # Rejected
      /\ s.lines[i].un \in Substances => s.entries[j].un = s.lines[i].un

Has(s, line, un) == \E i \in DOMAIN s.entries : s.entries[i].line = line /\ s.entries[i].un = un
Concerns(s, q) == q.scope = "dg_question" => Synced(s) /\ Has(s, q.line, q.un)

Complete(s) ==
  /\ \A i \in DOMAIN s.lines :
       s.lines[i].counted /\ (s.lines[i].names # {} => s.lines[i].un # None)
  /\ \A i \in DOMAIN s.entries : LET wanted == open_questions_for(s.entries[i])
                                 IN  \A j \in DOMAIN wanted : ~wanted[j].required

Matches(w, s) ==
  /\ DOMAIN w.lines = DOMAIN s.lines
  /\ \A i \in DOMAIN w.lines : w.lines[i].counted = s.lines[i].counted /\ w.lines[i].un = s.lines[i].un
  /\ \A i \in DOMAIN w.entries : \E j \in DOMAIN s.entries :
       w.entries[i].un = s.entries[j].un /\ w.entries[i].facts = s.entries[j].facts

Screens == {"describe", "question", "ready"}
Snapshots == [state : Drafts, pending : Questions, screen : Screens]

-----------------------------------------------------------------------------
\* What _sync_dg_entries works with.
Goods(s) == {s.lines[i] : i \in DOMAIN s.lines}
Dismissed(s) == {line.id : line \in {g \in Goods(s) : g.un = Rejected}}
LeftOf(s) == Only(s.entries, LAMBDA e : e.line \notin Dismissed(s))
ChangedBy(s, left, i) ==
  {line \in Goods(s) :
     /\ line.un \in Substances \ {left[i].un}
     /\ i \in entry_of(left, line.id)}
RefreshedOf(s, left) ==
  [i \in DOMAIN left |->
     IF ChangedBy(s, left, i) = {} THEN left[i]
     ELSE other_product(left[i], (CHOOSE line \in ChangedBy(s, left, i) : TRUE).un)]
NewOf(s, left) == Only(s.lines, LAMBDA line : line.un \in Substances /\ entry_of(left, line.id) = {})
AddedOf(new) == [i \in DOMAIN new |-> [line |-> new[i].id, un |-> new[i].un, facts |-> Blank]]

\* _sync_dg_entries, with its local definitions named.
LEMMA SyncUnfolds ==
  ASSUME NEW s
  PROVE  LET left == LeftOf(s)
         IN  _sync_dg_entries(s) =
               [s EXCEPT !.entries = RefreshedOf(s, left) \o AddedOf(NewOf(s, left))]
  BY Zenon DEF _sync_dg_entries, Goods, LeftOf, Dismissed, RefreshedOf, ChangedBy, NewOf, AddedOf

\* What stays is the entries of goods that are not rejected.
LEMMA LeftKept ==
  ASSUME NEW s, Sane(s), NEW left, left = LeftOf(s)
  PROVE  /\ left \in Seq(Entries)
         /\ \E h : Keeps(h, left, s.entries,
                         {i \in DOMAIN s.entries : s.entries[i].line \notin Dismissed(s)})
  <1> DEFINE seq == s.entries
             places == {i \in DOMAIN seq : seq[i].line \notin Dismissed(s)}
  <1>1. seq \in Seq(Entries)
    BY DEF Sane, Drafts
  <1>2. left = FlattenSeq([i \in DOMAIN seq |-> IF seq[i].line \notin Dismissed(s)
                                                THEN <<seq[i]>> ELSE <<>>])
    BY DEF LeftOf, Only, Collect, When
  <1>3. left = FlattenSeq([i \in DOMAIN seq |-> IF i \in places THEN <<seq[i]>> ELSE <<>>])
    BY <1>2
  <1> HIDE DEF places, seq
  <1>4. left \in Seq(Entries) /\ \E h : Keeps(h, left, seq, places)
    BY <1>1, <1>3, Filtered, Zenon
  <1>5. QED
    BY <1>4, Zenon DEF places, seq

\* What is new is the confirmed goods that have no entry.
LEMMA NewKept ==
  ASSUME NEW s, Sane(s), NEW left, NEW new, new = NewOf(s, left)
  PROVE  /\ new \in Seq(Lines)
         /\ \E h : Keeps(h, new, s.lines,
                         {i \in DOMAIN s.lines : /\ s.lines[i].un \in Substances
                                                 /\ entry_of(left, s.lines[i].id) = {}})
  <1> DEFINE seq == s.lines
             places == {i \in DOMAIN seq : seq[i].un \in Substances /\ entry_of(left, seq[i].id) = {}}
  <1>1. seq \in Seq(Lines)
    BY DEF Sane, Drafts
  <1>2. new = FlattenSeq([i \in DOMAIN seq |-> IF seq[i].un \in Substances /\ entry_of(left, seq[i].id) = {}
                                               THEN <<seq[i]>> ELSE <<>>])
    BY DEF NewOf, Only, Collect, When
  <1>3. new = FlattenSeq([i \in DOMAIN seq |-> IF i \in places THEN <<seq[i]>> ELSE <<>>])
    BY <1>2
  <1> HIDE DEF places, seq
  <1>4. new \in Seq(Lines) /\ \E h : Keeps(h, new, seq, places)
    BY <1>1, <1>3, Filtered, Zenon
  <1>5. QED
    BY <1>4, Zenon DEF places, seq

\* An entry with another substance and other facts.
LEMMA EntryChanged ==
  ASSUME NEW e, e = [line |-> e.line, un |-> e.un, facts |-> e.facts], NEW u, NEW b,
         NEW p, p = [e EXCEPT !.un = u, !.facts = b]
  PROVE  p = [line |-> e.line, un |-> u, facts |-> b]
  OBVIOUS

\* An entry of another substance starts without facts.
LEMMA OtherProduct ==
  ASSUME NEW e \in Entries, NEW un \in Substances
  PROVE  /\ other_product(e, un) = [line |-> e.line, un |-> un, facts |-> Blank]
         /\ other_product(e, un) \in Entries
  <1>1. Blank \in [Fields -> {Unknown} \cup (Nat \X Substances)]
    BY DEF Blank
  <1>2. other_product(e, un) = [line |-> e.line, un |-> un, facts |-> Blank]
    <2>1. e = [line |-> e.line, un |-> e.un, facts |-> e.facts]
      BY DEF Entries
    <2>2. other_product(e, un) = [e EXCEPT !.un = un, !.facts = Blank]
      BY DEF other_product
    <2>3. QED
      BY <2>1, <2>2, EntryChanged, Zenon
  <1>3. QED
    BY <1>1, <1>2 DEF Entries

\* An entry without facts is one.
LEMMA NewEntry ==
  ASSUME NEW id \in Nat, NEW un \in Substances
  PROVE  [line |-> id, un |-> un, facts |-> Blank] \in Entries
  <1>1. Blank \in [Fields -> {Unknown} \cup (Nat \X Substances)]
    BY DEF Blank
  <1>2. QED
    BY <1>1 DEF Entries

Refreshes(s, left, old) ==
  /\ Len(old) = Len(left)
  /\ \A i \in 1..Len(left) :
       /\ old[i].line = left[i].line
       /\ ChangedBy(s, left, i) = {} => old[i] = left[i]
       /\ ChangedBy(s, left, i) # {} =>
            \E g \in ChangedBy(s, left, i) :
              old[i] = [line |-> left[i].line, un |-> g.un, facts |-> Blank]

\* Each entry that stays keeps its line, and its facts unless its substance changes.
LEMMA Refreshed ==
  ASSUME NEW s, Sane(s), NEW left \in Seq(Entries), NEW old, old = RefreshedOf(s, left)
  PROVE  old \in Seq(Entries) /\ Refreshes(s, left, old)
  <1> DEFINE n == Len(left)
  <1>1. n \in Nat /\ DOMAIN left = 1..n /\ \A i \in 1..n : left[i] \in Entries
    OBVIOUS
  <1>2. \A i \in 1..n :
          old[i] = IF ChangedBy(s, left, i) = {} THEN left[i]
                   ELSE other_product(left[i], (CHOOSE line \in ChangedBy(s, left, i) : TRUE).un)
    BY <1>1 DEF RefreshedOf
  <1>3. DOMAIN old = 1..n /\ old = [i \in 1..n |-> old[i]]
    BY <1>1 DEF RefreshedOf
  <1>4. \A i \in 1..n :
          /\ old[i] \in Entries /\ old[i].line = left[i].line
          /\ ChangedBy(s, left, i) = {} => old[i] = left[i]
          /\ ChangedBy(s, left, i) # {} =>
               \E g \in ChangedBy(s, left, i) :
                 old[i] = [line |-> left[i].line, un |-> g.un, facts |-> Blank]
    <2> SUFFICES ASSUME NEW i \in 1..n
                 PROVE  /\ old[i] \in Entries /\ old[i].line = left[i].line
                        /\ ChangedBy(s, left, i) = {} => old[i] = left[i]
                        /\ ChangedBy(s, left, i) # {} =>
                             \E g \in ChangedBy(s, left, i) :
                               old[i] = [line |-> left[i].line, un |-> g.un, facts |-> Blank]
      OBVIOUS
    <2>1. CASE ChangedBy(s, left, i) = {}
      BY <1>1, <1>2, <2>1
    <2>2. CASE ChangedBy(s, left, i) # {}
      <3> DEFINE g == CHOOSE line \in ChangedBy(s, left, i) : TRUE
      <3>1. g \in ChangedBy(s, left, i)
        BY <2>2
      <3>2. old[i] = other_product(left[i], g.un)
        BY <1>2, <2>2
      <3> HIDE DEF g
      <3>3. g.un \in Substances
        BY <3>1 DEF ChangedBy
      <3>4. old[i] = [line |-> left[i].line, un |-> g.un, facts |-> Blank] /\ old[i] \in Entries
        BY <1>1, <3>2, <3>3, OtherProduct
      <3>5. QED
        BY <2>2, <3>1, <3>4
    <2>3. QED
      BY <2>1, <2>2
  <1> HIDE DEF n
  <1>5. old \in [1..n -> Entries]
    BY <1>3, <1>4
  <1>6. old \in Seq(Entries) /\ Len(old) = n
    BY <1>1, <1>5
  <1>7. QED
    BY <1>4, <1>6 DEF n, Refreshes

\* The entries that are new, one for each of their goods.
LEMMA Added ==
  ASSUME NEW new \in Seq(Lines), \A i \in 1..Len(new) : new[i].un \in Substances,
         NEW added, added = AddedOf(new)
  PROVE  /\ added \in Seq(Entries) /\ Len(added) = Len(new)
         /\ \A i \in 1..Len(new) :
              added[i] = [line |-> new[i].id, un |-> new[i].un, facts |-> Blank]
  <1>1. Len(new) \in Nat /\ DOMAIN new = 1..Len(new) /\ \A i \in 1..Len(new) : new[i] \in Lines
    OBVIOUS
  <1>2. /\ \A i \in 1..Len(new) :
             added[i] = [line |-> new[i].id, un |-> new[i].un, facts |-> Blank]
        /\ added = [i \in 1..Len(new) |-> added[i]]
    BY <1>1 DEF AddedOf
  <1>3. \A i \in 1..Len(new) : added[i] \in Entries
    <2> SUFFICES ASSUME NEW i \in 1..Len(new) PROVE added[i] \in Entries
      OBVIOUS
    <2>1. new[i].id \in Nat /\ new[i].un \in Substances
      BY <1>1 DEF Lines
    <2>2. QED
      BY <1>2, <2>1, NewEntry
  <1>4. added \in [1..Len(new) -> Entries]
    BY <1>2, <1>3
  <1>5. QED
    BY <1>1, <1>2, <1>4

\* What _sync_dg_entries makes of a draft, in parts.
Parts(s, r, left, old, new, added) ==
  /\ r = [lines |-> s.lines, entries |-> old \o added, skipped |-> s.skipped]
  /\ left \in Seq(Entries) /\ old \in Seq(Entries) /\ new \in Seq(Lines) /\ added \in Seq(Entries)
  /\ \E h : Keeps(h, left, s.entries,
                 {i \in DOMAIN s.entries : s.entries[i].line \notin Dismissed(s)})
  /\ Refreshes(s, left, old)
  /\ \E h : Keeps(h, new, s.lines,
                 {i \in DOMAIN s.lines : /\ s.lines[i].un \in Substances
                                         /\ entry_of(left, s.lines[i].id) = {}})
  /\ Len(added) = Len(new)
  /\ \A i \in 1..Len(new) :
       added[i] = [line |-> new[i].id, un |-> new[i].un, facts |-> Blank]

\* A draft with other entries.
LEMMA DraftChanged ==
  ASSUME NEW s, s = [lines |-> s.lines, entries |-> s.entries, skipped |-> s.skipped], NEW e,
         NEW r, r = [s EXCEPT !.entries = e]
  PROVE  r = [lines |-> s.lines, entries |-> e, skipped |-> s.skipped]
  OBVIOUS

\* _sync_dg_entries makes a draft of those parts.
LEMMA SyncParts ==
  ASSUME NEW s, Sane(s)
  PROVE  \E left, old, new, added : Parts(s, _sync_dg_entries(s), left, old, new, added)
  <1> DEFINE left == LeftOf(s)
             old == RefreshedOf(s, left)
             new == NewOf(s, left)
             added == AddedOf(new)
             r == _sync_dg_entries(s)
  <1>1. left = LeftOf(s) /\ old = RefreshedOf(s, left) /\ new = NewOf(s, left) /\ added = AddedOf(new)
    OBVIOUS
  <1>2. r = [s EXCEPT !.entries = old \o added]
    BY SyncUnfolds, Zenon
  <1>3. s = [lines |-> s.lines, entries |-> s.entries, skipped |-> s.skipped]
    BY DEF Sane, Drafts
  <1> HIDE DEF left, old, new, added, r
  <1>4. r = [lines |-> s.lines, entries |-> old \o added, skipped |-> s.skipped]
    BY <1>2, <1>3, DraftChanged, Zenon
  <1>5. left \in Seq(Entries)
        /\ \E h : Keeps(h, left, s.entries,
                        {i \in DOMAIN s.entries : s.entries[i].line \notin Dismissed(s)})
    BY <1>1, LeftKept, Zenon
  <1>6. old \in Seq(Entries) /\ Refreshes(s, left, old)
    BY <1>1, <1>5, Refreshed, Zenon
  <1>7. /\ new \in Seq(Lines)
        /\ \E h : Keeps(h, new, s.lines,
                        {i \in DOMAIN s.lines : /\ s.lines[i].un \in Substances
                                                /\ entry_of(left, s.lines[i].id) = {}})
    BY <1>1, NewKept, Zenon
  <1>8. \A i \in 1..Len(new) : new[i].un \in Substances
    BY <1>7 DEF Keeps
  <1>9. /\ added \in Seq(Entries) /\ Len(added) = Len(new)
        /\ \A i \in 1..Len(new) :
             added[i] = [line |-> new[i].id, un |-> new[i].un, facts |-> Blank]
    BY <1>1, <1>7, <1>8, Added, Zenon
  <1>10. Parts(s, r, left, old, new, added)
    BY <1>4, <1>5, <1>6, <1>7, <1>9, Zenon DEF Parts
  <1>11. QED
    BY <1>10, Zenon DEF r

\* What the entries of the result are, in terms of the ones before.
From(s, e) ==
  \/ \E i \in DOMAIN s.entries : e = s.entries[i]
  \/ e \in Entries /\ e.facts = Blank

\* It leaves the lines alone, and an entry was there before or is blank.
LEMMA SyncKeepsDraft ==
  ASSUME NEW s, Sane(s), NEW r, r = _sync_dg_entries(s)
  PROVE  /\ Sane(r) /\ r.lines = s.lines /\ r.skipped = s.skipped
         /\ \A i \in DOMAIN r.entries : From(s, r.entries[i])
  <1>1. PICK left, old, new, added : Parts(s, r, left, old, new, added)
    BY SyncParts
  <1> DEFINE c == old \o added
  <1>2. r = [lines |-> s.lines, entries |-> c, skipped |-> s.skipped]
    BY <1>1 DEF Parts
  <1>3. old \in Seq(Entries) /\ added \in Seq(Entries)
    BY <1>1 DEF Parts
  <1>4. c = old \o added
    OBVIOUS
  <1> HIDE DEF c
  <1>5. c \in Seq(Entries) /\ Mixes(c, old, added)
    BY <1>3, <1>4, Joins, Zenon
  <1>6. Sane(r)
    BY <1>2, <1>5 DEF Sane, Drafts
  <1>7. ASSUME NEW k \in 1..Len(old) PROVE From(s, old[k])
    <2>1. k \in 1..Len(left)
      BY <1>1 DEF Parts, Refreshes
    <2>2. CASE ChangedBy(s, left, k) = {}
      <3>1. old[k] = left[k]
        BY <1>1, <2>1, <2>2 DEF Parts, Refreshes
      <3>2. \E i \in 1..Len(s.entries) : left[k] = s.entries[i]
        BY <1>1, <2>1 DEF Parts, Keeps
      <3>3. DOMAIN s.entries = 1..Len(s.entries)
        BY DEF Sane, Drafts
      <3>4. QED
        BY <3>1, <3>2, <3>3 DEF From
    <2>3. CASE ChangedBy(s, left, k) # {}
      <3>1. PICK g \in ChangedBy(s, left, k) :
              old[k] = [line |-> left[k].line, un |-> g.un, facts |-> Blank]
        BY <1>1, <2>1, <2>3 DEF Parts, Refreshes
      <3>2. old[k].facts = Blank
        BY <3>1
      <3>3. old[k] \in Entries
        BY <1>3
      <3>4. QED
        BY <3>2, <3>3 DEF From
    <2>4. QED
      BY <2>2, <2>3
  <1>8. ASSUME NEW k \in 1..Len(added) PROVE From(s, added[k])
    <2>1. k \in 1..Len(new)
      BY <1>1 DEF Parts
    <2>2. added[k] = [line |-> new[k].id, un |-> new[k].un, facts |-> Blank]
      BY <1>1, <2>1 DEF Parts
    <2>3. added[k].facts = Blank /\ added[k] \in Entries
      BY <1>3, <2>2
    <2>4. QED
      BY <2>3 DEF From
  <1>9. \A i \in 1..Len(c) : From(s, c[i])
    BY <1>5, <1>7, <1>8 DEF Mixes
  <1>10. DOMAIN c = 1..Len(c)
    BY <1>5
  <1>11. QED
    BY <1>2, <1>6, <1>9, <1>10

\* An entry that was there before, or is blank, says nothing of another substance.
LEMMA FromBelongs ==
  ASSUME NEW s, Belong(s.entries), NEW e, From(s, e)
  PROVE  \A f \in Fields : e.facts[f] # Unknown => e.facts[f][2] = e.un
  <1>1. CASE \E i \in DOMAIN s.entries : e = s.entries[i]
    BY <1>1 DEF Belong
  <1>2. CASE e.facts = Blank
    BY <1>2 DEF Blank
  <1>3. QED
    BY <1>1, <1>2 DEF From

\* So _sync_dg_entries makes no entry that says something of another substance.
LEMMA SyncBelongs ==
  ASSUME NEW s, Sane(s), Belong(s.entries), NEW r, r = _sync_dg_entries(s)
  PROVE  Belong(r.entries)
  <1>1. \A i \in DOMAIN r.entries : From(s, r.entries[i])
    BY SyncKeepsDraft
  <1>2. QED
    BY <1>1, FromBelongs DEF Belong

\* With one entry for a line, left has one as well.
LEMMA LeftSingle ==
  ASSUME NEW s, Sane(s), Single(s.entries), NEW left \in Seq(Entries),
         \E h : Keeps(h, left, s.entries,
                     {i \in DOMAIN s.entries : s.entries[i].line \notin Dismissed(s)})
  PROVE  /\ Single(left)
         /\ \A i \in 1..Len(left) : left[i].line \notin Dismissed(s)
  <1> DEFINE places == {i \in DOMAIN s.entries : s.entries[i].line \notin Dismissed(s)}
  <1>1. PICK h : Keeps(h, left, s.entries, places)
    OBVIOUS
  <1>2. DOMAIN left = 1..Len(left) /\ DOMAIN s.entries = 1..Len(s.entries)
    BY DEF Sane, Drafts
  <1>3. \A i \in places : s.entries[i].line \notin Dismissed(s)
    OBVIOUS
  <1> HIDE DEF places
  <1>4. \A i, j \in 1..Len(left) : left[i].line = left[j].line => i = j
    <2> SUFFICES ASSUME NEW i \in 1..Len(left), NEW j \in 1..Len(left), left[i].line = left[j].line
                 PROVE  i = j
      OBVIOUS
    <2>1. /\ h[i] \in DOMAIN s.entries /\ h[j] \in DOMAIN s.entries
          /\ left[i] = s.entries[h[i]] /\ left[j] = s.entries[h[j]]
      BY <1>1, <1>2 DEF Keeps
    <2>2. h[i] = h[j]
      BY <2>1 DEF Single
    <2>3. QED
      BY <1>1, <2>2 DEF Keeps
  <1>5. \A i \in 1..Len(left) : left[i].line \notin Dismissed(s)
    BY <1>1, <1>3 DEF Keeps
  <1>6. QED
    BY <1>2, <1>4, <1>5 DEF Single

\* With one entry for a line, entry_of is that entry.
LEMMA EntryOf ==
  ASSUME NEW left \in Seq(Entries), Single(left), NEW id
  PROVE  \A i \in 1..Len(left) : i \in entry_of(left, id) <=> left[i].line = id
  BY DEF entry_of, Single

\* What a line changes is its own entry.
LEMMA OwnLine ==
  ASSUME NEW s, Sane(s), NEW left \in Seq(Entries), Single(left),
         NEW i \in DOMAIN s.lines, NEW k \in 1..Len(left), left[k].line = s.lines[i].id
  PROVE  ChangedBy(s, left, k) =
           IF s.lines[i].un \in Substances \ {left[k].un} THEN {s.lines[i]} ELSE {}
  <1>1. \A g \in Goods(s) : g.id = s.lines[i].id => g = s.lines[i]
    BY DEF Goods, Sane, Apart
  <1>2. s.lines[i] \in Goods(s)
    BY DEF Goods
  <1>3. \A g : k \in entry_of(left, g.id) <=> left[k].line = g.id
    BY EntryOf
  <1>4. ChangedBy(s, left, k) = {g \in Goods(s) : g.un \in Substances \ {left[k].un} /\ left[k].line = g.id}
    BY <1>3 DEF ChangedBy
  <1>5. QED
    BY <1>1, <1>2, <1>4

\* The goods that are new are different lines, all of them without an entry.
LEMMA NewLines ==
  ASSUME NEW s, Sane(s), NEW left \in Seq(Entries), NEW new \in Seq(Lines),
         \E h : Keeps(h, new, s.lines,
                     {i \in DOMAIN s.lines : /\ s.lines[i].un \in Substances
                                             /\ entry_of(left, s.lines[i].id) = {}})
  PROVE  /\ \A k, l \in 1..Len(new) : new[k].id = new[l].id => k = l
         /\ \A k \in 1..Len(new) :
              /\ entry_of(left, new[k].id) = {} /\ new[k].un \in Substances
              /\ \E i \in DOMAIN s.lines : new[k] = s.lines[i]
         /\ \A i \in DOMAIN s.lines :
              s.lines[i].un \in Substances /\ entry_of(left, s.lines[i].id) = {}
              => \E k \in 1..Len(new) : new[k] = s.lines[i]
  <1> DEFINE places == {i \in DOMAIN s.lines : /\ s.lines[i].un \in Substances
                                               /\ entry_of(left, s.lines[i].id) = {}}
  <1>1. PICK h : Keeps(h, new, s.lines, places)
    OBVIOUS
  <1>2. DOMAIN new = 1..Len(new) /\ DOMAIN s.lines = 1..Len(s.lines)
    BY DEF Sane, Drafts
  <1>3. \A i \in DOMAIN s.lines :
          i \in places <=> (s.lines[i].un \in Substances /\ entry_of(left, s.lines[i].id) = {})
    OBVIOUS
  <1> HIDE DEF places
  <1>4. ASSUME NEW k \in 1..Len(new), NEW l \in 1..Len(new), new[k].id = new[l].id PROVE k = l
    <2>1. /\ h[k] \in DOMAIN s.lines /\ h[l] \in DOMAIN s.lines
          /\ new[k] = s.lines[h[k]] /\ new[l] = s.lines[h[l]]
      BY <1>1, <1>2 DEF Keeps
    <2>2. h[k] = h[l]
      BY <1>4, <2>1 DEF Sane, Apart
    <2>3. QED
      BY <1>1, <2>2 DEF Keeps
  <1>5. ASSUME NEW k \in 1..Len(new)
        PROVE  /\ entry_of(left, new[k].id) = {} /\ new[k].un \in Substances
               /\ \E i \in DOMAIN s.lines : new[k] = s.lines[i]
    <2>1. h[k] \in DOMAIN s.lines /\ new[k] = s.lines[h[k]] /\ h[k] \in places
      BY <1>1, <1>2 DEF Keeps
    <2>2. QED
      BY <1>3, <2>1
  <1>6. ASSUME NEW i \in DOMAIN s.lines,
               s.lines[i].un \in Substances, entry_of(left, s.lines[i].id) = {}
        PROVE  \E k \in 1..Len(new) : new[k] = s.lines[i]
    <2>1. PICK k \in 1..Len(new) : h[k] = i
      BY <1>1, <1>2, <1>3, <1>6 DEF Keeps
    <2>2. new[k] = s.lines[i]
      BY <1>1, <2>1 DEF Keeps
    <2>3. QED
      BY <2>2
  <1>7. QED
    BY <1>4, <1>5, <1>6

\* Entries of different lines, put together, are of different lines.
LEMMA SingleTogether ==
  ASSUME NEW a \in Seq(Entries), NEW b \in Seq(Entries), NEW c, c = a \o b,
         \A i, j \in 1..Len(a) : a[i].line = a[j].line => i = j,
         \A i, j \in 1..Len(b) : b[i].line = b[j].line => i = j,
         \A i \in 1..Len(a) : \A j \in 1..Len(b) : a[i].line # b[j].line
  PROVE  Single(c)
  <1>1. /\ c \in Seq(Entries) /\ Len(c) = Len(a) + Len(b) /\ Len(a) \in Nat /\ Len(b) \in Nat
        /\ DOMAIN c = 1..Len(c)
        /\ \A k \in 1..Len(c) : c[k] = IF k <= Len(a) THEN a[k] ELSE b[k - Len(a)]
    BY ConcatProperties, LenProperties
  <1> SUFFICES ASSUME NEW i \in 1..Len(c), NEW j \in 1..Len(c), c[i].line = c[j].line PROVE i = j
    BY <1>1 DEF Single
  <1>2. \A k \in 1..Len(c) : \/ k \in 1..Len(a) /\ c[k] = a[k]
                             \/ k \notin 1..Len(a) /\ k - Len(a) \in 1..Len(b) /\ c[k] = b[k - Len(a)]
    <2> SUFFICES ASSUME NEW k \in 1..Len(c)
                 PROVE  \/ k \in 1..Len(a) /\ c[k] = a[k]
                        \/ k \notin 1..Len(a) /\ k - Len(a) \in 1..Len(b) /\ c[k] = b[k - Len(a)]
      OBVIOUS
    <2>1. CASE k <= Len(a)
      BY <1>1, <2>1
    <2>2. CASE ~(k <= Len(a))
      <3>1. c[k] = b[k - Len(a)]
        BY <1>1, <2>2
      <3>2. k \notin 1..Len(a) /\ k - Len(a) \in 1..Len(b)
        BY <1>1, <2>2
      <3>3. QED
        BY <3>1, <3>2
    <2>3. QED
      BY <2>1, <2>2
  <1>3. CASE i \in 1..Len(a) /\ j \in 1..Len(a)
    BY <1>2, <1>3
  <1>4. CASE i \notin 1..Len(a) /\ j \notin 1..Len(a)
    <2>1. i - Len(a) = j - Len(a)
      BY <1>2, <1>4
    <2>2. QED
      BY <1>1, <2>1
  <1>5. CASE i \in 1..Len(a) /\ j \notin 1..Len(a)
    BY <1>2, <1>5
  <1>6. CASE i \notin 1..Len(a) /\ j \in 1..Len(a)
    BY <1>2, <1>6
  <1>7. QED
    BY <1>3, <1>4, <1>5, <1>6

\* When a line has one entry at most: the result has, the entries are of the
\* substances of their lines, and the ones that were so stay.
LEMMA SyncSettles ==
  ASSUME NEW s, Sane(s), Single(s.entries), NEW r, r = _sync_dg_entries(s)
  PROVE  /\ Single(r.entries) /\ Synced(r)
         /\ Synced(s) => \A i \in DOMAIN s.entries : Has(r, s.entries[i].line, s.entries[i].un)
  <1>1. PICK left, old, new, added : Parts(s, r, left, old, new, added)
    BY SyncParts
  <1> DEFINE c == old \o added
  <1>2. r = [lines |-> s.lines, entries |-> c, skipped |-> s.skipped]
    BY <1>1 DEF Parts
  <1>3. left \in Seq(Entries) /\ old \in Seq(Entries) /\ new \in Seq(Lines) /\ added \in Seq(Entries)
    BY <1>1 DEF Parts
  <1>4. c = old \o added
    OBVIOUS
  <1> HIDE DEF c
  <1>5. c \in Seq(Entries) /\ Mixes(c, old, added)
    BY <1>3, <1>4, Joins, Zenon
  <1>6. Single(left) /\ \A i \in 1..Len(left) : left[i].line \notin Dismissed(s)
    BY <1>1, <1>3, LeftSingle DEF Parts
  <1>7. /\ \A k, l \in 1..Len(new) : new[k].id = new[l].id => k = l
        /\ \A k \in 1..Len(new) :
             /\ entry_of(left, new[k].id) = {} /\ new[k].un \in Substances
             /\ \E i \in DOMAIN s.lines : new[k] = s.lines[i]
        /\ \A i \in DOMAIN s.lines :
             s.lines[i].un \in Substances /\ entry_of(left, s.lines[i].id) = {}
             => \E k \in 1..Len(new) : new[k] = s.lines[i]
    BY <1>1, <1>3, NewLines, Zenon DEF Parts
  <1>8. /\ Len(old) = Len(left) /\ Len(added) = Len(new)
        /\ \A k \in 1..Len(old) : old[k].line = left[k].line
        /\ \A k \in 1..Len(added) : added[k].line = new[k].id /\ added[k].un = new[k].un
    <2>1. Len(old) = Len(left) /\ Len(added) = Len(new)
      BY <1>1, Zenon DEF Parts, Refreshes
    <2>2. \A k \in 1..Len(left) : old[k].line = left[k].line
      BY <1>1, Zenon DEF Parts, Refreshes
    <2>3. \A k \in 1..Len(new) :
            added[k] = [line |-> new[k].id, un |-> new[k].un, facts |-> Blank]
      BY <1>1, Zenon DEF Parts
    <2>4. \A k \in 1..Len(new) : added[k].line = new[k].id /\ added[k].un = new[k].un
      <3> SUFFICES ASSUME NEW k \in 1..Len(new)
                   PROVE  added[k].line = new[k].id /\ added[k].un = new[k].un
        OBVIOUS
      <3>1. added[k] = [line |-> new[k].id, un |-> new[k].un, facts |-> Blank]
        BY <2>3
      <3>2. QED
        BY <3>1
    <2>5. QED
      BY <2>1, <2>2, <2>4
  <1>9. \A k \in 1..Len(left) : \A id : k \in entry_of(left, id) <=> left[k].line = id
    BY <1>3, <1>6, EntryOf
  <1>10. Single(c)
    <2>1. \A i, j \in 1..Len(old) : old[i].line = old[j].line => i = j
      <3>1. DOMAIN left = 1..Len(left)
        BY <1>3
      <3>2. \A i, j \in 1..Len(left) : left[i].line = left[j].line => i = j
        BY <1>6, <3>1, Zenon DEF Single
      <3>3. QED
        BY <1>8, <3>2
    <2>2. \A i, j \in 1..Len(added) : added[i].line = added[j].line => i = j
      BY <1>7, <1>8
    <2>3. \A i \in 1..Len(old) : \A j \in 1..Len(added) : old[i].line # added[j].line
      <3> SUFFICES ASSUME NEW i \in 1..Len(old), NEW j \in 1..Len(added), old[i].line = added[j].line
                   PROVE  FALSE
        OBVIOUS
      <3>1. i \in 1..Len(left) /\ j \in 1..Len(new) /\ left[i].line = new[j].id
        BY <1>8
      <3>2. i \in entry_of(left, new[j].id)
        BY <1>9, <3>1
      <3>3. QED
        BY <1>7, <3>1, <3>2
    <2>4. QED
      BY <1>3, <1>4, <2>1, <2>2, <2>3, SingleTogether
  <1>11. ASSUME NEW i \in DOMAIN s.lines, NEW k \in 1..Len(old), old[k].line = s.lines[i].id
         PROVE  /\ s.lines[i].un # Rejected
                /\ s.lines[i].un \in Substances => old[k].un = s.lines[i].un
                /\ left[k].un = s.lines[i].un \/ s.lines[i].un \notin Substances => old[k] = left[k]
    <2>1. k \in 1..Len(left) /\ left[k].line = s.lines[i].id
      BY <1>8, <1>11
    <2>2. s.lines[i].id \notin Dismissed(s)
      BY <1>6, <2>1
    <2>3. s.lines[i].un # Rejected
      BY <2>2 DEF Dismissed, Goods
    <2>4. ChangedBy(s, left, k) =
            IF s.lines[i].un \in Substances \ {left[k].un} THEN {s.lines[i]} ELSE {}
      BY <1>3, <1>6, <2>1, OwnLine
    <2>5. CASE s.lines[i].un \in Substances \ {left[k].un}
      <3>1. ChangedBy(s, left, k) = {s.lines[i]}
        BY <2>4, <2>5
      <3>2. old[k] = [line |-> left[k].line, un |-> s.lines[i].un, facts |-> Blank]
        <4>1. ChangedBy(s, left, k) # {}
          BY <3>1
        <4>2. PICK g \in ChangedBy(s, left, k) :
                old[k] = [line |-> left[k].line, un |-> g.un, facts |-> Blank]
          BY <1>1, <2>1, <4>1 DEF Parts, Refreshes
        <4>3. g = s.lines[i]
          BY <3>1
        <4>4. QED
          BY <4>2, <4>3
      <3>3. QED
        BY <2>3, <2>5, <3>2
    <2>6. CASE s.lines[i].un \notin Substances \ {left[k].un}
      <3>1. ChangedBy(s, left, k) = {}
        BY <2>4, <2>6
      <3>2. old[k] = left[k]
        BY <1>1, <2>1, <3>1 DEF Parts, Refreshes
      <3>3. QED
        BY <2>3, <2>6, <3>2
    <2>7. QED
      BY <2>5, <2>6
  <1>12. ASSUME NEW i \in DOMAIN s.lines, NEW k \in 1..Len(added), added[k].line = s.lines[i].id
         PROVE  s.lines[i].un # Rejected /\ added[k].un = s.lines[i].un
    <2>1. PICK j \in DOMAIN s.lines : new[k] = s.lines[j]
      BY <1>7, <1>8
    <2>2. j = i
      BY <1>8, <1>12, <2>1 DEF Sane, Apart
    <2>3. new[k].un \in Substances
      BY <1>7, <1>8
    <2>4. QED
      BY <1>8, <2>1, <2>2, <2>3, NoSubstance
  <1>13. Synced(r)
    <2> SUFFICES ASSUME NEW i \in DOMAIN s.lines, NEW j \in DOMAIN c, c[j].line = s.lines[i].id
                 PROVE  /\ s.lines[i].un # Rejected
                        /\ s.lines[i].un \in Substances => c[j].un = s.lines[i].un
      BY <1>2 DEF Synced
    <2>1. j \in 1..Len(c)
      BY <1>5
    <2>2. CASE \E k \in 1..Len(old) : c[j] = old[k]
      BY <1>11, <2>2
    <2>3. CASE \E k \in 1..Len(added) : c[j] = added[k]
      BY <1>12, <2>3
    <2>4. QED
      BY <1>5, <2>1, <2>2, <2>3 DEF Mixes
  <1>14. ASSUME Synced(s), NEW i \in DOMAIN s.entries
         PROVE  Has(r, s.entries[i].line, s.entries[i].un)
    <2>1. s.entries[i].line \notin Dismissed(s)
      BY <1>14 DEF Synced, Dismissed, Goods
    <2>2. PICK k \in 1..Len(left) : left[k] = s.entries[i]
      <3> DEFINE places == {j \in DOMAIN s.entries : s.entries[j].line \notin Dismissed(s)}
      <3>1. PICK h : Keeps(h, left, s.entries, places)
        BY <1>1 DEF Parts
      <3>2. i \in places /\ i \in 1..Len(s.entries)
        BY <2>1 DEF Sane, Drafts
      <3> HIDE DEF places
      <3>3. QED
        BY <3>1, <3>2 DEF Keeps
    <2>3. ChangedBy(s, left, k) = {}
      <3> SUFFICES ASSUME NEW g \in ChangedBy(s, left, k) PROVE FALSE
        OBVIOUS
      <3>1. g \in Goods(s) /\ g.un \in Substances /\ g.un # left[k].un /\ left[k].line = g.id
        BY <1>9 DEF ChangedBy
      <3>2. PICK j \in DOMAIN s.lines : g = s.lines[j]
        BY <3>1 DEF Goods
      <3>3. QED
        BY <1>14, <2>2, <3>1, <3>2 DEF Synced
    <2>4. old[k] = left[k]
      BY <1>1, <2>3 DEF Parts, Refreshes
    <2>5. PICK l \in 1..Len(c) : c[l] = old[k]
      BY <1>5, <1>8 DEF Mixes
    <2>6. l \in DOMAIN r.entries /\ r.entries[l] = s.entries[i]
      BY <1>2, <1>5, <2>2, <2>4, <2>5
    <2>7. QED
      BY <2>6 DEF Has
  <1>15. QED
    BY <1>2, <1>10, <1>13, <1>14

-----------------------------------------------------------------------------
(* The interview: what an answer changes *)

\* What is known of a draft, and what makes one.
LEMMA DraftIs ==
  ASSUME NEW s, Sane(s)
  PROVE  /\ s = [lines |-> s.lines, entries |-> s.entries, skipped |-> s.skipped]
         /\ s.lines \in Seq(Lines) /\ s.entries \in Seq(Entries) /\ s.skipped \in SUBSET (Nat \X Asks)
         /\ Apart(s.lines)
  BY DEF Sane, Drafts

\* Lines that are told apart, entries and skipped questions make a draft.
LEMMA DraftOf ==
  ASSUME NEW l \in Seq(Lines), NEW e \in Seq(Entries), NEW k \in SUBSET (Nat \X Asks), Apart(l)
  PROVE  Sane([lines |-> l, entries |-> e, skipped |-> k])
  BY DEF Sane, Drafts

\* What is known of a line of a draft.
LEMMA AtPlace ==
  ASSUME NEW lines \in Seq(Lines), NEW i \in DOMAIN lines
  PROVE  /\ lines[i] \in Lines /\ lines[i].id \in Nat /\ lines[i].names \in SUBSET Substances
         /\ lines[i].un \in Substances \cup {None, Rejected}
  <1>1. lines[i] \in Lines
    OBVIOUS
  <1>2. QED
    BY <1>1 DEF Lines

\* There is a largest number among the lines.
LEMMA Largest ==
  ASSUME NEW lines \in Seq(Lines)
  PROVE  \E x \in {0} \cup {lines[i].id : i \in DOMAIN lines} :
           \A y \in {0} \cup {lines[i].id : i \in DOMAIN lines} : x >= y
  <1> DEFINE n == Len(lines)
             upto(m) == {0} \cup {lines[i].id : i \in 1..m}
             odd == {m \in 0..n : ~\E x \in upto(m) : \A y \in upto(m) : x >= y}
  <1>1. n \in Nat /\ DOMAIN lines = 1..n /\ \A i \in 1..n : lines[i].id \in Nat
    <2>1. n \in Nat /\ DOMAIN lines = 1..n
      OBVIOUS
    <2>2. QED
      BY <2>1, AtPlace
  <1>2. \A m \in 0..n : upto(m) \subseteq Nat
    BY <1>1
  <1>3. odd = {}
    <2> SUFFICES ASSUME odd # {} PROVE FALSE
      OBVIOUS
    <2>1. odd \in SUBSET Nat
      BY <1>1
    <2>2. PICK m \in odd : \A k \in odd : m <= k
      BY <2>1, Least
    <2>3. m \in 0..n /\ m \in Nat
      BY <2>1
    <2>4. upto(0) = {0}
      OBVIOUS
    <2>5. m # 0
      BY <2>4
    <2>6. m - 1 \in 0..n /\ ~(m <= m - 1)
      BY <1>1, <2>3, <2>5
    <2>7. m - 1 \notin odd
      BY <2>2, <2>6
    <2>8. PICK x \in upto(m - 1) : \A y \in upto(m - 1) : x >= y
      BY <2>6, <2>7
    <2>9. m \in 1..n /\ lines[m].id \in Nat /\ x \in Nat
      BY <1>1, <1>2, <2>3, <2>5, <2>6
    <2>10. upto(m) = upto(m - 1) \cup {lines[m].id}
      <3>1. 1..m = 1..(m - 1) \cup {m}
        BY <2>9
      <3>2. QED
        BY <3>1
    <2>11. \A y \in upto(m - 1) : y \in Nat
      BY <1>2, <2>6
    <2> HIDE DEF upto
    <2>12. CASE x >= lines[m].id
      <3>1. x \in upto(m) /\ \A y \in upto(m) : x >= y
        BY <2>8, <2>10, <2>12
      <3>2. QED
        BY <3>1
    <2>13. CASE ~(x >= lines[m].id)
      <3> DEFINE z == lines[m].id
      <3>1. z \in upto(m)
        BY <2>10
      <3>2. z \in Nat /\ z > x
        BY <2>9, <2>13
      <3>3. \A y \in upto(m - 1) : z >= y
        BY <2>8, <2>9, <2>11, <3>2
      <3>4. \A y \in upto(m) : z >= y
        <4>1. z >= z
          BY <3>2
        <4>2. QED
          BY <2>10, <3>3, <4>1
      <3>5. QED
        BY <3>1, <3>4
    <2>14. QED
      BY <2>12, <2>13
  <1>4. \E x \in upto(n) : \A y \in upto(n) : x >= y
    <2>1. n \in 0..n /\ n \notin odd
      BY <1>1, <1>3
    <2>2. QED
      BY <2>1
  <1>5. QED
    BY <1>1, <1>4

\* The number of a new line is no other line's.
LEMMA NewId ==
  ASSUME NEW s, Sane(s)
  PROVE  new_id(s) \in Nat /\ \A i \in DOMAIN s.lines : s.lines[i].id # new_id(s)
  <1> DEFINE S == {0} \cup {s.lines[i].id : i \in DOMAIN s.lines}
             x == CHOOSE z \in S : \A y \in S : z >= y
  <1>1. \A i \in DOMAIN s.lines : s.lines[i].id \in Nat
    BY DraftIs, AtPlace
  <1>2. S \subseteq Nat /\ \A i \in DOMAIN s.lines : s.lines[i].id \in S
    BY <1>1
  <1>3. \E z \in S : \A y \in S : z >= y
    BY DraftIs, Largest
  <1>4. new_id(s) = 1 + x
    BY DEF new_id, Max
  <1> HIDE DEF S
  <1>5. x \in S /\ \A y \in S : x >= y
    BY <1>3
  <1> HIDE DEF x
  <1>6. QED
    BY <1>2, <1>4, <1>5

\* Lines are still told apart when one of them changes and keeps its number.
LEMMA LineSet ==
  ASSUME NEW lines \in Seq(Lines), Apart(lines), NEW i, NEW x, NEW after,
         i \in DOMAIN lines => x \in Lines /\ x.id = lines[i].id,
         after = [lines EXCEPT ![i] = x]
  PROVE  after \in Seq(Lines) /\ Apart(after)
  <1>1. Len(lines) \in Nat /\ DOMAIN lines = 1..Len(lines) /\ \A k \in 1..Len(lines) : lines[k] \in Lines
    OBVIOUS
  <1>2. \A k \in 1..Len(lines) : after[k] = IF k = i THEN x ELSE lines[k]
    BY <1>1
  <1>3. after = [k \in 1..Len(lines) |-> after[k]]
    BY <1>1
  <1>4. \A k \in 1..Len(lines) : after[k] \in Lines /\ after[k].id = lines[k].id
    BY <1>1, <1>2
  <1>5. after \in [1..Len(lines) -> Lines]
    BY <1>3, <1>4
  <1>6. DOMAIN after = 1..Len(lines) /\ after \in Seq(Lines)
    BY <1>1, <1>5
  <1>7. QED
    BY <1>1, <1>4, <1>6 DEF Apart

\* A line that is counted, or confirmed, keeps its number.
LEMMA LineSets ==
  ASSUME NEW line \in Lines
  PROVE  /\ [line EXCEPT !.counted = TRUE] \in Lines /\ [line EXCEPT !.counted = TRUE].id = line.id
         /\ \A u \in Substances \cup {None, Rejected} :
              [line EXCEPT !.un = u] \in Lines /\ [line EXCEPT !.un = u].id = line.id
  BY DEF Lines

\* Lines are still told apart with one more that has a number of its own.
LEMMA LineAppended ==
  ASSUME NEW lines \in Seq(Lines), Apart(lines), NEW x \in Lines,
         \A i \in DOMAIN lines : lines[i].id # x.id
  PROVE  Append(lines, x) \in Seq(Lines) /\ Apart(Append(lines, x))
  <1> DEFINE after == Append(lines, x)
             n == Len(lines)
  <1>1. /\ n \in Nat /\ DOMAIN lines = 1..n /\ after \in Seq(Lines) /\ DOMAIN after = 1..(n + 1)
        /\ after[n + 1] = x /\ \A i \in 1..n : after[i] = lines[i]
    OBVIOUS
  <1> HIDE DEF after, n
  <1>2. \A i \in 1..(n + 1) : i = n + 1 \/ i \in 1..n
    BY <1>1
  <1>3. Apart(after)
    <2> SUFFICES ASSUME NEW i \in 1..(n + 1), NEW j \in 1..(n + 1), after[i].id = after[j].id
                 PROVE  i = j
      BY <1>1 DEF Apart
    <2>1. CASE i \in 1..n /\ j \in 1..n
      BY <1>1, <2>1 DEF Apart
    <2>2. CASE i = n + 1 /\ j \in 1..n
      BY <1>1, <2>2
    <2>3. CASE i \in 1..n /\ j = n + 1
      BY <1>1, <2>3
    <2>4. QED
      BY <1>2, <2>1, <2>2, <2>3
  <1>4. QED
    BY <1>1, <1>3 DEF after

\* The line that an answer adds has the new number.
LEMMA AddedLine ==
  ASSUME NEW s, Sane(s), NEW article \in Articles
  PROVE  added_line(s, article) \in Lines /\ added_line(s, article).id = new_id(s)
  <1>1. new_id(s) \in Nat
    BY NewId
  <1>2. Candidates[article] \in SUBSET Substances
    BY DEF Substances
  <1>3. QED
    BY <1>1, <1>2 DEF added_line, Lines

FactFilled(after, entry, f, v) ==
  /\ after.line = entry.line /\ after.un = entry.un
  /\ \A g \in Fields : after.facts[g] = IF g = f THEN v ELSE entry.facts[g]

\* Facts with one of them filled in.
LEMMA FactSet ==
  ASSUME NEW entry \in Entries, NEW f, NEW v \in Nat \X Substances, NEW after,
         after = [entry EXCEPT !.facts = [entry.facts EXCEPT ![f] = v]]
  PROVE  after \in Entries /\ FactFilled(after, entry, f, v)
  <1>1. /\ entry = [line |-> entry.line, un |-> entry.un, facts |-> entry.facts]
        /\ entry.line \in Nat /\ entry.un \in Substances
        /\ entry.facts \in [Fields -> {Unknown} \cup (Nat \X Substances)]
    BY DEF Entries
  <1> DEFINE facts == [entry.facts EXCEPT ![f] = v]
  <1>2. facts \in [Fields -> {Unknown} \cup (Nat \X Substances)]
    BY <1>1
  <1>3. \A g \in Fields : facts[g] = IF g = f THEN v ELSE entry.facts[g]
    BY <1>1
  <1>4. after = [entry EXCEPT !.facts = facts]
    OBVIOUS
  <1> HIDE DEF facts
  <1>5. after = [line |-> entry.line, un |-> entry.un, facts |-> facts]
    BY <1>1, <1>4
  <1>6. QED
    <2>1. after.line = entry.line /\ after.un = entry.un /\ after.facts = facts
      BY <1>5
    <2>2. after \in Entries
      BY <1>1, <1>2, <1>5 DEF Entries
    <2>3. QED
      BY <1>3, <2>1, <2>2 DEF FactFilled

Filled(after, entries, e, f, v) ==
  \A k \in DOMAIN entries :
    /\ after[k].line = entries[k].line /\ after[k].un = entries[k].un
    /\ \A g \in Fields : after[k].facts[g] = IF k = e /\ g = f THEN v ELSE entries[k].facts[g]

\* Entries with a fact of one of them filled in.
LEMMA EntrySet ==
  ASSUME NEW entries \in Seq(Entries), NEW e, NEW f, NEW v \in Nat \X Substances, NEW after,
         after = [entries EXCEPT ![e] = [entries[e] EXCEPT !.facts = [entries[e].facts EXCEPT ![f] = v]]]
  PROVE  /\ after \in Seq(Entries) /\ DOMAIN after = DOMAIN entries
         /\ Filled(after, entries, e, f, v)
  <1> DEFINE x == [entries[e] EXCEPT !.facts = [entries[e].facts EXCEPT ![f] = v]]
             n == Len(entries)
  <1>1. n \in Nat /\ DOMAIN entries = 1..n /\ \A k \in 1..n : entries[k] \in Entries
    OBVIOUS
  <1>2. ASSUME e \in 1..n PROVE x \in Entries /\ FactFilled(x, entries[e], f, v)
    <2>1. entries[e] \in Entries
      BY <1>1, <1>2
    <2>2. x = [entries[e] EXCEPT !.facts = [entries[e].facts EXCEPT ![f] = v]]
      OBVIOUS
    <2> HIDE DEF x
    <2>3. QED
      BY <2>1, <2>2, FactSet, Zenon
  <1>3. after = [entries EXCEPT ![e] = x]
    OBVIOUS
  <1> HIDE DEF x, n
  <1>4. \A k \in 1..n : after[k] = IF k = e THEN x ELSE entries[k]
    BY <1>1, <1>3
  <1>5. DOMAIN after = 1..n /\ after = [k \in 1..n |-> after[k]]
    BY <1>1, <1>3
  <1>6. \A k \in 1..n :
          /\ after[k] \in Entries
          /\ after[k].line = entries[k].line /\ after[k].un = entries[k].un
          /\ \A g \in Fields :
               after[k].facts[g] = IF k = e /\ g = f THEN v ELSE entries[k].facts[g]
    <2> SUFFICES ASSUME NEW k \in 1..n
                 PROVE  /\ after[k] \in Entries
                        /\ after[k].line = entries[k].line /\ after[k].un = entries[k].un
                        /\ \A g \in Fields :
                             after[k].facts[g] = IF k = e /\ g = f THEN v ELSE entries[k].facts[g]
      OBVIOUS
    <2>1. CASE k = e
      BY <1>2, <1>4, <2>1 DEF FactFilled
    <2>2. CASE k # e
      BY <1>1, <1>4, <2>2
    <2>3. QED
      BY <2>1, <2>2
  <1>7. after \in [1..n -> Entries]
    BY <1>5, <1>6
  <1>8. after \in Seq(Entries)
    BY <1>1, <1>7
  <1>9. QED
    BY <1>1, <1>5, <1>6, <1>8 DEF Filled

\* A draft with one of its parts changed.
LEMMA Nested ==
  ASSUME NEW s, s = [lines |-> s.lines, entries |-> s.entries, skipped |-> s.skipped],
         NEW i, NEW v, NEW f, NEW r
  PROVE  /\ r = [s EXCEPT !.skipped = v] =>
              r = [lines |-> s.lines, entries |-> s.entries, skipped |-> v]
         /\ r = [s EXCEPT !.lines = v] =>
              r = [lines |-> v, entries |-> s.entries, skipped |-> s.skipped]
         /\ r = [s EXCEPT !.lines[i].counted = TRUE] =>
              r = [lines |-> [s.lines EXCEPT ![i] = [s.lines[i] EXCEPT !.counted = TRUE]],
                   entries |-> s.entries, skipped |-> s.skipped]
         /\ r = [s EXCEPT !.lines[i].un = v] =>
              r = [lines |-> [s.lines EXCEPT ![i] = [s.lines[i] EXCEPT !.un = v]],
                   entries |-> s.entries, skipped |-> s.skipped]
         /\ r = [s EXCEPT !.entries[i].facts[f] = v] =>
              r = [lines |-> s.lines,
                   entries |-> [s.entries EXCEPT ![i] =
                     [s.entries[i] EXCEPT !.facts = [s.entries[i].facts EXCEPT ![f] = v]]],
                   skipped |-> s.skipped]
  OBVIOUS

\* An answer leaves the entries to their lines and substances, and what it says
\* of an entry it says of the substance that the question was about.
LEMMA Answered ==
  ASSUME NEW s, Sane(s), NEW q \in Questions, q.scope # "none", NEW answer,
         answer \in answers_to(s, q), NEW r, r = _apply_answer(s, q, answer)
  PROVE  /\ Sane(r)
         /\ Single(s.entries) => Single(r.entries)
         /\ Good(s) /\ (q.scope = "dg_question" => Has(s, q.line, q.un)) => Belong(r.entries)
  <1> DEFINE i == LineAt(s, q.line)
             e == CHOOSE j \in DOMAIN s.entries :
                    s.entries[j].line = q.line /\ \A k \in 1..(j - 1) : s.entries[k].line # q.line
  <1>1. /\ s = [lines |-> s.lines, entries |-> s.entries, skipped |-> s.skipped]
        /\ s.lines \in Seq(Lines) /\ s.entries \in Seq(Entries) /\ s.skipped \in SUBSET (Nat \X Asks)
        /\ Apart(s.lines)
    BY DraftIs
  <1>2. q.line \in Nat /\ q.field \in Asks /\ q.scope \in Scopes
        /\ (q.scope = "dg_question" => q.field \in Fields /\ q.un \in Substances)
    BY DEF Questions
  <1>3. ASSUME r.entries = s.entries PROVE (Single(s.entries) => Single(r.entries)) /\ (Good(s) => Belong(r.entries))
    BY <1>3 DEF Good
  <1>4. CASE answer = "skip"
    <2>1. r = [s EXCEPT !.skipped = s.skipped \cup {<<q.line, q.field>>}]
      BY <1>4 DEF _apply_answer
    <2>2. r = [lines |-> s.lines, entries |-> s.entries, skipped |-> s.skipped \cup {<<q.line, q.field>>}]
      BY <1>1, <2>1, Nested
    <2>3. s.skipped \cup {<<q.line, q.field>>} \in SUBSET (Nat \X Asks)
      BY <1>1, <1>2
    <2>4. Sane(r)
      BY <1>1, <2>2, <2>3, DraftOf
    <2>5. QED
      BY <1>3, <2>2, <2>4
  <1>5. CASE answer # "skip" /\ q.scope = "goods_intake"
    <2>1. r = [s EXCEPT !.lines = Append(s.lines, added_line(s, answer))]
      BY <1>5 DEF _apply_answer
    <2>2. r = [lines |-> Append(s.lines, added_line(s, answer)), entries |-> s.entries, skipped |-> s.skipped]
      BY <1>1, <2>1, Nested
    <2>3. answer \in Articles
      BY <1>5 DEF answers_to
    <2>4. added_line(s, answer) \in Lines /\ added_line(s, answer).id = new_id(s)
      BY <2>3, AddedLine
    <2>5. Append(s.lines, added_line(s, answer)) \in Seq(Lines) /\ Apart(Append(s.lines, added_line(s, answer)))
      BY <1>1, <2>4, LineAppended, NewId
    <2>6. Sane(r)
      BY <1>1, <2>2, <2>5, DraftOf
    <2>7. QED
      BY <1>3, <2>2, <2>6
  <1>6. CASE answer # "skip" /\ q.scope = "goods_quantity"
    <2>1. r = [s EXCEPT !.lines[i].counted = TRUE]
      BY <1>6 DEF _apply_answer
    <2> DEFINE x == [s.lines[i] EXCEPT !.counted = TRUE]
    <2> HIDE DEF i
    <2>2. r = [lines |-> [s.lines EXCEPT ![i] = x], entries |-> s.entries, skipped |-> s.skipped]
      BY <1>1, <2>1, Nested
    <2>3. i \in DOMAIN s.lines => x \in Lines /\ x.id = s.lines[i].id
      BY <1>1, AtPlace, LineSets
    <2> HIDE DEF x
    <2>4. [s.lines EXCEPT ![i] = x] \in Seq(Lines) /\ Apart([s.lines EXCEPT ![i] = x])
      BY <1>1, <2>3, LineSet
    <2>5. Sane(r)
      BY <1>1, <2>2, <2>4, DraftOf
    <2>6. QED
      BY <1>3, <2>2, <2>5
  <1>7. CASE answer # "skip" /\ q.scope = "un_confirm"
    <2>1. r = [s EXCEPT !.lines[i].un = answer]
      BY <1>7 DEF _apply_answer
    <2>2. answer \in s.lines[i].names \cup {Rejected}
      BY <1>7 DEF answers_to
    <2> DEFINE x == [s.lines[i] EXCEPT !.un = answer]
    <2> HIDE DEF i
    <2>3. r = [lines |-> [s.lines EXCEPT ![i] = x], entries |-> s.entries, skipped |-> s.skipped]
      BY <1>1, <2>1, Nested
    <2>4. i \in DOMAIN s.lines => answer \in Substances \cup {None, Rejected}
      BY <1>1, <2>2, AtPlace
    <2>5. i \in DOMAIN s.lines => x \in Lines /\ x.id = s.lines[i].id
      BY <1>1, <2>4, AtPlace, LineSets
    <2> HIDE DEF x
    <2>6. [s.lines EXCEPT ![i] = x] \in Seq(Lines) /\ Apart([s.lines EXCEPT ![i] = x])
      BY <1>1, <2>5, LineSet
    <2>7. Sane(r)
      BY <1>1, <2>3, <2>6, DraftOf
    <2>8. QED
      BY <1>3, <2>3, <2>7
  <1>8. CASE answer # "skip" /\ q.scope = "dg_question"
    <2> DEFINE v == <<q.line, q.un>>
    <2>1. r = [s EXCEPT !.entries[e].facts[q.field] = v]
      BY <1>8 DEF _apply_answer
    <2>2. Good(s) /\ Has(s, q.line, q.un) =>
            e \in DOMAIN s.entries /\ s.entries[e].un = q.un
      <3> SUFFICES ASSUME Good(s), Has(s, q.line, q.un)
                   PROVE  e \in DOMAIN s.entries /\ s.entries[e].un = q.un
        OBVIOUS
      <3>1. PICK j \in DOMAIN s.entries : s.entries[j].line = q.line /\ s.entries[j].un = q.un
        BY DEF Has
      <3>2. \A k \in DOMAIN s.entries : s.entries[k].line = q.line => k = j
        BY <3>1 DEF Good, Single
      <3>3. DOMAIN s.entries = 1..Len(s.entries) /\ Len(s.entries) \in Nat
        BY <1>1
      <3>4. \A k \in 1..(j - 1) : k \in DOMAIN s.entries /\ k # j
        BY <3>3
      <3>5. e \in DOMAIN s.entries /\ s.entries[e].line = q.line
        BY <3>1, <3>2, <3>4
      <3>6. QED
        BY <3>1, <3>2, <3>5
    <2> HIDE DEF e
    <2> DEFINE after == [s.entries EXCEPT ![e] =
                  [s.entries[e] EXCEPT !.facts = [s.entries[e].facts EXCEPT ![q.field] = v]]]
    <2>3. v \in Nat \X Substances /\ v[2] = q.un
      BY <1>2, <1>8
    <2> HIDE DEF v
    <2>4. r = [lines |-> s.lines, entries |-> after, skipped |-> s.skipped]
      BY <1>1, <2>1, Nested
    <2>5. after = [s.entries EXCEPT ![e] =
                  [s.entries[e] EXCEPT !.facts = [s.entries[e].facts EXCEPT ![q.field] = v]]]
      OBVIOUS
    <2> HIDE DEF after
    <2>6. /\ after \in Seq(Entries) /\ DOMAIN after = DOMAIN s.entries
          /\ Filled(after, s.entries, e, q.field, v)
      BY <1>1, <2>3, <2>5, EntrySet, Zenon
    <2>7. Sane(r)
      BY <1>1, <2>4, <2>6, DraftOf
    <2>8. Single(s.entries) => Single(after)
      BY <2>6 DEF Single, Filled
    <2>9. ASSUME Good(s), Has(s, q.line, q.un) PROVE Belong(after)
      <3> SUFFICES ASSUME NEW k \in DOMAIN s.entries, NEW g \in Fields, after[k].facts[g] # Unknown
                   PROVE  after[k].facts[g][2] = after[k].un
        BY <2>6 DEF Belong, Filled
      <3>1. CASE k = e /\ g = q.field
        BY <2>2, <2>3, <2>6, <2>9, <3>1 DEF Filled
      <3>2. CASE ~(k = e /\ g = q.field)
        <4>1. after[k].facts[g] = s.entries[k].facts[g] /\ after[k].un = s.entries[k].un
          BY <2>6, <3>2 DEF Filled
        <4>2. QED
          BY <2>9, <4>1 DEF Good, Belong
      <3>3. QED
        BY <3>1, <3>2
    <2>10. QED
      BY <1>8, <2>4, <2>7, <2>8, <2>9
  <1>9. QED
    BY <1>2, <1>4, <1>5, <1>6, <1>7, <1>8 DEF Scopes

-----------------------------------------------------------------------------
(* The interview: what is asked next *)

\* What is put together is empty when every part is.
LEMMA FlatEmpty ==
  ASSUME NEW T, NEW seqs \in Seq(Seq(T)), FlattenSeq(seqs) = <<>>
  PROVE  \A i \in 1..Len(seqs) : seqs[i] = <<>>
  <1> SUFFICES ASSUME NEW i \in 1..Len(seqs), seqs[i] # <<>> PROVE FALSE
    OBVIOUS
  <1>1. seqs[i] \in Seq(T)
    OBVIOUS
  <1>2. 1 \in 1..Len(seqs[i])
    BY <1>1, EmptySeq
  <1>3. \E k \in 1..Len(FlattenSeq(seqs)) : FlattenSeq(seqs)[k] = seqs[i][1]
    BY <1>2, Flattened
  <1>4. Len(FlattenSeq(seqs)) = 0 /\ 1..0 = {}
    OBVIOUS
  <1>5. QED
    BY <1>3, <1>4

\* Two sequences put together are empty when both are.
LEMMA JoinEmpty ==
  ASSUME NEW T, NEW a \in Seq(T), NEW b \in Seq(T), a \o b = <<>>
  PROVE  a = <<>> /\ b = <<>>
  <1>1. Len(a \o b) = Len(a) + Len(b) /\ Len(a) \in Nat /\ Len(b) \in Nat /\ Len(a \o b) = 0
    BY ConcatProperties, LenProperties
  <1>2. QED
    BY <1>1, EmptySeq

\* When gives the item, or nothing.
LEMMA Whether ==
  ASSUME NEW T, NEW c, NEW x, c => x \in T
  PROVE  When(c, x) \in Seq(T) /\ (c => When(c, x) # <<>>)
  <1>1. CASE c
    <2>1. When(c, x) = <<x>> /\ <<x>> \in Seq(T) /\ <<x>> # <<>>
      BY <1>1 DEF When
    <2>2. QED
      BY <2>1
  <1>2. CASE ~c
    <2>1. When(c, x) = <<>> /\ <<>> \in Seq(T)
      BY <1>2, EmptySeq DEF When
    <2>2. QED
      BY <1>2, <2>1
  <1>3. QED
    BY <1>1, <1>2

Wanted == [field : Fields, required : BOOLEAN]

\* What the regulations want is fields that there are.
LEMMA Mentioned ==
  ASSUME NEW un
  PROVE  mentions(un) \in Seq(Wanted)
  <1> DEFINE a == When(Land, [field |-> "carriage_mode", required |-> TRUE])
             b == When(un \in Explosive, [field |-> "net_explosive_mass", required |-> TRUE])
             c == When(Land /\ un \notin Explosive,
                       [field |-> "net_mass_liters_per_package", required |-> FALSE])
             d == When("IATA_DGR" \in Profiles,
                       [field |-> "net_mass_liters_per_package", required |-> TRUE])
  <1>1. /\ [field |-> "carriage_mode", required |-> TRUE] \in Wanted
        /\ [field |-> "net_explosive_mass", required |-> TRUE] \in Wanted
        /\ [field |-> "net_mass_liters_per_package", required |-> FALSE] \in Wanted
        /\ [field |-> "net_mass_liters_per_package", required |-> TRUE] \in Wanted
    BY DEF Wanted, Fields
  <1>2. a \in Seq(Wanted) /\ b \in Seq(Wanted) /\ c \in Seq(Wanted) /\ d \in Seq(Wanted)
    BY <1>1, Whether, Zenon
  <1>3. mentions(un) = a \o b \o c \o d
    BY DEF mentions
  <1> HIDE DEF a, b, c, d
  <1>4. QED
    BY <1>2, <1>3

\* So is what is open about an entry.
LEMMA OpenQuestions ==
  ASSUME NEW entry
  PROVE  open_questions_for(entry) \in Seq(Wanted)
  <1> DEFINE seq == mentions(entry.un)
             count == [i \in DOMAIN seq |-> i]
             free(i) == /\ entry.facts[seq[i].field] = Unknown
                        /\ \A j \in 1..(i - 1) : seq[j].field # seq[i].field
             parts == [i \in DOMAIN count |-> When(free(count[i]), seq[count[i]])]
  <1>1. seq \in Seq(Wanted)
    BY Mentioned
  <1>2. open_questions_for(entry) = FlattenSeq(parts)
    BY Zenon DEF open_questions_for, Collect
  <1> HIDE DEF free, seq
  <1>3. Len(seq) \in Nat /\ DOMAIN seq = 1..Len(seq) /\ \A i \in 1..Len(seq) : seq[i] \in Wanted
    BY <1>1
  <1>4. DOMAIN count = 1..Len(seq) /\ \A i \in 1..Len(seq) : count[i] = i
    BY <1>3
  <1>5. \A i \in 1..Len(seq) : When(free(count[i]), seq[count[i]]) \in Seq(Wanted)
    BY <1>3, <1>4, Whether, Zenon
  <1>6. parts \in [1..Len(seq) -> Seq(Wanted)]
    BY <1>4, <1>5
  <1>7. parts \in Seq(Seq(Wanted))
    BY <1>3, <1>6
  <1>8. QED
    BY <1>2, <1>7, Flattened

\* The questions that there may be about goods.
Sensible(s) ==
  {q \in Questions : /\ q.scope \notin {"none", "goods_intake"}
                     /\ q.scope = "dg_question" => Has(s, q.line, q.un)}

Counting(s) ==
  Collect(s.lines, LAMBDA line :
    When(~line.counted, question("goods_quantity", line.id, "quantity", TRUE)))

Naming(s) ==
  Collect(s.lines, LAMBDA line :
    When(line.names # {} /\ line.un = None, question("un_confirm", line.id, "none", TRUE)))

AskingOf(s, entry) ==
  Collect(open_questions_for(entry), LAMBDA q : When(asked(s, entry, q), dg_question(entry, q)))

Asking(s) == Collect(s.entries, LAMBDA entry : AskingOf(s, entry))

\* A question about a line is one about the draft.
LEMMA LineQuestion ==
  ASSUME NEW s, NEW id \in Nat, NEW scope \in {"goods_quantity", "un_confirm"},
         NEW field \in {"none", "quantity"}
  PROVE  question(scope, id, field, TRUE) \in Sensible(s)
  <1> DEFINE q == question(scope, id, field, TRUE)
  <1>1. q = [scope |-> scope, line |-> id, field |-> field, required |-> TRUE, un |-> None]
    BY DEF question
  <1> HIDE DEF q
  <1>2. q.scope = scope /\ q.scope \notin {"none", "goods_intake", "dg_question"}
    BY <1>1
  <1>3. q \in Questions
    <2>1. scope \in Scopes /\ field \in Asks
      BY DEF Scopes, Asks
    <2>2. QED
      BY <1>1, <1>2, <2>1 DEF Questions
  <1>4. q \in Sensible(s)
    BY <1>2, <1>3 DEF Sensible
  <1>5. QED
    BY <1>4 DEF q

\* No quantity is asked for when every line has its count.
LEMMA Counted ==
  ASSUME NEW s, Sane(s)
  PROVE  /\ Counting(s) \in Seq(Sensible(s))
         /\ Counting(s) = <<>> => \A i \in DOMAIN s.lines : s.lines[i].counted
  <1> DEFINE seq == s.lines
             x(i) == question("goods_quantity", seq[i].id, "quantity", TRUE)
             parts == [i \in DOMAIN seq |-> When(~seq[i].counted, x(i))]
  <1>1. Counting(s) = FlattenSeq(parts)
    BY Zenon DEF Counting, Collect
  <1>2. seq \in Seq(Lines) /\ Len(seq) \in Nat /\ DOMAIN seq = 1..Len(seq)
    BY DraftIs
  <1>3. \A i \in 1..Len(seq) : x(i) \in Sensible(s)
    <2>1. \A i \in 1..Len(seq) : seq[i].id \in Nat
      BY <1>2, AtPlace
    <2>2. QED
      BY <2>1, LineQuestion
  <1> HIDE DEF x, seq
  <1>4. \A i \in 1..Len(seq) : /\ When(~seq[i].counted, x(i)) \in Seq(Sensible(s))
                                /\ ~seq[i].counted => When(~seq[i].counted, x(i)) # <<>>
    BY <1>3, Whether, Zenon
  <1>5. /\ parts \in [1..Len(seq) -> Seq(Sensible(s))]
        /\ \A i \in 1..Len(seq) : ~seq[i].counted => parts[i] # <<>>
    <2>1. /\ \A i \in 1..Len(seq) : parts[i] = When(~seq[i].counted, x(i))
          /\ parts = [i \in 1..Len(seq) |-> parts[i]]
      BY <1>2
    <2> HIDE DEF parts
    <2>2. \A i \in 1..Len(seq) : parts[i] \in Seq(Sensible(s))
      <3> SUFFICES ASSUME NEW i \in 1..Len(seq) PROVE parts[i] \in Seq(Sensible(s))
        OBVIOUS
      <3>3. x(i) \in Sensible(s)
        BY <1>3
      <3>4. When(~seq[i].counted, x(i)) \in Seq(Sensible(s))
        BY <3>3, Whether, Zenon
      <3>5. parts[i] = When(~seq[i].counted, x(i))
        BY <2>1
      <3>2. QED
        BY <3>4, <3>5
    <2>3. \A i \in 1..Len(seq) : ~seq[i].counted => parts[i] # <<>>
      <3> SUFFICES ASSUME NEW i \in 1..Len(seq), ~seq[i].counted PROVE parts[i] # <<>>
        OBVIOUS
      <3>3. x(i) \in Sensible(s)
        BY <1>3
      <3>4. When(~seq[i].counted, x(i)) # <<>>
        BY <3>3, Whether, Zenon
      <3>5. parts[i] = When(~seq[i].counted, x(i))
        BY <2>1
      <3>2. QED
        BY <3>4, <3>5
    <2>4. QED
      BY <2>1, <2>2, <2>3
  <1> HIDE DEF parts
  <1>6. parts \in Seq(Seq(Sensible(s))) /\ Len(parts) = Len(seq)
    BY <1>2, <1>5
  <1>7. FlattenSeq(parts) \in Seq(Sensible(s))
    BY <1>6, Flattened
  <1>8. FlattenSeq(parts) = <<>> => \A i \in 1..Len(seq) : seq[i].counted
    BY <1>5, <1>6, FlatEmpty
  <1>9. QED
    BY <1>1, <1>2, <1>7, <1>8 DEF seq

\* No confirmation is asked for when every line that needs one has it.
LEMMA Named ==
  ASSUME NEW s, Sane(s)
  PROVE  /\ Naming(s) \in Seq(Sensible(s))
         /\ Naming(s) = <<>> =>
              \A i \in DOMAIN s.lines : s.lines[i].names # {} => s.lines[i].un # None
  <1> DEFINE seq == s.lines
             c(i) == seq[i].names # {} /\ seq[i].un = None
             x(i) == question("un_confirm", seq[i].id, "none", TRUE)
             parts == [i \in DOMAIN seq |-> When(c(i), x(i))]
  <1>1. Naming(s) = FlattenSeq(parts)
    BY Zenon DEF Naming, Collect
  <1>2. seq \in Seq(Lines) /\ Len(seq) \in Nat /\ DOMAIN seq = 1..Len(seq)
    BY DraftIs
  <1>3. \A i \in 1..Len(seq) : x(i) \in Sensible(s)
    <2>1. \A i \in 1..Len(seq) : seq[i].id \in Nat
      BY <1>2, AtPlace
    <2>2. QED
      BY <2>1, LineQuestion
  <1>10. \A i \in 1..Len(seq) : ~c(i) => (seq[i].names # {} => seq[i].un # None)
    OBVIOUS
  <1> HIDE DEF x, c, seq
  <1>4. \A i \in 1..Len(seq) : /\ When(c(i), x(i)) \in Seq(Sensible(s))
                                /\ c(i) => When(c(i), x(i)) # <<>>
    BY <1>3, Whether, Zenon
  <1>5. /\ parts \in [1..Len(seq) -> Seq(Sensible(s))]
        /\ \A i \in 1..Len(seq) : c(i) => parts[i] # <<>>
    <2>1. /\ \A i \in 1..Len(seq) : parts[i] = When(c(i), x(i))
          /\ parts = [i \in 1..Len(seq) |-> parts[i]]
      BY <1>2
    <2> HIDE DEF parts
    <2>2. \A i \in 1..Len(seq) : parts[i] \in Seq(Sensible(s))
      <3> SUFFICES ASSUME NEW i \in 1..Len(seq) PROVE parts[i] \in Seq(Sensible(s))
        OBVIOUS
      <3>3. x(i) \in Sensible(s)
        BY <1>3
      <3>4. When(c(i), x(i)) \in Seq(Sensible(s))
        BY <3>3, Whether, Zenon
      <3>5. parts[i] = When(c(i), x(i))
        BY <2>1
      <3>2. QED
        BY <3>4, <3>5
    <2>3. \A i \in 1..Len(seq) : c(i) => parts[i] # <<>>
      <3> SUFFICES ASSUME NEW i \in 1..Len(seq), c(i) PROVE parts[i] # <<>>
        OBVIOUS
      <3>3. x(i) \in Sensible(s)
        BY <1>3
      <3>4. When(c(i), x(i)) # <<>>
        BY <3>3, Whether, Zenon
      <3>5. parts[i] = When(c(i), x(i))
        BY <2>1
      <3>2. QED
        BY <3>4, <3>5
    <2>4. QED
      BY <2>1, <2>2, <2>3
  <1> HIDE DEF parts
  <1>6. parts \in Seq(Seq(Sensible(s))) /\ Len(parts) = Len(seq)
    BY <1>2, <1>5
  <1>7. FlattenSeq(parts) \in Seq(Sensible(s))
    BY <1>6, Flattened
  <1>8. FlattenSeq(parts) = <<>> => \A i \in 1..Len(seq) : ~c(i)
    BY <1>5, <1>6, FlatEmpty
  <1>9. QED
    BY <1>1, <1>2, <1>7, <1>8, <1>10 DEF seq

\* A question about an entry is one about the draft.
LEMMA EntryQuestion ==
  ASSUME NEW s, Sane(s), NEW k \in DOMAIN s.entries, NEW q \in Wanted
  PROVE  dg_question(s.entries[k], q) \in Sensible(s)
  <1> DEFINE entry == s.entries[k]
             d == dg_question(entry, q)
  <1>1. entry.line \in Nat /\ entry.un \in Substances
    <2>1. entry \in Entries
      BY DraftIs
    <2> HIDE DEF entry
    <2>2. QED
      BY <2>1 DEF Entries
  <1>2. d = [scope |-> "dg_question", line |-> entry.line, field |-> q.field,
             required |-> q.required, un |-> entry.un]
    BY DEF dg_question, question
  <1>3. Has(s, entry.line, entry.un)
    BY DEF Has
  <1>4. q.field \in Fields /\ q.required \in BOOLEAN
    BY DEF Wanted
  <1> HIDE DEF entry, d
  <1>5. d \in Questions
    BY <1>1, <1>2, <1>4 DEF Questions, Scopes, Asks
  <1>6. d.scope = "dg_question" /\ d.line = entry.line /\ d.un = entry.un
    BY <1>2
  <1>7. d \in Sensible(s)
    BY <1>3, <1>5, <1>6 DEF Sensible
  <1>8. QED
    BY <1>7 DEF d, entry

\* Nothing is asked about an entry when nothing that is open is required.
LEMMA EntryAsked ==
  ASSUME NEW s, Sane(s), NEW k \in DOMAIN s.entries
  PROVE  /\ AskingOf(s, s.entries[k]) \in Seq(Sensible(s))
         /\ AskingOf(s, s.entries[k]) = <<>> =>
              LET wanted == open_questions_for(s.entries[k])
              IN  \A j \in DOMAIN wanted : ~wanted[j].required
  <1> DEFINE entry == s.entries[k]
             seq == open_questions_for(entry)
             c(i) == asked(s, entry, seq[i])
             x(i) == dg_question(entry, seq[i])
             parts == [i \in DOMAIN seq |-> When(c(i), x(i))]
  <1>1. AskingOf(s, entry) = FlattenSeq(parts)
    BY Zenon DEF AskingOf, Collect
  <1>2. seq \in Seq(Wanted)
    BY OpenQuestions
  <1> HIDE DEF seq
  <1>3. Len(seq) \in Nat /\ DOMAIN seq = 1..Len(seq) /\ \A i \in 1..Len(seq) : seq[i] \in Wanted
    BY <1>2
  <1>4. \A i \in 1..Len(seq) : x(i) \in Sensible(s)
    BY <1>3, EntryQuestion
  <1>5. \A i \in 1..Len(seq) : ~c(i) => ~seq[i].required
    BY DEF asked
  <1> HIDE DEF x, c, entry
  <1>6. \A i \in 1..Len(seq) : /\ When(c(i), x(i)) \in Seq(Sensible(s))
                                /\ c(i) => When(c(i), x(i)) # <<>>
    BY <1>4, Whether, Zenon
  <1>7. /\ parts \in [1..Len(seq) -> Seq(Sensible(s))]
        /\ \A i \in 1..Len(seq) : c(i) => parts[i] # <<>>
    <2>1. /\ \A i \in 1..Len(seq) : parts[i] = When(c(i), x(i))
          /\ parts = [i \in 1..Len(seq) |-> parts[i]]
      BY <1>3
    <2> HIDE DEF parts
    <2>2. \A i \in 1..Len(seq) : parts[i] \in Seq(Sensible(s))
      <3> SUFFICES ASSUME NEW i \in 1..Len(seq) PROVE parts[i] \in Seq(Sensible(s))
        OBVIOUS
      <3>3. x(i) \in Sensible(s)
        BY <1>4
      <3>4. When(c(i), x(i)) \in Seq(Sensible(s))
        BY <3>3, Whether, Zenon
      <3>5. parts[i] = When(c(i), x(i))
        BY <2>1
      <3>2. QED
        BY <3>4, <3>5
    <2>3. \A i \in 1..Len(seq) : c(i) => parts[i] # <<>>
      <3> SUFFICES ASSUME NEW i \in 1..Len(seq), c(i) PROVE parts[i] # <<>>
        OBVIOUS
      <3>3. x(i) \in Sensible(s)
        BY <1>4
      <3>4. When(c(i), x(i)) # <<>>
        BY <3>3, Whether, Zenon
      <3>5. parts[i] = When(c(i), x(i))
        BY <2>1
      <3>2. QED
        BY <3>4, <3>5
    <2>4. QED
      BY <2>1, <2>2, <2>3
  <1> HIDE DEF parts
  <1>8. parts \in Seq(Seq(Sensible(s))) /\ Len(parts) = Len(seq)
    BY <1>3, <1>7
  <1>9. FlattenSeq(parts) \in Seq(Sensible(s))
    BY <1>8, Flattened
  <1>10. FlattenSeq(parts) = <<>> => \A i \in 1..Len(seq) : ~c(i)
    BY <1>7, <1>8, FlatEmpty
  <1>11. FlattenSeq(parts) = <<>> => \A j \in DOMAIN seq : ~seq[j].required
    BY <1>3, <1>5, <1>10
  <1>12. QED
    BY <1>1, <1>9, <1>11 DEF entry, seq

\* Nothing is asked about dangerous goods when nothing is asked about any entry.
LEMMA AllAsked ==
  ASSUME NEW s, Sane(s)
  PROVE  /\ Asking(s) \in Seq(Sensible(s))
         /\ Asking(s) = <<>> => \A k \in DOMAIN s.entries : AskingOf(s, s.entries[k]) = <<>>
  <1> DEFINE seq == s.entries
             parts == [k \in DOMAIN seq |-> AskingOf(s, seq[k])]
  <1>1. Asking(s) = FlattenSeq(parts)
    BY Zenon DEF Asking, Collect
  <1>2. Len(seq) \in Nat /\ DOMAIN seq = 1..Len(seq)
    BY DraftIs
  <1>3. \A k \in DOMAIN seq : AskingOf(s, seq[k]) \in Seq(Sensible(s))
    BY EntryAsked
  <1>4. parts \in [1..Len(seq) -> Seq(Sensible(s))] /\ \A k \in DOMAIN seq : parts[k] = AskingOf(s, seq[k])
    BY <1>2, <1>3
  <1> HIDE DEF parts
  <1>5. parts \in Seq(Seq(Sensible(s))) /\ Len(parts) = Len(seq)
    BY <1>2, <1>4
  <1>6. FlattenSeq(parts) \in Seq(Sensible(s))
    BY <1>5, Flattened
  <1>7. FlattenSeq(parts) = <<>> => \A k \in DOMAIN seq : AskingOf(s, seq[k]) = <<>>
    BY <1>2, <1>4, <1>5, FlatEmpty
  <1>8. QED
    BY <1>1, <1>6, <1>7

\* What is asked next is about the draft, and nothing is asked only when the
\* draft lacks nothing.
LEMMA NextQuestion ==
  ASSUME NEW s, Sane(s), NEW q, q = _next_pending(s)
  PROVE  /\ q \in Questions /\ (q.scope = "dg_question" => Has(s, q.line, q.un))
         /\ q = NoQuestion => Complete(s)
         /\ q # NoQuestion => q.scope # "none"
  <1>0. NoQuestion = [scope |-> "none", line |-> 0, field |-> "none", required |-> FALSE, un |-> None]
    BY DEF NoQuestion, question
  <1>9. NoQuestion.scope = "none"
    BY <1>0
  <1>1. CASE s.lines = <<>>
    <2> DEFINE g == question("goods_intake", 0, "none", TRUE)
    <2>1. _all_pending(s) = <<g>>
      BY <1>1 DEF _all_pending
    <2>2. g = [scope |-> "goods_intake", line |-> 0, field |-> "none", required |-> TRUE, un |-> None]
      BY DEF question
    <2> HIDE DEF g
    <2>3. q = g
      BY <2>1 DEF _next_pending
    <2>4. g \in Questions /\ g.scope = "goods_intake"
      BY <2>2 DEF Questions, Scopes, Asks
    <2>5. QED
      BY <1>9, <2>3, <2>4
  <1>2. CASE s.lines # <<>>
    <2> DEFINE a == Counting(s)
               b == Naming(s)
               c == Asking(s)
               all == a \o b \o c
    <2>1. _all_pending(s) = all
      BY <1>2, Zenon DEF _all_pending, Counting, Naming, Asking, AskingOf
    <2>2. a \in Seq(Sensible(s)) /\ b \in Seq(Sensible(s)) /\ c \in Seq(Sensible(s))
      BY Counted, Named, AllAsked
    <2> HIDE DEF a, b, c
    <2>3. a \o b \in Seq(Sensible(s)) /\ all \in Seq(Sensible(s))
      BY <2>2
    <2>4. CASE all = <<>>
      <3>1. a \o b = <<>> /\ c = <<>>
        BY <2>2, <2>3, <2>4, JoinEmpty
      <3>2. a = <<>> /\ b = <<>>
        BY <2>2, <3>1, JoinEmpty
      <3>3. Complete(s)
        BY <3>1, <3>2, Counted, Named, AllAsked, EntryAsked DEF a, b, c, Complete
      <3>4. q = NoQuestion
        BY <2>1, <2>4 DEF _next_pending
      <3>5. NoQuestion \in Questions
        BY <1>0 DEF Questions, Scopes, Asks
      <3>6. QED
        BY <1>9, <3>3, <3>4, <3>5
    <2>5. CASE all # <<>>
      <3> HIDE DEF all
      <3>1. q = all[1]
        BY <2>1, <2>5 DEF _next_pending
      <3>2. q \in Sensible(s)
        BY <2>3, <2>5, <3>1, EmptySeq
      <3>3. q \in Questions /\ q.scope \notin {"none", "goods_intake"}
            /\ (q.scope = "dg_question" => Has(s, q.line, q.un))
        BY <3>2 DEF Sensible
      <3>4. QED
        BY <1>9, <3>3
    <2>6. QED
      BY <2>4, <2>5
  <1>3. QED
    BY <1>1, <1>2

-----------------------------------------------------------------------------
(* The interview: from the wizard to the panel and back *)

\* A draft with other lines and entries.
LEMMA DraftRemade ==
  ASSUME NEW s, s = [lines |-> s.lines, entries |-> s.entries, skipped |-> s.skipped],
         NEW l, NEW e, NEW r, r = [s EXCEPT !.lines = l, !.entries = e]
  PROVE  r = [lines |-> l, entries |-> e, skipped |-> s.skipped]
  OBVIOUS

\* Other names for the lines, and nothing else.
Renamed(l, lines) ==
  /\ DOMAIN l = DOMAIN lines /\ l \in Seq(Lines)
  /\ \A i \in DOMAIN lines : /\ l[i].id = lines[i].id /\ l[i].un = lines[i].un
                             /\ l[i].counted = lines[i].counted

\* A line with other names.
LEMMA NamesSet ==
  ASSUME NEW x \in Lines, NEW v \in SUBSET Substances, NEW p, p = [x EXCEPT !.names = v]
  PROVE  p \in Lines /\ p.id = x.id /\ p.un = x.un /\ p.counted = x.counted
  <1>1. x = [id |-> x.id, article |-> x.article, names |-> x.names, un |-> x.un, counted |-> x.counted]
    BY DEF Lines
  <1>2. p = [id |-> x.id, article |-> x.article, names |-> v, un |-> x.un, counted |-> x.counted]
    BY <1>1
  <1>3. QED
    BY <1>2 DEF Lines

\* Lines with other names.
LEMMA LinesRenamed ==
  ASSUME NEW lines \in Seq(Lines), NEW v, \A i \in DOMAIN lines : v[i] \in SUBSET Substances,
         NEW l, l = [i \in DOMAIN lines |-> [lines[i] EXCEPT !.names = v[i]]]
  PROVE  Renamed(l, lines)
  <1>1. Len(lines) \in Nat /\ DOMAIN lines = 1..Len(lines)
    OBVIOUS
  <1>2. DOMAIN l = 1..Len(lines) /\ l = [i \in 1..Len(lines) |-> l[i]]
    BY <1>1
  <1>3. \A i \in 1..Len(lines) :
          /\ l[i] \in Lines
          /\ l[i].id = lines[i].id /\ l[i].un = lines[i].un /\ l[i].counted = lines[i].counted
    <2> SUFFICES ASSUME NEW i \in 1..Len(lines)
                 PROVE /\ l[i] \in Lines
                       /\ l[i].id = lines[i].id /\ l[i].un = lines[i].un
                       /\ l[i].counted = lines[i].counted
      OBVIOUS
    <2>1. l[i] = [lines[i] EXCEPT !.names = v[i]] /\ lines[i] \in Lines /\ v[i] \in SUBSET Substances
      BY <1>1
    <2> DEFINE x == lines[i]
               w == v[i]
               p == l[i]
    <2>2. p = [x EXCEPT !.names = w] /\ x \in Lines /\ w \in SUBSET Substances
      BY <2>1
    <2> HIDE DEF x, w, p
    <2>3. p \in Lines /\ p.id = x.id /\ p.un = x.un /\ p.counted = x.counted
      BY <2>2, NamesSet, Zenon
    <2>4. QED
      BY <2>3 DEF p, x
  <1>4. l \in [1..Len(lines) -> Lines]
    BY <1>2, <1>3
  <1>5. l \in Seq(Lines)
    BY <1>1, <1>4
  <1>6. QED
    BY <1>1, <1>2, <1>3, <1>5 DEF Renamed

\* Other lines for the entries, and nothing else.
Moved(e, entries, target) ==
  /\ DOMAIN e = DOMAIN entries /\ e \in Seq(Entries)
  /\ \A i \in DOMAIN entries : /\ e[i].line = target[i] /\ e[i].un = entries[i].un
                               /\ e[i].facts = entries[i].facts

\* An entry of another line.
LEMMA LineMoved ==
  ASSUME NEW x \in Entries, NEW v \in Nat, NEW p, p = [x EXCEPT !.line = v]
  PROVE  p \in Entries /\ p.line = v /\ p.un = x.un /\ p.facts = x.facts
  <1>1. x = [line |-> x.line, un |-> x.un, facts |-> x.facts]
    BY DEF Entries
  <1>2. p = [line |-> v, un |-> x.un, facts |-> x.facts]
    BY <1>1
  <1>3. QED
    BY <1>2 DEF Entries

\* Entries of other lines.
LEMMA EntriesMoved ==
  ASSUME NEW entries \in Seq(Entries), NEW target, \A i \in DOMAIN entries : target[i] \in Nat,
         NEW e, e = [i \in DOMAIN entries |-> [entries[i] EXCEPT !.line = target[i]]]
  PROVE  Moved(e, entries, target)
  <1>1. Len(entries) \in Nat /\ DOMAIN entries = 1..Len(entries)
    OBVIOUS
  <1>2. DOMAIN e = 1..Len(entries) /\ e = [i \in 1..Len(entries) |-> e[i]]
    BY <1>1
  <1>3. \A i \in 1..Len(entries) :
          /\ e[i] \in Entries
          /\ e[i].line = target[i] /\ e[i].un = entries[i].un /\ e[i].facts = entries[i].facts
    <2> SUFFICES ASSUME NEW i \in 1..Len(entries)
                 PROVE /\ e[i] \in Entries
                       /\ e[i].line = target[i] /\ e[i].un = entries[i].un
                       /\ e[i].facts = entries[i].facts
      OBVIOUS
    <2>1. e[i] = [entries[i] EXCEPT !.line = target[i]] /\ entries[i] \in Entries /\ target[i] \in Nat
      BY <1>1
    <2>2. QED
      BY <2>1, LineMoved
  <1>4. e \in [1..Len(entries) -> Entries]
    BY <1>2, <1>3
  <1>5. e \in Seq(Entries)
    BY <1>1, <1>4
  <1>6. QED
    BY <1>1, <1>2, <1>3, <1>5 DEF Moved

\* What is said of a substance does not depend on the line.
LEMMA MovedBelong ==
  ASSUME NEW e, NEW entries, NEW target, Moved(e, entries, target), Belong(entries)
  PROVE  Belong(e)
  BY DEF Moved, Belong

\* Nor does the number of a line depend on its names.
LEMMA RenamedApart ==
  ASSUME NEW l, NEW lines, Renamed(l, lines), Apart(lines)
  PROVE  Apart(l)
  BY DEF Renamed, Apart

\* What the entries of the wizard count on: a position that there is.
Placed(s) == \A i \in DOMAIN s.entries : s.entries[i].line \in DOMAIN s.lines

\* The draft that the panel opens on.
LEMMA Handed ==
  ASSUME Sane(wizard), NEW b, b = buildAssistantState
  PROVE  Sane(b) /\ (Good(wizard) /\ Placed(wizard) => Good(b))
  <1> DEFINE v == [i \in DOMAIN wizard.lines |->
                     IF standing.result THEN Candidates[wizard.lines[i].article] ELSE {}]
             target == [i \in DOMAIN wizard.entries |->
                      IF wizard.entries[i].line \in DOMAIN wizard.lines
                      THEN wizard.lines[wizard.entries[i].line].id ELSE wizard.entries[i].line]
             l == [i \in DOMAIN wizard.lines |-> [wizard.lines[i] EXCEPT !.names = v[i]]]
             e == [i \in DOMAIN wizard.entries |-> [wizard.entries[i] EXCEPT !.line = target[i]]]
  <1>1. /\ wizard = [lines |-> wizard.lines, entries |-> wizard.entries, skipped |-> wizard.skipped]
        /\ wizard.lines \in Seq(Lines) /\ wizard.entries \in Seq(Entries)
        /\ wizard.skipped \in SUBSET (Nat \X Asks) /\ Apart(wizard.lines)
    BY DraftIs
  <1>2. b = [wizard EXCEPT !.lines = l, !.entries = e]
    <2> DEFINE named(i) == IF standing.result THEN Candidates[wizard.lines[i].article] ELSE {}
               at(i) == wizard.entries[i].line
               id(i) == IF at(i) \in DOMAIN wizard.lines THEN wizard.lines[at(i)].id ELSE at(i)
               m == [i \in DOMAIN wizard.lines |-> [wizard.lines[i] EXCEPT !.names = named(i)]]
               n == [i \in DOMAIN wizard.entries |-> [wizard.entries[i] EXCEPT !.line = id(i)]]
    <2>1. b = [wizard EXCEPT !.lines = m, !.entries = n]
      BY Zenon DEF buildAssistantState
    <2>2. l = m
      OBVIOUS
    <2>3. e = n
      OBVIOUS
    <2> HIDE DEF l, e, m, n
    <2>4. QED
      BY <2>1, <2>2, <2>3
  <1>3. \A i \in DOMAIN wizard.lines : v[i] \in SUBSET Substances
    <2> SUFFICES ASSUME NEW i \in DOMAIN wizard.lines PROVE v[i] \in SUBSET Substances
      OBVIOUS
    <2>1. wizard.lines[i].article \in Articles
      <3>1. wizard.lines[i] \in Lines
        BY <1>1
      <3>2. QED
        BY <3>1 DEF Lines
    <2>2. QED
      BY <2>1 DEF Substances
  <1>4. \A i \in DOMAIN wizard.entries : target[i] \in Nat
    <2> SUFFICES ASSUME NEW i \in DOMAIN wizard.entries PROVE target[i] \in Nat
      OBVIOUS
    <2>1. wizard.entries[i] \in Entries
      BY <1>1
    <2>2. wizard.entries[i].line \in Nat
      BY <2>1 DEF Entries
    <2>3. wizard.entries[i].line \in DOMAIN wizard.lines
            => wizard.lines[wizard.entries[i].line].id \in Nat
      BY <1>1, AtPlace
    <2>4. QED
      BY <2>2, <2>3
  <1>5. l = [i \in DOMAIN wizard.lines |-> [wizard.lines[i] EXCEPT !.names = v[i]]]
        /\ e = [i \in DOMAIN wizard.entries |-> [wizard.entries[i] EXCEPT !.line = target[i]]]
    OBVIOUS
  <1>6. Good(wizard) /\ Placed(wizard) =>
          \A i, j \in DOMAIN wizard.entries : target[i] = target[j] => i = j
    BY <1>1 DEF Good, Placed, Single, Apart
  <1> HIDE DEF v, target, l, e
  <1>7. Renamed(l, wizard.lines) /\ Moved(e, wizard.entries, target)
    <2>1. Renamed(l, wizard.lines)
      BY <1>1, <1>3, <1>5, LinesRenamed, Zenon
    <2>2. Moved(e, wizard.entries, target)
      BY <1>1, <1>4, <1>5, EntriesMoved, Zenon
    <2>3. QED
      BY <2>1, <2>2
  <1>8. b = [lines |-> l, entries |-> e, skipped |-> wizard.skipped]
    BY <1>1, <1>2, DraftRemade, Zenon
  <1>9. Sane(b)
    <2>1. Apart(l)
      BY <1>1, <1>7, RenamedApart
    <2>2. QED
      BY <1>1, <1>7, <1>8, <2>1, DraftOf DEF Renamed, Moved
  <1>10. ASSUME Good(wizard), Placed(wizard) PROVE Good(b)
    <2>1. Belong(e)
      BY <1>7, <1>10, MovedBelong DEF Good
    <2>2. Single(e)
      BY <1>6, <1>7, <1>10 DEF Single, Moved
    <2>3. QED
      BY <1>8, <2>1, <2>2 DEF Good
  <1>11. QED
    BY <1>9, <1>10

\* LineAt finds the line when there is one.
LEMMA LineAtIs ==
  ASSUME NEW s, NEW id, \E i \in DOMAIN s.lines : s.lines[i].id = id
  PROVE  LineAt(s, id) \in DOMAIN s.lines /\ s.lines[LineAt(s, id)].id = id
  BY DEF LineAt

AStanding ==
  standing = [result |-> standing.result, signed |-> standing.signed,
              renumbered |-> standing.renumbered]

\* applyAssistantState does not renumber anything.
LEMMA StandingSet ==
  ASSUME AStanding, NEW a, NEW b, standing' = [standing EXCEPT !.result = a, !.signed = b]
  PROVE  AStanding' /\ standing'.renumbered = standing.renumbered
  BY DEF AStanding

\* The entries of the lines that there are.
KeptOf(s) ==
  Only(s.entries, LAMBDA e : \E i \in DOMAIN s.lines : s.lines[i].id = e.line)

\* The entries that applyAssistantState keeps are those of lines that there are.
LEMMA Kept ==
  ASSUME NEW s, Sane(s), NEW kept, kept = KeptOf(s)
  PROVE  /\ kept \in Seq(Entries)
         /\ \E h : Keeps(h, kept, s.entries,
                         {k \in DOMAIN s.entries :
                            \E i \in DOMAIN s.lines : s.lines[i].id = s.entries[k].line})
  <1> DEFINE seq == s.entries
             places == {k \in DOMAIN seq : \E i \in DOMAIN s.lines : s.lines[i].id = seq[k].line}
  <1>1. seq \in Seq(Entries)
    BY DEF Sane, Drafts
  <1>2. kept = FlattenSeq([k \in DOMAIN seq |->
                             IF \E i \in DOMAIN s.lines : s.lines[i].id = seq[k].line
                             THEN <<seq[k]>> ELSE <<>>])
    BY Zenon DEF KeptOf, Only, Collect, When
  <1>3. kept = FlattenSeq([k \in DOMAIN seq |-> IF k \in places THEN <<seq[k]>> ELSE <<>>])
    BY <1>2
  <1> HIDE DEF places, seq
  <1>4. kept \in Seq(Entries) /\ \E h : Keeps(h, kept, seq, places)
    BY <1>1, <1>3, Filtered, Zenon
  <1>5. QED
    BY <1>4, Zenon DEF places, seq

\* What the assistant leaves in the wizard.
LEMMA AppliedAs ==
  ASSUME NEW s, Sane(s), AStanding, Applied(s)
  PROVE  /\ Sane(wizard') /\ Matches(wizard', s)
         /\ AStanding' /\ standing'.renumbered = standing.renumbered
         /\ Good(s) => Good(wizard') /\ Placed(wizard')
  <1> DEFINE kept == KeptOf(s)
             target == [i \in DOMAIN kept |-> LineAt(s, kept[i].line)]
             v == [i \in DOMAIN s.lines |-> {}]
             l == [i \in DOMAIN s.lines |-> [s.lines[i] EXCEPT !.names = v[i]]]
             e == [i \in DOMAIN kept |-> [kept[i] EXCEPT !.line = target[i]]]
  <1>1. /\ s = [lines |-> s.lines, entries |-> s.entries, skipped |-> s.skipped]
        /\ s.lines \in Seq(Lines) /\ s.entries \in Seq(Entries)
        /\ s.skipped \in SUBSET (Nat \X Asks) /\ Apart(s.lines)
    BY DraftIs
  <1>2. kept \in Seq(Entries)
        /\ \E h : Keeps(h, kept, s.entries,
                        {k \in DOMAIN s.entries :
                           \E i \in DOMAIN s.lines : s.lines[i].id = s.entries[k].line})
    BY Kept, Zenon
  <1>3. wizard' = [s EXCEPT !.lines = l, !.entries = e]
    <2> DEFINE m == [i \in DOMAIN s.lines |-> [s.lines[i] EXCEPT !.names = {}]]
               n == [i \in DOMAIN kept |-> [kept[i] EXCEPT !.line = LineAt(s, kept[i].line)]]
    <2>1. wizard' = [s EXCEPT !.lines = m, !.entries = n]
      BY Zenon DEF Applied, KeptOf
    <2>2. l = m
      OBVIOUS
    <2> HIDE DEF kept
    <2>3. e = n
      OBVIOUS
    <2> HIDE DEF l, e, m, n
    <2>4. QED
      BY <2>1, <2>2, <2>3
  <1>4. AStanding' /\ standing'.renumbered = standing.renumbered
    <2> DEFINE a == standing.result /\ signatureOf(s.lines) = signatureOf(wizard.lines)
               b == signatureOf(s.lines)
    <2>1. standing' = [standing EXCEPT !.result = a, !.signed = b]
      BY Zenon DEF Applied
    <2> HIDE DEF a, b
    <2>2. QED
      BY <2>1, StandingSet
  <1> HIDE DEF kept
  <1>5. PICK h : Keeps(h, kept, s.entries,
                       {k \in DOMAIN s.entries :
                          \E i \in DOMAIN s.lines : s.lines[i].id = s.entries[k].line})
    BY <1>2
  <1>6. DOMAIN kept = 1..Len(kept) /\ DOMAIN s.entries = 1..Len(s.entries)
    BY <1>1, <1>2
  <1>7. \A k \in DOMAIN kept : /\ kept[k] = s.entries[h[k]] /\ h[k] \in DOMAIN s.entries
                               /\ \E i \in DOMAIN s.lines : s.lines[i].id = kept[k].line
    BY <1>5, <1>6 DEF Keeps
  <1>8. \A k, m \in DOMAIN kept : h[k] = h[m] => k = m
    BY <1>5, <1>6 DEF Keeps
  <1>9. \A k \in DOMAIN kept : target[k] \in DOMAIN s.lines /\ s.lines[target[k]].id = kept[k].line
    BY <1>7, LineAtIs
  <1>10. \A k \in DOMAIN kept : target[k] \in Nat
    BY <1>1, <1>9
  <1>11. \A i \in DOMAIN s.lines : v[i] \in SUBSET Substances
    OBVIOUS
  <1>12. /\ l = [i \in DOMAIN s.lines |-> [s.lines[i] EXCEPT !.names = v[i]]]
         /\ e = [i \in DOMAIN kept |-> [kept[i] EXCEPT !.line = target[i]]]
    OBVIOUS
  <1> HIDE DEF target, v, l, e
  <1>13. Renamed(l, s.lines)
    BY <1>1, <1>11, <1>12, LinesRenamed, Zenon
  <1>14. Moved(e, kept, target)
    BY <1>2, <1>10, <1>12, EntriesMoved, Zenon
  <1>15. wizard' = [lines |-> l, entries |-> e, skipped |-> s.skipped]
    BY <1>1, <1>3, DraftRemade, Zenon
  <1>16. Sane(wizard')
    <2>1. Apart(l)
      BY <1>1, <1>13, RenamedApart
    <2>2. Sane([lines |-> l, entries |-> e, skipped |-> s.skipped])
      BY <1>1, <1>13, <1>14, <2>1, DraftOf DEF Renamed, Moved
    <2>3. QED
      BY <1>15, <2>2, Zenon
  <1>17. wizard'.lines = l /\ wizard'.entries = e
    BY <1>15
  <1>18. Matches(wizard', s)
    <2>1. \A i \in DOMAIN e : \E j \in DOMAIN s.entries :
            e[i].un = s.entries[j].un /\ e[i].facts = s.entries[j].facts
      BY <1>7, <1>14 DEF Moved
    <2>2. QED
      BY <1>13, <1>17, <2>1 DEF Matches, Renamed
  <1>19. ASSUME Good(s) PROVE Good(wizard') /\ Placed(wizard')
    <2>1. Single(e)
      <3> SUFFICES ASSUME NEW i \in DOMAIN e, NEW j \in DOMAIN e, e[i].line = e[j].line
                   PROVE  i = j
        BY DEF Single
      <3>1. i \in DOMAIN kept /\ j \in DOMAIN kept /\ target[i] = target[j]
        BY <1>14 DEF Moved
      <3>2. kept[i].line = kept[j].line
        BY <1>9, <3>1
      <3>3. h[i] = h[j]
        BY <1>7, <1>19, <3>1, <3>2 DEF Good, Single
      <3>4. QED
        BY <1>8, <3>1, <3>3
    <2>2. Belong(e)
      <3>1. Belong(kept)
        BY <1>7, <1>19 DEF Good, Belong
      <3>2. QED
        BY <1>14, <3>1, MovedBelong
    <2>3. \A i \in DOMAIN e : e[i].line \in DOMAIN l
      BY <1>9, <1>13, <1>14 DEF Moved, Renamed
    <2>4. QED
      BY <1>17, <2>1, <2>2, <2>3 DEF Good, Placed
  <1>20. QED
    BY <1>4, <1>16, <1>18, <1>19

\* The wizard as somebody who works in it finds it.
InOrder(w, renumbered) == Sane(w) /\ (~renumbered => Good(w) /\ Placed(w))

WizardKept == /\ AStanding /\ standing.renumbered \in BOOLEAN
              /\ InOrder(wizard, standing.renumbered)

\* Lines are still told apart with one of them removed.
LEMMA LineRemoved ==
  ASSUME NEW lines \in Seq(Lines), Apart(lines), NEW i \in DOMAIN lines,
         NEW l, l = RemoveAt(lines, i)
  PROVE  l \in Seq(Lines) /\ Apart(l)
  <1> DEFINE a == SubSeq(lines, 1, i - 1)
             b == SubSeq(lines, i + 1, Len(lines))
             n == Len(lines)
  <1>1. n \in Nat /\ i \in 1..n /\ DOMAIN lines = 1..n /\ \A k \in 1..n : lines[k] \in Lines
    OBVIOUS
  <1>2. l = a \o b
    BY DEF RemoveAt
  <1>3. /\ \A k \in 1..(i - 1) : lines[k] \in Lines
        /\ \A k \in (i + 1)..n : lines[k] \in Lines
    BY <1>1
  <1>4. 1 \in Int /\ i - 1 \in Int /\ i + 1 \in Int /\ n \in Int
    BY <1>1
  <1>5. /\ a \in Seq(Lines) /\ Len(a) = i - 1
        /\ \A k \in 1..(i - 1) : a[k] = lines[k]
    <2>1. /\ a \in Seq(Lines) /\ Len(a) = IF 1 <= i - 1 THEN i - 1 - 1 + 1 ELSE 0
          /\ \A k \in 1..(i - 1 - 1 + 1) : a[k] = lines[1 + k - 1]
      BY <1>3, <1>4, SubSeqProperties
    <2>2. Len(a) = i - 1
      BY <1>1, <2>1
    <2>3. \A k \in 1..(i - 1) : k \in 1..(i - 1 - 1 + 1) /\ 1 + k - 1 = k
      BY <1>1
    <2> HIDE DEF a
    <2>4. QED
      BY <2>1, <2>2, <2>3
  <1>6. /\ b \in Seq(Lines) /\ Len(b) = n - i
        /\ \A k \in 1..(n - i) : b[k] = lines[i + k]
    <2>1. /\ b \in Seq(Lines) /\ Len(b) = IF i + 1 <= n THEN n - (i + 1) + 1 ELSE 0
          /\ \A k \in 1..(n - (i + 1) + 1) : b[k] = lines[i + 1 + k - 1]
      BY <1>3, <1>4, SubSeqProperties
    <2>2. Len(b) = n - i
      BY <1>1, <2>1
    <2>3. \A k \in 1..(n - i) : k \in 1..(n - (i + 1) + 1) /\ i + 1 + k - 1 = i + k
      BY <1>1
    <2> HIDE DEF b
    <2>4. QED
      BY <2>1, <2>2, <2>3
  <1> HIDE DEF a, b, n
  <1>7. /\ l \in Seq(Lines) /\ Len(l) = Len(a) + Len(b)
        /\ \A k \in 1..Len(l) : l[k] = IF k <= Len(a) THEN a[k] ELSE b[k - Len(a)]
    BY <1>2, <1>5, <1>6, ConcatProperties
  <1> DEFINE p(k) == IF k < i THEN k ELSE k + 1
  <1>8. DOMAIN l = 1..(n - 1)
    BY <1>1, <1>5, <1>6, <1>7
  <1>9. \A k \in 1..(n - 1) : l[k] = lines[p(k)] /\ p(k) \in 1..n
    <2> SUFFICES ASSUME NEW k \in 1..(n - 1) PROVE l[k] = lines[p(k)] /\ p(k) \in 1..n
      OBVIOUS
    <2>1. k \in 1..Len(l)
      BY <1>1, <1>5, <1>6, <1>7
    <2>2. CASE k < i
      BY <1>1, <1>5, <1>7, <2>1, <2>2
    <2>3. CASE ~(k < i)
      <3>1. k - Len(a) \in 1..(n - i) /\ i + (k - Len(a)) = k + 1
        BY <1>1, <1>5, <2>3
      <3>2. l[k] = b[k - Len(a)]
        BY <1>1, <1>5, <1>7, <2>1, <2>3
      <3>3. l[k] = lines[k + 1]
        BY <1>6, <3>1, <3>2
      <3>4. QED
        BY <1>1, <2>3, <3>3
    <2>4. QED
      BY <2>2, <2>3
  <1>10. \A k, m \in 1..(n - 1) : p(k) = p(m) => k = m
    BY <1>1
  <1> HIDE DEF p
  <1>11. QED
    BY <1>1, <1>7, <1>8, <1>9, <1>10 DEF Apart

\* The wizard's own actions leave it in order.
LEMMA Removing ==
  ASSUME WizardKept, NEW i \in DOMAIN wizard.lines, removeLine(i)
  PROVE  WizardKept'
  <1> DEFINE l == RemoveAt(wizard.lines, i)
  <1>1. /\ wizard = [lines |-> wizard.lines, entries |-> wizard.entries, skipped |-> wizard.skipped]
        /\ wizard.lines \in Seq(Lines) /\ wizard.entries \in Seq(Entries)
        /\ wizard.skipped \in SUBSET (Nat \X Asks) /\ Apart(wizard.lines)
    BY DraftIs DEF WizardKept, InOrder
  <1>2. l \in Seq(Lines) /\ Apart(l)
    BY <1>1, LineRemoved
  <1>3. wizard' = [wizard EXCEPT !.lines = l]
    BY DEF removeLine
  <1>4. /\ AStanding'
        /\ standing'.renumbered = (standing.renumbered \/ wizard.entries # <<>>)
    <2> DEFINE b == standing.renumbered \/ wizard.entries # <<>>
    <2>1. standing' = [standing EXCEPT !.result = FALSE, !.renumbered = b]
      BY DEF removeLine
    <2> HIDE DEF b
    <2>2. AStanding' /\ standing'.renumbered = b
      BY <2>1 DEF WizardKept, AStanding
    <2>3. QED
      BY <2>2 DEF b
  <1> HIDE DEF l
  <1>5. wizard' = [lines |-> l, entries |-> wizard.entries, skipped |-> wizard.skipped]
    BY <1>1, <1>3, Nested, Zenon
  <1>6. Sane(wizard')
    <2>1. Sane([lines |-> l, entries |-> wizard.entries, skipped |-> wizard.skipped])
      BY <1>1, <1>2, DraftOf
    <2>2. QED
      BY <1>5, <2>1, Zenon
  <1>7. wizard.entries = <<>> => Good(wizard') /\ Placed(wizard')
    <2>1. wizard'.entries = wizard.entries
      BY <1>5
    <2>2. QED
      BY <2>1 DEF Good, Placed, Single, Belong
  <1>8. QED
    BY <1>4, <1>6, <1>7 DEF WizardKept, InOrder

\* Deciding about the substance of a line changes no entry.
LEMMA Deciding ==
  ASSUME WizardKept, NEW i \in DOMAIN wizard.lines,
         NEW un \in Candidates[wizard.lines[i].article] \cup {None, Rejected},
         decide_substance(i, un)
  PROVE  WizardKept'
  <1> DEFINE x == [wizard.lines[i] EXCEPT !.un = un]
             l == [wizard.lines EXCEPT ![i] = x]
  <1>1. /\ wizard = [lines |-> wizard.lines, entries |-> wizard.entries, skipped |-> wizard.skipped]
        /\ wizard.lines \in Seq(Lines) /\ wizard.entries \in Seq(Entries)
        /\ wizard.skipped \in SUBSET (Nat \X Asks) /\ Apart(wizard.lines)
    BY DraftIs DEF WizardKept, InOrder
  <1>2. wizard' = [wizard EXCEPT !.lines[i].un = un] /\ standing' = standing
    BY DEF decide_substance
  <1>3. wizard' = [lines |-> l, entries |-> wizard.entries, skipped |-> wizard.skipped]
    BY <1>1, <1>2, Nested, Zenon
  <1>4. wizard.lines[i] \in Lines
    BY <1>1
  <1>5. un \in Substances \cup {None, Rejected}
    <2>1. wizard.lines[i].article \in Articles
      BY <1>4 DEF Lines
    <2>2. QED
      BY <2>1 DEF Substances
  <1>6. x \in Lines /\ x.id = wizard.lines[i].id
    BY <1>4, <1>5, LineSets
  <1>7. l = [wizard.lines EXCEPT ![i] = x] /\ DOMAIN l = DOMAIN wizard.lines
    OBVIOUS
  <1> HIDE DEF x, l
  <1>8. l \in Seq(Lines) /\ Apart(l)
    BY <1>1, <1>6, <1>7, LineSet
  <1>9. Sane(wizard')
    <2>1. Sane([lines |-> l, entries |-> wizard.entries, skipped |-> wizard.skipped])
      BY <1>1, <1>8, DraftOf
    <2>2. QED
      BY <1>3, <2>1, Zenon
  <1>10. wizard'.entries = wizard.entries /\ DOMAIN wizard'.lines = DOMAIN wizard.lines
    BY <1>3, <1>7
  <1>11. Good(wizard) /\ Placed(wizard) => Good(wizard') /\ Placed(wizard')
    BY <1>10 DEF Good, Placed
  <1>12. QED
    BY <1>2, <1>9, <1>11 DEF WizardKept, InOrder, AStanding

\* calculateFromDraft ends the renumbering only when it drops the entries.
LEMMA StandingCalculated ==
  ASSUME AStanding, Calculated
  PROVE  AStanding' /\ standing'.renumbered = (standing.renumbered /\ AsLeft)
  <1> DEFINE b == standing.renumbered /\ AsLeft
  <1>1. standing' = [standing EXCEPT !.result = TRUE, !.renumbered = b]
    BY DEF Calculated
  <1> HIDE DEF b
  <1>2. AStanding' /\ standing'.renumbered = b
    BY <1>1 DEF AStanding
  <1>3. QED
    BY <1>2 DEF b

\* Other entries in the wizard, which fit its lines when it is not renumbered.
LEMMA Reentered ==
  ASSUME WizardKept, Calculated, NEW e \in Seq(Entries), wizard' = [wizard EXCEPT !.entries = e],
         ~(standing.renumbered /\ AsLeft) =>
           Single(e) /\ Belong(e) /\ \A k \in DOMAIN e : e[k].line \in DOMAIN wizard.lines
  PROVE  WizardKept'
  <1>1. /\ wizard = [lines |-> wizard.lines, entries |-> wizard.entries, skipped |-> wizard.skipped]
        /\ wizard.lines \in Seq(Lines) /\ wizard.entries \in Seq(Entries)
        /\ wizard.skipped \in SUBSET (Nat \X Asks) /\ Apart(wizard.lines)
    BY DraftIs DEF WizardKept, InOrder
  <1>2. wizard' = [lines |-> wizard.lines, entries |-> e, skipped |-> wizard.skipped]
    BY <1>1, DraftChanged, Zenon
  <1>3. Sane(wizard')
    <2>1. Sane([lines |-> wizard.lines, entries |-> e, skipped |-> wizard.skipped])
      BY <1>1, DraftOf
    <2>2. QED
      BY <1>2, <2>1, Zenon
  <1>4. wizard'.lines = wizard.lines /\ wizard'.entries = e
    BY <1>2
  <1>5. AStanding' /\ standing'.renumbered = (standing.renumbered /\ AsLeft)
    BY StandingCalculated DEF WizardKept
  <1>6. ~standing'.renumbered => Good(wizard') /\ Placed(wizard')
    BY <1>4, <1>5 DEF Good, Placed
  <1>7. standing'.renumbered \in BOOLEAN
    BY <1>5
  <1>8. QED
    BY <1>3, <1>5, <1>6, <1>7 DEF WizardKept, InOrder

\* calculateFromDraft keeps all entries, or none.
LEMMA Calculating ==
  ASSUME WizardKept, Calculated, wizard' = [wizard EXCEPT !.entries = calculated(wizard.entries)]
  PROVE  WizardKept'
  <1> DEFINE e == calculated(wizard.entries)
  <1>1. wizard.entries \in Seq(Entries)
    BY DraftIs DEF WizardKept, InOrder
  <1>2. e = IF AsLeft THEN wizard.entries ELSE <<>>
    BY DEF calculated
  <1>3. wizard' = [wizard EXCEPT !.entries = e]
    OBVIOUS
  <1> HIDE DEF e
  <1>4. CASE AsLeft
    BY <1>1, <1>2, <1>3, <1>4, Reentered DEF WizardKept, InOrder, Good, Placed
  <1>5. CASE ~AsLeft
    <2>1. e = <<>>
      BY <1>2, <1>5
    <2>2. e \in Seq(Entries) /\ DOMAIN e = {}
      BY <2>1
    <2>3. Single(e) /\ Belong(e) /\ \A k \in DOMAIN e : e[k].line \in DOMAIN wizard.lines
      BY <2>2 DEF Single, Belong
    <2>4. QED
      BY <1>3, <2>2, <2>3, Reentered
  <1>6. QED
    BY <1>4, <1>5

\* The lines that are dangerous goods, by position.
Dangerous ==
  Only([i \in DOMAIN wizard.lines |-> i], LAMBDA i : wizard.lines[i].un \in Substances)

\* The lines that are dangerous goods are different positions.
LEMMA DangerousAre ==
  ASSUME Sane(wizard), NEW d, d = Dangerous
  PROVE  /\ d \in Seq(Nat)
         /\ \A k \in DOMAIN d : d[k] \in DOMAIN wizard.lines /\ wizard.lines[d[k]].un \in Substances
         /\ \A k, m \in DOMAIN d : d[k] = d[m] => k = m
  <1> DEFINE seq == [i \in DOMAIN wizard.lines |-> i]
             places == {k \in DOMAIN seq : wizard.lines[seq[k]].un \in Substances}
             n == Len(wizard.lines)
  <1>1. n \in Nat /\ DOMAIN wizard.lines = 1..n
    BY DraftIs
  <1>2. seq \in Seq(Nat) /\ Len(seq) = n /\ DOMAIN seq = 1..n /\ \A k \in 1..n : seq[k] = k
    <2>1. seq \in [1..n -> Nat]
      BY <1>1
    <2>2. QED
      BY <1>1, <2>1
  <1>3. d = FlattenSeq([k \in DOMAIN seq |-> IF wizard.lines[seq[k]].un \in Substances
                                             THEN <<seq[k]>> ELSE <<>>])
    BY Zenon DEF Dangerous, Only, Collect, When
  <1>4. d = FlattenSeq([k \in DOMAIN seq |-> IF k \in places THEN <<seq[k]>> ELSE <<>>])
    BY <1>3
  <1>5. \A k \in places : wizard.lines[seq[k]].un \in Substances
    OBVIOUS
  <1> HIDE DEF places, seq, n
  <1>6. d \in Seq(Nat) /\ \E h : Keeps(h, d, seq, places)
    BY <1>2, <1>4, Filtered, Zenon
  <1>7. PICK h : Keeps(h, d, seq, places)
    BY <1>6
  <1>8. DOMAIN d = 1..Len(d)
    BY <1>6
  <1>9. \A k \in DOMAIN d : d[k] = h[k] /\ h[k] \in 1..n /\ h[k] \in places
    BY <1>2, <1>7, <1>8 DEF Keeps
  <1>10. QED
    BY <1>1, <1>2, <1>5, <1>6, <1>7, <1>8, <1>9 DEF Keeps

\* An entry is prepared for the line that it is about, and says nothing of
\* another substance.
LEMMA Prepared ==
  ASSUME WizardKept, NEW i \in DOMAIN wizard.lines, wizard.lines[i].un \in Substances,
         NEW p, p = prepared(i)
  PROVE  /\ p \in Entries /\ p.line = i
         /\ ~(standing.renumbered /\ AsLeft) =>
              \A f \in Fields : p.facts[f] # Unknown => p.facts[f][2] = p.un
  <1> DEFINE blank == [line |-> i, un |-> wizard.lines[i].un, facts |-> Blank]
             old == {j \in DOMAIN wizard.entries : wizard.entries[j].line = i}
             first == CHOOSE j \in old : \A k \in old : j <= k
  <1>1. wizard.lines \in Seq(Lines) /\ wizard.entries \in Seq(Entries)
    BY DraftIs DEF WizardKept, InOrder
  <1>2. p = IF AsLeft /\ old # {} /\ wizard.entries[first].un = blank.un
            THEN wizard.entries[first] ELSE blank
    BY Zenon DEF prepared
  <1>3. CASE p = blank
    <2>1. i \in Nat
      BY <1>1
    <2>2. p \in Entries
      BY <1>3, <2>1, NewEntry
    <2>3. p.line = i /\ p.facts = Blank
      BY <1>3
    <2>4. \A f \in Fields : p.facts[f] = Unknown
      BY <2>3 DEF Blank
    <2>5. QED
      BY <2>2, <2>3, <2>4
  <1>4. CASE AsLeft /\ old # {} /\ p = wizard.entries[first]
    <2>1. old \in SUBSET Nat
      BY <1>1
    <2>2. \E j \in old : \A k \in old : j <= k
      BY <1>4, <2>1, Least
    <2>3. first \in old
      BY <2>2
    <2> HIDE DEF first
    <2>4. first \in DOMAIN wizard.entries /\ wizard.entries[first].line = i
      BY <2>3
    <2>5. p \in Entries
      BY <1>1, <1>4, <2>4
    <2>6. ~standing.renumbered => \A f \in Fields : p.facts[f] # Unknown => p.facts[f][2] = p.un
      BY <1>4, <2>4 DEF WizardKept, InOrder, Good, Belong
    <2>7. QED
      BY <1>4, <2>4, <2>5, <2>6
  <1>5. QED
    BY <1>2, <1>3, <1>4

\* goFromLines prepares one entry for each of them.
LEMMA Preparing ==
  ASSUME WizardKept, goFromLines
  PROVE  WizardKept'
  <1> DEFINE d == Dangerous
             e == [k \in DOMAIN d |-> prepared(d[k])]
  <1>1. Calculated /\ wizard' = [wizard EXCEPT !.entries =
                                   IF d = <<>> THEN calculated(wizard.entries) ELSE e]
    BY Zenon DEF goFromLines, Dangerous
  <1>2. CASE d = <<>>
    <2>1. wizard' = [wizard EXCEPT !.entries = calculated(wizard.entries)]
      BY <1>1, <1>2
    <2>2. QED
      BY <1>1, <2>1, Calculating
  <1>3. CASE d # <<>>
    <2>1. /\ d \in Seq(Nat)
          /\ \A k \in DOMAIN d : d[k] \in DOMAIN wizard.lines /\ wizard.lines[d[k]].un \in Substances
          /\ \A k, m \in DOMAIN d : d[k] = d[m] => k = m
      <3>1. Sane(wizard)
        BY DEF WizardKept, InOrder
      <3>2. QED
        BY <3>1, DangerousAre, Zenon
    <2>2. wizard' = [wizard EXCEPT !.entries = e]
      BY <1>1, <1>3
    <2>3. \A k \in DOMAIN d : e[k] = prepared(d[k])
      OBVIOUS
    <2>4. Len(d) \in Nat /\ DOMAIN d = 1..Len(d) /\ e = [k \in 1..Len(d) |-> e[k]]
      BY <2>1
    <2> HIDE DEF d, e
    <2>5. \A k \in DOMAIN d :
            /\ e[k] \in Entries /\ e[k].line = d[k]
            /\ ~(standing.renumbered /\ AsLeft) =>
                 \A f \in Fields : e[k].facts[f] # Unknown => e[k].facts[f][2] = e[k].un
      <3> SUFFICES ASSUME NEW k \in DOMAIN d
                   PROVE  /\ e[k] \in Entries /\ e[k].line = d[k]
                          /\ ~(standing.renumbered /\ AsLeft) =>
                               \A f \in Fields : e[k].facts[f] # Unknown => e[k].facts[f][2] = e[k].un
        OBVIOUS
      <3> DEFINE i == d[k]
                 p == e[k]
      <3>1. i \in DOMAIN wizard.lines /\ wizard.lines[i].un \in Substances /\ p = prepared(i)
        BY <2>1, <2>3
      <3> HIDE DEF i, p
      <3>2. /\ p \in Entries /\ p.line = i
            /\ ~(standing.renumbered /\ AsLeft) =>
                 \A f \in Fields : p.facts[f] # Unknown => p.facts[f][2] = p.un
        BY <3>1, Prepared
      <3>3. QED
        BY <3>2 DEF i, p
    <2>6. e \in [1..Len(d) -> Entries]
      BY <2>4, <2>5
    <2>7. e \in Seq(Entries) /\ DOMAIN e = DOMAIN d
      BY <2>4, <2>6
    <2>8. Single(e) /\ \A k \in DOMAIN e : e[k].line \in DOMAIN wizard.lines
      BY <2>1, <2>5, <2>7 DEF Single
    <2>9. ~(standing.renumbered /\ AsLeft) => Belong(e)
      BY <2>5, <2>7 DEF Belong
    <2>10. QED
      BY <1>1, <2>2, <2>7, <2>8, <2>9, Reentered
  <1>4. QED
    BY <1>2, <1>3

-----------------------------------------------------------------------------
(* The interview: a turn *)

\* What can be answered depends on the lines alone.
LEMMA AnswersAlike ==
  ASSUME NEW s, NEW r, r.lines = s.lines, NEW q
  PROVE  answers_to(r, q) = answers_to(s, q)
  BY DEF answers_to, LineAt

\* What is derived from a draft, and what is asked about that.
Settled(r, q) ==
  /\ Sane(r) /\ q \in Questions
  /\ q = NoQuestion => Complete(r)
  /\ q # NoQuestion => q.scope # "none"

\* What is derived from a draft is settled, and its question is about it.
LEMMA Derived ==
  ASSUME NEW s, Sane(s), NEW r, r = _sync_dg_entries(s)
  PROVE  /\ Settled(r, _next_pending(r)) /\ r.lines = s.lines
         /\ Single(s.entries) => Single(r.entries) /\ Concerns(r, _next_pending(r))
         /\ Good(s) => Good(r)
  <1> DEFINE q == _next_pending(r)
  <1>1. Sane(r) /\ r.lines = s.lines
    BY SyncKeepsDraft
  <1>2. /\ q \in Questions /\ (q.scope = "dg_question" => Has(r, q.line, q.un))
        /\ q = NoQuestion => Complete(r)
        /\ q # NoQuestion => q.scope # "none"
    BY <1>1, NextQuestion
  <1> HIDE DEF q
  <1>3. Single(s.entries) => Single(r.entries) /\ Synced(r)
    BY SyncSettles
  <1>4. Good(s) => Belong(r.entries)
    BY SyncBelongs DEF Good
  <1>5. QED
    BY <1>1, <1>2, <1>3, <1>4 DEF q, Settled, Concerns, Good

\* A turn that the panel has sent, as far as what it carries counts.
Sensed(m) ==
  /\ Sane(m.state) /\ m.action \in {"start", "answer", "revise"} /\ m.question \in Questions
  /\ m.action = "answer" =>
       m.question.scope # "none" /\ m.answer \in answers_to(m.state, m.question)
  /\ m.action = "revise" => m.question.scope = "goods_quantity"

\* What comes back is a draft and a question about it; when the question was
\* about the draft that was sent, nothing is said of another substance.
LEMMA Stepped ==
  ASSUME NEW m, Sensed(m), NEW result, result = step(m)
  PROVE  /\ Settled(result.state, result.pending)
         /\ Good(m.state) /\ Concerns(m.state, m.question) =>
              Good(result.state) /\ Concerns(result.state, result.pending)
  <1> DEFINE s == m.state
             q == m.question
             before == _sync_dg_entries(s)
             given == _apply_answer(before, q, m.answer)
             after == _sync_dg_entries(given)
  <1>1. Sane(s) /\ q \in Questions
    BY DEF Sensed
  <1>2. /\ Settled(before, _next_pending(before)) /\ before.lines = s.lines
        /\ Single(s.entries) => Single(before.entries) /\ Concerns(before, _next_pending(before))
        /\ Good(s) => Good(before)
    BY <1>1, Derived
  <1>3. CASE m.action = "revise"
    <2>1. result = [state |-> before, pending |-> q]
      BY <1>3, Zenon DEF step
    <2>2. q.scope = "goods_quantity"
      BY <1>3 DEF Sensed
    <2> HIDE DEF before, given, after, q, s
    <2>3. q # NoQuestion
      BY <2>2 DEF NoQuestion, question
    <2>4. result.state = before /\ result.pending = q
      BY <2>1
    <2>5. Settled(before, q) /\ Concerns(before, q)
      BY <1>1, <1>2, <2>2, <2>3 DEF Settled, Concerns
    <2>6. QED
      BY <1>2, <2>4, <2>5 DEF s
  <1>4. CASE m.action = "start"
    <2>1. result = [state |-> before, pending |-> _next_pending(before)]
      BY <1>4, Zenon DEF step
    <2> HIDE DEF before, given, after, q, s
    <2>2. result.state = before /\ result.pending = _next_pending(before)
      BY <2>1
    <2>3. QED
      BY <1>2, <2>2 DEF s, Good
  <1>5. CASE m.action = "answer"
    <2>1. result = [state |-> after, pending |-> _next_pending(after)]
      BY <1>5, Zenon DEF step
    <2>2. q.scope # "none" /\ m.answer \in answers_to(before, q)
      BY <1>2, <1>5, AnswersAlike DEF Sensed
    <2>3. Good(s) /\ Concerns(s, q) => (q.scope = "dg_question" => Has(before, q.line, q.un))
      <3> SUFFICES ASSUME Good(s), Concerns(s, q), q.scope = "dg_question"
                   PROVE  Has(before, q.line, q.un)
        OBVIOUS
      <3>1. Synced(s) /\ Has(s, q.line, q.un)
        BY DEF Concerns
      <3>2. PICK i \in DOMAIN s.entries : s.entries[i].line = q.line /\ s.entries[i].un = q.un
        BY <3>1 DEF Has
      <3>3. Has(before, s.entries[i].line, s.entries[i].un)
        <4>1. Single(s.entries)
          BY DEF Good
        <4> HIDE DEF before, s
        <4>2. before = _sync_dg_entries(s)
          BY DEF before
        <4>3. QED
          BY <1>1, <3>1, <4>1, <4>2, SyncSettles
      <3>4. QED
        BY <3>2, <3>3
    <2>4. /\ Sane(given)
          /\ Single(before.entries) => Single(given.entries)
          /\ Good(before) /\ (q.scope = "dg_question" => Has(before, q.line, q.un))
               => Belong(given.entries)
      <3>1. Sane(before)
        BY <1>2 DEF Settled
      <3>2. given = _apply_answer(before, q, m.answer)
        OBVIOUS
      <3> HIDE DEF before, given, after, q, s
      <3>3. QED
        BY <1>1, <2>2, <3>1, <3>2, Answered
    <2>5. /\ Settled(after, _next_pending(after))
          /\ Single(given.entries) => Concerns(after, _next_pending(after))
          /\ Good(given) => Good(after)
      BY <2>4, Derived
    <2> HIDE DEF before, given, after, q, s
    <2>6. result.state = after /\ result.pending = _next_pending(after)
      BY <2>1
    <2>7. Good(s) /\ Concerns(s, q) => Good(given)
      BY <1>2, <2>3, <2>4 DEF Good
    <2>8. QED
      BY <2>5, <2>6, <2>7 DEF s, q, Good
  <1>6. QED
    BY <1>3, <1>4, <1>5 DEF Sensed

-----------------------------------------------------------------------------
(* The interview: the inductive invariant *)

\* A state of the panel, or one to go back to.
Steady(s, q, screen, renumbered) ==
  /\ Sane(s) /\ q \in Questions
  /\ ~renumbered => Good(s) /\ Concerns(s, q)
  /\ screen = "question" => q.scope # "none"
  /\ screen = "ready" => Complete(s)

Steadies(renumbered) ==
  {x \in Snapshots : Steady(x.state, x.pending, x.screen, renumbered)}

PanelKept(p, w, renumbered) ==
  /\ ~p.open => p = ClosedPanel
  /\ p.screen \in Screens
  /\ Steady(p.working, p.pending, p.screen, renumbered)
  /\ p.screen = "ready" => Matches(w, p.working)
  /\ p.history \in Seq(Steadies(renumbered))

\* A turn that is waited for is about what the panel shows.
AwaitedBy(m, p) ==
  /\ m.state = p.working /\ p.busy /\ Sensed(m)
  /\ m.question.scope = "dg_question" => m.question = p.pending

CallsKept(turns, p) ==
  /\ \A m \in turns : ~m.late => AwaitedBy(m, p)
  /\ \A m, n \in turns : ~m.late /\ ~n.late => m = n

InterviewInv ==
  /\ NobodyWaits /\ WizardKept
  /\ PanelKept(panel, wizard, standing.renumbered)
  /\ CallsKept(calls, panel)

\* A closed panel shows nothing that could be wrong.
LEMMA ClosedKept ==
  ASSUME NEW w, NEW renumbered
  PROVE  PanelKept(ClosedPanel, w, renumbered)
  <1>1. Empty = [lines |-> <<>>, entries |-> <<>>, skipped |-> {}]
    BY DEF Empty
  <1>2. Sane(Empty) /\ Good(Empty)
    BY <1>1 DEF Sane, Drafts, Apart, Good, Single, Belong
  <1>3. NoQuestion = [scope |-> "none", line |-> 0, field |-> "none", required |-> FALSE, un |-> None]
    BY DEF NoQuestion, question
  <1>4. NoQuestion \in Questions /\ Concerns(Empty, NoQuestion)
    BY <1>3 DEF Questions, Scopes, Asks, Concerns
  <1>5. /\ ClosedPanel.working = Empty /\ ClosedPanel.pending = NoQuestion
        /\ ClosedPanel.screen = "describe" /\ ClosedPanel.history = <<>>
    BY DEF ClosedPanel
  <1>6. <<>> \in Seq(Steadies(renumbered))
    BY EmptySeq
  <1>7. QED
    BY <1>2, <1>4, <1>5, <1>6 DEF PanelKept, Steady, Screens

\* Nothing is claimed of turns that nobody waits for.
LEMMA AllLate ==
  ASSUME NEW turns, \A m \in turns : m.late, NEW p
  PROVE  CallsKept(turns, p)
  BY DEF CallsKept

\* What is sent is waited for, and it alone.
LEMMA SentAlone ==
  ASSUME NobodyWaits, NEW s, NEW q, NEW a, NEW k, Send(Turn(s, q, a, k)),
         NEW p, p.working = s, p.busy, Sensed(Turn(s, q, a, k)),
         q.scope = "dg_question" => q = p.pending
  PROVE  CallsKept(calls', p)
  <1> DEFINE t == Turn(s, q, a, k)
  <1>1. \A m \in Advance(calls) : m.late
    BY Advanced DEF NobodyWaits
  <1>2. calls' = Advance(calls) \cup {t}
    BY DEF Send
  <1>3. t.state = s /\ t.question = q
    BY DEF Turn
  <1>4. Sensed(t)
    OBVIOUS
  <1> HIDE DEF t
  <1>5. AwaitedBy(t, p)
    BY <1>3, <1>4 DEF AwaitedBy
  <1>6. \A m \in calls' : ~m.late => m = t
    BY <1>1, <1>2
  <1>7. QED
    BY <1>5, <1>6 DEF CallsKept

\* What the panel sends makes sense.
LEMMA TurnSensed ==
  ASSUME NEW s, NEW q, NEW a, NEW k, Sane(s), q \in Questions,
         k \in {"start", "answer", "revise"},
         k = "answer" => q.scope # "none" /\ a \in answers_to(s, q),
         k = "revise" => q.scope = "goods_quantity"
  PROVE  Sensed(Turn(s, q, a, k))
  <1> DEFINE t == Turn(s, q, a, k)
  <1>1. t.state = s /\ t.question = q /\ t.answer = a /\ t.action = k
    BY DEF Turn
  <1> HIDE DEF t
  <1>2. Sensed(t)
    BY <1>1 DEF Sensed
  <1>3. QED
    BY <1>2 DEF t

\* Work in the wizard leaves its lines and entries fitting.
WizardAction ==
  \/ \E i \in DOMAIN wizard.lines :
       \/ removeLine(i)
       \/ \E un \in Candidates[wizard.lines[i].article] \cup {None, Rejected} :
            decide_substance(i, un)
  \/ calculateFromDraft \/ goFromLines

\* It is behind a closed panel that they are taken, and they keep the wizard in order.
LEMMA WizardWorked ==
  ASSUME WizardKept, WizardAction
  PROVE  WizardKept' /\ Manual
  <1>1. ASSUME NEW i \in DOMAIN wizard.lines, removeLine(i) PROVE WizardKept' /\ Manual
    BY <1>1, Removing DEF removeLine
  <1>2. ASSUME NEW i \in DOMAIN wizard.lines,
               NEW un \in Candidates[wizard.lines[i].article] \cup {None, Rejected},
               decide_substance(i, un)
        PROVE  WizardKept' /\ Manual
    BY <1>2, Deciding DEF decide_substance
  <1>3. CASE calculateFromDraft
    BY <1>3, Calculating DEF calculateFromDraft
  <1>4. CASE goFromLines
    BY <1>4, Preparing DEF goFromLines
  <1>5. QED
    BY <1>1, <1>2, <1>3, <1>4 DEF WizardAction

\* With the panel closed, nothing that happens in the wizard disturbs it.
LEMMA Worked ==
  ASSUME InterviewInv, WizardAction
  PROVE  WizardKept' /\ PanelKept(panel', wizard', standing'.renumbered) /\ CallsKept(calls', panel')
  <1>1. WizardKept' /\ Manual
    BY WizardWorked DEF InterviewInv
  <1>2. ~panel.open /\ panel' = panel
    BY <1>1 DEF Manual
  <1>3. panel' = ClosedPanel
    BY <1>2 DEF InterviewInv, PanelKept
  <1>4. NobodyWaits'
    BY <1>1, WorkedIn DEF InterviewInv
  <1>5. \A m \in calls' : m.late
    BY <1>2, <1>4 DEF NobodyWaits
  <1>6. QED
    BY <1>1, <1>3, <1>5, ClosedKept, AllLate, Zenon

\* The panel with some of its parts replaced.
LEMMA PanelBusy ==
  ASSUME APanel, NEW b, panel' = [panel EXCEPT !.busy = b]
  PROVE  panel' = [open |-> panel.open, busy |-> b, working |-> panel.working,
                   pending |-> panel.pending, screen |-> panel.screen, history |-> panel.history]
  BY DEF APanel

\* The panel on another question.
LEMMA PanelTurned ==
  ASSUME APanel, NEW q, NEW z, panel' = [panel EXCEPT !.screen = z, !.pending = q]
  PROVE  panel' = [open |-> panel.open, busy |-> panel.busy, working |-> panel.working,
                   pending |-> q, screen |-> z, history |-> panel.history]
  BY DEF APanel

\* The panel as it was before.
LEMMA PanelBack ==
  ASSUME APanel, NEW s, NEW q, NEW z, NEW h,
         panel' = [panel EXCEPT !.working = s, !.pending = q, !.screen = z, !.history = h]
  PROVE  panel' = [open |-> panel.open, busy |-> panel.busy, working |-> s,
                   pending |-> q, screen |-> z, history |-> h]
  BY DEF APanel

\* The panel with an answer.
LEMMA PanelShows ==
  ASSUME APanel, NEW s, NEW q, NEW z, NEW h,
         panel' = [panel EXCEPT !.busy = FALSE, !.working = s, !.pending = q, !.screen = z,
                                !.history = h]
  PROVE  panel' = [open |-> panel.open, busy |-> FALSE, working |-> s,
                   pending |-> q, screen |-> z, history |-> h]
  BY DEF APanel

\* Only whether an answer is waited for changes.
LEMMA BusyKept ==
  ASSUME InterviewInv, NEW b, panel' = [panel EXCEPT !.busy = b], panel.open,
         UNCHANGED <<wizard, standing>>
  PROVE  /\ PanelKept(panel', wizard', standing'.renumbered) /\ WizardKept'
         /\ panel'.working = panel.working /\ panel'.pending = panel.pending /\ panel'.busy = b
  <1>1. panel' = [open |-> panel.open, busy |-> b, working |-> panel.working,
                  pending |-> panel.pending, screen |-> panel.screen, history |-> panel.history]
    BY PanelBusy DEF InterviewInv, NobodyWaits
  <1>2. PanelKept(panel', wizard, standing.renumbered)
    BY <1>1 DEF InterviewInv, PanelKept
  <1>3. QED
    BY <1>1, <1>2 DEF InterviewInv, WizardKept, InOrder, AStanding

\* The panel opens on a draft without a question, and asks for the next one.
LEMMA Opening ==
  ASSUME InterviewInv, Open
  PROVE  WizardKept' /\ PanelKept(panel', wizard', standing'.renumbered) /\ CallsKept(calls', panel')
  <1> DEFINE initial == buildAssistantState
  <1>1. panel' = [open |-> TRUE, busy |-> initial.lines # <<>>, working |-> initial,
                  pending |-> NoQuestion, screen |-> "describe", history |-> <<>>]
    <2> DEFINE c == ClosedPanel
               b == initial.lines # <<>>
    <2>1. panel' = [c EXCEPT !.open = TRUE, !.busy = b, !.working = initial]
      BY Zenon DEF Open
    <2>2. c = [open |-> c.open, busy |-> c.busy, working |-> c.working,
               pending |-> c.pending, screen |-> c.screen, history |-> c.history]
          /\ c.pending = NoQuestion /\ c.screen = "describe" /\ c.history = <<>>
      BY DEF ClosedPanel
    <2> HIDE DEF c, b, initial
    <2>3. panel' = [open |-> TRUE, busy |-> b, working |-> initial, pending |-> c.pending,
                    screen |-> c.screen, history |-> c.history]
      BY <2>1, <2>2, PanelOpened, Zenon
    <2>4. QED
      BY <2>2, <2>3 DEF b
  <1>2. Sane(initial) /\ (Good(wizard) /\ Placed(wizard) => Good(initial))
    BY Handed DEF InterviewInv, WizardKept, InOrder
  <1>3. NoQuestion \in Questions /\ NoQuestion.scope = "none"
    <2>1. NoQuestion = [scope |-> "none", line |-> 0, field |-> "none", required |-> FALSE, un |-> None]
      BY DEF NoQuestion, question
    <2>2. QED
      BY <2>1 DEF Questions, Scopes, Asks
  <1>4. UNCHANGED <<wizard, standing>>
        /\ (IF initial.lines = <<>> THEN calls' = Advance(calls)
            ELSE Send(Turn(initial, NoQuestion, "none", "start")))
    BY Zenon DEF Open
  <1> HIDE DEF initial
  <1>5. PanelKept(panel', wizard, standing.renumbered)
    <2>1. ~standing.renumbered => Good(initial) /\ Concerns(initial, NoQuestion)
      BY <1>2, <1>3 DEF InterviewInv, WizardKept, InOrder, Concerns
    <2>2. Steady(initial, NoQuestion, "describe", standing.renumbered)
      BY <1>2, <1>3, <2>1 DEF Steady
    <2>3. <<>> \in Seq(Steadies(standing.renumbered))
      BY EmptySeq
    <2>4. QED
      BY <1>1, <2>2, <2>3 DEF PanelKept, Screens
  <1>6. WizardKept'
    BY <1>4 DEF InterviewInv, WizardKept, InOrder, AStanding
  <1>7. CallsKept(calls', panel')
    <2>1. CASE initial.lines = <<>>
      <3>1. \A m \in calls' : m.late
        BY <1>4, <2>1, Advanced DEF InterviewInv, NobodyWaits
      <3>2. QED
        BY <3>1, AllLate
    <2>2. CASE initial.lines # <<>>
      <3>1. Send(Turn(initial, NoQuestion, "none", "start"))
        BY <1>4, <2>2
      <3>2. panel'.working = initial /\ panel'.busy
        BY <1>1, <2>2
      <3>3. Sensed(Turn(initial, NoQuestion, "none", "start"))
        BY <1>2, <1>3, TurnSensed
      <3>4. NobodyWaits
        BY DEF InterviewInv
      <3>5. QED
        BY <1>3, <3>1, <3>2, <3>3, <3>4, SentAlone
    <2>3. QED
      BY <2>1, <2>2
  <1>8. QED
    BY <1>4, <1>5, <1>6, <1>7

\* Closing leaves nothing to wait for.
LEMMA Closing ==
  ASSUME InterviewInv, Close
  PROVE  WizardKept' /\ PanelKept(panel', wizard', standing'.renumbered) /\ CallsKept(calls', panel')
  <1>1. \A m \in calls' : m.late
    BY Advanced DEF Close, abandon, InterviewInv, NobodyWaits
  <1>2. panel' = ClosedPanel
    BY DEF Close
  <1>3. WizardKept'
    BY DEF Close, InterviewInv, WizardKept, InOrder, AStanding
  <1>4. QED
    BY <1>1, <1>2, <1>3, ClosedKept, AllLate, Zenon

\* An answer is given to the question that is shown, or goods are described.
LEMMA Replying ==
  ASSUME InterviewInv, Reply
  PROVE  WizardKept' /\ PanelKept(panel', wizard', standing'.renumbered) /\ CallsKept(calls', panel')
  <1> DEFINE q == IF panel.screen = "describe" THEN question("goods_intake", 0, "none", TRUE)
                  ELSE panel.pending
  <1>1. panel.open /\ panel' = [panel EXCEPT !.busy = TRUE] /\ UNCHANGED <<wizard, standing>>
    BY DEF Reply, Idling
  <1>2. PICK answer \in answers_to(panel.working, q) : Send(Turn(panel.working, q, answer, "answer"))
    BY Zenon DEF Reply
  <1>3. q \in Questions /\ q.scope # "none" /\ (q.scope = "dg_question" => q = panel.pending)
    <2> DEFINE g == question("goods_intake", 0, "none", TRUE)
    <2>1. g = [scope |-> "goods_intake", line |-> 0, field |-> "none", required |-> TRUE, un |-> None]
      BY DEF question
    <2> HIDE DEF g
    <2>2. g \in Questions /\ g.scope = "goods_intake"
      BY <2>1 DEF Questions, Scopes, Asks
    <2>3. panel.screen # "describe" => panel.screen = "question"
      BY DEF Reply, InterviewInv, PanelKept, Screens
    <2>4. panel.pending \in Questions /\ (panel.screen = "question" => panel.pending.scope # "none")
      BY DEF InterviewInv, PanelKept, Steady
    <2>5. q = IF panel.screen = "describe" THEN g ELSE panel.pending
      BY DEF g
    <2> HIDE DEF q
    <2>6. QED
      BY <2>2, <2>3, <2>4, <2>5
  <1> HIDE DEF q
  <1>4. /\ PanelKept(panel', wizard', standing'.renumbered) /\ WizardKept'
        /\ panel'.working = panel.working /\ panel'.pending = panel.pending /\ panel'.busy = TRUE
    BY <1>1, BusyKept
  <1>5. Sensed(Turn(panel.working, q, answer, "answer"))
    <2>1. Sane(panel.working)
      BY DEF InterviewInv, PanelKept, Steady
    <2>2. QED
      BY <1>2, <1>3, <2>1, TurnSensed
  <1>6. NobodyWaits
    BY DEF InterviewInv
  <1>7. CallsKept(calls', panel')
    BY <1>2, <1>3, <1>4, <1>5, <1>6, SentAlone
  <1>8. QED
    BY <1>4, <1>7

\* What is revised is a quantity.
LEMMA Revising ==
  ASSUME InterviewInv, Revise
  PROVE  WizardKept' /\ PanelKept(panel', wizard', standing'.renumbered) /\ CallsKept(calls', panel')
  <1>1. panel.open /\ panel' = [panel EXCEPT !.busy = TRUE] /\ UNCHANGED <<wizard, standing>>
    BY DEF Revise, Idling
  <1>2. PICK q \in revisable(panel.working) : Send(Turn(panel.working, q, "none", "revise"))
    BY DEF Revise
  <1>3. Sane(panel.working)
    BY DEF InterviewInv, PanelKept, Steady
  <1>4. q \in Questions /\ q.scope = "goods_quantity"
    <2>1. PICK i \in DOMAIN panel.working.lines :
            q = question("goods_quantity", panel.working.lines[i].id, "quantity", TRUE)
      BY DEF revisable
    <2>2. panel.working.lines[i].id \in Nat
      BY <1>3, DraftIs, AtPlace
    <2>3. q \in Sensible(panel.working)
      BY <2>1, <2>2, LineQuestion
    <2>4. q.scope = "goods_quantity"
      BY <2>1 DEF question
    <2>5. QED
      BY <2>3, <2>4 DEF Sensible
  <1>5. /\ PanelKept(panel', wizard', standing'.renumbered) /\ WizardKept'
        /\ panel'.working = panel.working /\ panel'.pending = panel.pending /\ panel'.busy = TRUE
    BY <1>1, BusyKept
  <1>6. Sensed(Turn(panel.working, q, "none", "revise"))
    BY <1>3, <1>4, TurnSensed
  <1>7. NobodyWaits
    BY DEF InterviewInv
  <1>8. CallsKept(calls', panel')
    BY <1>2, <1>4, <1>5, <1>6, <1>7, SentAlone
  <1>9. QED
    BY <1>5, <1>8

\* To add goods, the panel stops saying that the shipment is ready.
LEMMA AddingGoods ==
  ASSUME InterviewInv, AddGoods
  PROVE  WizardKept' /\ PanelKept(panel', wizard', standing'.renumbered) /\ CallsKept(calls', panel')
  <1>1. panel.open /\ ~panel.busy /\ UNCHANGED <<wizard, standing, calls>>
        /\ panel' = [panel EXCEPT !.screen = "describe", !.pending = NoQuestion]
    BY DEF AddGoods, Idling
  <1>2. panel' = [open |-> panel.open, busy |-> panel.busy, working |-> panel.working,
                  pending |-> NoQuestion, screen |-> "describe", history |-> panel.history]
    BY <1>1, PanelTurned DEF InterviewInv, NobodyWaits
  <1>3. NoQuestion \in Questions /\ NoQuestion.scope = "none"
    <2>1. NoQuestion = [scope |-> "none", line |-> 0, field |-> "none", required |-> FALSE, un |-> None]
      BY DEF NoQuestion, question
    <2>2. QED
      BY <2>1 DEF Questions, Scopes, Asks
  <1>4. PanelKept(panel', wizard, standing.renumbered)
    <2>1. Steady(panel.working, NoQuestion, "describe", standing.renumbered)
      BY <1>3 DEF InterviewInv, PanelKept, Steady, Concerns
    <2>2. QED
      BY <1>1, <1>2, <2>1 DEF InterviewInv, PanelKept, Screens
  <1>5. \A m \in calls : m.late
    BY <1>1 DEF InterviewInv, CallsKept, AwaitedBy
  <1>6. CallsKept(calls', panel')
    BY <1>1, <1>5, AllLate
  <1>7. WizardKept'
    BY <1>1 DEF InterviewInv, WizardKept, InOrder, AStanding
  <1>8. QED
    BY <1>1, <1>4, <1>6, <1>7

\* The end of a sequence, as much of it as there is room for.
LEMMA EndOf ==
  ASSUME NEW T, NEW stack \in Seq(T), NEW k, k \in Nat, k <= Len(stack)
  PROVE  SubSeq(stack, 1 + Len(stack) - k, Len(stack)) \in Seq(T)
  <1>1. Len(stack) \in Nat /\ \A i \in 1..Len(stack) : stack[i] \in T
    OBVIOUS
  <1>2. 1 + Len(stack) - k \in Int /\ Len(stack) \in Int
    BY <1>1
  <1>3. \A i \in (1 + Len(stack) - k)..Len(stack) : stack[i] \in T
    BY <1>1
  <1>4. QED
    BY <1>2, <1>3, SubSeqProperties

\* The last step, and the ones before it.
LEMMA FrontAndLast ==
  ASSUME NEW T, NEW stack \in Seq(T), stack # <<>>
  PROVE  Front(stack) \in Seq(T) /\ Last(stack) \in T
  <1>1. Len(stack) \in Nat /\ Len(stack) # 0 /\ \A i \in 1..Len(stack) : stack[i] \in T
    BY EmptySeq
  <1>2. \A i \in 1..(Len(stack) - 1) : stack[i] \in T
    BY <1>1
  <1>3. SubSeq(stack, 1, Len(stack) - 1) \in Seq(T)
    BY <1>1, <1>2, SubSeqProperties
  <1>4. QED
    BY <1>1, <1>3 DEF Front, Last

\* What is gone back to was a state of the panel, and the wizard follows it.
LEMMA GoingBack ==
  ASSUME InterviewInv, goBack
  PROVE  WizardKept' /\ PanelKept(panel', wizard', standing'.renumbered) /\ CallsKept(calls', panel')
  <1> DEFINE x == Last(panel.history)
             h == Front(panel.history)
             S == Steadies(standing.renumbered)
  <1>1. panel.open /\ ~panel.busy /\ calls' = calls /\ panel.history # <<>>
        /\ panel' = [panel EXCEPT !.working = x.state, !.pending = x.pending,
                                  !.screen = x.screen, !.history = h]
        /\ Applied(x.state)
    BY DEF goBack, Idling
  <1>2. x \in S /\ h \in Seq(S)
    BY <1>1, FrontAndLast DEF InterviewInv, PanelKept
  <1> HIDE DEF x, h
  <1>3. panel' = [open |-> panel.open, busy |-> panel.busy, working |-> x.state,
                  pending |-> x.pending, screen |-> x.screen, history |-> h]
    BY <1>1, PanelBack, Zenon DEF InterviewInv, NobodyWaits
  <1>4. /\ Steady(x.state, x.pending, x.screen, standing.renumbered)
        /\ Sane(x.state) /\ x.screen \in Screens
    BY <1>2 DEF Steadies, Steady, Snapshots
  <1>5. /\ Sane(wizard') /\ Matches(wizard', x.state)
        /\ AStanding' /\ standing'.renumbered = standing.renumbered
        /\ Good(x.state) => Good(wizard') /\ Placed(wizard')
    BY <1>1, <1>4, AppliedAs DEF InterviewInv, WizardKept
  <1>6. WizardKept'
    BY <1>4, <1>5 DEF InterviewInv, WizardKept, InOrder, Steady
  <1>7. PanelKept(panel', wizard', standing'.renumbered)
    BY <1>1, <1>2, <1>3, <1>4, <1>5 DEF PanelKept
  <1>8. \A m \in calls : m.late
    BY <1>1 DEF InterviewInv, CallsKept, AwaitedBy
  <1>9. QED
    BY <1>1, <1>6, <1>7, <1>8, AllLate

\* No answer changes nothing but that it is not waited for any more.
LEMMA Failing ==
  ASSUME InterviewInv, NEW m \in calls, Fail_turn(m)
  PROVE  WizardKept' /\ PanelKept(panel', wizard', standing'.renumbered) /\ CallsKept(calls', panel')
  <1>1. calls' = calls \ {m} /\ UNCHANGED <<wizard, standing>>
        /\ panel' = IF m.late THEN panel ELSE [panel EXCEPT !.busy = FALSE]
    BY DEF Fail_turn
  <1>2. CASE m.late
    <2>1. panel' = panel
      BY <1>1, <1>2
    <2>2. WizardKept'
      BY <1>1 DEF InterviewInv, WizardKept, InOrder, AStanding
    <2>3. CallsKept(calls', panel)
      BY <1>1 DEF InterviewInv, CallsKept
    <2>4. QED
      BY <1>1, <2>1, <2>2, <2>3 DEF InterviewInv
  <1>3. CASE ~m.late
    <2>1. panel.open
      BY <1>3 DEF InterviewInv, NobodyWaits
    <2>2. PanelKept(panel', wizard', standing'.renumbered) /\ WizardKept'
      BY <1>1, <1>3, <2>1, BusyKept
    <2>3. \A n \in calls' : n.late
      BY <1>1, <1>3 DEF InterviewInv, CallsKept
    <2>4. QED
      BY <2>2, <2>3, AllLate
  <1>4. QED
    BY <1>2, <1>3

\* The answer that is waited for is about the draft that the panel shows, so that what
\* it brings fits, and the wizard follows it.
LEMMA Delivering ==
  ASSUME InterviewInv, NEW m \in calls, Deliver(m)
  PROVE  WizardKept' /\ PanelKept(panel', wizard', standing'.renumbered) /\ CallsKept(calls', panel')
  <1>1. calls' = calls \ {m}
    BY DEF Deliver
  <1>2. CASE m.late
    <2>1. UNCHANGED <<wizard, standing, panel>>
      BY <1>2 DEF Deliver
    <2>2. WizardKept'
      BY <2>1 DEF InterviewInv, WizardKept, InOrder, AStanding
    <2>3. CallsKept(calls', panel)
      BY <1>1 DEF InterviewInv, CallsKept
    <2>4. QED
      BY <2>1, <2>2, <2>3 DEF InterviewInv
  <1>3. CASE ~m.late
    <2> DEFINE result == step(m)
               snapshot == [state |-> m.state, pending |-> panel.pending, screen |-> panel.screen]
               stack == IF m.action = "start" THEN panel.history
                        ELSE IF Len(result.state.lines) > MaxBack \/ standing.renumbered THEN <<>>
                        ELSE Append(panel.history, snapshot)
               screen == IF result.pending = NoQuestion THEN "ready"
                         ELSE IF result.pending.scope = "goods_intake" THEN "describe"
                         ELSE "question"
               room == IF Len(stack) < MaxBack THEN Len(stack) ELSE MaxBack
               history == SubSeq(stack, 1 + Len(stack) - room, Len(stack))
               S == Steadies(standing.renumbered)
    <2>1. /\ panel' = [panel EXCEPT !.busy = FALSE, !.working = result.state,
                          !.pending = result.pending, !.screen = screen, !.history = history]
          /\ IF m.action = "revise" THEN UNCHANGED <<wizard, standing>> ELSE Applied(result.state)
      BY <1>3, Zenon DEF Deliver
    <2>2. /\ m.state = panel.working /\ Sensed(m)
          /\ m.question.scope = "dg_question" => m.question = panel.pending
      BY <1>3 DEF InterviewInv, CallsKept, AwaitedBy
    <2>3. /\ Steady(panel.working, panel.pending, panel.screen, standing.renumbered)
          /\ panel.screen \in Screens /\ panel.history \in Seq(S)
      BY DEF InterviewInv, PanelKept
    <2>4. /\ Settled(result.state, result.pending)
          /\ Good(m.state) /\ Concerns(m.state, m.question) =>
               Good(result.state) /\ Concerns(result.state, result.pending)
      BY <2>2, Stepped
    <2>5. history \in Seq(S)
      <3>1. snapshot \in S
        <4>1. snapshot.state = panel.working /\ snapshot.pending = panel.pending
              /\ snapshot.screen = panel.screen
          BY <2>2
        <4>2. snapshot \in Snapshots
          BY <2>2, <2>3 DEF Snapshots, Steady, Sane
        <4> HIDE DEF snapshot
        <4>3. QED
          BY <2>3, <4>1, <4>2 DEF Steadies
      <3> HIDE DEF snapshot, S, result
      <3>2. stack \in Seq(S)
        <4>1. Append(panel.history, snapshot) \in Seq(S)
          BY <2>3, <3>1
        <4>2. <<>> \in Seq(S)
          BY EmptySeq
        <4>3. QED
          BY <2>3, <4>1, <4>2
      <3> HIDE DEF stack
      <3>3. room \in Nat /\ room <= Len(stack)
        BY <3>2, InterviewAssumption
      <3> HIDE DEF room
      <3>4. QED
        BY <3>2, <3>3, EndOf
    <2>6. \A n \in calls' : n.late
      BY <1>1, <1>3 DEF InterviewInv, CallsKept
    <2>7. screen = "ready" => result.pending = NoQuestion
      OBVIOUS
    <2>8. screen = "question" => result.pending # NoQuestion
      OBVIOUS
    <2>9. screen \in Screens
      BY DEF Screens
    <2>10. m.action = "revise" => result.pending # NoQuestion
      <3>1. ASSUME m.action = "revise" PROVE result.pending = m.question
        BY <3>1 DEF step
      <3>2. NoQuestion.scope = "none"
        BY DEF NoQuestion, question
      <3>3. QED
        BY <2>2, <3>1, <3>2 DEF Sensed
    <2> HIDE DEF result, screen, history, stack, snapshot, room
    <2>11. panel' = [open |-> panel.open, busy |-> FALSE, working |-> result.state,
                     pending |-> result.pending, screen |-> screen, history |-> history]
      BY <2>1, PanelShows, Zenon DEF InterviewInv, NobodyWaits
    <2>12. ~standing.renumbered => Good(result.state) /\ Concerns(result.state, result.pending)
      <3>1. ASSUME ~standing.renumbered PROVE Good(m.state) /\ Concerns(m.state, m.question)
        BY <2>2, <2>3, <3>1 DEF Steady, Concerns
      <3>2. QED
        BY <2>4, <3>1
    <2>13. Steady(result.state, result.pending, screen, standing.renumbered)
      BY <2>4, <2>7, <2>8, <2>12 DEF Steady, Settled
    <2>14. panel.open
      BY <1>3 DEF InterviewInv, NobodyWaits
    <2>15. CASE m.action = "revise"
      <3>1. UNCHANGED <<wizard, standing>> /\ screen # "ready"
        BY <2>1, <2>7, <2>10, <2>15
      <3>2. PanelKept(panel', wizard', standing'.renumbered)
        BY <2>5, <2>9, <2>11, <2>13, <2>14, <3>1 DEF PanelKept
      <3>3. WizardKept'
        BY <3>1 DEF InterviewInv, WizardKept, InOrder, AStanding
      <3>4. QED
        BY <2>6, <3>2, <3>3, AllLate
    <2>16. CASE m.action # "revise"
      <3>1. Applied(result.state) /\ Sane(result.state)
        BY <2>1, <2>4, <2>16 DEF Settled
      <3>2. /\ Sane(wizard') /\ Matches(wizard', result.state)
            /\ AStanding' /\ standing'.renumbered = standing.renumbered
            /\ Good(result.state) => Good(wizard') /\ Placed(wizard')
        BY <3>1, AppliedAs DEF InterviewInv, WizardKept
      <3>3. WizardKept'
        BY <2>12, <3>2 DEF InterviewInv, WizardKept, InOrder
      <3>4. PanelKept(panel', wizard', standing'.renumbered)
        BY <2>5, <2>9, <2>11, <2>13, <2>14, <3>2 DEF PanelKept
      <3>5. QED
        BY <2>6, <3>3, <3>4, AllLate
    <2>17. QED
      BY <2>15, <2>16
  <1>4. QED
    BY <1>2, <1>3

\* It holds at first.
LEMMA InterviewStarts == InterviewInit => InterviewInv
  <1> SUFFICES ASSUME InterviewInit PROVE InterviewInv
    OBVIOUS
  <1>1. NobodyWaits
    BY DEF InterviewInit, NobodyWaits, APanel, ClosedPanel
  <1>2. Empty = [lines |-> <<>>, entries |-> <<>>, skipped |-> {}]
    BY DEF Empty
  <1>3. Sane(Empty) /\ Good(Empty) /\ Placed(Empty)
    BY <1>2 DEF Sane, Drafts, Apart, Good, Single, Belong, Placed
  <1>4. WizardKept
    BY <1>3 DEF InterviewInit, WizardKept, InOrder, AStanding
  <1>5. PanelKept(panel, wizard, standing.renumbered)
    BY ClosedKept DEF InterviewInit
  <1>6. CallsKept(calls, panel)
    BY DEF InterviewInit, CallsKept
  <1>7. QED
    BY <1>1, <1>4, <1>5, <1>6 DEF InterviewInv

\* And every step keeps it.
LEMMA InterviewGoesOn == InterviewInv /\ [InterviewNext]_interviewVars => InterviewInv'
  <1> SUFFICES ASSUME InterviewInv, [InterviewNext]_interviewVars PROVE InterviewInv'
    OBVIOUS
  <1>1. NobodyWaits'
    BY AnswersOvertaken DEF InterviewInv
  <1>2. WizardKept' /\ PanelKept(panel', wizard', standing'.renumbered) /\ CallsKept(calls', panel')
    <2>1. CASE UNCHANGED interviewVars
      <3>1. UNCHANGED <<wizard, standing, panel, calls>>
        BY <2>1 DEF interviewVars
      <3>2. WizardKept'
        BY <3>1 DEF InterviewInv, WizardKept, InOrder, AStanding
      <3>3. QED
        BY <3>1, <3>2 DEF InterviewInv
    <2>2. CASE WizardAction
      BY <2>2, Worked
    <2>3. CASE Open
      BY <2>3, Opening
    <2>4. CASE Close
      BY <2>4, Closing
    <2>5. CASE Reply
      BY <2>5, Replying
    <2>6. CASE Revise
      BY <2>6, Revising
    <2>7. CASE AddGoods
      BY <2>7, AddingGoods
    <2>8. CASE goBack
      BY <2>8, GoingBack
    <2>9. ASSUME NEW m \in calls, Deliver(m)
          PROVE  WizardKept' /\ PanelKept(panel', wizard', standing'.renumbered)
                 /\ CallsKept(calls', panel')
      BY <2>9, Delivering
    <2>10. ASSUME NEW m \in calls, Fail_turn(m)
           PROVE  WizardKept' /\ PanelKept(panel', wizard', standing'.renumbered)
                  /\ CallsKept(calls', panel')
      BY <2>10, Failing
    <2>11. \/ UNCHANGED interviewVars \/ WizardAction
           \/ Open \/ Close \/ Reply \/ Revise \/ AddGoods \/ goBack
           \/ \E m \in calls : Deliver(m) \/ Fail_turn(m)
      BY Zenon DEF InterviewNext, WizardAction
    <2>12. QED
      BY <2>1, <2>2, <2>3, <2>4, <2>5, <2>6, <2>7, <2>8, <2>9, <2>10, <2>11
  <1>3. QED
    BY <1>1, <1>2 DEF InterviewInv

\* The interview keeps a draft that its questions are about, for any goods,
\* substances, regulations and bounds.
THEOREM InterviewInvariance == InterviewSpec => []InterviewInv
  <1>1. QED
    BY InterviewStarts, InterviewGoesOn, PTL DEF InterviewSpec

\* What is recorded about dangerous goods was said of the substance that they are
\* recorded as (_sync_dg_entries, retainAssistantDgAnswers), however often the
\* substance of the goods was changed, and whatever was revised or gone back to.
THEOREM AnswersStayWithSubstance == InterviewSpec => []AnswersBelong
  <1>1. InterviewInv => AnswersBelong
    <2> SUFFICES ASSUME InterviewInv, ~standing.renumbered,
                        NEW draft \in {wizard, panel.working}
                 PROVE  Belong(draft.entries)
      BY DEF AnswersBelong, Belong
    <2>1. Good(wizard) /\ Good(panel.working)
      BY DEF InterviewInv, WizardKept, InOrder, PanelKept, Steady
    <2>2. QED
      BY <2>1 DEF Good
  <1>2. QED
    BY <1>1, InterviewInvariance, PTL

\* What is open about an entry depends on its substance and its facts alone.
LEMMA OpenAlike ==
  ASSUME NEW e, NEW d, e.un = d.un, e.facts = d.facts
  PROVE  open_questions_for(e) = open_questions_for(d)
  <1> DEFINE seq == mentions(d.un)
             facts == d.facts
             parts == [i \in DOMAIN [k \in DOMAIN seq |-> k] |->
                        When(/\ facts[seq[[k \in DOMAIN seq |-> k][i]].field] = Unknown
                             /\ \A j \in 1..([k \in DOMAIN seq |-> k][i] - 1) :
                                  seq[j].field # seq[[k \in DOMAIN seq |-> k][i]].field,
                             seq[[k \in DOMAIN seq |-> k][i]])]
  <1>1. open_questions_for(d) = FlattenSeq(parts)
    BY Zenon DEF open_questions_for, Collect
  <1>2. mentions(e.un) = seq /\ e.facts = facts
    OBVIOUS
  <1> HIDE DEF seq, facts
  <1>3. open_questions_for(e) = FlattenSeq(parts)
    BY <1>2, Zenon DEF open_questions_for, Collect
  <1>4. QED
    BY <1>1, <1>3

\* When the panel says that the shipment is ready, the wizard lacks nothing that
\* the questions require (_all_pending, applyAssistantState), whatever was
\* skipped, gone back to or revised.
THEOREM ReadyLacksNothing == InterviewSpec => []ReadyIsComplete
  <1>1. InterviewInv => ReadyIsComplete
    <2> SUFFICES ASSUME InterviewInv, Idling, panel.screen = "ready"
                 PROVE  /\ AllCounted
                        /\ \A i \in DOMAIN wizard.lines :
                             panel.working.lines[i].names # {} => wizard.lines[i].un # None
                        /\ \A k \in DOMAIN wizard.entries :
                             LET wanted == open_questions_for(wizard.entries[k])
                             IN  \A j \in DOMAIN wanted : ~wanted[j].required
      BY Zenon DEF ReadyIsComplete
    <2> DEFINE s == panel.working
    <2>1. Complete(s) /\ Matches(wizard, s)
      BY DEF InterviewInv, PanelKept, Steady
    <2> HIDE DEF s
    <2>2. \A i \in DOMAIN wizard.lines :
            wizard.lines[i].counted /\ (s.lines[i].names # {} => wizard.lines[i].un # None)
      BY <2>1 DEF Complete, Matches
    <2>3. ASSUME NEW k \in DOMAIN wizard.entries
          PROVE  LET wanted == open_questions_for(wizard.entries[k])
                 IN  \A j \in DOMAIN wanted : ~wanted[j].required
      <3>1. PICK j \in DOMAIN s.entries :
              wizard.entries[k].un = s.entries[j].un /\ wizard.entries[k].facts = s.entries[j].facts
        BY <2>1 DEF Matches
      <3>2. open_questions_for(wizard.entries[k]) = open_questions_for(s.entries[j])
        BY <3>1, OpenAlike
      <3>3. QED
        BY <2>1, <3>2 DEF Complete
    <2>4. QED
      BY <2>2, <2>3 DEF AllCounted, s
  <1>2. QED
    BY <1>1, InterviewInvariance, PTL
=============================================================================

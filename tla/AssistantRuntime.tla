-------------------------- MODULE AssistantRuntime --------------------------
(***************************************************************************)
(* The local model of the assistant (services/assistant/runtime.py): its   *)
(* installation by a background thread, the model server that is started   *)
(* when a turn needs it, and its removal, while turns of the assistant     *)
(* run.  What the code does under its lock is one step; everything else it *)
(* reads and writes without.                                               *)
(*                                                                         *)
(* A file has an inode, so that a thread goes on writing what was renamed  *)
(* or deleted.  The archive of the server is one step of its thread: its   *)
(* damage makes the unpacking fail.                                        *)
(***************************************************************************)
EXTENDS Integers, FiniteSets

CONSTANTS
  Turns,       \* turns that ask the model
  Installs,    \* threads that install it
  Absent,
  Chunks,      \* the model file is Chunks long; the first holds the header
  MaxServers   \* bound: how many servers there can be at a time

ASSUME AssistantAssumption ==
  /\ Absent \notin Installs /\ Chunks \in Nat \ {0} /\ MaxServers \in Nat

VARIABLES
  process,     \* _process, and with it _port: the server started last
  server,      \* what each server process is doing
  turn,        \* where each turn is
  binary,      \* bin/llama-server: its directory, who opened it last, whether all is there
  part,        \* the inode of the model's .part file
  model,       \* and of the model file
  inode,       \* the bytes of the inode each install may create
  install,     \* where each install is, and its handle, position and digest
  download,    \* the state that is reported
  removing,    \* where the removal is
  overlapped   \* whether two installs were ever at work at a time

runtimeVars == <<process, server, turn, binary, part, model, inode, install, download,
                 removing, overlapped>>
files == <<binary, part, model, inode>>
installing == <<install, download, overlapped>>
serving == <<process, server, turn>>

Servers == 1..MaxServers
Bytes == [1..Chunks -> {"hole", "right", "wrong"}]
NoBinary == [directory |-> FALSE, by |-> Absent, whole |-> FALSE]
Working == {"server", "clear", "unpack", "unpacking", "open", "write", "verify"}

TurnOver == {"answered", "none", "raised"}

RuntimeTypeOK ==
  /\ process \in Servers \cup {Absent}
  /\ server \in [Servers -> {"ended", "starting", "healthy"}]
  /\ turn \in [Turns -> {"new", "asked", "waiting", "sending"} \cup TurnOver]
  /\ binary \in [directory : BOOLEAN, by : Installs \cup {Absent}, whole : BOOLEAN]
  /\ {part, model} \subseteq Installs \cup {Absent}
  /\ inode \in [Installs -> Bytes]
  /\ install \in [Installs -> [at : {"new", "started", "over"} \cup Working, sound : BOOLEAN,
                               handle : Installs \cup {Absent}, next : 1..(Chunks + 1)]]
  /\ download \in {"idle", "downloading", "done", "error"}
  /\ removing \in {"no", "stopped", "deleted"} /\ overlapped \in BOOLEAN

-----------------------------------------------------------------------------
(* The server process *)

alive(n) == n # Absent /\ server[n] # "ended"

\* Process numbers are used again: what has ended is not told apart.
unused == {n \in Servers : server[n] = "ended" /\ \A k \in 1..(n - 1) : alive(k)}

\* A binary with something in it, and a model of the right size whose header
\* is there.
installed ==
  /\ binary.by # Absent /\ model # Absent
  /\ inode[model][Chunks] # "hole" /\ inode[model][1] # "hole"

go_on(r, to) == turn' = [turn EXCEPT ![r] = to]

ask(r) ==
  /\ turn[r] = "new" /\ go_on(r, IF installed THEN "asked" ELSE "none")
  /\ UNCHANGED <<process, server, files, installing, removing>>

\* ensure_server up to where it gives the lock back: a server that runs will
\* do, healthy or not.  What cannot be executed is an OSError.
ensure_server(r) ==
  /\ turn[r] = "asked"
  /\ \/ alive(process) /\ go_on(r, "sending") /\ UNCHANGED <<process, server>>
     \/ ~alive(process) /\ go_on(r, "none") /\ UNCHANGED <<process, server>>
     \/ /\ ~alive(process) /\ binary.whole
        /\ \E n \in unused : server' = [server EXCEPT ![n] = "starting"] /\ process' = n
        /\ go_on(r, "waiting")
  /\ UNCHANGED <<files, installing, removing>>

\* One round of the wait for its health.  _process and _port are read without
\* the lock: they may be of a later server, or of none.
poll(r) ==
  /\ turn[r] = "waiting"
  /\ \/ process = Absent /\ go_on(r, "raised")
     \/ process # Absent /\ ~alive(process) /\ go_on(r, "none")
     \/ process # Absent /\ server[process] = "healthy" /\ go_on(r, "sending")
  /\ UNCHANGED <<process, server, files, installing, removing>>

\* Mutant: the wait has no end.
deadline_never(r) == FALSE /\ UNCHANGED runtimeVars

deadline(r) ==
  /\ turn[r] = "waiting" /\ go_on(r, "none")
  /\ UNCHANGED <<process, server, files, installing, removing>>

\* The completion itself, or any failure of it.
complete(r) ==
  /\ turn[r] = "sending"
  /\ \/ go_on(r, "none")
     \/ process # Absent /\ server[process] = "healthy" /\ go_on(r, "answered")
  /\ UNCHANGED <<process, server, files, installing, removing>>

\* The server gets ready, or its process ends.
serve(n) ==
  /\ \/ server[n] = "starting" /\ server' = [server EXCEPT ![n] = "healthy"]
     \/ alive(n) /\ server' = [server EXCEPT ![n] = "ended"]
  /\ UNCHANGED <<process, turn, files, installing, removing>>

\* Mutant: the server is told to end and not waited for.
end_server_asked == process' = Absent /\ UNCHANGED server

\* Ends the server and waits until it has ended.
end_server ==
  /\ server' = [n \in Servers |-> IF n = process THEN "ended" ELSE server[n]]
  /\ process' = Absent

stop_server == end_server /\ UNCHANGED <<turn, files, installing, removing>>

\* remove: its three steps.
remove ==
  /\ UNCHANGED <<turn, inode, install, overlapped>>
  /\ \/ /\ removing = "no" /\ removing' = "stopped"
        /\ end_server /\ UNCHANGED <<binary, part, model, download>>
     \/ /\ removing = "stopped" /\ removing' = "deleted"
        /\ binary' = NoBinary /\ part' = Absent /\ model' = Absent
        /\ UNCHANGED <<process, server, download>>
     \/ /\ removing = "deleted" /\ removing' = "no" /\ download' = "idle"
        /\ UNCHANGED <<process, server, binary, part, model>>

-----------------------------------------------------------------------------
(* Installation: thread i *)

at_work == {i \in Installs : install[i].at \in Working}

NewInstall(at) == [at |-> at, sound |-> TRUE, handle |-> Absent, next |-> 1]

to(i, at) == install' = [install EXCEPT ![i].at = at]

over(i, result) ==
  install' = [install EXCEPT ![i] = NewInstall("over")] /\ download' = result

\* The check of start_download, and what follows it.
start_download(i) ==
  /\ \/ install[i].at = "new" /\ download # "downloading" /\ to(i, "started")
        /\ UNCHANGED <<download, overlapped>>
     \/ /\ install[i].at = "started" /\ to(i, "server") /\ download' = "downloading"
        /\ overlapped' = (overlapped \/ at_work # {})
  /\ UNCHANGED <<serving, files, removing>>

\* Mutant: nobody catches what the thread raises.
report_nothing(i) == over(i, download) /\ UNCHANGED files

\* The thread ends with an exception, which it reports.
report_error(i) == over(i, "error") /\ UNCHANGED files

\* install_server: fetch the archive, empty the directory, unpack into it.
install_server(i) ==
  /\ UNCHANGED <<serving, removing, overlapped, part, model, inode>>
  /\ \/ /\ install[i].at = "server" /\ download' = "downloading"
        /\ to(i, "clear") /\ UNCHANGED binary
     \/ /\ install[i].at = "clear" /\ to(i, "unpack") /\ download' = "downloading"
        /\ binary' = [NoBinary EXCEPT !.directory = TRUE]
     \/ /\ install[i].at = "unpack" /\ binary.directory /\ to(i, "unpacking")
        /\ binary' = [directory |-> TRUE, by |-> i, whole |-> FALSE] /\ UNCHANGED download
     \/ /\ install[i].at = "unpacking" /\ binary.by # Absent /\ to(i, "open")
        /\ binary' = [binary EXCEPT !.whole = @ \/ binary.by = i] /\ UNCHANGED download

\* An archive or a connection that breaks off, a directory or file that is gone.
fail_anywhere(i) ==
  /\ install[i].at \in Working \ {"verify"}
  /\ report_error(i) /\ UNCHANGED <<serving, removing, overlapped>>

\* _fetch_verified: opening the .part file empties the one that is there.
open(i) ==
  LET opened == IF part = Absent THEN i ELSE part
  IN  /\ install[i].at = "open" /\ download' = "downloading"
      /\ part' = opened
      /\ inode' = [inode EXCEPT ![opened] = [c \in 1..Chunks |-> "hole"]]
      /\ install' = [install EXCEPT ![i].at = "write", ![i].handle = opened]
      /\ UNCHANGED <<serving, removing, overlapped, binary, model>>

write(i) ==
  /\ install[i].at = "write"
  /\ \E bytes \in {"right", "wrong"} :
       /\ inode' = [inode EXCEPT ![install[i].handle][install[i].next] = bytes]
       /\ install' = [install EXCEPT ![i].sound = @ /\ bytes = "right", ![i].next = @ + 1,
                                     ![i].at = IF install[i].next = Chunks THEN "verify" ELSE @]
  /\ UNCHANGED <<serving, removing, overlapped, binary, part, model, download>>

\* Mutant: what was downloaded is not compared with the pin.
digest_any(i) == TRUE

digest(i) == install[i].sound

\* A wrong file is removed and a right one takes the model's place, if the
\* .part file is still there.
verify(i) ==
  /\ install[i].at = "verify" /\ UNCHANGED <<serving, removing, overlapped, binary, inode>>
  /\ \/ /\ digest(i) /\ part # Absent
        /\ model' = part /\ part' = Absent /\ over(i, "done")
     \/ /\ ~digest(i)
        /\ part' = Absent /\ over(i, "error") /\ UNCHANGED model
     \/ /\ digest(i) /\ part = Absent
        /\ over(i, "error") /\ UNCHANGED <<part, model>>

-----------------------------------------------------------------------------
take_turn(r) == ensure_server(r) \/ poll(r) \/ deadline(r) \/ complete(r)

run(i) == install_server(i) \/ fail_anywhere(i) \/ open(i) \/ write(i) \/ verify(i)

\* Only the turns T and the installs I are still to come.
RuntimeStart(T, I) ==
  /\ process = Absent /\ server = [n \in Servers |-> "ended"]
  /\ turn = [r \in Turns |-> IF r \in T THEN "new" ELSE "none"]
  /\ binary = NoBinary /\ part = Absent /\ model = Absent
  /\ inode = [i \in Installs |-> [c \in 1..Chunks |-> "hole"]]
  /\ install = [i \in Installs |-> NewInstall(IF i \in I THEN "new" ELSE "over")]
  /\ download = "idle" /\ removing = "no" /\ overlapped = FALSE

RuntimeInit == RuntimeStart(Turns, Installs)

RuntimeNext ==
  \/ \E r \in Turns : ask(r) \/ take_turn(r)
  \/ \E n \in Servers : serve(n)
  \/ \E i \in Installs : start_download(i) \/ run(i)
  \/ stop_server \/ remove

\* A turn and an install run on; nobody has to begin one, and the server may
\* take as long as it likes.
RuntimeSpec ==
  /\ RuntimeInit /\ [][RuntimeNext]_runtimeVars
  /\ \A r \in Turns : WF_runtimeVars(take_turn(r))
  /\ \A i \in Installs : WF_runtimeVars(run(i))

-----------------------------------------------------------------------------
\* However turns, stops and removals interleave, two model servers never run
\* at a time ("Start llama-server once", ensure_server, stop).
OneServer == Cardinality({n \in Servers : alive(n)}) <= 1

\* While no two installs have been at work together, a model that unlocks the
\* assistant is the pinned one, byte for byte, whatever was interrupted,
\* removed or fetched again ("A wrong hash removes the file", _fetch_verified).
ModelVerified ==
  installed /\ ~overlapped => \A c \in 1..Chunks : inode[model][c] = "right"

\* Every turn that has asked comes back, though servers never get ready, are
\* stopped or die.
TurnsEnd == \A r \in Turns : turn[r] = "asked" ~> turn[r] \in TurnOver

\* The progress that is shown ends, whatever fails and whoever else writes it.
DownloadsEnd == download = "downloading" ~> download # "downloading"

\* "Partial files and directories must never unlock the assistant."
\* (services/assistant/runtime.py:110).
PartialNeverUnlocks ==
  installed => binary.whole /\ \A c \in 1..Chunks : inode[model][c] = "right"
=============================================================================

---------------------------- MODULE SessionFiles ----------------------------
(***************************************************************************)
(* The files by which an editor finds its server process: a directory, a   *)
(* symbolic link to it, two fifos and the pid file (main.rs), and how the  *)
(* editor starts a server, waits for it, and waits for its end (lsp-start, *)
(* lsp-do-send, lsp-exit and lsp-restart of lsp.kak).                      *)
(*                                                                         *)
(* Every system call is a step of its own.  A start may fail at any of     *)
(* them, a process may be sent a signal, panic or be killed at any time,   *)
(* and a server that ends removes its files one by one while the editor    *)
(* looks for them or starts the next one.                                  *)
(*                                                                         *)
(* The editor runs one command at a time.  A server may also be started    *)
(* outside the editor.                                                     *)
(***************************************************************************)
EXTENDS Naturals, FiniteSets, SequencesExt

CONSTANTS
  MaxStarts, \* bound: processes that are started
  MaxFaults, \* bound: steps that fail, panics and kills
  MaxSignals, \* bound: signals
  Externals, \* the processes that are started outside the editor
  DuringEnd \* does the editor start a server while one of them ends?

Proc == 1..MaxStarts

ASSUME SessionFilesAssumption ==
  /\ MaxStarts \in Nat \ {0} /\ MaxFaults \in Nat /\ MaxSignals \in Nat
  /\ Externals \subseteq Proc /\ DuringEnd \in BOOLEAN

VARIABLES
  files,  \* by which process a file was made
  proc,   \* the processes: their next step, the files they still have to remove
  editor, \* what the editor is doing, and what it does it for
  budget  \* history: faults and signals

vars == <<files, proc, editor, budget>>

-----------------------------------------------------------------------------

File == {"dir", "ref", "externally-started", "fifo", "alt-fifo", "pid.tmp", "pid"}
Nobody == 0

There(f) == files[f] # Nobody
InDirectory == File \ {"dir", "ref"}

\* Mutation: the directory goes first.
DropOrderDirectoryFirst ==
  <<"dir", "ref", "fifo", "alt-fifo", "pid", "pid.tmp", "externally-started">>

\* The fields of SessionDirectory, in the order in which they are dropped.
DropOrder == <<"ref", "fifo", "alt-fifo", "pid", "pid.tmp", "externally-started", "dir">>

\* What run_main does once it has found no session of that name.
Startup == <<"mkdir", "symlink", "mark", "fifo", "alt-fifo", "register", "handlers",
             "config", "daemonize", "write", "rename", "run">>
Index(at) == CHOOSE k \in DOMAIN Startup : Startup[k] = at
Starting == ToSet(Startup) \ {"run"}
Reached(p, at) == proc[p].at \in ToSet(Startup) /\ Index(proc[p].at) >= Index(at)

\* Cleaning and dropping, and how a process may have ended.
Ending == {"drop", "clean"}
Over == {"attached", "failed", "gone", "killed", "stuck"}

\* The life of a process: "child" when it is started, "daemon", and "server" when the
\* editor has seen it.
Init ==
  /\ files = [f \in File |-> Nobody]
  /\ proc = [p \in Proc |-> [at |-> "off", left |-> {}, life |-> "child"]]
  /\ editor = [at |-> "idle", for |-> "request", of |-> Nobody]
  /\ budget = [faults |-> 0, signals |-> 0]

-----------------------------------------------------------------------------
(***************************************************************************)
(* A process ends: SessionDirectory is dropped, by an early return of      *)
(* run_main ("drop") or by do_cleanup, which holds the mutex of CLEANUP    *)
(* until it is done ("clean").                                             *)
(***************************************************************************)

\* Mutation: of the pid files, only the temporary one is noted.
RecordedTemporary(p) ==
  {"dir"}
  \cup {f \in {"ref"} : Reached(p, "symlink")}
  \cup {f \in {"externally-started"} : p \in Externals /\ Reached(p, "fifo")}
  \cup {f \in {"fifo"} : Reached(p, "fifo")}
  \cup {f \in {"alt-fifo"} : Reached(p, "alt-fifo")}
  \cup {f \in {"pid.tmp"} : Reached(p, "register")}

\* The files that the process has noted for removal when it takes a step: most are
\* noted before they are made, the mark of an externally started one afterwards.
Recorded(p) ==
  {"dir"}
  \cup {f \in {"ref"} : Reached(p, "symlink")}
  \cup {f \in {"externally-started"} : p \in Externals /\ Reached(p, "fifo")}
  \cup {f \in {"fifo"} : Reached(p, "fifo")}
  \cup {f \in {"alt-fifo"} : Reached(p, "alt-fifo")}
  \cup {f \in {"pid", "pid.tmp"} : Reached(p, "register")}

Leave(p) ==
  [proc[p] EXCEPT !.at = IF Reached(p, "handlers") THEN "clean" ELSE "drop",
                  !.left = Recorded(p)]

\* The next of them.
NextToDrop(left) ==
  DropOrder[CHOOSE k \in DOMAIN DropOrder :
              DropOrder[k] \in left /\ \A j \in 1..k - 1 : DropOrder[j] \notin left]

\* unlink and rmdir; a directory that is not empty stays.
Unlink(p) ==
  /\ proc[p].at \in Ending /\ proc[p].left # {}
  /\ LET f == NextToDrop(proc[p].left) IN
     /\ files' = [files EXCEPT ![f] =
                    IF f = "dir" /\ \E g \in InDirectory : There(g) THEN @ ELSE Nobody]
     /\ proc' = [proc EXCEPT ![p].left = @ \ {f}]
  /\ UNCHANGED <<editor, budget>>

End(p) ==
  /\ proc[p].at \in Ending /\ proc[p].left = {}
  /\ proc' = [proc EXCEPT ![p].at = "gone"]
  /\ UNCHANGED <<files, editor, budget>>

-----------------------------------------------------------------------------
(***************************************************************************)
(* A process starts: run_main.                                             *)
(***************************************************************************)

\* Mutation: only the link is looked for.
ExistingLink == There("ref")

Existing == There("dir") \/ There("ref")

\* A session of that name exists: attach to it if it was started externally, or
\* fail.
Check(p) ==
  /\ proc[p].at = "check"
  /\ proc' = [proc EXCEPT ![p].at =
                IF ~Existing THEN "mkdir"
                ELSE IF There("dir") /\ There("externally-started") THEN "attached"
                ELSE "failed"]
  /\ UNCHANGED <<files, editor, budget>>

\* The system calls, and when they succeed.
Works(p, at) ==
  CASE at = "mkdir" -> TRUE
    [] at = "symlink" -> ~There("ref")
    [] at = "mark" -> There("dir") \/ p \notin Externals
    [] at \in {"fifo", "alt-fifo"} -> There("dir") /\ ~There(at)
    [] at = "write" -> There("dir")
    [] at = "rename" -> There("pid.tmp")
    [] OTHER -> TRUE

Made(p, at) ==
  CASE at = "mkdir" /\ ~There("dir") -> [files EXCEPT !["dir"] = p]
    [] at = "symlink" -> [files EXCEPT !["ref"] = p]
    [] at = "mark" /\ p \in Externals -> [files EXCEPT !["externally-started"] = p]
    [] at \in {"fifo", "alt-fifo"} -> [files EXCEPT ![at] = p]
    [] at = "write" -> [files EXCEPT !["pid.tmp"] = p]
    [] at = "rename" -> [files EXCEPT !["pid.tmp"] = Nobody, !["pid"] = files["pid.tmp"]]
    [] OTHER -> files

StartupStep(p) ==
  /\ proc[p].at \in Starting
  /\ LET at == proc[p].at IN
     IF Works(p, at)
     THEN /\ files' = Made(p, at)
          /\ proc' = [proc EXCEPT ![p].at = Startup[Index(at) + 1],
                                  ![p].life = IF at = "daemonize" THEN "daemon" ELSE @]
     ELSE files' = files /\ proc' = [proc EXCEPT ![p] = Leave(p)]
  /\ UNCHANGED <<editor, budget>>

\* "failed to ...": the disk is full, the configuration cannot be parsed.
Fault(p) ==
  /\ proc[p].at \in Starting \ {"register", "handlers"} /\ budget.faults < MaxFaults
  /\ proc' = [proc EXCEPT ![p] = Leave(p)]
  /\ budget' = [budget EXCEPT !.faults = @ + 1]
  /\ UNCHANGED <<files, editor>>

-----------------------------------------------------------------------------
(***************************************************************************)
(* What makes a process end.                                               *)
(***************************************************************************)

Alive(p) == proc[p].at \notin {"off"} \cup Over

\* The idle timeout, much longer than lsp-start waits for the pid file; a renamed
\* session or a server that is gone end the event loop just so.
Timeout(p) ==
  /\ proc[p].at = "run"
  /\ ~(editor.at \in {"starting", "polling"} /\ editor.of = p)
  /\ proc' = [proc EXCEPT ![p] = Leave(p)]
  /\ UNCHANGED <<files, editor, budget>>

\* The panic hook cleans up and aborts.
Panic(p) ==
  /\ proc[p].at = "run" /\ budget.faults < MaxFaults
  /\ proc' = [proc EXCEPT ![p] = Leave(p)]
  /\ budget' = [budget EXCEPT !.faults = @ + 1]
  /\ UNCHANGED <<files, editor>>

Kill(p) ==
  /\ Alive(p) /\ budget.faults < MaxFaults
  /\ proc' = [proc EXCEPT ![p].at = "killed"]
  /\ budget' = [budget EXCEPT !.faults = @ + 1]
  /\ UNCHANGED <<files, editor>>

\* A signal ends a process that has not installed its handlers.  handle_interrupt
\* calls do_cleanup: if it interrupts do_cleanup in the same thread, it waits for
\* itself; in another thread it waits for the cleanup to end.
Signal(p) ==
  /\ Alive(p) /\ budget.signals < MaxSignals
  /\ \/ /\ ~Reached(p, "config") /\ proc[p].at # "clean"
        /\ proc' = [proc EXCEPT ![p].at = "killed"]
     \/ /\ Reached(p, "config")
        /\ proc' = [proc EXCEPT ![p] = Leave(p)]
     \/ /\ proc[p].at = "clean"
        /\ proc' \in {proc, [proc EXCEPT ![p].at = "stuck"]}
  /\ budget' = [budget EXCEPT !.signals = @ + 1]
  /\ UNCHANGED <<files, editor>>

-----------------------------------------------------------------------------
(***************************************************************************)
(* The editor.                                                             *)
(***************************************************************************)

\* %file{%opt{lsp_pid_file}}; the path leads through the link.
PidThere == There("ref") /\ There("dir") /\ There("pid")

Unstarted == {p \in Proc : proc[p].at = "off"}

\* lsp-start
Start(purpose) ==
  /\ \A q \in Externals : Alive(q) =>
        proc[q].at = "run" \/ (DuringEnd /\ proc[q].at \in Ending)
  /\ \E p \in Unstarted \ Externals :
       /\ \A q \in Unstarted \ Externals : p <= q
       /\ editor' = [at |-> "starting", for |-> purpose, of |-> p]
       /\ proc' = [proc EXCEPT ![p].at = "check"]
       /\ UNCHANGED <<files, budget>>

\* lsp-do-send of a request, or of the exit request of lsp-exit and lsp-restart.
Request(purpose) ==
  /\ editor.at = "idle"
  /\ purpose = "restart" => Cardinality(Unstarted \ Externals) >= 2
  /\ \/ /\ PidThere
        /\ editor' = [editor EXCEPT !.at = "send", !.for = purpose]
        /\ proc' = [proc EXCEPT ![files["pid"]].life = "server"]
        /\ UNCHANGED <<files, budget>>
     \/ ~PidThere /\ Start(purpose)

\* The command of lsp-start has ended: the process that will be the server is
\* another one, or there is one already, or "Failed to start kak-lsp server".
Started ==
  /\ editor.at = "starting"
  /\ LET p == proc[editor.of] IN
     \/ /\ p.life # "child" \/ p.at = "attached"
        /\ editor' = [editor EXCEPT !.at = "polling"]
     \/ /\ p.life = "child" /\ p.at \in {"failed", "gone", "killed"}
        /\ editor' = [editor EXCEPT !.at = "idle"]
  /\ UNCHANGED <<files, proc, budget>>

\* until pid=$(cat "${session_dir}/pid" 2>/dev/null)
Polled ==
  /\ editor.at = "polling" /\ PidThere
  /\ editor' = [editor EXCEPT !.at = "send"]
  /\ proc' = [proc EXCEPT ![files["pid"]].life = "server"]
  /\ UNCHANGED <<files, budget>>

\* Opening a fifo waits for somebody who reads it; that of a process that is about
\* to end reads, too.
Send ==
  /\ editor.at = "send"
  /\ \/ /\ ~There("ref") \/ ~There("dir") \/ ~There("fifo")
        /\ editor' = [editor EXCEPT !.at = "idle"]
        /\ UNCHANGED proc
     \/ /\ There("ref") /\ There("dir") /\ There("fifo")
        /\ proc[files["fifo"]].at \in {"run", "clean", "stuck"}
        /\ \/ /\ editor.for = "request"
              /\ editor' = [editor EXCEPT !.at = "idle"]
              /\ UNCHANGED proc
           \/ /\ editor.for # "request"
              /\ editor' = [editor EXCEPT !.at = "exiting"]
              /\ proc' = IF proc[files["fifo"]].at = "run"
                         THEN [proc EXCEPT ![files["fifo"]] = Leave(files["fifo"])]
                         ELSE proc
  /\ UNCHANGED <<files, budget>>

\* Mutation: it waits until there is no pid file.
ExitedWithoutPid ==
  /\ editor.at = "exiting" /\ ~PidThere
  /\ \/ /\ editor.for = "exit"
        /\ editor' = [editor EXCEPT !.at = "idle"]
        /\ UNCHANGED <<files, proc, budget>>
     \/ editor.for = "restart" /\ Start("request")

\* until ! [ -e "${existing_session_dir}" ]
Exited ==
  /\ editor.at = "exiting" /\ ~There("dir")
  /\ \/ /\ editor.for = "exit"
        /\ editor' = [editor EXCEPT !.at = "idle"]
        /\ UNCHANGED <<files, proc, budget>>
     \/ editor.for = "restart" /\ Start("request")

\* Nothing keeps two starts from running into each other but that this one is
\* rare: the model lets it happen only while nothing else does.
StartOutside ==
  /\ editor.at = "idle" /\ \A q \in Proc : ~Alive(q)
  /\ \E p \in Unstarted \cap Externals : proc' = [proc EXCEPT ![p].at = "check"]
  /\ UNCHANGED <<files, editor, budget>>

-----------------------------------------------------------------------------

Work(p) == Check(p) \/ StartupStep(p) \/ Unlink(p) \/ End(p)
EditorWaits == Started \/ Polled \/ Send \/ Exited

Next ==
  \/ \E p \in Proc : Work(p) \/ Fault(p) \/ Timeout(p) \/ Panic(p) \/ Kill(p) \/ Signal(p)
  \/ \E purpose \in {"request", "exit", "restart"} : Request(purpose)
  \/ EditorWaits
  \/ StartOutside

Spec == Init /\ [][Next]_vars

\* Processes are scheduled, and so is the shell code of the editor.
FairSpec == Spec /\ (\A p \in Proc : WF_vars(Work(p))) /\ WF_vars(EditorWaits)

-----------------------------------------------------------------------------
(***************************************************************************)
(* Properties.                                                             *)
(***************************************************************************)

\* A process that ends tidily, by itself, by a request, at a signal, in a panic or
\* when its start fails, leaves no file behind, whenever that happens.
NothingLeft == \A p \in Proc : proc[p].at = "gone" => \A f \in File : files[f] # p

\* A server that runs can be found and talked to: every file is there and its own.
Reachable ==
  \A p \in Proc : proc[p].at = "run" =>
    \A f \in {"dir", "ref", "fifo", "alt-fifo", "pid"} : files[f] = p

\* What a process removes it has made itself; above all, the end of one server does
\* not take away the files of the next.
OnlyOwn ==
  [][\A f \in File : There(f) /\ files'[f] = Nobody =>
       \/ f = "pid.tmp" /\ files'["pid"] = files[f]
       \/ proc[files[f]].at \in Ending /\ NextToDrop(proc[files[f]].left) = f]_vars

\* When lsp-exit has waited for the end of the server, nothing is left of it, and a
\* start that follows, as in lsp-restart, finds no session of that name.
ExitIsComplete ==
  [][editor.at = "exiting" /\ editor'.at # "exiting" => \A f \in File : ~There(f)]_vars

\* A process that ended as no editor can foresee: killed, waiting for itself, or
\* gone before the editor had seen its pid file.
Mishap ==
  \E p \in Proc : \/ proc[p].at \in {"killed", "stuck"}
                  \/ proc[p].at = "gone" /\ proc[p].life = "daemon"

\* The editor never waits forever for a server to start or to end, unless there was
\* a mishap.
EditorGoesOn == editor.at # "idle" ~> (editor.at = "idle" \/ Mishap)

=============================================================================

------------------------- MODULE SessionFilesProofs -------------------------
(***************************************************************************)
(* Proofs about SessionFiles, for any processes and any number of faults   *)
(* and signals.  They are about editors that start no server while one     *)
(* that was started outside ends (~DuringEnd): without that, a start can   *)
(* run into the end of another, and OnlyOwn does not hold.                 *)
(***************************************************************************)
EXTENDS SessionFiles, TLAPS

Stages == {"mkdir", "symlink", "mark", "fifo", "alt-fifo", "register", "handlers",
           "config", "daemonize", "write", "rename"}
At == {"off", "check", "run"} \cup Stages \cup Ending \cup Over

Types ==
  /\ files \in [File -> Proc \cup {Nobody}]
  /\ proc \in [Proc -> [at : At, left : SUBSET File, life : {"child", "daemon", "server"}]]
  /\ editor \in [at : {"idle", "starting", "polling", "send", "exiting"},
                 for : {"request", "exit", "restart"}, of : Proc \cup {Nobody}]
  /\ budget \in [faults : Nat, signals : Nat]

\* The files a process has made when it is about to take a step of its start.
Has(p, at) ==
  LET past(x) == Index(at) > Index(x)
  IN  {f \in {"dir"} : past("mkdir")}
      \cup {f \in {"ref"} : past("symlink")}
      \cup {f \in {"externally-started"} : p \in Externals /\ past("mark")}
      \cup {f \in {"fifo"} : past("fifo")}
      \cup {f \in {"alt-fifo"} : past("alt-fifo")}
      \cup {f \in {"pid.tmp"} : at = "rename"}
      \cup {f \in {"pid"} : at = "run"}

Up(p) == proc[p].at \in Stages \cup {"run"}
Ends(p) == proc[p].at \in Ending /\ proc[p].left # {}

\* A process that relies on there being no session of that name: it has looked for
\* one, or is about to, or is giving up before it has a directory of its own.
Busy(p) ==
  \/ proc[p].at \in {"check"} \cup Stages
  \/ Ends(p) /\ files["dir"] # p

\* Whose files there are.
Owned ==
  /\ \A f \in File : There(f) => files[f] = files["dir"]
  /\ \A p \in Proc : Up(p) => \A f \in File : (files[f] = p <=> f \in Has(p, proc[p].at))
  /\ \A p \in Proc : Ends(p) => "dir" \in proc[p].left
  /\ \A p \in Proc, f \in File :
       files[f] = p => \/ Up(p) /\ f \in Has(p, proc[p].at)
                       \/ proc[p].at \in Ending /\ f \in proc[p].left
                       \/ proc[p].at \in {"killed", "stuck"}

\* No two starts run into each other.
Alone ==
  /\ \A p, q \in Proc : Busy(p) /\ Busy(q) => p = q
  /\ \A p \in Proc : Busy(p) /\ proc[p].at # "check" =>
       \A f \in File : files[f] \in {Nobody, p}

\* The editor waits for the server it starts.
Waits ==
  /\ \A p \in Proc \ Externals : Busy(p) =>
       editor.at \in {"starting", "polling"} /\ editor.of = p
  /\ \A p \in Proc : proc[p].at \in {"off", "check"} => proc[p].life = "child"
  /\ editor.at = "polling" /\ editor.of \in Proc =>
       proc[editor.of].life # "child" \/ proc[editor.of].at = "attached"

Inv == Types /\ Owned /\ Alone /\ Waits

-----------------------------------------------------------------------------

LEMMA StartupOrder ==
  /\ Index("mkdir") = 1 /\ Index("symlink") = 2 /\ Index("mark") = 3 /\ Index("fifo") = 4
  /\ Index("alt-fifo") = 5 /\ Index("register") = 6 /\ Index("handlers") = 7
  /\ Index("config") = 8 /\ Index("daemonize") = 9 /\ Index("write") = 10
  /\ Index("rename") = 11 /\ Index("run") = 12
<1>1. ASSUME NEW at, NEW k \in 1..12, Startup[k] = at
      PROVE  Index(at) = k
  <2>1. DOMAIN Startup = 1..12
    BY DEF Startup
  <2>2. \A j \in 1..12 : Startup[j] = at => j = k
    BY <1>1 DEF Startup
  <2>3. Index(at) = CHOOSE j \in 1..12 : Startup[j] = at
    BY <2>1 DEF Index
  <2>4. QED BY <1>1, <2>2, <2>3
<1>2. /\ Startup[1] = "mkdir" /\ Startup[2] = "symlink" /\ Startup[3] = "mark"
      /\ Startup[4] = "fifo" /\ Startup[5] = "alt-fifo" /\ Startup[6] = "register"
      /\ Startup[7] = "handlers" /\ Startup[8] = "config" /\ Startup[9] = "daemonize"
      /\ Startup[10] = "write" /\ Startup[11] = "rename" /\ Startup[12] = "run"
  BY DEF Startup
<1> HIDE DEF Startup, Index
<1>3. QED BY <1>1, <1>2

LEMMA StartupStages ==
  /\ ToSet(Startup) = Stages \cup {"run"} /\ Starting = Stages
  /\ \A at \in Stages : at # "run" /\ Startup[Index(at) + 1] =
       CASE at = "mkdir" -> "symlink" [] at = "symlink" -> "mark" [] at = "mark" -> "fifo"
         [] at = "fifo" -> "alt-fifo" [] at = "alt-fifo" -> "register"
         [] at = "register" -> "handlers" [] at = "handlers" -> "config"
         [] at = "config" -> "daemonize" [] at = "daemonize" -> "write"
         [] at = "write" -> "rename" [] at = "rename" -> "run"
<1>1. /\ DOMAIN Startup = 1..12
      /\ Startup[1] = "mkdir" /\ Startup[2] = "symlink" /\ Startup[3] = "mark"
      /\ Startup[4] = "fifo" /\ Startup[5] = "alt-fifo" /\ Startup[6] = "register"
      /\ Startup[7] = "handlers" /\ Startup[8] = "config" /\ Startup[9] = "daemonize"
      /\ Startup[10] = "write" /\ Startup[11] = "rename" /\ Startup[12] = "run"
  BY DEF Startup
<1> HIDE DEF Startup, Index
<1>2. ToSet(Startup) = Stages \cup {"run"}
  BY <1>1 DEF ToSet, Stages
<1>3. Starting = Stages
  BY <1>2 DEF Starting, Stages
<1>4. QED BY <1>1, <1>2, <1>3, StartupOrder DEF Stages

\* The directory goes last.
LEMMA DropsDirectoryLast ==
  ASSUME NEW left \in SUBSET File, left # {}
  PROVE  NextToDrop(left) \in left /\ (NextToDrop(left) = "dir" => left = {"dir"})
<1> DEFINE Good(k) == k \in 1..7 /\ DropOrder[k] \in left /\ \A j \in 1..k - 1 : DropOrder[j] \notin left
<1>1. /\ DOMAIN DropOrder = 1..7
      /\ DropOrder[1] = "ref" /\ DropOrder[2] = "fifo" /\ DropOrder[3] = "alt-fifo"
      /\ DropOrder[4] = "pid" /\ DropOrder[5] = "pid.tmp"
      /\ DropOrder[6] = "externally-started" /\ DropOrder[7] = "dir"
  BY DEF DropOrder
<1> HIDE DEF DropOrder
<1>2. \E k : Good(k)
  <2>1. CASE "ref" \in left
    BY <1>1, <2>1
  <2>2. CASE "ref" \notin left /\ "fifo" \in left
    <3>1. Good(2)
      BY <1>1, <2>2
    <3>2. QED BY <3>1
  <2>3. CASE "ref" \notin left /\ "fifo" \notin left /\ "alt-fifo" \in left
    <3>1. Good(3)
      BY <1>1, <2>3
    <3>2. QED BY <3>1
  <2>4. CASE left \cap {"ref", "fifo", "alt-fifo"} = {} /\ "pid" \in left
    <3>1. Good(4)
      BY <1>1, <2>4
    <3>2. QED BY <3>1
  <2>5. CASE left \cap {"ref", "fifo", "alt-fifo", "pid"} = {} /\ "pid.tmp" \in left
    <3>1. Good(5)
      BY <1>1, <2>5
    <3>2. QED BY <3>1
  <2>6. CASE left \cap {"ref", "fifo", "alt-fifo", "pid", "pid.tmp"} = {} /\ "externally-started" \in left
    <3>1. Good(6)
      BY <1>1, <2>6
    <3>2. QED BY <3>1
  <2>7. CASE left \cap {"ref", "fifo", "alt-fifo", "pid", "pid.tmp", "externally-started"} = {}
    <3>1. "dir" \in left
      BY <2>7 DEF File
    <3>2. Good(7)
      BY <1>1, <2>7, <3>1
    <3>3. QED BY <3>2
  <2>8. QED BY <2>1, <2>2, <2>3, <2>4, <2>5, <2>6, <2>7
<1> DEFINE k == CHOOSE k \in DOMAIN DropOrder :
                  DropOrder[k] \in left /\ \A j \in 1..k - 1 : DropOrder[j] \notin left
<1>3. Good(k) /\ NextToDrop(left) = DropOrder[k]
  BY <1>1, <1>2 DEF NextToDrop
<1> HIDE DEF k
<1>4. DropOrder[k] = "dir" => k = 7
  BY <1>1, <1>3
<1>5. k = 7 => left = {"dir"}
  <2>1. SUFFICES ASSUME k = 7 PROVE left = {"dir"}
    OBVIOUS
  <2>2. \A j \in 1..6 : DropOrder[j] \notin left
    BY <1>3, <2>1
  <2>3. /\ DropOrder[1] \notin left /\ DropOrder[2] \notin left /\ DropOrder[3] \notin left
        /\ DropOrder[4] \notin left /\ DropOrder[5] \notin left /\ DropOrder[6] \notin left
    BY <2>2
  <2>4. "dir" \in left
    BY <1>1, <1>3, <2>1
  <2>5. QED BY <1>1, <2>3, <2>4 DEF File
<1>6. QED BY <1>3, <1>4, <1>5

LEMMA HasAtEachStage ==
  ASSUME NEW p \in Proc
  PROVE  LET mark == {f \in {"externally-started"} : p \in Externals} IN
         /\ Has(p, "mkdir") = {}
         /\ Has(p, "symlink") = {"dir"}
         /\ Has(p, "mark") = {"dir", "ref"}
         /\ Has(p, "fifo") = {"dir", "ref"} \cup mark
         /\ Has(p, "alt-fifo") = {"dir", "ref", "fifo"} \cup mark
         /\ \A at \in {"register", "handlers", "config", "daemonize", "write"} :
               Has(p, at) = {"dir", "ref", "fifo", "alt-fifo"} \cup mark
         /\ Has(p, "rename") = {"dir", "ref", "fifo", "alt-fifo", "pid.tmp"} \cup mark
         /\ Has(p, "run") = {"dir", "ref", "fifo", "alt-fifo", "pid"} \cup mark
<1> DEFINE mark == {f \in {"externally-started"} : p \in Externals}
<1> HIDE DEF Index
<1>1. Has(p, "mkdir") = {}
  BY StartupOrder DEF Has
<1>2. Has(p, "symlink") = {"dir"}
  BY StartupOrder DEF Has
<1>3. Has(p, "mark") = {"dir", "ref"}
  BY StartupOrder DEF Has
<1>4. Has(p, "fifo") = {"dir", "ref"} \cup mark
  BY StartupOrder DEF Has
<1>5. Has(p, "alt-fifo") = {"dir", "ref", "fifo"} \cup mark
  BY StartupOrder DEF Has
<1>6. ASSUME NEW at \in {"register", "handlers", "config", "daemonize", "write"}
      PROVE  Has(p, at) = {"dir", "ref", "fifo", "alt-fifo"} \cup mark
  <2>1. Index(at) \in 6..10 /\ at # "rename" /\ at # "run"
    BY StartupOrder
  <2>2. QED BY <2>1, StartupOrder DEF Has
<1>7. Has(p, "rename") = {"dir", "ref", "fifo", "alt-fifo", "pid.tmp"} \cup mark
  BY StartupOrder DEF Has
<1>8. Has(p, "run") = {"dir", "ref", "fifo", "alt-fifo", "pid"} \cup mark
  BY StartupOrder DEF Has
<1>9. QED BY <1>1, <1>2, <1>3, <1>4, <1>5, <1>6, <1>7, <1>8

\* What a process has made it has noted, and nothing but files; above all its directory.
LEMMA RecordedIsMade ==
  ASSUME NEW p \in Proc, Up(p)
  PROVE  /\ Has(p, proc[p].at) \subseteq Recorded(p)
         /\ Recorded(p) \in SUBSET File /\ "dir" \in Recorded(p)
<1> DEFINE at == proc[p].at
<1>1. at \in Stages \cup {"run"}
  BY DEF Up
<1>2. Index(at) \in 1..12 /\ (at = "rename" => Index(at) = 11) /\ (at = "run" => Index(at) = 12)
  BY <1>1, StartupOrder DEF Stages
<1>3. \A x : Reached(p, x) <=> Index(at) >= Index(x)
  BY <1>1, StartupStages DEF Reached
<1> HIDE DEF at
<1>4. Has(p, at) \subseteq Recorded(p)
  BY <1>2, <1>3, StartupOrder DEF Has, Recorded
<1>5. Recorded(p) \in SUBSET File /\ "dir" \in Recorded(p)
  BY DEF Recorded, File
<1>6. QED BY <1>4, <1>5 DEF at

-----------------------------------------------------------------------------
(***************************************************************************)
(* What each step does to the invariant.                                   *)
(***************************************************************************)

LEMMA InitInv == Init => Inv
<1> SUFFICES ASSUME Init PROVE Inv
  OBVIOUS
<1>1. \A p \in Proc : /\ proc[p].at = "off" /\ proc[p].left = {} /\ proc[p].life = "child"
                      /\ ~Up(p) /\ ~Ends(p) /\ ~Busy(p)
  BY DEF Init, Up, Ends, Busy, Stages, Ending
<1>2. Types
  <2>1. budget \in [faults : Nat, signals : Nat]
    BY DEF Init
  <2>2. editor \in [at : {"idle", "starting", "polling", "send", "exiting"},
                    for : {"request", "exit", "restart"}, of : Proc \cup {Nobody}]
    BY DEF Init
  <2>3. QED BY <2>1, <2>2 DEF Init, Types, At
<1>3. \A f \in File : ~There(f) /\ \A p \in Proc : files[f] # p
  BY DEF Init, Nobody, There, Proc
<1>4. Owned
  BY <1>1, <1>3 DEF Owned
<1>5. Alone /\ Waits
  BY <1>1 DEF Alone, Waits, Init
<1>6. QED BY <1>2, <1>4, <1>5 DEF Inv

\* A process that goes on: it is not started, it does not come to life or forget that
\* it did.
Onward(q) ==
  /\ proc'[q].at \in {"off", "check"} => proc'[q] = proc[q]
  /\ proc[q].life # "child" => proc'[q].life # "child"
  /\ proc[q].at = "attached" => proc'[q].at = "attached"

LEMMA GoesOn ==
  ASSUME Waits, editor' = editor,
         \A q \in Proc : Onward(q) /\ (Busy(q)' => Busy(q))
  PROVE  Waits'
<1>1. \A p \in Proc \ Externals : Busy(p)' =>
        editor'.at \in {"starting", "polling"} /\ editor'.of = p
  BY DEF Waits
<1>2. \A p \in Proc : proc'[p].at \in {"off", "check"} => proc'[p].life = "child"
  BY DEF Waits, Onward
<1>3. editor'.at = "polling" /\ editor'.of \in Proc =>
        proc'[editor'.of].life # "child" \/ proc'[editor'.of].at = "attached"
  BY DEF Waits, Onward
<1>4. QED BY <1>1, <1>2, <1>3 DEF Waits

\* A process that starts or runs begins to remove its files.
LEMMA LeavingInv ==
  ASSUME Types, Owned, Alone, NEW p \in Proc, Up(p),
         files' = files, proc' = [proc EXCEPT ![p] = Leave(p)]
  PROVE  /\ proc' \in [Proc -> [at : At, left : SUBSET File,
                                life : {"child", "daemon", "server"}]]
         /\ Owned' /\ Alone' /\ \A q \in Proc : Onward(q) /\ (Busy(q)' => Busy(q))
<1>1. /\ Leave(p) \in [at : Ending, left : SUBSET File, life : {"child", "daemon", "server"}]
      /\ Leave(p).left = Recorded(p) /\ Leave(p).life = proc[p].life
  BY RecordedIsMade DEF Leave, Types, Ending
<1>2. /\ proc'[p] = Leave(p) /\ \A q \in Proc : q # p => proc'[q] = proc[q]
      /\ proc' \in [Proc -> [at : At, left : SUBSET File, life : {"child", "daemon", "server"}]]
  BY <1>1 DEF Types, At
<1>3. ~Up(p)' /\ Ends(p)' /\ proc'[p].at \in Ending /\ proc'[p].at # "check"
  BY <1>1, <1>2, RecordedIsMade DEF Up, Ends, Ending, Stages
<1>4. \A q \in Proc : q # p => (Up(q)' <=> Up(q)) /\ (Ends(q)' <=> Ends(q)) /\ (Busy(q)' <=> Busy(q))
  BY <1>2 DEF Up, Ends, Busy
<1>5. \A f \in File : There(f)' <=> There(f)
  BY DEF There
<1>6. Owned'
  <2>1. \A f \in File : There(f)' => files'[f] = files'["dir"]
    BY <1>5 DEF Owned
  <2>2. \A q \in Proc : Up(q)' => \A f \in File : (files'[f] = q <=> f \in Has(q, proc'[q].at))
    BY <1>2, <1>3, <1>4 DEF Owned
  <2>3. \A q \in Proc : Ends(q)' => "dir" \in proc'[q].left
    BY <1>1, <1>2, <1>4, RecordedIsMade DEF Owned
  <2>4. ASSUME NEW q \in Proc, NEW f \in File, files'[f] = q
        PROVE  \/ Up(q)' /\ f \in Has(q, proc'[q].at)
               \/ proc'[q].at \in Ending /\ f \in proc'[q].left
               \/ proc'[q].at \in {"killed", "stuck"}
    <3>1. CASE q = p
      <4>1. f \in Has(p, proc[p].at)
        BY <2>4, <3>1 DEF Owned
      <4>2. QED BY <1>1, <1>2, <1>3, <3>1, <4>1, RecordedIsMade
    <3>2. CASE q # p
      BY <1>2, <1>4, <2>4, <3>2 DEF Owned
    <3>3. QED BY <3>1, <3>2
  <2>5. QED BY <2>1, <2>2, <2>3, <2>4 DEF Owned
<1>7. Busy(p)' => Busy(p) /\ proc[p].at # "check"
  <2>1. CASE proc[p].at = "run"
    <3>1. "dir" \in File /\ "dir" \in Has(p, "run")
      BY HasAtEachStage DEF File
    <3>2. files["dir"] = p
      BY <2>1, <3>1 DEF Owned
    <3>3. QED BY <1>3, <3>2 DEF Busy, Ending, Stages
  <2>2. CASE proc[p].at \in Stages
    BY <2>2 DEF Busy, Stages
  <2>3. QED BY <2>1, <2>2 DEF Up
<1>8. Alone'
  <2>1. \A q, r \in Proc : Busy(q)' /\ Busy(r)' => q = r
    BY <1>4, <1>7 DEF Alone
  <2>2. \A q \in Proc : Busy(q)' /\ proc'[q].at # "check" => \A f \in File : files'[f] \in {Nobody, q}
    BY <1>2, <1>4, <1>7 DEF Alone
  <2>3. QED BY <2>1, <2>2 DEF Alone
<1>9. \A q \in Proc : Onward(q)
  <2>1. proc[p].at # "attached" /\ proc'[p].at \notin {"off", "check"}
    BY <1>3 DEF Up, Stages, Ending
  <2>2. QED BY <1>1, <1>2, <2>1 DEF Onward
<1>10. QED BY <1>2, <1>4, <1>6, <1>7, <1>8, <1>9

\* A process stops, without a trace if it had none.
LEMMA StoppingInv ==
  ASSUME Types, Owned, Alone, NEW p \in Proc, NEW at \in Over, proc[p].at \notin {"off"} \cup Over,
         \/ at \in {"killed", "stuck"}
         \/ proc[p].at = "check"
         \/ proc[p].at \in Ending /\ proc[p].left = {},
         files' = files, proc' = [proc EXCEPT ![p].at = at]
  PROVE  /\ proc' \in [Proc -> [at : At, left : SUBSET File,
                                life : {"child", "daemon", "server"}]]
         /\ Owned' /\ Alone' /\ \A q \in Proc : Onward(q) /\ (Busy(q)' => Busy(q))
<1>1. /\ proc'[p].at = at /\ proc'[p].life = proc[p].life
      /\ \A q \in Proc : q # p => proc'[q] = proc[q]
      /\ proc' \in [Proc -> [at : At, left : SUBSET File, life : {"child", "daemon", "server"}]]
  BY DEF Types, At
<1>2. ~Up(p)' /\ ~Ends(p)' /\ ~Busy(p)' /\ at \notin {"off", "check"}
  BY <1>1 DEF Up, Ends, Busy, Ending, Stages, Over
<1>3. \A q \in Proc : q # p => (Up(q)' <=> Up(q)) /\ (Ends(q)' <=> Ends(q)) /\ (Busy(q)' <=> Busy(q))
  BY <1>1 DEF Up, Ends, Busy
<1>4. Owned'
  <2>1. \A f \in File : There(f)' => files'[f] = files'["dir"]
    BY DEF Owned, There
  <2>2. \A q \in Proc : Up(q)' => \A f \in File : (files'[f] = q <=> f \in Has(q, proc'[q].at))
    BY <1>1, <1>2, <1>3 DEF Owned
  <2>3. \A q \in Proc : Ends(q)' => "dir" \in proc'[q].left
    BY <1>1, <1>2, <1>3 DEF Owned
  <2>4. ASSUME NEW q \in Proc, NEW f \in File, files'[f] = q
        PROVE  \/ Up(q)' /\ f \in Has(q, proc'[q].at)
               \/ proc'[q].at \in Ending /\ f \in proc'[q].left
               \/ proc'[q].at \in {"killed", "stuck"}
    <3>1. CASE q = p
      <4>1. Up(p) \/ (proc[p].at \in Ending /\ f \in proc[p].left)
        <5>1. files[f] = p
          BY <2>4, <3>1
        <5>2. QED BY <5>1 DEF Owned, Over
      <4>2. proc[p].at = "check" => ~Up(p) /\ proc[p].at \notin Ending
        BY DEF Up, Stages, Ending
      <4>3. proc[p].at \in Ending => ~Up(p)
        BY DEF Up, Stages, Ending
      <4>4. at \in {"killed", "stuck"}
        BY <4>1, <4>2, <4>3
      <4>5. QED BY <1>1, <3>1, <4>4
    <3>2. CASE q # p
      BY <1>1, <1>3, <2>4, <3>2 DEF Owned
    <3>3. QED BY <3>1, <3>2
  <2>5. QED BY <2>1, <2>2, <2>3, <2>4 DEF Owned
<1>5. Alone'
  BY <1>1, <1>2, <1>3 DEF Alone
<1>6. \A q \in Proc : Onward(q)
  BY <1>1, <1>2 DEF Onward, Over
<1>7. QED BY <1>1, <1>2, <1>3, <1>4, <1>5, <1>6

LEMMA CheckInv ==
  ASSUME Inv, NEW p \in Proc, Check(p)
  PROVE  Inv'
<1> USE DEF Inv
<1>1. /\ proc[p].at = "check" /\ files' = files /\ editor' = editor /\ budget' = budget
      /\ Busy(p) /\ ~Up(p)
  BY DEF Check, Busy, Up, Stages
<1>2. CASE ~Existing
  <2>1. proc' = [proc EXCEPT ![p].at = "mkdir"]
    BY <1>2 DEF Check
  <2>2. \A f \in File : files[f] = Nobody
    <3>1. files["dir"] = Nobody
      BY <1>2 DEF Existing, There
    <3>2. QED BY <3>1 DEF Owned, There
  <2>3. /\ proc'[p].at = "mkdir" /\ proc'[p].life = proc[p].life
        /\ \A q \in Proc : q # p => proc'[q] = proc[q]
        /\ proc' \in [Proc -> [at : At, left : SUBSET File, life : {"child", "daemon", "server"}]]
    BY <2>1 DEF Types, At, Stages
  <2>4. Up(p)' /\ ~Ends(p)'
    BY <2>3 DEF Up, Ends, Ending, Stages
  <2>5. \A q \in Proc : q # p => (Up(q)' <=> Up(q)) /\ (Ends(q)' <=> Ends(q)) /\ (Busy(q)' <=> Busy(q))
    BY <1>1, <2>3 DEF Up, Ends, Busy
  <2>6. Has(p, "mkdir") = {} /\ \A q \in Proc : q # Nobody
    BY HasAtEachStage DEF Proc, Nobody
  <2>7. Owned'
    <3>1. \A f \in File : ~There(f)' /\ \A q \in Proc : files'[f] # q
      BY <1>1, <2>2, <2>6 DEF There
    <3>2. \A q \in Proc : Up(q)' => \A f \in File : (files'[f] = q <=> f \in Has(q, proc'[q].at))
      BY <1>1, <2>3, <2>5, <2>6, <3>1 DEF Owned
    <3>3. \A q \in Proc : Ends(q)' => "dir" \in proc'[q].left
      BY <2>3, <2>4, <2>5 DEF Owned
    <3>4. QED BY <3>1, <3>2, <3>3 DEF Owned
  <2>8. Alone'
    BY <1>1, <2>2, <2>5 DEF Alone
  <2>9. \A q \in Proc : Onward(q)
    BY <1>1, <2>3 DEF Onward
  <2>10. Waits'
    BY <1>1, <2>5, <2>9, GoesOn
  <2>11. QED BY <1>1, <2>3, <2>7, <2>8, <2>10 DEF Types
<1>3. CASE Existing
  <2>1. PICK at \in {"attached", "failed"} : proc' = [proc EXCEPT ![p].at = at]
    BY <1>3 DEF Check
  <2>2. at \in Over /\ proc[p].at \notin {"off"} \cup Over
    BY <1>1 DEF Over
  <2>3. /\ proc' \in [Proc -> [at : At, left : SUBSET File, life : {"child", "daemon", "server"}]]
        /\ Owned' /\ Alone' /\ \A q \in Proc : Onward(q) /\ (Busy(q)' => Busy(q))
    BY <1>1, <2>1, <2>2, StoppingInv
  <2>4. QED BY <1>1, <2>3, GoesOn DEF Types
<1>4. QED BY <1>2, <1>3

\* A process that cannot or must not go on leaves.
LEMMA QuitsInv ==
  ASSUME Inv, NEW p \in Proc, Up(p), files' = files, editor' = editor,
         budget' \in [faults : Nat, signals : Nat], proc' = [proc EXCEPT ![p] = Leave(p)]
  PROVE  Inv'
<1>1. /\ proc' \in [Proc -> [at : At, left : SUBSET File, life : {"child", "daemon", "server"}]]
      /\ Owned' /\ Alone' /\ \A q \in Proc : Onward(q) /\ (Busy(q)' => Busy(q))
  BY LeavingInv DEF Inv
<1>2. Waits'
  BY <1>1, GoesOn DEF Inv
<1>3. QED BY <1>1, <1>2 DEF Inv, Types

LEMMA StopsInv ==
  ASSUME Inv, NEW p \in Proc, NEW at \in Over, Alive(p),
         \/ at \in {"killed", "stuck"}
         \/ proc[p].at \in Ending /\ proc[p].left = {},
         files' = files, editor' = editor, budget' \in [faults : Nat, signals : Nat],
         proc' = [proc EXCEPT ![p].at = at]
  PROVE  Inv'
<1>1. proc[p].at \notin {"off"} \cup Over
  BY DEF Alive
<1>2. /\ proc' \in [Proc -> [at : At, left : SUBSET File, life : {"child", "daemon", "server"}]]
      /\ Owned' /\ Alone' /\ \A q \in Proc : Onward(q) /\ (Busy(q)' => Busy(q))
  BY <1>1, StoppingInv DEF Inv
<1>3. Waits'
  BY <1>2, GoesOn DEF Inv
<1>4. QED BY <1>2, <1>3 DEF Inv, Types

\* Whose files a process that ends removes: its own, and the directory when it is empty.
LEMMA UnlinkIsOwn ==
  ASSUME Types, Owned, Alone, NEW p \in Proc, Ends(p)
  PROVE  LET f == NextToDrop(proc[p].left) IN
         /\ f \in proc[p].left /\ f \in File /\ files[f] \in {Nobody, p}
         /\ f = "dir" => proc[p].left = {"dir"} /\ \A g \in File : g # "dir" => ~There(g)
<1> DEFINE f == NextToDrop(proc[p].left)
<1>1. proc[p].left \in SUBSET File /\ proc[p].left # {} /\ proc[p].at \in Ending /\ p # Nobody
  BY DEF Types, Ends, Proc, Nobody
<1>2. f \in proc[p].left /\ f \in File /\ (f = "dir" => proc[p].left = {"dir"})
  BY <1>1, DropsDirectoryLast
<1>3. \A g \in File : files[g] \in {Nobody, p}
  <2>1. CASE files["dir"] = p
    BY <2>1 DEF Owned, There
  <2>2. CASE files["dir"] # p
    <3>1. Busy(p) /\ proc[p].at # "check"
      BY <1>1, <2>2 DEF Busy, Ending
    <3>2. QED BY <3>1 DEF Alone
  <2>3. QED BY <2>1, <2>2
<1>4. ASSUME f = "dir", NEW g \in File, g # "dir"
      PROVE  ~There(g)
  <2>1. SUFFICES ASSUME files[g] = p PROVE FALSE
    BY <1>3 DEF There
  <2>2. ~Up(p) /\ proc[p].at \notin {"killed", "stuck"} /\ g \notin proc[p].left
    BY <1>1, <1>2, <1>4 DEF Up, Stages, Ending
  <2>3. QED BY <2>1, <2>2 DEF Owned
<1>5. QED BY <1>2, <1>3, <1>4

LEMMA UnlinkInv ==
  ASSUME Inv, NEW p \in Proc, Unlink(p)
  PROVE  Inv'
<1> DEFINE f == NextToDrop(proc[p].left)
<1> USE DEF Inv
<1>1. Ends(p) /\ editor' = editor /\ budget' = budget
  BY DEF Unlink, Ends
<1>2. /\ f \in proc[p].left /\ f \in File /\ files[f] \in {Nobody, p}
      /\ f = "dir" => proc[p].left = {"dir"} /\ \A g \in File : g # "dir" => ~There(g)
  BY <1>1, UnlinkIsOwn
<1>3. files' = [files EXCEPT ![f] = Nobody]
  <2>1. CASE f = "dir"
    <3>1. ~ \E g \in InDirectory : There(g)
      BY <1>2, <2>1 DEF InDirectory
    <3>2. QED BY <3>1 DEF Unlink
  <2>2. CASE f # "dir"
    BY <2>2 DEF Unlink
  <2>3. QED BY <2>1, <2>2
<1>4. proc' = [proc EXCEPT ![p].left = @ \ {f}]
  BY DEF Unlink
<1> HIDE DEF f
<1>5. /\ proc'[p].at = proc[p].at /\ proc'[p].life = proc[p].life /\ proc'[p].left = proc[p].left \ {f}
      /\ \A q \in Proc : q # p => proc'[q] = proc[q]
      /\ proc' \in [Proc -> [at : At, left : SUBSET File, life : {"child", "daemon", "server"}]]
  BY <1>4 DEF Types
<1>6. /\ files' \in [File -> Proc \cup {Nobody}] /\ files'[f] = Nobody
      /\ \A g \in File : g # f => files'[g] = files[g]
  BY <1>2, <1>3 DEF Types
<1>7. \A q \in Proc : q # Nobody /\ (Up(q)' <=> Up(q)) /\ (q # p => (Ends(q)' <=> Ends(q)))
  BY <1>5 DEF Up, Ends, Proc, Nobody
<1>8. ~Up(p) /\ proc[p].at \in Ending /\ proc[p].at # "check"
  BY <1>1 DEF Up, Ends, Ending, Stages
<1>9. \A q \in Proc, g \in File : q # p => (files'[g] = q <=> files[g] = q)
  BY <1>2, <1>6, <1>7
<1>10. \A q \in Proc : Busy(q)' => Busy(q)
  <2>1. "dir" \in File
    BY DEF File
  <2>2. ASSUME NEW q \in Proc, q # p, Busy(q)' PROVE Busy(q)
    BY <1>5, <1>7, <1>9, <2>1, <2>2 DEF Busy
  <2>3. Busy(p)' => Busy(p)
    <3>1. CASE f = "dir"
      BY <1>2, <1>5, <1>8, <3>1 DEF Busy, Ends, Ending, Stages
    <3>2. CASE f # "dir"
      BY <1>1, <1>5, <1>6, <2>1, <3>2 DEF Busy
    <3>3. QED BY <3>1, <3>2
  <2>4. QED BY <2>2, <2>3
<1>11. Owned'
  <2>1. ASSUME NEW g \in File, There(g)' PROVE files'[g] = files'["dir"]
    <3>1. g # f /\ files'[g] = files[g] /\ There(g)
      BY <1>6, <2>1 DEF There
    <3>2. f # "dir" \/ g = "dir"
      BY <1>2, <3>1
    <3>3. "dir" \in File
      BY DEF File
    <3>4. QED BY <1>6, <3>1, <3>2, <3>3 DEF Owned
  <2>2. \A q \in Proc : Up(q)' => \A g \in File : (files'[g] = q <=> g \in Has(q, proc'[q].at))
    BY <1>5, <1>7, <1>8, <1>9 DEF Owned
  <2>3. \A q \in Proc : Ends(q)' => "dir" \in proc'[q].left
    <3>1. Ends(p)' => "dir" \in proc'[p].left
      BY <1>1, <1>2, <1>5 DEF Owned, Ends
    <3>2. QED BY <1>5, <1>7, <3>1 DEF Owned
  <2>4. ASSUME NEW q \in Proc, NEW g \in File, files'[g] = q
        PROVE  \/ Up(q)' /\ g \in Has(q, proc'[q].at)
               \/ proc'[q].at \in Ending /\ g \in proc'[q].left
               \/ proc'[q].at \in {"killed", "stuck"}
    <3>1. g # f /\ files[g] = q
      BY <1>6, <1>7, <2>4
    <3>2. CASE q = p
      <4>1. g \in proc[p].left
        <5>1. proc[p].at \notin {"killed", "stuck"}
          BY <1>8 DEF Ending
        <5>2. QED BY <1>8, <3>1, <3>2, <5>1 DEF Owned
      <4>2. QED BY <1>5, <1>8, <3>1, <3>2, <4>1
    <3>3. CASE q # p
      BY <1>5, <1>7, <3>1, <3>3 DEF Owned
    <3>4. QED BY <3>2, <3>3
  <2>5. QED BY <2>1, <2>2, <2>3, <2>4 DEF Owned
<1>12. Alone'
  <2>1. \A q, r \in Proc : Busy(q)' /\ Busy(r)' => q = r
    BY <1>10 DEF Alone
  <2>2. ASSUME NEW q \in Proc, Busy(q)', proc'[q].at # "check", NEW g \in File
        PROVE  files'[g] \in {Nobody, q}
    <3>1. proc[q].at # "check" /\ Busy(q)
      BY <1>5, <1>10, <2>2
    <3>2. files[g] \in {Nobody, q}
      BY <3>1 DEF Alone
    <3>3. QED BY <1>6, <3>2
  <2>3. QED BY <2>1, <2>2 DEF Alone
<1>13. Waits'
  <2>1. \A q \in Proc : Onward(q)
    BY <1>5, <1>8 DEF Onward, Ending
  <2>2. QED BY <1>1, <1>10, <2>1, GoesOn
<1>14. QED BY <1>1, <1>5, <1>6, <1>11, <1>12, <1>13 DEF Types

\* A step of a start: it makes what the next stage has, and nothing else.
LEMMA GrowsInv ==
  ASSUME Inv, NEW p \in Proc, proc[p].at \in Stages, NEW next \in Stages \cup {"run"}, next # "mkdir",
         NEW life \in {"child", "daemon", "server"}, proc[p].life # "child" => life # "child",
         proc' = [proc EXCEPT ![p].at = next, ![p].life = life],
         files' \in [File -> {Nobody, p}],
         \A f \in File : files'[f] = p <=> f \in Has(p, next),
         editor' = editor, budget' = budget
  PROVE  Inv'
<1> USE DEF Inv
<1>1. /\ proc'[p].at = next /\ proc'[p].life = life /\ proc'[p].left = proc[p].left
      /\ \A q \in Proc : q # p => proc'[q] = proc[q]
      /\ proc' \in [Proc -> [at : At, left : SUBSET File, life : {"child", "daemon", "server"}]]
  <2>1. next \in At
    BY DEF At
  <2>2. proc \in [Proc -> [at : At, left : SUBSET File, life : {"child", "daemon", "server"}]]
    BY DEF Types
  <2>3. QED BY <2>1, <2>2
<1>2. /\ Busy(p) /\ proc[p].at # "check" /\ Up(p)' /\ ~Ends(p)'
      /\ next \notin {"off", "check"} /\ proc[p].at # "attached"
  BY <1>1 DEF Busy, Up, Ends, Stages, Ending
<1>3. \A q \in Proc : q # p => (Up(q)' <=> Up(q)) /\ (Ends(q)' <=> Ends(q))
  BY <1>1 DEF Up, Ends
<1>4. /\ \A f \in File : files[f] \in {Nobody, p} /\ files'[f] \in {Nobody, p}
      /\ \A q \in Proc : q # Nobody
  BY <1>2 DEF Alone, Proc, Nobody
<1>5. "dir" \in File /\ files'["dir"] = p
  <2>1. "dir" \in Has(p, next)
    BY HasAtEachStage DEF Stages
  <2>2. "dir" \in File
    BY DEF File
  <2>3. QED BY <2>1, <2>2
<1>6. \A q \in Proc : Busy(q)' => Busy(q)
  <2>1. ASSUME NEW q \in Proc, q # p, Busy(q)' PROVE Busy(q)
    BY <1>1, <1>3, <1>4, <1>5, <2>1 DEF Busy
  <2>2. QED BY <1>2, <2>1
<1>7. Owned'
  <2>1. \A f \in File : There(f)' => files'[f] = files'["dir"]
    BY <1>4, <1>5 DEF There
  <2>2. ASSUME NEW q \in Proc, Up(q)', NEW f \in File
        PROVE  files'[f] = q <=> f \in Has(q, proc'[q].at)
    <3>1. CASE q = p
      BY <1>1, <3>1
    <3>2. CASE q # p
      <4>1. proc'[q].at = proc[q].at /\ Up(q) /\ files[f] # q /\ files'[f] # q
        BY <1>1, <1>3, <1>4, <2>2, <3>2
      <4>2. QED BY <4>1 DEF Owned
    <3>3. QED BY <3>1, <3>2
  <2>3. \A q \in Proc : Ends(q)' => "dir" \in proc'[q].left
    BY <1>1, <1>2, <1>3 DEF Owned
  <2>4. ASSUME NEW q \in Proc, NEW f \in File, files'[f] = q
        PROVE  Up(q)' /\ f \in Has(q, proc'[q].at)
    BY <1>1, <1>2, <1>4, <2>4
  <2>5. QED BY <2>1, <2>2, <2>3, <2>4 DEF Owned
<1>8. Alone'
  <2>1. \A q, r \in Proc : Busy(q)' /\ Busy(r)' => q = r
    BY <1>6 DEF Alone
  <2>2. \A q \in Proc : Busy(q)' => q = p
    BY <1>2, <1>6 DEF Alone
  <2>3. QED BY <1>4, <2>1, <2>2 DEF Alone
<1>9. Waits'
  <2>1. \A q \in Proc : Onward(q)
    BY <1>1, <1>2 DEF Onward
  <2>2. QED BY <1>6, <2>1, GoesOn
<1>10. files' \in [File -> Proc \cup {Nobody}]
  OBVIOUS
<1>11. QED BY <1>1, <1>7, <1>8, <1>9, <1>10 DEF Types

\* What a step of a start makes, when it works.
LEMMA StageMakes ==
  ASSUME Types, Owned, Alone, NEW p \in Proc, NEW at \in Stages, proc[p].at = at, Works(p, at),
         NEW next, next = Startup[Index(at) + 1]
  PROVE  /\ next \in Stages \cup {"run"} /\ next # "mkdir"
         /\ Made(p, at) \in [File -> {Nobody, p}]
         /\ \A f \in File : Made(p, at)[f] = p <=> f \in Has(p, next)
<1> DEFINE mark == {f \in {"externally-started"} : p \in Externals}
<1>1. Busy(p) /\ Up(p) /\ p # Nobody
  BY DEF Busy, Up, Stages, Proc, Nobody
<1>2. /\ files \in [File -> {Nobody, p}]
      /\ \A f \in File : files[f] = p <=> f \in Has(p, at)
  <2>1. \A f \in File : files[f] \in {Nobody, p}
    BY <1>1 DEF Alone, Stages
  <2>2. QED BY <1>1, <2>1 DEF Types, Owned
<1>3. next = CASE at = "mkdir" -> "symlink" [] at = "symlink" -> "mark" [] at = "mark" -> "fifo"
         [] at = "fifo" -> "alt-fifo" [] at = "alt-fifo" -> "register"
         [] at = "register" -> "handlers" [] at = "handlers" -> "config"
         [] at = "config" -> "daemonize" [] at = "daemonize" -> "write"
         [] at = "write" -> "rename" [] at = "rename" -> "run"
  BY StartupStages
<1>4. next \in Stages \cup {"run"} /\ next # "mkdir"
  BY <1>3 DEF Stages
<1> HIDE DEF mark
<1>14. ASSUME NEW g \in File, Has(p, next) = Has(p, at) \cup {g},
              Made(p, at) = [files EXCEPT ![g] = p]
       PROVE  /\ next \in Stages \cup {"run"} /\ next # "mkdir"
              /\ Made(p, at) \in [File -> {Nobody, p}]
              /\ \A f \in File : Made(p, at)[f] = p <=> f \in Has(p, next)
  <2>1. ASSUME NEW f \in File PROVE Made(p, at)[f] = IF f = g THEN p ELSE files[f]
    BY <1>2, <1>14
  <2>2. QED BY <1>1, <1>2, <1>4, <1>14, <2>1
<1>5. CASE at = "mkdir"
  <2>1. Has(p, at) = {} /\ Has(p, next) = {"dir"}
    BY <1>3, <1>5, HasAtEachStage
  <2>2. Made(p, at) = [files EXCEPT !["dir"] = p]
    BY <1>1, <1>2, <1>5, <2>1 DEF Made, There, File
  <2>3. QED BY <1>1, <1>2, <1>4, <2>1, <2>2 DEF File
<1>6. CASE at = "symlink"
  <2>1. Has(p, at) = {"dir"} /\ Has(p, next) = {"dir", "ref"}
    BY <1>3, <1>6, HasAtEachStage
  <2>2. Made(p, at) = [files EXCEPT !["ref"] = p]
    BY <1>6 DEF Made
  <2>3. QED BY <1>1, <1>2, <1>4, <2>1, <2>2 DEF File
<1>7. CASE at = "mark"
  <2>1. Has(p, at) = {"dir", "ref"} /\ Has(p, next) = {"dir", "ref"} \cup mark
    BY <1>3, <1>7, HasAtEachStage DEF mark
  <2>2. CASE p \in Externals
    <3>1. Made(p, at) = [files EXCEPT !["externally-started"] = p] /\ mark = {"externally-started"}
      BY <1>7, <2>2 DEF Made, mark
    <3>2. QED BY <1>1, <1>2, <1>4, <2>1, <3>1 DEF File
  <2>3. CASE p \notin Externals
    <3>1. Made(p, at) = files /\ mark = {}
      BY <1>7, <2>3 DEF Made, mark
    <3>2. QED BY <1>1, <1>2, <1>4, <2>1, <3>1
  <2>4. QED BY <2>2, <2>3
<1>8. CASE at = "fifo"
  <2>1. Has(p, next) = Has(p, at) \cup {"fifo"}
    BY <1>3, <1>8, HasAtEachStage
  <2>2. Made(p, at) = [files EXCEPT !["fifo"] = p] /\ "fifo" \in File
    BY <1>8 DEF Made, File
  <2>3. QED BY <1>14, <2>1, <2>2
<1>9. CASE at = "alt-fifo"
  <2>1. Has(p, next) = Has(p, at) \cup {"alt-fifo"}
    BY <1>3, <1>9, HasAtEachStage
  <2>2. Made(p, at) = [files EXCEPT !["alt-fifo"] = p] /\ "alt-fifo" \in File
    BY <1>9 DEF Made, File
  <2>3. QED BY <1>14, <2>1, <2>2
<1>10. CASE at \in {"register", "handlers", "config", "daemonize"}
  <2>1. next \in {"handlers", "config", "daemonize", "write"}
    BY <1>3, <1>10
  <2>2. /\ at \in {"register", "handlers", "config", "daemonize", "write"}
        /\ next \in {"register", "handlers", "config", "daemonize", "write"}
    BY <1>10, <2>1
  <2>3. \A x \in {"register", "handlers", "config", "daemonize", "write"} :
          Has(p, x) = {"dir", "ref", "fifo", "alt-fifo"} \cup {f \in {"externally-started"} : p \in Externals}
    BY HasAtEachStage
  <2>4. Has(p, next) = Has(p, at)
    BY <2>2, <2>3
  <2>5. Made(p, at) = files
    BY <1>10 DEF Made
  <2>6. QED BY <1>2, <1>4, <2>4, <2>5
<1>11. CASE at = "write"
  <2>1. Has(p, next) = Has(p, at) \cup {"pid.tmp"}
    BY <1>3, <1>11, HasAtEachStage
  <2>2. Made(p, at) = [files EXCEPT !["pid.tmp"] = p] /\ "pid.tmp" \in File
    BY <1>11 DEF Made, File
  <2>3. QED BY <1>14, <2>1, <2>2
<1>12. CASE at = "rename"
  <2>1. /\ Has(p, at) = {"dir", "ref", "fifo", "alt-fifo", "pid.tmp"} \cup mark
        /\ Has(p, next) = {"dir", "ref", "fifo", "alt-fifo", "pid"} \cup mark
        /\ mark \subseteq {"externally-started"}
    BY <1>3, <1>12, HasAtEachStage DEF mark
  <2>2. Made(p, at) = [files EXCEPT !["pid.tmp"] = Nobody, !["pid"] = p]
    BY <1>2, <1>12, <2>1 DEF Made, File
  <2>3. QED BY <1>1, <1>2, <1>4, <2>1, <2>2 DEF File
<1>13. QED
  BY <1>5, <1>6, <1>7, <1>8, <1>9, <1>10, <1>11, <1>12 DEF Stages

LEMMA StartupInv ==
  ASSUME Inv, NEW p \in Proc, StartupStep(p)
  PROVE  Inv'
<1> DEFINE at == proc[p].at
           next == Startup[Index(at) + 1]
           life == IF at = "daemonize" THEN "daemon" ELSE proc[p].life
<1>1. at \in Stages /\ Up(p) /\ editor' = editor /\ budget' = budget
  BY StartupStages DEF StartupStep, Up
<1>2. CASE Works(p, at)
  <2>1. files' = Made(p, at) /\ proc' = [proc EXCEPT ![p].at = next, ![p].life = life]
    BY <1>2 DEF StartupStep, Inv, Types
  <2>2. life \in {"child", "daemon", "server"} /\ (proc[p].life # "child" => life # "child")
    BY DEF Inv, Types
  <2>3. /\ next \in Stages \cup {"run"} /\ next # "mkdir"
        /\ Made(p, at) \in [File -> {Nobody, p}]
        /\ \A f \in File : (Made(p, at)[f] = p <=> f \in Has(p, next))
    BY <1>1, <1>2, StageMakes DEF Inv
  <2> HIDE DEF next, life
  <2>4. QED BY <1>1, <2>1, <2>2, <2>3, GrowsInv
<1>3. CASE ~Works(p, at)
  BY <1>1, <1>3, QuitsInv DEF StartupStep, Inv, Types
<1>4. QED BY <1>2, <1>3

LEMMA EndingInv ==
  ASSUME Inv, NEW p \in Proc,
         End(p) \/ Fault(p) \/ Timeout(p) \/ Panic(p) \/ Kill(p) \/ Signal(p)
  PROVE  Inv'
<1>1. /\ [budget EXCEPT !.faults = @ + 1] \in [faults : Nat, signals : Nat]
      /\ [budget EXCEPT !.signals = @ + 1] \in [faults : Nat, signals : Nat]
      /\ budget \in [faults : Nat, signals : Nat]
  BY DEF Inv, Types
<1>2. CASE End(p)
  BY <1>1, <1>2, StopsInv DEF End, Alive, Ending, Over
<1>3. CASE Fault(p)
  <2>1. Up(p)
    BY <1>3, StartupStages DEF Fault, Up
  <2>2. QED BY <1>1, <1>3, <2>1, QuitsInv DEF Fault
<1>4. CASE Timeout(p) \/ Panic(p)
  <2>1. Up(p)
    BY <1>4 DEF Timeout, Panic, Up
  <2>2. QED BY <1>1, <1>4, <2>1, QuitsInv DEF Timeout, Panic
<1>5. CASE Kill(p)
  BY <1>1, <1>5, StopsInv DEF Kill, Over
<1>6. CASE Signal(p)
  <2>1. /\ files' = files /\ editor' = editor /\ budget' \in [faults : Nat, signals : Nat]
        /\ Alive(p)
    BY <1>1, <1>6 DEF Signal
  <2>2. CASE proc' = [proc EXCEPT ![p].at = "killed"]
    BY <2>1, <2>2, StopsInv DEF Over
  <2>3. CASE Reached(p, "config") /\ proc' = [proc EXCEPT ![p] = Leave(p)]
    <3>1. Up(p)
      BY <2>3, StartupStages DEF Reached, Up
    <3>2. QED BY <2>1, <2>3, <3>1, QuitsInv
  <2>4. CASE proc' = [proc EXCEPT ![p].at = "stuck"]
    BY <2>1, <2>4, StopsInv DEF Over
  <2>5. CASE proc' = proc
    <3>1. \A q \in Proc : Onward(q) /\ (Busy(q)' => Busy(q))
      BY <2>1, <2>5 DEF Onward, Busy, Ends, Inv, Waits
    <3>2. Waits'
      BY <2>1, <3>1, GoesOn DEF Inv
    <3>3. QED
      BY <2>1, <2>5, <3>2 DEF Inv, Types, Owned, Alone, Up, Ends, Busy, There
  <2>6. QED BY <1>6, <2>2, <2>3, <2>4, <2>5 DEF Signal
<1>7. QED BY <1>2, <1>3, <1>4, <1>5, <1>6

\* A process starts where no other is about to.
LEMMA BeginsInv ==
  ASSUME Types, Owned, Alone, NEW p \in Proc, proc[p].at = "off", \A q \in Proc : ~Busy(q),
         files' = files, proc' = [proc EXCEPT ![p].at = "check"]
  PROVE  /\ proc' \in [Proc -> [at : At, left : SUBSET File,
                                life : {"child", "daemon", "server"}]]
         /\ Owned' /\ Alone' /\ \A q \in Proc : Busy(q)' => q = p
         /\ proc'[p] = [proc[p] EXCEPT !.at = "check"]
         /\ \A q \in Proc : q # p => proc'[q] = proc[q]
<1>1. /\ proc'[p] = [proc[p] EXCEPT !.at = "check"] /\ proc'[p].at = "check"
      /\ \A q \in Proc : q # p => proc'[q] = proc[q]
      /\ proc' \in [Proc -> [at : At, left : SUBSET File, life : {"child", "daemon", "server"}]]
  BY DEF Types, At
<1>2. /\ ~Up(p) /\ ~Up(p)' /\ ~Ends(p)' /\ proc[p].at \notin Ending
      /\ proc[p].at \notin {"killed", "stuck"}
  BY <1>1 DEF Up, Ends, Stages, Ending
<1>3. \A q \in Proc : q # p => (Up(q)' <=> Up(q)) /\ (Ends(q)' <=> Ends(q)) /\ (Busy(q)' <=> Busy(q))
  BY <1>1 DEF Up, Ends, Busy
<1>4. \A f \in File : files[f] # p
  BY <1>2 DEF Owned
<1>5. Owned'
  <2>1. \A f \in File : There(f)' => files'[f] = files'["dir"]
    BY DEF Owned, There
  <2>2. \A q \in Proc : Up(q)' => \A f \in File : (files'[f] = q <=> f \in Has(q, proc'[q].at))
    BY <1>1, <1>2, <1>3 DEF Owned
  <2>3. \A q \in Proc : Ends(q)' => "dir" \in proc'[q].left
    BY <1>1, <1>2, <1>3 DEF Owned
  <2>4. ASSUME NEW q \in Proc, NEW f \in File, files'[f] = q
        PROVE  \/ Up(q)' /\ f \in Has(q, proc'[q].at)
               \/ proc'[q].at \in Ending /\ f \in proc'[q].left
               \/ proc'[q].at \in {"killed", "stuck"}
    <3>1. q # p
      BY <1>4, <2>4
    <3>2. QED BY <1>1, <1>3, <2>4, <3>1 DEF Owned
  <2>5. QED BY <2>1, <2>2, <2>3, <2>4 DEF Owned
<1>6. Alone' /\ \A q \in Proc : Busy(q)' => q = p
  BY <1>1, <1>3 DEF Alone
<1>7. QED BY <1>1, <1>5, <1>6

\* lsp-start finds nobody who starts: not itself, which waits for whom it starts, and
\* none outside, by its guard.
LEMMA StartInv ==
  ASSUME Inv, ~DuringEnd, NEW purpose \in {"request", "exit", "restart"},
         editor.at \in {"idle", "exiting"}, Start(purpose)
  PROVE  Inv'
<1> USE DEF Inv
<1>1. PICK p \in Proc \ Externals :
        /\ proc[p].at = "off" /\ editor' = [at |-> "starting", for |-> purpose, of |-> p]
        /\ proc' = [proc EXCEPT ![p].at = "check"] /\ files' = files /\ budget' = budget
  BY DEF Start, Unstarted
<1>2. ASSUME NEW q \in Proc PROVE ~Busy(q)
  <2>1. CASE q \in Externals
    <3>1. Alive(q) => proc[q].at = "run"
      BY <2>1 DEF Start
    <3>2. Busy(q) => Alive(q) /\ proc[q].at # "run"
      BY DEF Busy, Alive, Ends, Stages, Ending, Over
    <3>3. QED BY <3>1, <3>2
  <2>2. CASE q \notin Externals
    BY <2>2 DEF Waits
  <2>3. QED BY <2>1, <2>2
<1>3. /\ proc' \in [Proc -> [at : At, left : SUBSET File, life : {"child", "daemon", "server"}]]
      /\ Owned' /\ Alone' /\ \A q \in Proc : Busy(q)' => q = p
      /\ proc'[p] = [proc[p] EXCEPT !.at = "check"]
      /\ \A q \in Proc : q # p => proc'[q] = proc[q]
  BY <1>1, <1>2, BeginsInv
<1>4. editor'.at = "starting" /\ editor'.of = p
  BY <1>1
<1>5. Waits'
  <2>1. \A q \in Proc : proc'[q].at \in {"off", "check"} => proc'[q].life = "child"
    <3>1. proc'[p].life = proc[p].life
      BY <1>3 DEF Types
    <3>2. QED BY <1>1, <1>3, <3>1 DEF Waits
  <2>2. QED BY <1>3, <1>4, <2>1 DEF Waits
<1>6. editor' \in [at : {"idle", "starting", "polling", "send", "exiting"},
                   for : {"request", "exit", "restart"}, of : Proc \cup {Nobody}]
  BY <1>1
<1>7. QED BY <1>1, <1>3, <1>5, <1>6 DEF Types

\* The editor finds a pid file: it is that of a process that has begun, and the process
\* that the editor has started, if it has, is not about to make one.
LEMMA SeesInv ==
  ASSUME Inv, PidThere, editor.at \in {"idle", "polling"}, files' = files, budget' = budget,
         editor' \in [at : {"send"}, for : {"request", "exit", "restart"}, of : Proc \cup {Nobody}],
         proc' = [proc EXCEPT ![files["pid"]].life = "server"]
  PROVE  Inv'
<1> USE DEF Inv
<1>1. PICK p \in Proc : p = files["pid"] /\ p = files["dir"]
  BY DEF PidThere, There, Owned, Types, File
<1>2. proc' = [proc EXCEPT ![p].life = "server"]
  BY <1>1
<1>3. /\ proc'[p].life = "server" /\ proc'[p].at = proc[p].at /\ proc'[p].left = proc[p].left
      /\ \A q \in Proc : q # p => proc'[q] = proc[q]
      /\ proc' \in [Proc -> [at : At, left : SUBSET File, life : {"child", "daemon", "server"}]]
  <2>1. /\ proc \in [Proc -> [at : At, left : SUBSET File, life : {"child", "daemon", "server"}]]
        /\ proc[p] \in [at : At, left : SUBSET File, life : {"child", "daemon", "server"}]
    BY DEF Types
  <2>2. proc'[p] = [proc[p] EXCEPT !.life = "server"]
    BY <1>2, <2>1
  <2>3. /\ proc'[p].life = "server" /\ proc'[p].at = proc[p].at /\ proc'[p].left = proc[p].left
        /\ proc'[p] \in [at : At, left : SUBSET File, life : {"child", "daemon", "server"}]
    BY <2>1, <2>2
  <2>4. \A q \in Proc : q # p => proc'[q] = proc[q]
    BY <1>2, <2>1
  <2>5. proc' \in [Proc -> [at : At, left : SUBSET File, life : {"child", "daemon", "server"}]]
    <3> DEFINE R == [at : At, left : SUBSET File, life : {"child", "daemon", "server"}]
    <3>1. proc \in [Proc -> R] /\ proc'[p] \in R
      BY <2>1, <2>3
    <3> HIDE DEF R
    <3>2. proc' = [proc EXCEPT ![p] = proc'[p]]
      BY <1>2, <3>1
    <3>3. proc' \in [Proc -> R]
      BY <3>1, <3>2
    <3>4. QED BY <3>3 DEF R
  <2>6. QED BY <2>3, <2>4, <2>5
<1>4. \A q \in Proc : /\ proc'[q].at = proc[q].at /\ (Up(q)' <=> Up(q)) /\ (Ends(q)' <=> Ends(q))
                      /\ (Busy(q)' <=> Busy(q)) /\ proc'[q].left = proc[q].left
  BY <1>3 DEF Up, Ends, Busy
<1>5. Owned' /\ Alone'
  BY <1>4 DEF Owned, Alone, There
<1>6. proc[p].at \notin {"off", "check"}
  BY <1>1 DEF Owned, Up, Stages, Ending, File
<1>7. ASSUME NEW q \in Proc \ Externals PROVE ~Busy(q)
  <2>1. SUFFICES ASSUME Busy(q), editor.at = "polling", editor.of = q PROVE FALSE
    BY <1>7 DEF Waits
  <2>2. proc[q].at # "check"
    BY <2>1 DEF Waits, Busy, Ends, Ending, Stages
  <2>3. files["pid"] \in {Nobody, q} /\ files["dir"] \in {Nobody, q}
    BY <2>1, <2>2 DEF Alone, File
  <2>4. q = p
    BY <1>1, <2>3 DEF Proc, Nobody
  <2>5. proc[q].at \in Stages
    BY <1>1, <2>1, <2>2, <2>4 DEF Busy
  <2>6. "pid" \notin Has(q, proc[q].at)
    BY <2>5, HasAtEachStage DEF Stages
  <2>7. QED BY <1>1, <2>4, <2>5, <2>6 DEF Owned, Up, File
<1>8. Waits'
  BY <1>3, <1>4, <1>6, <1>7 DEF Waits
<1>9. editor' \in [at : {"idle", "starting", "polling", "send", "exiting"},
                   for : {"request", "exit", "restart"}, of : Proc \cup {Nobody}]
  OBVIOUS
<1>10. QED BY <1>3, <1>5, <1>8, <1>9 DEF Types

\* The editor goes on, and no process does.
LEMMA EditorInv ==
  ASSUME Inv, files' = files, budget' = budget, proc' = proc,
         editor' \in [at : {"idle", "starting", "polling", "send", "exiting"},
                      for : {"request", "exit", "restart"}, of : Proc \cup {Nobody}],
         Waits'
  PROVE  Inv'
BY DEF Inv, Types, Owned, Alone, Up, Ends, Busy, There

LEMMA StartedInv ==
  ASSUME Inv, Started
  PROVE  Inv'
<1> USE DEF Inv
<1>1. /\ files' = files /\ budget' = budget /\ proc' = proc /\ editor.at = "starting"
      /\ \/ /\ proc[editor.of].life # "child" \/ proc[editor.of].at = "attached"
            /\ editor' = [editor EXCEPT !.at = "polling"]
         \/ /\ proc[editor.of].at \in {"failed", "gone", "killed"}
            /\ editor' = [editor EXCEPT !.at = "idle"]
  BY DEF Started
<1>2. \A q \in Proc : Busy(q)' => Busy(q)
  BY <1>1 DEF Busy, Ends
<1>3. editor'.of = editor.of /\ editor'.at \in {"polling", "idle"}
      /\ editor' \in [at : {"idle", "starting", "polling", "send", "exiting"},
                      for : {"request", "exit", "restart"}, of : Proc \cup {Nobody}]
  BY <1>1 DEF Types
<1>4. Waits'
  <2>1. CASE editor' = [editor EXCEPT !.at = "polling"]
                /\ (proc[editor.of].life # "child" \/ proc[editor.of].at = "attached")
    <3>1. editor'.at = "polling"
      BY <2>1 DEF Types
    <3>2. QED BY <1>1, <1>2, <1>3, <2>1, <3>1 DEF Waits
  <2>2. CASE editor' = [editor EXCEPT !.at = "idle"]
                /\ proc[editor.of].at \in {"failed", "gone", "killed"}
    <3>1. editor'.at = "idle"
      BY <2>2 DEF Types
    <3>2. \A q \in Proc \ Externals : Busy(q) => q = editor.of
      BY DEF Waits
    <3>3. \A q \in Proc : q = editor.of => ~Busy(q)
      BY <2>2 DEF Busy, Ends, Ending, Stages
    <3>4. QED BY <1>1, <1>2, <3>1, <3>2, <3>3 DEF Waits
  <2>3. QED BY <1>1, <2>1, <2>2
<1>5. QED BY <1>1, <1>3, <1>4, EditorInv

LEMMA SendInv ==
  ASSUME Inv, Send
  PROVE  Inv'
<1> USE DEF Inv
<1>1. /\ files' = files /\ budget' = budget /\ editor.at = "send"
      /\ \E at \in {"idle", "exiting"} : editor' = [editor EXCEPT !.at = at]
  BY DEF Send
<1>2. /\ editor'.at \in {"idle", "exiting"}
      /\ editor' \in [at : {"idle", "starting", "polling", "send", "exiting"},
                      for : {"request", "exit", "restart"}, of : Proc \cup {Nobody}]
  BY <1>1 DEF Types
<1>3. \A q \in Proc \ Externals : ~Busy(q)
  BY <1>1 DEF Waits
<1>4. CASE proc' = proc
  <2>1. \A q \in Proc : Busy(q)' => Busy(q)
    BY <1>1, <1>4 DEF Busy, Ends
  <2>2. Waits'
    BY <1>2, <1>3, <1>4, <2>1 DEF Waits
  <2>3. QED BY <1>1, <1>2, <1>4, <2>2, EditorInv
<1>5. CASE There("fifo") /\ proc[files["fifo"]].at = "run"
             /\ proc' = [proc EXCEPT ![files["fifo"]] = Leave(files["fifo"])]
  <2>1. PICK p \in Proc : p = files["fifo"]
    BY <1>5 DEF Types, There, File
  <2>2. Up(p) /\ proc' = [proc EXCEPT ![p] = Leave(p)]
    BY <1>5, <2>1 DEF Up
  <2>3. /\ proc' \in [Proc -> [at : At, left : SUBSET File, life : {"child", "daemon", "server"}]]
        /\ Owned' /\ Alone' /\ \A q \in Proc : Onward(q) /\ (Busy(q)' => Busy(q))
    BY <1>1, <2>2, LeavingInv
  <2>4. Waits'
    BY <1>2, <1>3, <2>3 DEF Waits, Onward
  <2>5. QED BY <1>1, <1>2, <2>3, <2>4 DEF Types
<1>6. QED BY <1>4, <1>5 DEF Send

LEMMA RequestInv ==
  ASSUME Inv, ~DuringEnd, NEW purpose \in {"request", "exit", "restart"}, Request(purpose)
  PROVE  Inv'
<1>1. editor.at = "idle"
  BY DEF Request
<1>2. CASE Start(purpose)
  BY <1>1, <1>2, StartInv
<1>3. CASE PidThere /\ ~Start(purpose)
  <2>1. /\ editor' = [editor EXCEPT !.at = "send", !.for = purpose]
        /\ proc' = [proc EXCEPT ![files["pid"]].life = "server"]
        /\ files' = files /\ budget' = budget
    BY <1>3 DEF Request
  <2>2. editor' \in [at : {"send"}, for : {"request", "exit", "restart"}, of : Proc \cup {Nobody}]
    BY <2>1 DEF Inv, Types
  <2>3. QED BY <1>1, <1>3, <2>1, <2>2, SeesInv
<1>4. QED BY <1>2, <1>3 DEF Request

LEMMA PolledInv ==
  ASSUME Inv, Polled
  PROVE  Inv'
<1>1. /\ editor.at = "polling" /\ PidThere /\ editor' = [editor EXCEPT !.at = "send"]
      /\ proc' = [proc EXCEPT ![files["pid"]].life = "server"]
      /\ files' = files /\ budget' = budget
  BY DEF Polled
<1>2. editor' \in [at : {"send"}, for : {"request", "exit", "restart"}, of : Proc \cup {Nobody}]
  BY <1>1 DEF Inv, Types
<1>3. QED BY <1>1, <1>2, SeesInv

LEMMA ExitedInv ==
  ASSUME Inv, ~DuringEnd, Exited
  PROVE  Inv'
<1>1. editor.at = "exiting"
  BY DEF Exited
<1>2. CASE Start("request")
  BY <1>1, <1>2, StartInv
<1>3. CASE editor' = [editor EXCEPT !.at = "idle"] /\ UNCHANGED <<files, proc, budget>>
  <2>1. /\ editor'.at = "idle"
        /\ editor' \in [at : {"idle", "starting", "polling", "send", "exiting"},
                        for : {"request", "exit", "restart"}, of : Proc \cup {Nobody}]
    BY <1>3 DEF Inv, Types
  <2>2. \A q \in Proc : Busy(q)' => Busy(q)
    BY <1>3 DEF Busy, Ends
  <2>3. Waits'
    BY <1>1, <1>3, <2>1, <2>2 DEF Inv, Waits
  <2>4. QED BY <1>3, <2>1, <2>3, EditorInv
<1>4. QED BY <1>2, <1>3 DEF Exited

LEMMA StartOutsideInv ==
  ASSUME Inv, StartOutside
  PROVE  Inv'
<1> USE DEF Inv
<1>1. PICK p \in Proc \cap Externals :
        /\ proc[p].at = "off" /\ proc' = [proc EXCEPT ![p].at = "check"]
        /\ files' = files /\ editor' = editor /\ budget' = budget
  BY DEF StartOutside, Unstarted
<1>2. \A q \in Proc : ~Busy(q)
  BY DEF StartOutside, Busy, Alive, Ends, Stages, Ending, Over
<1>3. /\ proc' \in [Proc -> [at : At, left : SUBSET File, life : {"child", "daemon", "server"}]]
      /\ Owned' /\ Alone' /\ \A q \in Proc : Busy(q)' => q = p
      /\ proc'[p] = [proc[p] EXCEPT !.at = "check"]
      /\ \A q \in Proc : q # p => proc'[q] = proc[q]
  BY <1>1, <1>2, BeginsInv
<1>4. editor.at = "idle"
  BY DEF StartOutside
<1>5. Waits'
  <2>1. \A q \in Proc : proc'[q].at \in {"off", "check"} => proc'[q].life = "child"
    <3>1. proc'[p].life = proc[p].life
      BY <1>3 DEF Types
    <3>2. QED BY <1>1, <1>3, <3>1 DEF Waits
  <2>2. QED BY <1>1, <1>3, <1>4, <2>1 DEF Waits
<1>6. QED BY <1>1, <1>3, <1>5 DEF Types

-----------------------------------------------------------------------------

THEOREM InvHolds ==
  ASSUME ~DuringEnd
  PROVE  Spec => []Inv
<1>1. Init => Inv
  BY InitInv
<1>2. Inv /\ [Next]_vars => Inv'
  <2> SUFFICES ASSUME Inv, [Next]_vars PROVE Inv'
    OBVIOUS
  <2>1. CASE UNCHANGED vars
    BY <2>1 DEF vars, Inv, Types, Owned, Alone, Waits, Up, Ends, Busy, There
  <2>2. ASSUME NEW p \in Proc, Work(p) PROVE Inv'
    BY <2>2, CheckInv, StartupInv, UnlinkInv, EndingInv DEF Work
  <2>3. ASSUME NEW p \in Proc, Fault(p) \/ Timeout(p) \/ Panic(p) \/ Kill(p) \/ Signal(p)
        PROVE  Inv'
    BY <2>3, EndingInv
  <2>4. ASSUME NEW purpose \in {"request", "exit", "restart"}, Request(purpose) PROVE Inv'
    BY <2>4, RequestInv
  <2>5. CASE EditorWaits
    BY <2>5, StartedInv, PolledInv, SendInv, ExitedInv DEF EditorWaits
  <2>6. CASE StartOutside
    BY <2>6, StartOutsideInv
  <2>7. QED BY <2>1, <2>2, <2>3, <2>4, <2>5, <2>6 DEF Next
<1>3. QED BY <1>1, <1>2, PTL DEF Spec

\* A process that ends tidily leaves no file behind: do_cleanup and the drop of
\* SessionDirectory remove what was noted, and everything that was made was noted.
THEOREM TidyEnd ==
  ASSUME ~DuringEnd
  PROVE  Spec => []NothingLeft
<1>1. Inv => NothingLeft
  BY DEF Inv, Owned, NothingLeft, Up, Stages, Ending
<1>2. QED BY <1>1, InvHolds, PTL

\* A server that runs has all its files, by which the editor finds it.
THEOREM ServersAreFound ==
  ASSUME ~DuringEnd
  PROVE  Spec => []Reachable
<1>1. ASSUME Inv, NEW p \in Proc, proc[p].at = "run",
             NEW f \in {"dir", "ref", "fifo", "alt-fifo", "pid"}
      PROVE  files[f] = p
  <2>1. f \in File /\ f \in Has(p, proc[p].at)
    BY <1>1, HasAtEachStage DEF File
  <2>2. QED BY <1>1, <2>1 DEF Inv, Owned, Up
<1>2. Inv => Reachable
  BY <1>1 DEF Reachable
<1>3. QED BY <1>2, InvHolds, PTL

\* No process removes a file that another has made: the end of one server and the start
\* of the next do not get in each other's way.
THEOREM NobodyElsesFiles ==
  ASSUME ~DuringEnd
  PROVE  Spec => OnlyOwn
<1> DEFINE Own(f) ==
      \/ f = "pid.tmp" /\ files'["pid"] = files[f]
      \/ proc[files[f]].at \in Ending /\ NextToDrop(proc[files[f]].left) = f
<1>1. ASSUME Inv, [Next]_vars, NEW f \in File, There(f), files'[f] = Nobody
      PROVE  Own(f)
  <2>1. files' # files
    BY <1>1 DEF There
  <2>2. PICK p \in Proc : StartupStep(p) \/ Unlink(p)
    BY <1>1, <2>1 DEF Next, vars, Work, Check, End, Fault, Timeout, Panic, Kill, Signal,
                      Request, Start, EditorWaits, Started, Polled, Send, Exited, StartOutside
  <2>3. CASE Unlink(p)
    <3>1. Ends(p)
      BY <2>3 DEF Unlink, Ends
    <3>2. /\ NextToDrop(proc[p].left) \in File
          /\ files[NextToDrop(proc[p].left)] \in {Nobody, p}
      BY <1>1, <3>1, UnlinkIsOwn DEF Inv
    <3>3. f = NextToDrop(proc[p].left)
      BY <1>1, <2>3 DEF Unlink, Inv, Types, There
    <3>4. QED BY <1>1, <3>1, <3>2, <3>3 DEF There, Ends
  <2>4. CASE StartupStep(p)
    <3> DEFINE at == proc[p].at
    <3>1. at \in Stages /\ Works(p, at) /\ files' = Made(p, at)
      BY <2>1, <2>4, StartupStages DEF StartupStep
    <3>2. p # Nobody /\ files \in [File -> Proc \cup {Nobody}]
      BY <1>1 DEF Proc, Nobody, Inv, Types
    <3>3. CASE at = "rename"
      <4>1. files' = [files EXCEPT !["pid.tmp"] = Nobody, !["pid"] = files["pid.tmp"]]
        BY <3>1, <3>3 DEF Made
      <4>2. files["pid.tmp"] # Nobody
        BY <3>1, <3>3 DEF Works, There
      <4>3. QED BY <1>1, <3>2, <4>1, <4>2 DEF There, File
    <3>4. CASE at # "rename"
      <4>1. files'[f] \in {files[f], p}
        BY <3>1, <3>2, <3>4 DEF Made, Stages, File
      <4>2. QED BY <1>1, <3>2, <4>1 DEF There
    <3>5. QED BY <3>3, <3>4
  <2>5. QED BY <2>2, <2>3, <2>4
<1>2. Inv /\ [Next]_vars =>
        [\A f \in File : There(f) /\ files'[f] = Nobody => Own(f)]_vars
  BY <1>1
<1>3. QED BY <1>2, InvHolds, PTL DEF Spec, OnlyOwn

\* When the editor has waited for the end of the server nothing is left of it.
THEOREM ExitsAreComplete ==
  ASSUME ~DuringEnd
  PROVE  Spec => ExitIsComplete
<1>1. ASSUME Inv, [Next]_vars, editor.at = "exiting", editor'.at # "exiting", NEW f \in File
      PROVE  ~There(f)
  <2>1. Exited
    BY <1>1 DEF Next, vars, Work, Check, StartupStep, Unlink, End, Fault, Timeout, Panic, Kill,
                Signal, Request, EditorWaits, Started, Polled, Send, StartOutside
  <2>2. ~There("dir")
    BY <2>1 DEF Exited
  <2>3. QED BY <1>1, <2>2 DEF Inv, Owned, There
<1>2. Inv /\ [Next]_vars =>
        [editor.at = "exiting" /\ editor'.at # "exiting" => \A f \in File : ~There(f)]_vars
  BY <1>1
<1>3. QED BY <1>2, InvHolds, PTL DEF Spec, ExitIsComplete

=============================================================================

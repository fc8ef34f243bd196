------------------------ MODULE SchedulerDaemonProofs ------------------------
(***************************************************************************)
(* One scheduler daemon on one set of files, for every number of processes *)
(* and of process numbers.                                                 *)
(***************************************************************************)
EXTENDS SchedulerDaemon, TLAPS

(* Where a process has a claim on the owner file, and where a launcher waits. *)
Claims == {"spawn", "handoff", "pidfile", "status", "record", "loop", "closing", "release"}
Launching == {"handoff", "pidfile", "status"}
Waiting == {"check", "inherit", "lock", "create", "zombie"}

(* The types, split into facts the steps below cite.                         *)
LEMMA Types ==
    ASSUME DaemonInvariant
    PROVE  /\ guard \in Procs \cup {None} /\ owner \in Record \cup {None, Torn}
           /\ pidFile \in Record \cup {None}
           /\ status \in Status \cup {None}
           /\ proc \in [Procs -> Process]
           /\ \A p \in Procs : proc[p] \in Process
           /\ \A p \in Procs : proc[p].at \in {"create", "unlink", "write"} <=> guard = p
BY DEF DaemonInvariant, TypeOK

(* A process that was started has a proper record, which names it alone.     *)
LEMMA Records ==
    ASSUME DaemonInvariant, NEW p \in Procs, proc[p].at # "unborn"
    PROVE  /\ RecordOf(p) \in Record /\ RecordOf(p).who = p /\ NamesAProcess(RecordOf(p))
           /\ RecordOf(p) # None /\ RecordOf(p) # Torn /\ Readable(RecordOf(p))
<1>1. RecordOf(p) \in Record /\ RecordOf(p).who = p /\ RecordOf(p).pid \in Pids
  BY DEF DaemonInvariant, Families, RecordOf, Record
<1>2. RecordOf(p) # Torn
  BY <1>1, DaemonAssumption DEF Torn
<1>3. None \notin Record
  BY DaemonAssumption
<1>. QED
  BY <1>1, <1>2, <1>3 DEF NamesAProcess, Readable

(* A claim stands on a readable record of a process that exists.             *)
LEMMA Claimed ==
    ASSUME DaemonInvariant, NEW p \in Procs, proc[p].at \in Claims
    PROVE  /\ Readable(owner) /\ owner.who \in Procs /\ Exists(owner.who)
           /\ owner = RecordOf(owner.who)
           /\ owner.who = IF proc[p].at \in {"pidfile", "status"} THEN proc[p].child ELSE p
<1>1. CASE proc[p].at \notin {"pidfile", "status"}
  <2>1. owner = RecordOf(p)
    BY <1>1 DEF DaemonInvariant, Leases, Claims
  <2>. QED
    BY <1>1, <2>1, Records DEF Exists, Claims
<1>2. CASE proc[p].at \in {"pidfile", "status"}
  <2>1. owner = RecordOf(proc[p].child) /\ proc[p].child \in Procs
        /\ proc[proc[p].child].at \in Waiting
    BY <1>2 DEF DaemonInvariant, Leases, ChildWaits, Waiting
  <2>. QED
    BY <1>2, <2>1, Records DEF Exists, Waiting
<1>. QED
  BY <1>1, <1>2

(* Two claims are claims of one process.                                     *)
LEMMA OneClaim ==
    ASSUME DaemonInvariant, NEW p \in Procs, NEW q \in Procs,
           proc[p].at \in Claims, proc[q].at \in Claims
    PROVE  p = q
<1>1. ASSUME NEW r \in Procs, proc[r].at \in {"pidfile", "status"}
      PROVE  /\ proc[r].child \in Procs /\ proc[proc[r].child].parent = r
             /\ proc[proc[r].child].at \notin Claims
  BY <1>1 DEF DaemonInvariant, ChildWaits, Claims
<1>. QED
  BY <1>1, Claimed

(* A lease is stale only when the process it names is gone.                  *)
LEMMA StaleIsGone ==
    ASSUME DaemonInvariant, NEW known \in BOOLEAN, Stale(owner, known)
    PROVE  Readable(owner) /\ ~Exists(owner.who)
<1>1. Readable(owner)
  BY DEF Stale
<1>2. owner.who \in Procs /\ owner.pid = proc[owner.who].pid
  BY <1>1 DEF DaemonInvariant, RecordsTrue, NamesAProcess, RecordOf
<1>. QED
  BY <1>1, <1>2 DEF Stale, Answers

-----------------------------------------------------------------------------
(* What a step does to the processes. *)

(* Process p goes to place; every process keeps its identity; zombies of p    *)
(* may be reaped.                                                             *)
Step(p, place) ==
    /\ proc' \in [Procs -> Process]
    /\ \A q \in Procs : /\ proc'[q].pid = proc[q].pid /\ proc'[q].role = proc[q].role
                        /\ proc'[q].token = proc[q].token /\ proc'[q].parent = proc[q].parent
                        /\ proc'[q].child = proc[q].child
    /\ proc'[p].at = place
    /\ \A q \in Procs \ {p} :
          \/ proc'[q].at = proc[q].at
          \/ /\ proc[q].at = "zombie" /\ proc[q].parent = p
             /\ proc'[q].at = "dead" /\ place \in {"zombie", "dead"}

Quiet == \A q \in Procs : proc'[q].scanned = proc[q].scanned

(* Going from one place to the next.                                         *)
LEMMA GoesStep ==
    ASSUME DaemonInvariant, NEW p \in Procs, NEW place \in Places, Goes(p, place)
    PROVE  Step(p, place) /\ Quiet
<1>1. proc \in [Procs -> Process] /\ \A q \in Procs : proc[q] \in Process
  BY Types
<1>. DEFINE x == [proc[p] EXCEPT !.at = place]
<1>2. /\ x \in Process /\ x.at = place /\ x.pid = proc[p].pid /\ x.role = proc[p].role
      /\ x.token = proc[p].token /\ x.parent = proc[p].parent /\ x.child = proc[p].child
      /\ x.scanned = proc[p].scanned
  BY <1>1 DEF Process
<1>3. proc' = [proc EXCEPT ![p] = x]
  BY <1>1 DEF Goes
<1>. HIDE DEF x
<1>4. proc' \in [Procs -> Process] /\ proc'[p] = x /\ \A q \in Procs \ {p} : proc'[q] = proc[q]
  BY <1>1, <1>2, <1>3
<1>. QED
  BY <1>2, <1>4 DEF Step, Quiet

(* The end of a process.                                                      *)
LEMMA EndedStep ==
    ASSUME DaemonInvariant, NEW p \in Procs, proc' = Ended(proc, p)
    PROVE  \E place \in {"zombie", "dead"} :
              /\ Step(p, place) /\ Quiet
              /\ place = "zombie" <=> proc[p].role = "child" /\ Lives(proc[p].parent)
<1>1. proc \in [Procs -> Process] /\ \A q \in Procs : proc[q] \in Process
  BY Types
<1>. DEFINE place == IF proc[p].role = "child" /\ Lives(proc[p].parent) THEN "zombie" ELSE "dead"
            x == [q \in Procs |->
                    CASE q = p -> [proc[q] EXCEPT !.at = place]
                      [] proc[q].at = "zombie" /\ proc[q].parent = p ->
                            [proc[q] EXCEPT !.at = "dead"]
                      [] OTHER -> proc[q]]
<1>2. proc' = x
  BY DEF Ended
<1>3. place \in {"zombie", "dead"} /\ place \in Places /\ "dead" \in Places
  BY DEF Places
<1>. HIDE DEF place
<1>4. ASSUME NEW q \in Procs
      PROVE  /\ x[q] \in Process /\ x[q].pid = proc[q].pid /\ x[q].role = proc[q].role
             /\ x[q].token = proc[q].token /\ x[q].parent = proc[q].parent
             /\ x[q].child = proc[q].child /\ x[q].scanned = proc[q].scanned
             /\ q = p => x[q].at = place
             /\ q # p => \/ x[q].at = proc[q].at
                         \/ proc[q].at = "zombie" /\ proc[q].parent = p /\ x[q].at = "dead"
  <2>1. CASE q = p
    <3>1. ~(proc[p].at = "zombie" /\ proc[p].parent = p)
      BY DEF DaemonInvariant, Families
    <3>2. x[q] = [proc[q] EXCEPT !.at = place]
      BY <2>1, <3>1
    <3>. HIDE DEF x
    <3>. QED
      BY <1>1, <1>3, <2>1, <3>2 DEF Process
  <2>2. CASE q # p /\ proc[q].at = "zombie" /\ proc[q].parent = p
    BY <1>1, <1>3, <2>2 DEF Process
  <2>3. CASE q # p /\ ~(proc[q].at = "zombie" /\ proc[q].parent = p)
    BY <1>1, <2>3
  <2>. QED
    BY <2>1, <2>2, <2>3
<1>5. x \in [Procs -> Process]
  BY <1>4
<1>. HIDE DEF x
<1>6. Step(p, place) /\ Quiet
  BY <1>2, <1>3, <1>4, <1>5 DEF Step, Quiet
<1>7. place = "zombie" <=> proc[p].role = "child" /\ Lives(proc[p].parent)
  BY DEF place
<1>. QED
  BY <1>3, <1>6, <1>7

-----------------------------------------------------------------------------
(* What every step preserves of the invariant. *)

(* No identity changes, and nobody comes back.                               *)
LEMMA Identities ==
    ASSUME DaemonInvariant, NEW p \in Procs, NEW place \in Places \ {"unborn"}, Step(p, place),
           Exists(p)
    PROVE  /\ \A q \in Procs : RecordOf(q)' = RecordOf(q) /\ (Exists(q)' => Exists(q))
           /\ \A q \in Procs : proc'[q].at = "unborn" <=> proc[q].at = "unborn"
           /\ \A q, r \in Procs : (Exists(q) /\ Exists(r) /\ proc[q].pid = proc[r].pid)' => q = r
           /\ \A rec : NamesAProcess(rec) => NamesAProcess(rec)'
<1>1. \A q \in Procs : RecordOf(q)' = RecordOf(q)
  BY DEF Step, RecordOf
<1>2. \A q \in Procs : Exists(q)' => Exists(q)
  BY DEF Step, Exists
<1>3. \A q \in Procs : proc'[q].at = "unborn" <=> proc[q].at = "unborn"
  BY DEF Step, Exists
<1>4. \A q, r \in Procs : (Exists(q) /\ Exists(r) /\ proc[q].pid = proc[r].pid)' => q = r
  BY <1>2 DEF DaemonInvariant, TypeOK, Step
<1>5. \A rec : NamesAProcess(rec) => NamesAProcess(rec)'
  BY <1>1, <1>3 DEF NamesAProcess
<1>. QED
  BY <1>1, <1>2, <1>3, <1>4, <1>5

(* Families stay.                                                             *)
LEMMA FamiliesKept ==
    ASSUME DaemonInvariant, NEW p \in Procs, NEW place \in Places \ {"unborn"}, Step(p, place),
           Exists(p), place = "zombie" => proc[p].role = "child",
           place \in {"spawn", "handoff", "pidfile", "status"} => proc[p].role = "launcher",
           place \in Starting => proc[p].at \in Starting
    PROVE  Families'
<1>1. ASSUME NEW q \in Procs
      PROVE  /\ proc'[q].at # "unborn" => proc'[q].pid \in Pids /\ proc'[q].token \in Procs
             /\ proc'[q].role = "child" => /\ proc'[q].parent \in Procs
                                           /\ proc'[proc'[q].parent].role = "launcher"
                                           /\ proc'[proc'[q].parent].child = q
             /\ proc'[q].at = "unborn" => proc'[q].role = "none"
  <2>1. /\ proc[q].at # "unborn" => proc[q].pid \in Pids /\ proc[q].token \in Procs
        /\ proc[q].role = "child" => /\ proc[q].parent \in Procs
                                     /\ proc[proc[q].parent].role = "launcher"
                                     /\ proc[proc[q].parent].child = q
        /\ proc[q].at = "unborn" => proc[q].role = "none"
    BY DEF DaemonInvariant, Families
  <2>. QED
    BY <2>1, Identities DEF Step
<1>2. ASSUME NEW q \in Procs
      PROVE  /\ proc'[q].at = "zombie" => proc'[q].role = "child"
             /\ proc'[q].at \in {"spawn", "handoff", "pidfile", "status"} =>
                   proc'[q].role = "launcher"
             /\ proc'[q].at \in Starting => proc'[q].child = None
  BY DEF DaemonInvariant, Families, Step, Starting
<1>. QED
  BY <1>1, <1>2 DEF Families

(* A launcher that still has files to write goes on as it was.               *)
LEMMA WaitsKept ==
    ASSUME DaemonInvariant, NEW p \in Procs, NEW place \in Places \ {"unborn"}, Step(p, place),
           place \in Launching => proc[p].at \in Launching,
           \A q \in Procs : proc[q].at \in Launching /\ proc[q].child = p => place \in Waiting,
           \A q \in Procs : proc[q].at \in Launching /\ proc'[q].at \in Launching =>
               status' = status \/ status'.rec.who # proc[q].child
    PROVE  ChildWaits'
<1>1. ASSUME NEW q \in Procs, proc'[q].at \in Launching
      PROVE  /\ proc'[q].child \in Procs
             /\ proc'[proc'[q].child].role = "child" /\ proc'[proc'[q].child].parent = q
             /\ proc'[proc'[q].child].at \in Waiting
             /\ status' # None => status'.rec.who # proc'[q].child
  <2>1. proc[q].at \in Launching /\ proc'[q].child = proc[q].child
    BY <1>1 DEF Step, Launching
  <2>2. PICK c \in Procs : /\ c = proc[q].child /\ proc[c].role = "child" /\ proc[c].parent = q
                           /\ proc[c].at \in Waiting /\ (status # None => status.rec.who # c)
    BY <2>1 DEF DaemonInvariant, ChildWaits, Launching, Waiting
  <2>3. proc'[c].role = "child" /\ proc'[c].parent = q
    BY <2>2 DEF Step
  <2>4. status' # None => status'.rec.who # c
    BY <1>1, <2>1, <2>2
  <2>5. proc'[c].at \in Waiting
    <3>1. CASE c = p
      BY <2>1, <2>2, <3>1 DEF Step
    <3>2. CASE c # p /\ q = p
      BY <1>1, <2>2, <3>2 DEF Step, Waiting, Launching
    <3>3. CASE c # p /\ q # p
      BY <2>2, <3>3 DEF Step
    <3>. QED
      BY <3>1, <3>2, <3>3
  <2>. QED
    BY <2>1, <2>2, <2>3, <2>4, <2>5
<1>. QED
  BY <1>1 DEF ChildWaits, Launching, Waiting

(* The owner file suits what a process is about to do with it.               *)
Suits(p, place, file) ==
    /\ place \in Claims \ {"pidfile", "status"} => file = RecordOf(p)
    /\ place \in {"pidfile", "status"} => file = RecordOf(proc[p].child)
    /\ place = "write" => file = Torn
    /\ place = "unlink" => Readable(file) /\ file.who \in Procs /\ ~Exists(file.who)

(* Nobody else has to do with the owner file.                                *)
Alone(p) == \A q \in Procs \ {p} : proc[q].at \notin Claims \cup {"write", "unlink"}

(* The owner file stays, or only p knew it.                                   *)
LEMMA LeasesKept ==
    ASSUME DaemonInvariant, NEW p \in Procs, NEW place \in Places \ {"unborn"}, Step(p, place),
           Exists(p), place \in {"pidfile", "status"} => proc[p].at \in Launching,
           owner' = owner \/ Alone(p), NEW file, file = owner', Suits(p, place, file)
    PROVE  Leases'
<1>0. /\ \A q \in Procs : RecordOf(q)' = RecordOf(q) /\ (Exists(q)' => Exists(q))
      /\ \A q \in Procs : proc'[q].child = proc[q].child
      /\ proc'[p].at = place
  BY Identities DEF Step
<1>1. ASSUME NEW q \in Procs, proc'[q].at \in Claims \cup {"write", "unlink"}
      PROVE  Suits(q, proc'[q].at, file)
  <2>1. CASE q = p
    BY <1>0, <2>1
  <2>2. CASE q # p
    <3>1. proc'[q].at = proc[q].at
      BY <1>1, <2>2 DEF Step, Claims
    <3>2. file = owner
      BY <1>1, <2>2, <3>1 DEF Alone
    <3>. QED
      BY <3>1, <3>2
         DEF DaemonInvariant, Leases, Suits, Claims, RecordsTrue, NamesAProcess
  <2>. QED
    BY <2>1, <2>2
<1>2. ASSUME NEW q \in Procs, proc'[q].at = "unlink"
      PROVE  Readable(file) /\ proc'[file.who].at \in {"unborn", "dead"}
  <2>1. Readable(file) /\ file.who \in Procs /\ ~Exists(file.who)
    BY <1>1, <1>2 DEF Suits
  <2>. QED
    BY <1>0, <2>1 DEF Exists
<1>3. ASSUME NEW q \in Procs
      PROVE  /\ proc'[q].at \in Claims \ {"pidfile", "status"} => owner' = RecordOf(q)'
             /\ proc'[q].at = "write" => owner' = Torn
  BY <1>0, <1>1 DEF Suits
<1>4. ASSUME NEW q \in Procs, proc'[q].at \in {"pidfile", "status"}
      PROVE  owner' = [pid |-> proc'[proc'[q].child].pid, who |-> proc'[q].child,
                       token |-> proc'[proc'[q].child].token]
  <2>1. PICK c \in Procs : c = proc[q].child
    <3>1. proc[q].at \in Launching
      BY <1>4 DEF Step, Launching
    <3>. QED
      BY <3>1 DEF DaemonInvariant, ChildWaits, Launching
  <2>2. owner' = RecordOf(c)
    BY <1>1, <1>4, <2>1 DEF Suits, Claims
  <2>3. RecordOf(c)' = RecordOf(c) /\ c = proc'[q].child
    BY <1>0, <2>1
  <2>. QED
    BY <2>2, <2>3 DEF RecordOf
<1>. QED
  BY <1>2, <1>3, <1>4 DEF Leases, Claims, Exists, RecordOf, Readable

(* The files of a daemon in its loop are written by that daemon alone.       *)
LEMMA FilesKept ==
    ASSUME DaemonInvariant, NEW p \in Procs, NEW place \in Places \ {"unborn"}, Step(p, place),
           Exists(p),
           place \in Starting \cup {"record"} =>
              proc[p].at \in Starting \cup {"record"} /\ proc'[p].scanned = proc[p].scanned,
           place = "loop" =>
              /\ pidFile' = RecordOf(p)
              /\ proc'[p].scanned => status' = [rec |-> RecordOf(p), running |-> TRUE],
           \A q \in Procs \ {p} : proc[q].at \in Starting \cup {"record"} =>
              proc'[q].scanned = proc[q].scanned,
           \A q \in Procs \ {p} : proc[q].at = "loop" =>
              UNCHANGED <<pidFile, status>> /\ proc'[q].scanned = proc[q].scanned
    PROVE  OwnFiles'
<1>0. (\A q \in Procs : RecordOf(q)' = RecordOf(q)) /\ proc'[p].at = place
  BY Identities DEF Step
<1>1. ASSUME NEW q \in Procs, proc'[q].at = "loop"
      PROVE  /\ pidFile' = RecordOf(q)
             /\ proc'[q].scanned => status' = [rec |-> RecordOf(q), running |-> TRUE]
  <2>1. CASE q = p
    BY <1>0, <1>1, <2>1
  <2>2. CASE q # p
    <3>1. proc[q].at = "loop"
      BY <1>1, <2>2 DEF Step
    <3>2. UNCHANGED <<pidFile, status>> /\ proc'[q].scanned = proc[q].scanned
      BY <2>2, <3>1
    <3>. QED
      BY <3>1, <3>2 DEF DaemonInvariant, OwnFiles
  <2>. QED
    BY <2>1, <2>2
<1>2. ASSUME NEW q \in Procs, proc'[q].at \in Starting \cup {"record"}
      PROVE  ~proc'[q].scanned
  <2>1. proc[q].at \in Starting \cup {"record"} /\ proc'[q].scanned = proc[q].scanned
    BY <1>0, <1>2 DEF Step, Starting
  <2>. QED
    BY <2>1 DEF DaemonInvariant, OwnFiles
<1>. QED
  BY <1>0, <1>1, <1>2 DEF OwnFiles

(* What the files say stays true of the processes.                           *)
Says(new, old) ==
    new = old \/ \E q \in Procs : proc[q].at # "unborn" /\ new = RecordOf(q)

LEMMA RecordsKept ==
    ASSUME DaemonInvariant, NEW p \in Procs, NEW place \in Places \ {"unborn"}, Step(p, place),
           Exists(p),
           owner' \in {None, Torn} \/ Says(owner', owner),
           Says(pidFile', pidFile),
           status' = status \/ \E q \in Procs, b \in BOOLEAN :
              proc[q].at # "unborn" /\ status' = [rec |-> RecordOf(q), running |-> b]
    PROVE  /\ owner' \in Record \cup {None, Torn} /\ pidFile' \in Record \cup {None}
           /\ status' \in Status \cup {None}
           /\ RecordsTrue'
<1>. DEFINE o == owner'
            f == pidFile'
            s == status'
<1>1. \A q \in Procs : proc[q].at # "unborn" =>
         RecordOf(q) \in Record /\ NamesAProcess(RecordOf(q))
  BY Records
<1>2. /\ o \in Record \cup {None, Torn} /\ f \in Record \cup {None}
      /\ s \in Status \cup {None}
  BY <1>1, Types DEF Says, Status
<1>3. /\ Readable(o) => NamesAProcess(o)
      /\ f # None => NamesAProcess(f)
      /\ s # None => NamesAProcess(s.rec)
  BY <1>1 DEF Says, Readable, DaemonInvariant, RecordsTrue
<1>4. \A rec : NamesAProcess(rec) =>
         /\ rec.who \in Procs /\ proc'[rec.who].at # "unborn"
         /\ rec = [pid |-> proc'[rec.who].pid, who |-> rec.who, token |-> proc'[rec.who].token]
  BY Identities DEF NamesAProcess, RecordOf
<1>5. RecordsTrue'
  BY <1>3, <1>4 DEF RecordsTrue, NamesAProcess, Readable, RecordOf
<1>. QED
  BY <1>2, <1>5

-----------------------------------------------------------------------------
(* Steps. *)

(* Taking, keeping and leaving the lock of the lock file.                    *)
Guarded == {"create", "unlink", "write"}

LEMMA GuardKept ==
    ASSUME DaemonInvariant, NEW p \in Procs, NEW place \in Places \ {"unborn"}, Step(p, place),
           \/ guard' = guard /\ (place \in Guarded <=> proc[p].at \in Guarded)
           \/ guard = None /\ guard' = p /\ place \in Guarded
           \/ guard = p /\ guard' = None /\ place \notin Guarded
    PROVE  /\ guard' \in Procs \cup {None}
           /\ \A q \in Procs : proc'[q].at \in Guarded <=> guard' = q
<1>1. guard \in Procs \cup {None} /\ \A q \in Procs : proc[q].at \in Guarded <=> guard = q
  BY Types DEF Guarded
<1>2. \A q \in Procs \ {p} : proc'[q].at \in Guarded <=> proc[q].at \in Guarded
  BY DEF Step, Guarded
<1>3. None \notin Procs
  BY DaemonAssumption
<1>. QED
  BY <1>1, <1>2, <1>3 DEF Step

(* A step of process p, with all it may write.                               *)
LEMMA AnyStep ==
    ASSUME DaemonInvariant, NEW p \in Procs, NEW place \in Places \ {"unborn"}, Step(p, place),
           Exists(p), place = "zombie" => proc[p].role = "child",
           place = "spawn" => proc[p].role = "launcher",
           place \in Starting => proc[p].at \in Starting,
           place \in Starting \cup {"record"} =>
              proc[p].at \in Starting \cup {"record"} /\ proc'[p].scanned = proc[p].scanned,
           place \in Launching => proc[p].at \in Launching,
           \A q \in Procs : proc[q].at \in Launching /\ proc[q].child = p => place \in Waiting,
           \/ guard' = guard /\ (place \in Guarded <=> proc[p].at \in Guarded)
           \/ guard = None /\ guard' = p /\ place \in Guarded
           \/ guard = p /\ guard' = None /\ place \notin Guarded,
           owner' = owner \/ (Alone(p) /\ (owner' \in {None, Torn} \/ Says(owner', owner))),
           NEW file, file = owner', Suits(p, place, file),
           Says(pidFile', pidFile),
           \/ status' = status
           \/ \E r \in Procs, b \in BOOLEAN :
                 /\ proc[r].at # "unborn" /\ status' = [rec |-> RecordOf(r), running |-> b]
                 /\ \A q \in Procs : proc[q].at \in Launching /\ proc'[q].at \in Launching =>
                                        proc[q].child # r,
           place = "loop" =>
              /\ pidFile' = RecordOf(p)
              /\ proc'[p].scanned => status' = [rec |-> RecordOf(p), running |-> TRUE],
           \A q \in Procs \ {p} : proc'[q].scanned = proc[q].scanned,
           \A q \in Procs \ {p} : proc[q].at = "loop" => UNCHANGED <<pidFile, status>>
    PROVE  DaemonInvariant'
<1>1. Families'
  <2>1. place \in {"spawn", "handoff", "pidfile", "status"} => proc[p].role = "launcher"
    BY DEF DaemonInvariant, Families, Launching
  <2>. QED
    BY <2>1, FamiliesKept
<1>2. ChildWaits'
  <2>1. ASSUME NEW q \in Procs, proc[q].at \in Launching, proc'[q].at \in Launching
        PROVE  status' = status \/ status'.rec.who # proc[q].child
    <3>1. CASE status' # status
      <4>1. PICK r \in Procs, b \in BOOLEAN :
               /\ proc[r].at # "unborn" /\ status' = [rec |-> RecordOf(r), running |-> b]
               /\ proc[q].child # r
        BY <2>1, <3>1
      <4>2. status' \in Status /\ status'.rec.who = r
        BY <4>1, Records DEF Status
      <4>. QED
        BY <4>1, <4>2
    <3>. QED
      BY <3>1
  <2>. QED
    BY <2>1, WaitsKept
<1>3. Leases'
  BY LeasesKept DEF Launching
<1>4. OwnFiles'
  BY FilesKept
<1>5. RecordsTrue' /\ TypeOK'
  <2>1. /\ owner' \in Record \cup {None, Torn} /\ pidFile' \in Record \cup {None}
        /\ status' \in Status \cup {None}
        /\ RecordsTrue'
    BY RecordsKept DEF Says
  <2>2. /\ guard' \in Procs \cup {None}
        /\ \A q \in Procs : proc'[q].at \in Guarded <=> guard' = q
    BY GuardKept
  <2>. QED
    BY <2>1, <2>2, Identities DEF TypeOK, Step, Guarded
<1>. QED
  BY <1>1, <1>2, <1>3, <1>4, <1>5 DEF DaemonInvariant

(* A step that writes no file.                                               *)
LEMMA NoFileStep ==
    ASSUME DaemonInvariant, NEW p \in Procs, NEW place \in Places \ {"unborn"}, Step(p, place),
           Quiet, Exists(p), UNCHANGED <<owner, pidFile, status>>,
           place = "zombie" => proc[p].role = "child",
           place \in Launching \cup {"spawn", "loop"} => proc[p].at = place,
           place \in Starting => proc[p].at \in Starting,
           place = "record" => proc[p].at \in Starting \cup {"record"},
           \A q \in Procs : proc[q].at \in Launching /\ proc[q].child = p => place \in Waiting,
           Suits(p, place, owner),
           \/ guard' = guard /\ (place \in Guarded <=> proc[p].at \in Guarded)
           \/ guard = None /\ guard' = p /\ place \in Guarded
           \/ guard = p /\ guard' = None /\ place \notin Guarded
    PROVE  DaemonInvariant'
<1>1. place = "spawn" => proc[p].role = "launcher"
  BY DEF DaemonInvariant, Families
<1>2. Says(pidFile', pidFile)
  BY DEF Says
<1>3. place = "loop" =>
         /\ pidFile' = RecordOf(p)
         /\ proc'[p].scanned => status' = [rec |-> RecordOf(p), running |-> TRUE]
  BY DEF Quiet, DaemonInvariant, OwnFiles
<1>. QED
  BY <1>1, <1>2, <1>3, AnyStep DEF Quiet

(* A child that waits is in its place; a launcher with files to write is no child. *)
LEMMA ChildOf ==
    ASSUME DaemonInvariant, NEW p \in Procs, NEW q \in Procs,
           proc[q].at \in Launching, proc[q].child = p
    PROVE  /\ proc[p].at \in Waiting /\ proc[p].role = "child" /\ proc[p].parent = q
           /\ Lives(q) /\ Exists(p) /\ q # p
           /\ status # None => status.rec.who # p
           /\ Readable(owner) /\ owner.who \in {p, q}
<1>1. /\ proc[p].at \in Waiting /\ proc[p].role = "child" /\ proc[p].parent = q
      /\ status # None => status.rec.who # p
  BY DEF DaemonInvariant, ChildWaits, Launching, Waiting
<1>2. Lives(q) /\ Exists(p)
  BY <1>1 DEF Lives, Exists, Launching, Waiting
<1>3. q # p
  BY <1>1 DEF Launching, Waiting
<1>4. Readable(owner) /\ owner.who \in {p, q}
  BY Claimed DEF Launching, Claims
<1>. QED
  BY <1>1, <1>2, <1>3, <1>4

(* The end of a process that writes no file.                                 *)
LEMMA EndStep ==
    ASSUME DaemonInvariant, NEW p \in Procs, Exists(p), proc' = Ended(proc, p),
           UNCHANGED <<owner, pidFile, status>>,
           guard' = IF guard = p THEN None ELSE guard
    PROVE  DaemonInvariant'
<1>1. PICK place \in {"zombie", "dead"} :
         /\ Step(p, place) /\ Quiet
         /\ place = "zombie" <=> proc[p].role = "child" /\ Lives(proc[p].parent)
  BY EndedStep
<1>2. place \in Places \ {"unborn"}
  BY <1>1 DEF Places
<1>3. ASSUME NEW q \in Procs, proc[q].at \in Launching, proc[q].child = p
      PROVE  place \in Waiting
  BY <1>1, <1>3, ChildOf DEF Waiting
<1>4. Suits(p, place, owner)
  BY <1>1 DEF Suits, Claims
<1>5. \/ guard' = guard /\ (place \in Guarded <=> proc[p].at \in Guarded)
      \/ guard = p /\ guard' = None /\ place \notin Guarded
  BY <1>1, Types DEF Guarded
<1>. QED
  BY <1>1, <1>2, <1>3, <1>4, <1>5, NoFileStep DEF Starting, Launching

LEMMA CheckStep ==
    ASSUME DaemonInvariant, NEW p \in Procs, Check(p)
    PROVE  DaemonInvariant'
<1>1. Exists(p) /\ guard # p
  BY Types DEF Check, Exists
<1>2. CASE proc' = Ended(proc, p)
  BY <1>1, <1>2, EndStep DEF Check
<1>3. ASSUME NEW place \in {"inherit", "lock"}, Goes(p, place) PROVE DaemonInvariant'
  <2>1. place \in Places \ {"unborn"} /\ place \in Waiting
    BY DEF Places, Waiting
  <2>2. Step(p, place) /\ Quiet
    BY <1>3, <2>1, GoesStep
  <2>3. Suits(p, place, owner)
    BY DEF Suits, Claims
  <2>. QED
    BY <1>1, <2>1, <2>2, <2>3, NoFileStep DEF Starting, Check, Launching, Guarded
<1>. QED
  BY <1>2, <1>3 DEF Check, Goes

LEMMA DieStep ==
    ASSUME DaemonInvariant, NEW p \in Procs, Die(p)
    PROVE  DaemonInvariant'
BY EndStep DEF Die, Lives

LEMMA LockStep ==
    ASSUME DaemonInvariant, NEW p \in Procs, Lock(p)
    PROVE  DaemonInvariant'
<1>1. Step(p, "create") /\ Quiet /\ "create" \in Places \ {"unborn"}
  BY GoesStep DEF Lock, LockGuard, Places
<1>2. Exists(p) /\ Suits(p, "create", owner)
  BY DEF Lock, LockGuard, Exists, Suits, Claims
<1>. QED
  BY <1>1, <1>2, NoFileStep DEF Starting, Lock, LockGuard, Launching, Waiting, Guarded

(* Without an owner file, or with the one of a process that is gone, nobody   *)
(* has a claim.                                                               *)
LEMMA GuardedAlone ==
    ASSUME DaemonInvariant, NEW p \in Procs, proc[p].at \in Guarded,
           Readable(owner) => ~Exists(owner.who)
    PROVE  Alone(p)
<1>1. guard = p
  BY Types DEF Guarded
<1>2. \A q \in Procs : proc[q].at \notin Claims
  BY Claimed
<1>. QED
  BY <1>1, <1>2, Types DEF Alone

LEMMA CreateStep ==
    ASSUME DaemonInvariant, NEW p \in Procs, Create(p)
    PROVE  DaemonInvariant'
<1>0. Exists(p) /\ proc[p].at = "create" /\ guard = p /\ UNCHANGED <<pidFile, status>>
  BY Types DEF Create, Exists
<1>1. CASE owner = None /\ owner' = Torn /\ Goes(p, "write") /\ UNCHANGED guard
  <2>1. Step(p, "write") /\ Quiet /\ "write" \in Places \ {"unborn"}
    BY <1>1, GoesStep DEF Places
  <2>2. Alone(p) /\ Suits(p, "write", owner')
    BY <1>0, <1>1, GuardedAlone DEF Readable, Guarded, Suits, Claims
  <2>3. \A q \in Procs : ~(proc[q].at \in Launching /\ proc[q].child = p)
    BY <1>1, ChildOf DEF Readable
  <2>4. Says(pidFile', pidFile)
    BY <1>0 DEF Says
  <2>. QED
    BY <1>0, <1>1, <2>1, <2>2, <2>3, <2>4, AnyStep DEF Starting, Launching, Guarded, Quiet
<1>2. ASSUME NEW known \in BOOLEAN, Stale(owner, known), UNCHANGED <<owner, guard>>,
             Goes(p, "unlink")
      PROVE  DaemonInvariant'
  <2>1. Step(p, "unlink") /\ Quiet /\ "unlink" \in Places \ {"unborn"}
    BY <1>2, GoesStep DEF Places
  <2>2. Readable(owner) /\ ~Exists(owner.who) /\ owner.who \in Procs
    BY <1>2, StaleIsGone DEF DaemonInvariant, RecordsTrue, NamesAProcess
  <2>3. Suits(p, "unlink", owner)
    BY <2>2 DEF Suits, Claims
  <2>4. \A q \in Procs : ~(proc[q].at \in Launching /\ proc[q].child = p)
    BY <2>2, Claimed DEF Launching, Claims
  <2>. QED
    BY <1>0, <1>2, <2>1, <2>3, <2>4, NoFileStep DEF Starting, Launching, Guarded
<1>3. CASE proc' = Ended(proc, p) /\ guard' = None /\ UNCHANGED owner
  BY <1>0, <1>3, EndStep
<1>. QED
  BY <1>1, <1>2, <1>3 DEF Create

LEMMA UnlinkStep ==
    ASSUME DaemonInvariant, NEW p \in Procs, Unlink(p)
    PROVE  DaemonInvariant'
<1>1. /\ Exists(p) /\ proc[p].at = "unlink" /\ owner' = None
      /\ UNCHANGED <<guard, pidFile, status>>
  BY DEF Unlink, Exists
<1>2. Step(p, "create") /\ Quiet /\ "create" \in Places \ {"unborn"}
  BY GoesStep DEF Unlink, Places
<1>3. Alone(p)
  BY <1>1, GuardedAlone DEF DaemonInvariant, Leases, Guarded
<1>4. Suits(p, "create", owner') /\ Says(pidFile', pidFile)
  BY <1>1 DEF Suits, Claims, Says
<1>. QED
  BY <1>1, <1>2, <1>3, <1>4, AnyStep DEF Starting, Launching, Waiting, Guarded, Quiet

LEMMA WriteStep ==
    ASSUME DaemonInvariant, NEW p \in Procs, Write(p)
    PROVE  DaemonInvariant'
<1>1. /\ Exists(p) /\ proc[p].at = "write" /\ owner' = RecordOf(p) /\ owner = Torn
      /\ guard = p /\ guard' = None /\ UNCHANGED <<pidFile, status>>
  BY Types DEF Write, Exists, DaemonInvariant, Leases
<1>2. PICK place \in {"spawn", "record"} :
         Goes(p, place) /\ (place = "spawn" => proc[p].role = "launcher")
  BY DEF Write
<1>3. Step(p, place) /\ Quiet /\ place \in Places \ {"unborn"}
  BY <1>2, GoesStep DEF Places
<1>4. Alone(p)
  BY <1>1, GuardedAlone DEF Guarded, Readable
<1>5. Suits(p, place, owner') /\ Says(pidFile', pidFile) /\ Says(owner', owner)
  BY <1>1 DEF Suits, Claims, Says, Exists
<1>6. \A q \in Procs : ~(proc[q].at \in Launching /\ proc[q].child = p)
  BY <1>1, ChildOf DEF Readable
<1>. QED
  BY <1>1, <1>2, <1>3, <1>4, <1>5, <1>6, AnyStep DEF Starting, Launching, Guarded, Quiet

(* A process is born: it has a number that was free; a launcher goes on to   *)
(* hand its lease over to it, or p is c itself and nobody else changes.      *)
LEMMA BirthStep ==
    ASSUME DaemonInvariant, NEW p \in Procs, NEW c \in Procs, proc[c].at = "unborn",
           proc' \in [Procs -> Process], UNCHANGED <<guard, owner, pidFile, status>>,
           \A q \in Procs \ {p, c} : proc'[q] = proc[q],
           proc'[c].at \in {"check", "busy"}, proc'[c].pid \in Pids, proc'[c].token \in Procs,
           proc'[c].child = None, ~proc'[c].scanned, Free(proc'[c].pid),
           \/ p = c /\ proc'[c].role \in {"launcher", "foreground", "other"}
           \/ /\ p # c /\ proc[p].at = "spawn" /\ proc'[p].at = "handoff" /\ proc'[p].child = c
              /\ proc'[p].pid = proc[p].pid /\ proc'[p].role = proc[p].role
              /\ proc'[p].token = proc[p].token /\ proc'[p].parent = proc[p].parent
              /\ proc'[c].at = "check" /\ proc'[c].role = "child" /\ proc'[c].parent = p
    PROVE  DaemonInvariant'
<1>1. \A q \in Procs \ {c} : /\ proc'[q].pid = proc[q].pid /\ proc'[q].role = proc[q].role
                             /\ proc'[q].token = proc[q].token /\ proc'[q].parent = proc[q].parent
                             /\ Exists(q)' <=> Exists(q)
                             /\ proc'[q].at = "unborn" <=> proc[q].at = "unborn"
                             /\ RecordOf(q)' = RecordOf(q)
  BY DEF RecordOf, Exists
<1>2. /\ \A q, r \in Procs : (Exists(q) /\ Exists(r) /\ proc[q].pid = proc[r].pid)' => q = r
      /\ \A q \in Procs : proc'[q].at \in {"create", "unlink", "write"} <=> guard' = q
  <2>1. ASSUME NEW q \in Procs, NEW r \in Procs,
               (Exists(q) /\ Exists(r) /\ proc[q].pid = proc[r].pid)'
        PROVE  q = r
    <3>1. CASE q # c /\ r # c
      BY <1>1, <2>1, <3>1 DEF DaemonInvariant, TypeOK
    <3>2. CASE q = c \/ r = c
      BY <1>1, <2>1, <3>2 DEF Free, Answers
    <3>. QED
      BY <3>1, <3>2
  <2>2. ASSUME NEW q \in Procs PROVE proc'[q].at \in Guarded <=> guard' = q
    <3>1. proc'[q].at \in Guarded <=> proc[q].at \in Guarded
      BY DEF Guarded
    <3>. QED
      BY <3>1, Types DEF Guarded
  <2>. QED
    BY <2>1, <2>2 DEF Guarded
<1>3. TypeOK'
  BY <1>2 DEF DaemonInvariant, TypeOK
<1>4. \A rec : NamesAProcess(rec) => rec.who # c /\ NamesAProcess(rec)'
  BY <1>1 DEF NamesAProcess
<1>5. RecordsTrue'
  BY <1>4 DEF DaemonInvariant, RecordsTrue, Readable
<1>6. ASSUME NEW q \in Procs, proc[q].role = "child" \/ proc[q].at \in Launching
      PROVE  q # c
  BY <1>6 DEF DaemonInvariant, Families, Launching
<1>7. proc[c].role = "none" /\ \A q \in Procs : proc[q].role = "child" =>
         /\ proc[q].parent \in Procs /\ proc[proc[q].parent].role = "launcher"
         /\ proc[proc[q].parent].child = q
  BY DEF DaemonInvariant, Families
<1>8. p # c => /\ proc[p].role = "launcher"
               /\ \A q \in Procs : ~(proc[q].role = "child" /\ proc[q].parent = p)
  BY <1>7, DaemonAssumption DEF DaemonInvariant, Families, Starting
<1>9. Families'
  <2>1. ASSUME NEW q \in Procs
        PROVE  /\ proc'[q].at # "unborn" => proc'[q].pid \in Pids /\ proc'[q].token \in Procs
               /\ proc'[q].at = "unborn" => proc'[q].role = "none"
               /\ proc'[q].at \in Starting => proc'[q].child = None
               /\ proc'[q].at = "zombie" => proc'[q].role = "child"
               /\ proc'[q].at \in {"spawn", "handoff", "pidfile", "status"} =>
                     proc'[q].role = "launcher"
    BY <1>8 DEF DaemonInvariant, Families, Starting
  <2>2. ASSUME NEW q \in Procs, proc'[q].role = "child"
        PROVE  /\ proc'[q].parent \in Procs
               /\ proc'[proc'[q].parent].role = "launcher"
               /\ proc'[proc'[q].parent].child = q
    <3>1. CASE q = c
      BY <1>1, <1>8, <2>2, <3>1
    <3>2. CASE q # c
      BY <1>1, <1>6, <1>7, <1>8, <2>2, <3>2
    <3>. QED
      BY <3>1, <3>2
  <2>. QED
    BY <2>1, <2>2 DEF Families
<1>10. ChildWaits'
  <2>1. ASSUME NEW q \in Procs, proc'[q].at \in Launching
        PROVE  /\ proc'[q].child \in Procs
               /\ proc'[proc'[q].child].role = "child" /\ proc'[proc'[q].child].parent = q
               /\ proc'[proc'[q].child].at \in Waiting
               /\ status' # None => status'.rec.who # proc'[q].child
    <3>1. CASE q = p /\ p # c
      BY <1>4, <3>1 DEF DaemonInvariant, RecordsTrue, Waiting
    <3>2. CASE q # p
      <4>1. proc[q].at \in Launching /\ q # c /\ proc'[q] = proc[q]
        BY <2>1, <3>2 DEF Launching
      <4>2. PICK d \in Procs : /\ d = proc[q].child /\ proc[d].role = "child"
                               /\ proc[d].parent = q /\ proc[d].at \in Waiting
                               /\ status # None => status.rec.who # d
        BY <4>1 DEF DaemonInvariant, ChildWaits, Launching, Waiting
      <4>3. d # c /\ (p # c => d # p)
        BY <1>6, <1>8, <4>2
      <4>. QED
        BY <4>1, <4>2, <4>3
    <3>. QED
      BY <2>1, <3>1, <3>2 DEF Launching
  <2>. QED
    BY <2>1 DEF ChildWaits, Launching, Waiting
<1>11. OwnFiles'
  <2>1. ASSUME NEW q \in Procs, proc'[q].at = "loop"
        PROVE  q # c /\ proc'[q] = proc[q]
    BY <2>1
  <2>2. ASSUME NEW q \in Procs, proc'[q].at \in Starting \cup {"record"}
        PROVE  ~proc'[q].scanned
    <3>1. q = c \/ proc'[q] = proc[q]
      BY <2>2 DEF Starting
    <3>. QED
      BY <2>2, <3>1 DEF DaemonInvariant, OwnFiles
  <2>. QED
    BY <1>1, <2>1, <2>2 DEF DaemonInvariant, OwnFiles
<1>12. Leases'
  <2>1. ASSUME NEW q \in Procs, proc'[q].at \in Claims \ {"pidfile", "status"}
        PROVE  owner = RecordOf(q)'
    BY <1>1, <2>1 DEF DaemonInvariant, Leases, Claims
  <2>2. ASSUME NEW q \in Procs, proc'[q].at \in {"pidfile", "status"}
        PROVE  owner = [pid |-> proc'[proc'[q].child].pid, who |-> proc'[q].child,
                        token |-> proc'[proc'[q].child].token]
    <3>1. q # c /\ q # p /\ proc'[q] = proc[q]
      BY <2>2
    <3>2. PICK d \in Procs : d = proc[q].child /\ proc[d].role = "child"
      BY <2>2, <3>1 DEF DaemonInvariant, ChildWaits
    <3>3. owner = RecordOf(d)
      BY <2>2, <3>1, <3>2 DEF DaemonInvariant, Leases
    <3>4. RecordOf(d)' = RecordOf(d)
      BY <1>1, <1>6, <3>2
    <3>. QED
      BY <3>1, <3>2, <3>3, <3>4 DEF RecordOf
  <2>3. ASSUME NEW q \in Procs, proc'[q].at = "write" PROVE owner = Torn
    BY <2>3 DEF DaemonInvariant, Leases
  <2>4. ASSUME NEW q \in Procs, proc'[q].at = "unlink"
        PROVE  Readable(owner) /\ ~Exists(owner.who)'
    <3>1. Readable(owner) /\ ~Exists(owner.who)
      BY <2>4 DEF DaemonInvariant, Leases
    <3>2. owner.who \in Procs /\ owner.who # c
      BY <1>4, <3>1 DEF DaemonInvariant, RecordsTrue, NamesAProcess
    <3>. QED
      BY <1>1, <3>1, <3>2 DEF Exists
  <2>. QED
    BY <2>1, <2>2, <2>3, <2>4 DEF Leases, Claims, RecordOf, Readable, Exists
<1>. QED
  BY <1>3, <1>5, <1>9, <1>10, <1>11, <1>12 DEF DaemonInvariant

LEMMA StartStep ==
    ASSUME DaemonInvariant, NEW p \in Procs, NEW role \in {"launcher", "foreground", "other"},
           Start(p, role)
    PROVE  DaemonInvariant'
<1>1. PICK pid \in Pids :
         /\ Free(pid)
         /\ proc' = [proc EXCEPT ![p] =
               [Unborn EXCEPT !.at = IF role = "other" THEN "busy" ELSE "check",
                              !.role = role, !.pid = pid, !.token = p]]
  BY DEF Start
<1>. DEFINE x == [Unborn EXCEPT !.at = IF role = "other" THEN "busy" ELSE "check",
                               !.role = role, !.pid = pid, !.token = p]
<1>2. /\ x \in Process /\ x.at \in {"check", "busy"} /\ x.role = role /\ x.pid = pid
      /\ x.token = p /\ x.child = None /\ ~x.scanned
  BY DEF Unborn, Process, Places, Roles
<1>3. proc' = [proc EXCEPT ![p] = x]
  BY <1>1
<1>. HIDE DEF x
<1>4. proc' \in [Procs -> Process] /\ proc'[p] = x /\ \A q \in Procs \ {p} : proc'[q] = proc[q]
  BY <1>2, <1>3, Types
<1>. QED
  <2>1. /\ proc[p].at = "unborn" /\ UNCHANGED <<guard, owner, pidFile, status>>
        /\ proc'[p].at \in {"check", "busy"} /\ proc'[p].pid \in Pids
        /\ proc'[p].token \in Procs /\ proc'[p].child = None /\ ~proc'[p].scanned
        /\ Free(proc'[p].pid) /\ proc'[p].role \in {"launcher", "foreground", "other"}
    BY <1>1, <1>2, <1>4 DEF Start
  <2>. QED
    BY <1>4, <2>1, BirthStep

LEMMA SpawnStep ==
    ASSUME DaemonInvariant, NEW p \in Procs, Spawn(p)
    PROVE  DaemonInvariant'
<1>0. /\ proc[p].at = "spawn" /\ Exists(p) /\ UNCHANGED <<guard, owner, pidFile, status>>
      /\ proc \in [Procs -> Process] /\ proc[p] \in Process
  BY Types DEF Spawn, Exists
<1>1. ASSUME NEW c \in Procs, NEW pid \in Pids, proc[c].at = "unborn", Free(pid),
             proc' = [proc EXCEPT
                   ![p].at = "handoff", ![p].child = c,
                   ![c] = [Unborn EXCEPT !.at = "check", !.role = "child", !.pid = pid,
                                         !.token = p, !.parent = p]]
      PROVE  DaemonInvariant'
  <2>. DEFINE x == [Unborn EXCEPT !.at = "check", !.role = "child", !.pid = pid,
                                  !.token = p, !.parent = p]
              y == [proc[p] EXCEPT !.at = "handoff", !.child = c]
  <2>1. /\ x \in Process /\ x.at = "check" /\ x.role = "child" /\ x.pid = pid /\ x.token = p
        /\ x.parent = p /\ x.child = None /\ ~x.scanned
    BY DEF Unborn, Process, Places, Roles
  <2>2. /\ y \in Process /\ y.at = "handoff" /\ y.child = c /\ y.pid = proc[p].pid
        /\ y.role = proc[p].role /\ y.token = proc[p].token /\ y.parent = proc[p].parent
    BY <1>0 DEF Process, Places
  <2>3. p # c
    BY <1>0, <1>1
  <2>4. proc' = [proc EXCEPT ![p] = y, ![c] = x]
    BY <1>0, <1>1, <2>3
  <2>. HIDE DEF x, y
  <2>5. /\ proc' \in [Procs -> Process] /\ proc'[p] = y /\ proc'[c] = x
        /\ \A q \in Procs \ {p, c} : proc'[q] = proc[q]
    BY <1>0, <2>1, <2>2, <2>3, <2>4
  <2>6. /\ proc'[c].at = "check" /\ proc'[c].pid \in Pids /\ proc'[c].token \in Procs
        /\ proc'[c].child = None /\ ~proc'[c].scanned /\ Free(proc'[c].pid)
    BY <1>1, <2>1, <2>5
  <2>7. /\ p # c /\ proc[p].at = "spawn" /\ proc'[p].at = "handoff" /\ proc'[p].child = c
        /\ proc'[p].pid = proc[p].pid /\ proc'[p].role = proc[p].role
        /\ proc'[p].token = proc[p].token /\ proc'[p].parent = proc[p].parent
        /\ proc'[c].at = "check" /\ proc'[c].role = "child" /\ proc'[c].parent = p
    BY <1>0, <2>1, <2>2, <2>3, <2>5
  <2>. QED
    BY <1>0, <1>1, <2>5, <2>6, <2>7, BirthStep
<1>2. CASE Goes(p, "release")
  <2>1. Step(p, "release") /\ Quiet /\ "release" \in Places \ {"unborn"}
    BY <1>2, GoesStep DEF Places
  <2>2. owner = RecordOf(p)
    BY <1>0 DEF DaemonInvariant, Leases
  <2>3. Suits(p, "release", owner)
    BY <2>2 DEF Suits
  <2>4. \A q \in Procs : ~(proc[q].at \in Launching /\ proc[q].child = p)
    BY <1>0, ChildOf DEF Waiting
  <2>. QED
    BY <1>0, <2>1, <2>3, <2>4, NoFileStep DEF Starting, Launching, Guarded
<1>. QED
  BY <1>1, <1>2 DEF Spawn, Goes

(* A process with a claim is the only one; it is nobody's waiting child, and no *)
(* other process is a daemon in its loop.                                    *)
LEMMA ClaimAlone ==
    ASSUME DaemonInvariant, NEW p \in Procs, proc[p].at \in Claims
    PROVE  /\ Exists(p)
           /\ \A q \in Procs \ {p} : proc[q].at \notin Claims
           /\ \A q \in Procs : ~(proc[q].at \in Launching /\ proc[q].child = p)
           /\ guard = None => Alone(p)
<1>1. \A q \in Procs \ {p} : proc[q].at \notin Claims
  BY OneClaim
<1>2. \A q \in Procs : ~(proc[q].at \in Launching /\ proc[q].child = p)
  BY ChildOf DEF Waiting, Claims
<1>3. guard = None => Alone(p)
  BY <1>1, Types, DaemonAssumption DEF Alone
<1>. QED
  BY <1>1, <1>2, <1>3 DEF Exists, Claims

LEMMA HandoffStep ==
    ASSUME DaemonInvariant, NEW p \in Procs, Handoff(p)
    PROVE  DaemonInvariant'
<1>. DEFINE c == proc[p].child
<1>0. /\ proc[p].at = "handoff" /\ guard = None /\ UNCHANGED <<guard, pidFile, status>>
      /\ proc \in [Procs -> Process] /\ proc[p] \in Process
      /\ owner = RecordOf(p) /\ proc[p].at \in Claims
  BY Types DEF Handoff, DaemonInvariant, Leases, Claims
<1>1. /\ Exists(p) /\ Alone(p) /\ Readable(owner) /\ owner.token = proc[p].token
      /\ \A q \in Procs : ~(proc[q].at \in Launching /\ proc[q].child = p)
      /\ \A q \in Procs \ {p} : proc[q].at # "loop"
  BY <1>0, ClaimAlone, Records DEF Exists, RecordOf, Claims
<1>2. c \in Procs /\ c # p /\ proc[c].at # "unborn" /\ proc[c] \in Process
  BY <1>0, ChildOf, Types DEF Launching, Exists, DaemonInvariant, ChildWaits
<1>3. CASE owner' = RecordOf(c) /\ Goes(p, "pidfile")
  <2>1. Step(p, "pidfile") /\ Quiet /\ "pidfile" \in Places \ {"unborn"}
    BY <1>3, GoesStep DEF Places
  <2>2. Suits(p, "pidfile", owner') /\ Says(owner', owner) /\ Says(pidFile', pidFile)
    BY <1>0, <1>2, <1>3 DEF Suits, Says
  <2>. QED
    BY <1>0, <1>1, <2>1, <2>2, AnyStep DEF Starting, Launching, Guarded, Quiet
<1>4. CASE proc' = [Terminated(c) EXCEPT ![p].at = "release"] /\ UNCHANGED owner
  <2>. DEFINE y == [proc[p] EXCEPT !.at = "release"]
              z == IF Lives(c) THEN [proc[c] EXCEPT !.stop = TRUE] ELSE proc[c]
  <2>1. /\ y \in Process /\ y.at = "release" /\ y.pid = proc[p].pid /\ y.role = proc[p].role
        /\ y.token = proc[p].token /\ y.parent = proc[p].parent /\ y.child = proc[p].child
        /\ y.scanned = proc[p].scanned
    BY <1>0 DEF Process, Places
  <2>2. /\ z \in Process /\ z.at = proc[c].at /\ z.pid = proc[c].pid /\ z.role = proc[c].role
        /\ z.token = proc[c].token /\ z.parent = proc[c].parent /\ z.child = proc[c].child
        /\ z.scanned = proc[c].scanned
    BY <1>2 DEF Process
  <2>3. proc' = [proc EXCEPT ![p] = y, ![c] = z]
    BY <1>0, <1>2, <1>4 DEF Terminated
  <2>. HIDE DEF y, z, c
  <2>4. /\ proc' \in [Procs -> Process] /\ proc'[p] = y /\ proc'[c] = z
        /\ \A q \in Procs \ {p, c} : proc'[q] = proc[q]
    BY <1>0, <1>2, <2>1, <2>2, <2>3
  <2>5. Step(p, "release") /\ Quiet
    BY <2>1, <2>2, <2>4 DEF Step, Quiet
  <2>6. Suits(p, "release", owner) /\ "release" \in Places \ {"unborn"}
    BY <1>0 DEF Suits, Places
  <2>. QED
    BY <1>0, <1>1, <1>4, <2>5, <2>6, NoFileStep DEF Starting, Launching, Guarded
<1>. QED
  BY <1>1, <1>3, <1>4 DEF Handoff

LEMMA WritePidFileStep ==
    ASSUME DaemonInvariant, NEW p \in Procs, WritePidFile(p)
    PROVE  DaemonInvariant'
<1>. DEFINE c == proc[p].child
<1>0. /\ proc[p].at = "pidfile" /\ UNCHANGED <<guard, owner, status>>
      /\ pidFile' = RecordOf(c) /\ owner = RecordOf(c) /\ proc[p].at \in Claims
  BY DEF WritePidFile, DaemonInvariant, Leases, Claims
<1>1. /\ Exists(p)
      /\ \A q \in Procs : ~(proc[q].at \in Launching /\ proc[q].child = p)
      /\ \A q \in Procs \ {p} : proc[q].at # "loop"
  BY <1>0, ClaimAlone DEF Claims
<1>2. c \in Procs /\ proc[c].at # "unborn"
  BY <1>0, ChildOf DEF Launching, Exists, DaemonInvariant, ChildWaits
<1>3. Step(p, "status") /\ Quiet /\ "status" \in Places \ {"unborn"}
  BY GoesStep DEF WritePidFile, Places
<1>4. Suits(p, "status", owner) /\ Says(pidFile', pidFile)
  BY <1>0, <1>2 DEF Suits, Says
<1>. QED
  BY <1>0, <1>1, <1>3, <1>4, AnyStep DEF Starting, Launching, Guarded, Quiet

LEMMA WriteStatusStep ==
    ASSUME DaemonInvariant, NEW p \in Procs, WriteStatus(p)
    PROVE  DaemonInvariant'
<1>. DEFINE c == proc[p].child
<1>0. /\ proc[p].at = "status" /\ UNCHANGED <<guard, owner, pidFile>>
      /\ status' = [rec |-> RecordOf(c), running |-> TRUE] /\ proc[p].at \in Claims
      /\ proc' = Ended(proc, p)
  BY DEF WriteStatus, Claims
<1>1. /\ Exists(p)
      /\ \A q \in Procs : ~(proc[q].at \in Launching /\ proc[q].child = p)
      /\ \A q \in Procs \ {p} : proc[q].at \notin Claims
  BY <1>0, ClaimAlone DEF Claims
<1>2. c \in Procs /\ proc[c].at # "unborn"
  BY <1>0, ChildOf DEF Launching, Exists, DaemonInvariant, ChildWaits
<1>3. PICK place \in {"zombie", "dead"} :
         /\ Step(p, place) /\ Quiet
         /\ place = "zombie" <=> proc[p].role = "child" /\ Lives(proc[p].parent)
  BY <1>0, EndedStep
<1>4. place \in Places \ {"unborn"} /\ proc'[p].at = place
  BY <1>3 DEF Places, Step
<1>5. Suits(p, place, owner') /\ Says(pidFile', pidFile)
  BY <1>0, <1>3 DEF Suits, Says, Claims
<1>6. \A q \in Procs : ~(proc[q].at \in Launching /\ proc'[q].at \in Launching)
  BY <1>1, <1>3, <1>4 DEF Claims, Launching
<1>. HIDE DEF c
<1>. QED
  BY <1>0, <1>1, <1>2, <1>3, <1>4, <1>5, <1>6, AnyStep
     DEF Starting, Launching, Guarded, Quiet, Claims

LEMMA InheritStep ==
    ASSUME DaemonInvariant, NEW p \in Procs, Inherit(p)
    PROVE  DaemonInvariant'
<1>0. /\ proc[p].at = "inherit" /\ UNCHANGED <<guard, owner, pidFile, status>> /\ Exists(p)
  BY DEF Inherit, Exists
<1>1. ASSUME Goes(p, "lock") PROVE DaemonInvariant'
  <2>1. Step(p, "lock") /\ Quiet /\ "lock" \in Places \ {"unborn"}
    BY <1>1, GoesStep DEF Places
  <2>2. Suits(p, "lock", owner)
    BY DEF Suits, Claims
  <2>. QED
    BY <1>0, <2>1, <2>2, NoFileStep DEF Starting, Launching, Waiting, Guarded
<1>2. ASSUME Goes(p, "record"), Inherited(p) PROVE DaemonInvariant'
  <2>1. Step(p, "record") /\ Quiet /\ "record" \in Places \ {"unborn"}
    BY <1>2, GoesStep DEF Places
  <2>2. Suits(p, "record", owner)
    BY <1>2 DEF Suits, Inherited
  <2>3. \A q \in Procs : ~(proc[q].at \in Launching /\ proc[q].child = p)
    BY <1>0, <1>2, ChildOf, Records DEF Inherited
  <2>. QED
    BY <1>0, <2>1, <2>2, <2>3, NoFileStep DEF Starting, Launching, Guarded
<1>. QED
  BY <1>1, <1>2 DEF Inherit

LEMMA WriteRecordStep ==
    ASSUME DaemonInvariant, NEW p \in Procs, WriteRecord(p)
    PROVE  DaemonInvariant'
<1>0. /\ proc[p].at = "record" /\ UNCHANGED <<guard, owner, status>> /\ pidFile' = RecordOf(p)
      /\ proc[p].at \in Claims /\ owner = RecordOf(p) /\ ~proc[p].scanned
  BY DEF WriteRecord, Claims, DaemonInvariant, Leases, OwnFiles
<1>1. /\ Exists(p)
      /\ \A q \in Procs : ~(proc[q].at \in Launching /\ proc[q].child = p)
      /\ \A q \in Procs \ {p} : proc[q].at # "loop"
  BY <1>0, ClaimAlone DEF Claims
<1>2. Step(p, "loop") /\ Quiet /\ "loop" \in Places \ {"unborn"}
  BY GoesStep DEF WriteRecord, Places
<1>3. Suits(p, "loop", owner) /\ Says(pidFile', pidFile)
  BY <1>0, <1>1 DEF Suits, Says, Exists
<1>. QED
  BY <1>0, <1>1, <1>2, <1>3, AnyStep DEF Starting, Launching, Guarded, Quiet

LEMMA ScanStep ==
    ASSUME DaemonInvariant, NEW p \in Procs, Scan(p)
    PROVE  DaemonInvariant'
<1>0. /\ proc[p].at = "loop" /\ UNCHANGED <<guard, owner, pidFile>>
      /\ status' = [rec |-> RecordOf(p), running |-> TRUE]
      /\ proc' = [proc EXCEPT ![p].scanned = TRUE]
      /\ proc[p].at \in Claims /\ owner = RecordOf(p) /\ pidFile = RecordOf(p)
      /\ proc \in [Procs -> Process] /\ proc[p] \in Process
  BY Types DEF Scan, Claims, DaemonInvariant, Leases, OwnFiles
<1>1. /\ Exists(p)
      /\ \A q \in Procs : ~(proc[q].at \in Launching /\ proc[q].child = p)
      /\ \A q \in Procs \ {p} : proc[q].at # "loop"
  BY <1>0, ClaimAlone DEF Claims
<1>. DEFINE x == [proc[p] EXCEPT !.scanned = TRUE]
<1>2. /\ x \in Process /\ x.at = "loop" /\ x.pid = proc[p].pid /\ x.role = proc[p].role
      /\ x.token = proc[p].token /\ x.parent = proc[p].parent /\ x.child = proc[p].child
  BY <1>0 DEF Process
<1>3. proc' = [proc EXCEPT ![p] = x]
  BY <1>0
<1>. HIDE DEF x
<1>4. proc' \in [Procs -> Process] /\ proc'[p] = x /\ \A q \in Procs \ {p} : proc'[q] = proc[q]
  BY <1>0, <1>2, <1>3
<1>5. Step(p, "loop") /\ "loop" \in Places \ {"unborn"}
  BY <1>2, <1>4 DEF Step, Places
<1>6. Suits(p, "loop", owner) /\ Says(pidFile', pidFile)
  BY <1>0 DEF Suits, Says
<1>7. proc[p].at # "unborn" /\ TRUE \in BOOLEAN
  BY <1>0
<1>. QED
  BY <1>0, <1>1, <1>5, <1>6, <1>7, AnyStep DEF Starting, Launching, Guarded

LEMMA LeaveStep ==
    ASSUME DaemonInvariant, NEW p \in Procs, Leave(p)
    PROVE  DaemonInvariant'
<1>0. /\ proc[p].at = "loop" /\ UNCHANGED <<guard, owner, pidFile, status>>
      /\ proc[p].at \in Claims /\ owner = RecordOf(p)
  BY DEF Leave, Claims, DaemonInvariant, Leases
<1>1. Exists(p) /\ \A q \in Procs : ~(proc[q].at \in Launching /\ proc[q].child = p)
  BY <1>0, ClaimAlone
<1>2. Step(p, "closing") /\ Quiet /\ "closing" \in Places \ {"unborn"}
  BY GoesStep DEF Leave, Places
<1>3. Suits(p, "closing", owner)
  BY <1>0 DEF Suits
<1>. QED
  BY <1>0, <1>1, <1>2, <1>3, NoFileStep DEF Starting, Launching, Guarded

LEMMA WriteStoppedStep ==
    ASSUME DaemonInvariant, NEW p \in Procs, WriteStopped(p)
    PROVE  DaemonInvariant'
<1>0. /\ proc[p].at = "closing" /\ UNCHANGED <<guard, owner, pidFile>>
      /\ status' = [rec |-> RecordOf(p), running |-> FALSE]
      /\ proc[p].at \in Claims /\ owner = RecordOf(p)
  BY DEF WriteStopped, Claims, DaemonInvariant, Leases
<1>1. /\ Exists(p)
      /\ \A q \in Procs : ~(proc[q].at \in Launching /\ proc[q].child = p)
      /\ \A q \in Procs \ {p} : proc[q].at # "loop"
  BY <1>0, ClaimAlone DEF Claims
<1>2. Step(p, "release") /\ Quiet /\ "release" \in Places \ {"unborn"}
  BY GoesStep DEF WriteStopped, Places
<1>3. Suits(p, "release", owner) /\ Says(pidFile', pidFile)
  BY <1>0 DEF Suits, Says
<1>4. proc[p].at # "unborn" /\ FALSE \in BOOLEAN
  BY <1>0
<1>. QED
  BY <1>0, <1>1, <1>2, <1>3, <1>4, AnyStep DEF Starting, Launching, Guarded, Quiet

LEMMA ReleaseStep ==
    ASSUME DaemonInvariant, NEW p \in Procs, Release(p)
    PROVE  DaemonInvariant'
<1>0. /\ proc[p].at = "release" /\ guard = None /\ UNCHANGED <<guard, pidFile, status>>
      /\ proc' = Ended(proc, p) /\ owner' = Released(p)
      /\ proc[p].at \in Claims /\ owner = RecordOf(p)
  BY DEF Release, Claims, DaemonInvariant, Leases
<1>1. /\ Exists(p) /\ Alone(p)
      /\ \A q \in Procs : ~(proc[q].at \in Launching /\ proc[q].child = p)
      /\ \A q \in Procs \ {p} : proc[q].at # "loop"
  BY <1>0, ClaimAlone DEF Claims
<1>2. owner' = None
  BY <1>0, <1>1, Records DEF Released, RecordOf, Exists
<1>3. PICK place \in {"zombie", "dead"} :
         /\ Step(p, place) /\ Quiet
         /\ place = "zombie" <=> proc[p].role = "child" /\ Lives(proc[p].parent)
  BY <1>0, EndedStep
<1>4. place \in Places \ {"unborn"}
  BY <1>3 DEF Places
<1>5. Suits(p, place, owner') /\ Says(pidFile', pidFile)
  BY <1>0, <1>3 DEF Suits, Says, Claims
<1>. QED
  BY <1>0, <1>1, <1>2, <1>3, <1>4, <1>5, AnyStep DEF Starting, Launching, Guarded, Quiet

LEMMA StopDaemonStep ==
    ASSUME DaemonInvariant, StopDaemon
    PROVE  DaemonInvariant'
<1>0. PICK p \in Procs : p = owner.who /\ Lives(p)
  <2>1. Readable(owner)
    BY DEF StopDaemon, Verified
  <2>2. owner.who \in Procs
    BY <2>1 DEF DaemonInvariant, RecordsTrue, NamesAProcess
  <2>. QED
    BY <2>2 DEF StopDaemon
<1>. DEFINE x == [proc[p] EXCEPT !.stop = TRUE]
            place == proc[p].at
<1>1. /\ UNCHANGED <<guard, owner, pidFile, status>> /\ proc' = [proc EXCEPT ![p].stop = TRUE]
      /\ proc \in [Procs -> Process] /\ proc[p] \in Process
  BY <1>0, Types DEF StopDaemon
<1>2. /\ x \in Process /\ x.at = place /\ x.pid = proc[p].pid /\ x.role = proc[p].role
      /\ x.token = proc[p].token /\ x.parent = proc[p].parent /\ x.child = proc[p].child
      /\ x.scanned = proc[p].scanned
  BY <1>1 DEF Process
<1>3. proc' = [proc EXCEPT ![p] = x]
  BY <1>1
<1>. HIDE DEF x
<1>4. proc' \in [Procs -> Process] /\ proc'[p] = x /\ \A q \in Procs \ {p} : proc'[q] = proc[q]
  BY <1>1, <1>2, <1>3
<1>5. Step(p, place) /\ Quiet
  BY <1>2, <1>4 DEF Step, Quiet
<1>6. Exists(p) /\ place \in Places \ {"unborn"}
  BY <1>0, <1>1 DEF Lives, Exists, Process
<1>7. Suits(p, place, owner)
  BY DEF Suits, Claims, DaemonInvariant, Leases, RecordsTrue, NamesAProcess
<1>8. \A q \in Procs : proc[q].at \in Launching /\ proc[q].child = p => place \in Waiting
  BY ChildOf
<1>9. place = "zombie" => proc[p].role = "child"
  BY DEF DaemonInvariant, Families
<1>. QED
  BY <1>1, <1>5, <1>6, <1>7, <1>8, <1>9, NoFileStep

-----------------------------------------------------------------------------
(* Every step. *)

LEMMA InitDaemon == Init => DaemonInvariant
<1>. SUFFICES ASSUME Init PROVE DaemonInvariant
  OBVIOUS
<1>1. Unborn \in Process /\ Unborn.at = "unborn" /\ Unborn.role = "none" /\ Unborn.child = None
      /\ ~Unborn.scanned
  BY DEF Unborn, Process, Places, Roles
<1>2. \A p \in Procs : proc[p] = Unborn
  BY DEF Init
<1>3. TypeOK
  BY <1>1, <1>2, DaemonAssumption DEF Init, TypeOK, Exists
<1>4. RecordsTrue
  BY DEF Init, RecordsTrue, Readable
<1>5. Families /\ ChildWaits /\ Leases /\ OwnFiles
  BY <1>1, <1>2 DEF Families, ChildWaits, Leases, OwnFiles, Starting
<1>. QED
  BY <1>3, <1>4, <1>5 DEF DaemonInvariant

LEMMA StepDaemon == DaemonInvariant /\ [Next]_vars => DaemonInvariant'
<1>. SUFFICES ASSUME DaemonInvariant, [Next]_vars PROVE DaemonInvariant'
  OBVIOUS
<1>1. ASSUME NEW p \in Procs,
             \/ \E role \in {"launcher", "foreground", "other"} : Start(p, role)
             \/ Check(p) \/ Die(p)
      PROVE  DaemonInvariant'
  BY <1>1, StartStep, CheckStep, DieStep
<1>2. ASSUME NEW p \in Procs, Acquire(p) PROVE DaemonInvariant'
  BY <1>2, LockStep, CreateStep, UnlinkStep, WriteStep DEF Acquire
<1>3. ASSUME NEW p \in Procs, Launch(p) PROVE DaemonInvariant'
  BY <1>3, SpawnStep, HandoffStep, WritePidFileStep, WriteStatusStep DEF Launch
<1>4. ASSUME NEW p \in Procs, Serve(p) PROVE DaemonInvariant'
  BY <1>4, InheritStep, WriteRecordStep, ScanStep, LeaveStep, WriteStoppedStep DEF Serve
<1>5. ASSUME NEW p \in Procs, Release(p) PROVE DaemonInvariant'
  BY <1>5, ReleaseStep
<1>6. CASE StopDaemon
  BY <1>6, StopDaemonStep
<1>7. CASE UNCHANGED vars
  BY <1>7 DEF vars, DaemonInvariant, TypeOK, RecordsTrue, Families, ChildWaits, Leases,
              OwnFiles, NamesAProcess, RecordOf, Exists, Readable
<1>. QED
  BY <1>1, <1>2, <1>3, <1>4, <1>5, <1>6, <1>7 DEF Next

(* The inductive invariant, in every state of every behaviour.               *)
THEOREM DaemonHolds == Spec => []DaemonInvariant
BY InitDaemon, StepDaemon, PTL DEF Spec

(* Never two daemons on one set of files, whoever died where and whatever     *)
(* process has the number of a dead owner by now (_acquire_owner_lease).     *)
THEOREM OneDaemonHolds == Spec => []OneDaemon
<1>1. DaemonInvariant => OneDaemon
  BY OneClaim DEF OneDaemon, Serving, Claims
<1>. QED
  BY <1>1, DaemonHolds, PTL

(* A daemon that has written its heartbeat is the one daemon_status reports.  *)
THEOREM FoundHolds == Spec => []ServingDaemonIsFound
<1>1. ASSUME DaemonInvariant, NEW p \in Procs, proc[p].at = "loop", proc[p].scanned
      PROVE  Running /\ owner = RecordOf(p)
  <2>1. /\ owner = RecordOf(p) /\ pidFile = RecordOf(p)
        /\ status = [rec |-> RecordOf(p), running |-> TRUE]
    BY <1>1 DEF DaemonInvariant, Leases, OwnFiles
  <2>2. /\ RecordOf(p).who = p /\ RecordOf(p).pid = proc[p].pid /\ Readable(RecordOf(p))
        /\ Exists(p)
    BY <1>1, Records DEF RecordOf, Exists
  <2>3. status # None /\ status.rec = RecordOf(p) /\ status.running
    <3>1. status \in Status
      BY <1>1, <2>1, Records DEF Status
    <3>. QED
      BY <2>1, <3>1, DaemonAssumption
  <2>. QED
    BY <2>1, <2>2, <2>3 DEF Running, Verified, ReportedStopped
<1>2. DaemonInvariant => ServingDaemonIsFound
  BY <1>1 DEF ServingDaemonIsFound
<1>. QED
  BY <1>2, DaemonHolds, PTL

(* The record of a process that exists is replaced or removed only by its own  *)
(* start: its launcher hands it over, and the holder of its token releases it. *)
THEOREM LeaseHolds == Spec => LeaseIsNotTaken
<1>1. ASSUME DaemonInvariant, [Next]_vars, Readable(owner), owner' # owner, Exists(owner.who)
      PROVE  \E p \in Procs : proc[p].token = owner.token /\ proc'[p] # proc[p]
  <2>1. PICK p \in Procs : Create(p) \/ Unlink(p) \/ Write(p) \/ Handoff(p) \/ Release(p)
    BY <1>1 DEF Next, vars, Start, Check, Die, Acquire, Lock, Launch, Spawn, WritePidFile,
                WriteStatus, Serve, Inherit, WriteRecord, Scan, Leave, WriteStopped, StopDaemon
  <2>2. CASE Create(p)
    BY <1>1, <2>2 DEF Create, Readable
  <2>3. CASE Unlink(p)
    BY <1>1, <2>3 DEF Unlink, DaemonInvariant, Leases
  <2>4. CASE Write(p)
    BY <1>1, <2>4 DEF Write, DaemonInvariant, Leases, Readable
  <2>5. CASE Handoff(p) \/ Release(p)
    <3>1. owner = RecordOf(p) /\ proc[p].at \in {"handoff", "release"}
      BY <1>1, <2>5 DEF Handoff, Release, DaemonInvariant, Leases
    <3>2. proc[p].token = owner.token
      BY <3>1 DEF RecordOf
    <3>3. CASE Handoff(p)
      <4>1. Goes(p, "pidfile") /\ proc[p].at = "handoff" /\ "pidfile" \in Places
        BY <1>1, <3>1, <3>2, <3>3 DEF Handoff, Places
      <4>2. proc'[p].at = "pidfile"
        BY <1>1, <4>1, GoesStep DEF Step
      <4>. QED
        BY <3>2, <4>1, <4>2
    <3>4. CASE Release(p)
      <4>1. proc'[p].at \in {"zombie", "dead"} /\ proc[p].at = "release"
        BY <1>1, <3>4, EndedStep DEF Release, Step
      <4>. QED
        BY <3>2, <4>1
    <3>. QED
      BY <2>5, <3>3, <3>4
  <2>. QED
    BY <2>1, <2>2, <2>3, <2>4, <2>5
<1>2. DaemonInvariant /\ [Next]_vars =>
        [Readable(owner) /\ owner' # owner /\ Exists(owner.who) =>
            \E p \in Procs : proc[p].token = owner.token /\ proc'[p] # proc[p]]_vars
  BY <1>1
<1>. QED
  BY <1>2, DaemonHolds, PTL DEF Spec, LeaseIsNotTaken
=============================================================================

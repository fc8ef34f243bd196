-------------------------- MODULE SchedulerDaemon --------------------------
(***************************************************************************)
(* Which process is the scheduler daemon: the owner file with its lock     *)
(* file, the pid file and the status file, written by launchers, by the    *)
(* children they start and by foreground daemons.  Every one of them may   *)
(* die at any step, and the system gives its pid to another process.       *)
(***************************************************************************)
EXTENDS Naturals, FiniteSets

CONSTANTS
    Procs,      \* processes that are ever started; also their birth identity
    Pids,       \* process numbers, given again once the process is reaped
    None

\* What a file says of a process.
Record == [pid : Pids, who : Procs, token : Procs]

\* A file that is there without its content: created, and the writer died.
Torn == [pid |-> None, who |-> None, token |-> None]

\* What the status file says: of which process, and that it runs or has stopped.
Status == [rec : Record, running : BOOLEAN]

ASSUME DaemonAssumption == None \notin Procs \cup Pids \cup Record \cup {Torn} \cup Status

VARIABLES
    guard,      \* who holds the flock of the lock file
    owner,      \* the owner file
    pidFile,
    status,
    proc        \* proc[p]: what process p is doing

vars == <<guard, owner, pidFile, status, proc>>

Roles == {"launcher", "child", "foreground", "other", "none"}

\* Steps of a start, of the loop and of the end; a zombie is a child that has
\* ended and whose launcher lives.
Places == {"unborn", "check", "lock", "create", "write", "unlink", "spawn",
           "handoff", "pidfile", "status", "inherit", "record", "loop",
           "closing", "release", "busy", "zombie", "dead"}

Process == [at : Places, role : Roles, pid : Pids \cup {None}, token : Procs \cup {None},
            parent : Procs \cup {None}, child : Procs \cup {None},
            stop : BOOLEAN, scanned : BOOLEAN]

Unborn == [at |-> "unborn", role |-> "none", pid |-> None, token |-> None,
           parent |-> None, child |-> None, stop |-> FALSE, scanned |-> FALSE]

Init ==
    /\ guard = None /\ owner = None /\ pidFile = None /\ status = None
    /\ proc = [p \in Procs |-> Unborn]

Exists(p) == proc[p].at \notin {"unborn", "dead"}
Lives(p)  == Exists(p) /\ proc[p].at # "zombie"

\* os.kill(pid, 0): a zombie still answers.
Answers(pid) == \E p \in Procs : Exists(p) /\ proc[p].pid = pid

RecordOf(p) == [pid |-> proc[p].pid, who |-> p, token |-> proc[p].token]

Readable(file) == file \notin {None, Torn}

-----------------------------------------------------------------------------
\* daemon_status: the three files, read at one instant.

SeenPid ==
    IF Readable(owner) THEN owner.pid
    ELSE IF status # None THEN status.rec.pid
    ELSE IF pidFile # None THEN pidFile.pid ELSE None

\* The process that has the number now was born as the files say.
Verified ==
    /\ Readable(owner) /\ pidFile = owner /\ status # None /\ status.rec = owner
    /\ Exists(owner.who) /\ proc[owner.who].pid = owner.pid

ReportedStopped == status # None /\ ~status.running

Running == Verified /\ ~ReportedStopped

\* start_background_daemon and run_foreground_daemon before they try the lease.
Refused(p) ==
    IF proc[p].role = "launcher"
    THEN Running \/ (Answers(SeenPid) /\ ~Verified /\ ~ReportedStopped)
    ELSE /\ SeenPid # proc[p].pid
         /\ Running \/ (Answers(SeenPid) /\ ~Verified)

-----------------------------------------------------------------------------
\* A process that ends leaves the flock; its zombies are reaped.
Ended(processes, p) ==
    [q \in Procs |->
        CASE q = p -> [processes[p] EXCEPT !.at =
                        IF processes[p].role = "child" /\ Lives(processes[p].parent)
                        THEN "zombie" ELSE "dead"]
          [] processes[q].at = "zombie" /\ processes[q].parent = p ->
                        [processes[q] EXCEPT !.at = "dead"]
          [] OTHER -> processes[q]]

Free(pid) == ~Answers(pid)

Goes(p, place) == proc' = [proc EXCEPT ![p].at = place]

Start(p, role) ==
    /\ proc[p].at = "unborn"
    /\ \E pid \in Pids :
          /\ Free(pid)
          /\ proc' = [proc EXCEPT ![p] =
                [Unborn EXCEPT !.at = IF role = "other" THEN "busy" ELSE "check",
                               !.role = role, !.pid = pid, !.token = p]]
    /\ UNCHANGED <<guard, owner, pidFile, status>>

\* A child finds the token it was given in the owner file and waits; every other
\* process, and a child whose launcher lost the lease, tries to acquire it.
Check(p) ==
    /\ proc[p].at = "check"
    /\ proc' = IF Refused(p) THEN Ended(proc, p)
               ELSE [proc EXCEPT ![p].at =
                        IF Readable(owner) /\ owner.token = proc[p].token
                        THEN "inherit" ELSE "lock"]
    /\ UNCHANGED <<guard, owner, pidFile, status>>

\* SIGKILL, power, an exception nobody catches: at any step.
Die(p) ==
    /\ Lives(p)
    /\ proc' = Ended(proc, p)
    /\ guard' = IF guard = p THEN None ELSE guard
    /\ UNCHANGED <<owner, pidFile, status>>

-----------------------------------------------------------------------------
\* _acquire_owner_lease, between the lock and the unlock of the guard file.

\* A bug: the guard file is not locked.
UnguardedLock(p) == proc[p].at = "lock" /\ Goes(p, "create") /\ UNCHANGED guard

LockGuard(p) ==
    /\ proc[p].at = "lock"
    /\ guard = None
    /\ guard' = p
    /\ Goes(p, "create")

Lock(p) == LockGuard(p) /\ UNCHANGED <<owner, pidFile, status>>

\* A bug: an owner whose identity cannot be read counts as gone.
StaleWhenUnknown(rec, known) ==
    Readable(rec) /\ ~(known /\ Exists(rec.who) /\ proc[rec.who].pid = rec.pid)

\* _lease_is_stale: the number is nobody's, or certainly somebody else's.
Stale(rec, known) ==
    /\ Readable(rec)
    /\ \/ ~Answers(rec.pid)
       \/ known /\ ~(Exists(rec.who) /\ proc[rec.who].pid = rec.pid)

\* O_CREAT | O_EXCL; when the file is there, whose it is.  known: the identity
\* of the process could be read.
Create(p) ==
    /\ proc[p].at = "create"
    /\ \/ /\ owner = None
          /\ owner' = Torn
          /\ Goes(p, "write")
          /\ UNCHANGED guard
       \/ \E known \in BOOLEAN :
          /\ owner # None
          /\ IF Stale(owner, known)
             THEN Goes(p, "unlink") /\ UNCHANGED guard
             ELSE proc' = Ended(proc, p) /\ guard' = None
          /\ UNCHANGED owner
    /\ UNCHANGED <<pidFile, status>>

Unlink(p) ==
    /\ proc[p].at = "unlink"
    /\ owner' = None
    /\ Goes(p, "create")
    /\ UNCHANGED <<guard, pidFile, status>>

Write(p) ==
    /\ proc[p].at = "write"
    /\ owner' = RecordOf(p)
    /\ guard' = IF guard = p THEN None ELSE guard
    /\ Goes(p, IF proc[p].role = "launcher" THEN "spawn" ELSE "record")
    /\ UNCHANGED <<pidFile, status>>

-----------------------------------------------------------------------------
\* The launcher: start the child, hand the lease over, write the other files.

Spawn(p) ==
    /\ proc[p].at = "spawn"
    /\ \/ \E c \in Procs, pid \in Pids :
             /\ proc[c].at = "unborn" /\ Free(pid)
             /\ proc' = [proc EXCEPT
                   ![p].at = "handoff", ![p].child = c,
                   ![c] = [Unborn EXCEPT !.at = "check", !.role = "child", !.pid = pid,
                                         !.token = p, !.parent = p]]
       \/ Goes(p, "release")                      \* Popen failed
    /\ UNCHANGED <<guard, owner, pidFile, status>>

\* process.terminate(): before its handler is installed the child dies of it.
Terminated(c) == IF Lives(c) THEN [proc EXCEPT ![c].stop = TRUE] ELSE proc

\* _replace_owner_lease; an owner file of another token is left alone.
Handoff(p) ==
    LET c == proc[p].child  mine == Readable(owner) /\ owner.token = proc[p].token IN
    /\ proc[p].at = "handoff"
    /\ guard = None
    /\ \/ /\ mine
          /\ owner' = RecordOf(c)
          /\ Goes(p, "pidfile")
       \/ /\ ~mine
          /\ proc' = Ended(Terminated(c), p)
          /\ UNCHANGED owner
       \/ \* the child's identity could not be read for two seconds
          /\ proc' = [Terminated(c) EXCEPT ![p].at = "release"]
          /\ UNCHANGED owner
    /\ UNCHANGED <<guard, pidFile, status>>

WritePidFile(p) ==
    /\ proc[p].at = "pidfile"
    /\ pidFile' = RecordOf(proc[p].child)
    /\ Goes(p, "status")
    /\ UNCHANGED <<guard, owner, status>>

WriteStatus(p) ==
    /\ proc[p].at = "status"
    /\ status' = [rec |-> RecordOf(proc[p].child), running |-> TRUE]
    /\ proc' = Ended(proc, p)
    /\ UNCHANGED <<guard, owner, pidFile>>

-----------------------------------------------------------------------------
\* The daemon, child or foreground.

\* A bug: the child does not wait for the files its launcher has yet to write.
InheritedByOwnerOnly(p) == owner = RecordOf(p)

Inherited(p) ==
    /\ owner = RecordOf(p) /\ pidFile = RecordOf(p)
    /\ status # None /\ status.rec = RecordOf(p)

\* Two seconds at most; then the child acquires like anybody else.
Inherit(p) ==
    /\ proc[p].at = "inherit"
    /\ Goes(p, IF Inherited(p) THEN "record" ELSE "lock")
    /\ UNCHANGED <<guard, owner, pidFile, status>>

WriteRecord(p) ==
    /\ proc[p].at = "record"
    /\ pidFile' = RecordOf(p)
    /\ Goes(p, "loop")
    /\ UNCHANGED <<guard, owner, status>>

\* A scan of due workflows (SchedulerClaims) and the heartbeat after it.
Scan(p) ==
    /\ proc[p].at = "loop"
    /\ status' = [rec |-> RecordOf(p), running |-> TRUE]
    /\ proc' = [proc EXCEPT ![p].scanned = TRUE]
    /\ UNCHANGED <<guard, owner, pidFile>>

\* --once, or a signal.
Leave(p) ==
    /\ proc[p].at = "loop"
    /\ proc[p].stop \/ proc[p].scanned
    /\ Goes(p, "closing")
    /\ UNCHANGED <<guard, owner, pidFile, status>>

WriteStopped(p) ==
    /\ proc[p].at = "closing"
    /\ status' = [rec |-> RecordOf(p), running |-> FALSE]
    /\ Goes(p, "release")
    /\ UNCHANGED <<guard, owner, pidFile>>

\* _release_owner_lease looks at the token, which launcher and child share.
Released(p) == IF Readable(owner) /\ owner.token = proc[p].token THEN None ELSE owner

Release(p) ==
    /\ proc[p].at = "release"
    /\ guard = None
    /\ owner' = Released(p)
    /\ proc' = Ended(proc, p)
    /\ UNCHANGED <<guard, pidFile, status>>

\* stop_daemon: verify, then SIGTERM.
StopDaemon ==
    /\ Verified
    /\ Lives(owner.who)
    /\ proc' = [proc EXCEPT ![owner.who].stop = TRUE]
    /\ UNCHANGED <<guard, owner, pidFile, status>>

-----------------------------------------------------------------------------
Acquire(p) == Lock(p) \/ Create(p) \/ Unlink(p) \/ Write(p)
Launch(p)  == Spawn(p) \/ Handoff(p) \/ WritePidFile(p) \/ WriteStatus(p)
Serve(p)   == Inherit(p) \/ WriteRecord(p) \/ Scan(p) \/ Leave(p) \/ WriteStopped(p)

Next ==
    \/ \E p \in Procs :
          \/ \E role \in {"launcher", "foreground", "other"} : Start(p, role)
          \/ Check(p) \/ Die(p)
          \/ Acquire(p) \/ Launch(p) \/ Serve(p) \/ Release(p)
    \/ StopDaemon

Spec == Init /\ [][Next]_vars

-----------------------------------------------------------------------------
\* Types; two processes that exist have different numbers, and the flock is held
\* by the process that looks at the owner file or writes it.
TypeOK ==
    /\ guard \in Procs \cup {None}
    /\ owner \in Record \cup {None, Torn}
    /\ pidFile \in Record \cup {None}
    /\ status \in Status \cup {None}
    /\ proc \in [Procs -> Process]
    /\ \A p, q \in Procs : Exists(p) /\ Exists(q) /\ proc[p].pid = proc[q].pid => p = q
    /\ \A p \in Procs : proc[p].at \in {"create", "unlink", "write"} <=> guard = p

Serving(p) == Lives(p) /\ proc[p].at \in {"record", "loop", "closing"}

\* Never two daemons on one set of files, whoever died where, and whatever
\* process has the number of a dead owner by now.
OneDaemon == \A p, q \in Procs : Serving(p) /\ Serving(q) => p = q

\* A daemon that has written its heartbeat is found by daemon_status, so that
\* stop_daemon can stop it: no late write of a launcher or of the daemon before
\* it is left over its files.
ServingDaemonIsFound ==
    \A p \in Procs :
        proc[p].at = "loop" /\ proc[p].scanned => Running /\ owner = RecordOf(p)

\* The record of a process that exists is replaced or removed only by the
\* processes of its own start, which share its token.
LeaseIsNotTaken ==
    [][Readable(owner) /\ owner' # owner /\ Exists(owner.who) =>
          \E p \in Procs : proc[p].token = owner.token /\ proc'[p] # proc[p]]_vars

-----------------------------------------------------------------------------
\* What makes the properties inductive.

\* A file names a process that was started, by the number and the token it has.
NamesAProcess(rec) == rec.who \in Procs /\ proc[rec.who].at # "unborn" /\ rec = RecordOf(rec.who)

RecordsTrue ==
    /\ Readable(owner) => NamesAProcess(owner)
    /\ pidFile # None => NamesAProcess(pidFile)
    /\ status # None => NamesAProcess(status.rec)

\* Before it starts a child a process has none.
Starting == {"unborn", "check", "inherit", "lock", "create", "unlink", "write", "spawn"}

\* Launchers are no children, and a child is the only one of its launcher.
Families ==
    \A p \in Procs :
        /\ proc[p].at # "unborn" => proc[p].pid \in Pids /\ proc[p].token \in Procs
        /\ proc[p].role = "child" => /\ proc[p].parent \in Procs
                                     /\ proc[proc[p].parent].role = "launcher"
                                     /\ proc[proc[p].parent].child = p
        /\ proc[p].at = "unborn" => proc[p].role = "none"
        /\ proc[p].at \in Starting => proc[p].child = None
        /\ proc[p].at = "zombie" => proc[p].role = "child"
        /\ proc[p].at \in {"spawn", "handoff", "pidfile", "status"} => proc[p].role = "launcher"

\* While a launcher has files to write, its child does not serve: it waits, or
\* tries for a lease that is taken, or has ended.
ChildWaits ==
    \A p \in Procs :
        LET c == proc[p].child IN
        proc[p].at \in {"handoff", "pidfile", "status"} =>
            /\ c \in Procs
            /\ proc[c].role = "child" /\ proc[c].parent = p
            /\ proc[c].at \in {"check", "inherit", "lock", "create", "zombie"}
            /\ status # None => status.rec.who # c

\* Who may touch the owner file knows what is in it.
Leases ==
    \A p \in Procs :
        /\ proc[p].at \in {"spawn", "handoff", "record", "loop", "closing", "release"} =>
              owner = RecordOf(p)
        /\ proc[p].at \in {"pidfile", "status"} => owner = RecordOf(proc[p].child)
        /\ proc[p].at = "write" => owner = Torn
        /\ proc[p].at = "unlink" => Readable(owner) /\ ~Exists(owner.who)

\* The files of a daemon are its own from its first heartbeat on.
OwnFiles ==
    \A p \in Procs :
        /\ proc[p].at \in Starting \cup {"record"} => ~proc[p].scanned
        /\ proc[p].at = "loop" => pidFile = RecordOf(p)
        /\ proc[p].at = "loop" /\ proc[p].scanned =>
              status = [rec |-> RecordOf(p), running |-> TRUE]

DaemonInvariant ==
    /\ TypeOK
    /\ RecordsTrue
    /\ Families
    /\ ChildWaits
    /\ Leases
    /\ OwnFiles
=============================================================================

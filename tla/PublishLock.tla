---------------------------- MODULE PublishLock ----------------------------
(* The publish lock (toolchain/src/build_method/src/publish_lock.rs): a      *)
(* file beside the output directory that a publishing process creates with   *)
(* create_new, writes its pid into and removes when its guard is dropped.    *)
(* Every process runs acquire_within once and holds the guard it returns.    *)
(* One action is one system call: create_new, the pid line, reading the      *)
(* file, reading its age and the holder's liveness, remove_file.             *)
EXTENDS Naturals, FiniteSets

CONSTANTS
  Runs,        \* publishing processes, each with a pid of its own
  Stray,       \* stands for a lock file nobody running made
  Nobody,      \* what a lock file without a pid line names
  NoLock,      \* no file at the lock's path
  HasProc,     \* whether the platform has /proc to ask about a pid
  Strays,      \* whether a stray lock file may be there at the start
  Exits,       \* whether a process that has published may exit
  Slow,        \* whether a live process may hold its file past STALE_AGE
  Faulty,      \* whether the file system may answer with other errors
  MaxCrashes,  \* bound: processes killed without running Drop
  Budget       \* bound: polls of POLL that fit in the wait budget

ASSUME LockAssumption ==
  /\ {Stray, Nobody} \cap Runs = {} /\ Stray # Nobody
  /\ {HasProc, Strays, Exits, Slow, Faulty} \subseteq BOOLEAN
  /\ MaxCrashes \in Nat /\ Budget \in Nat
  /\ NoLock \notin [by: Runs \cup {Stray}, named: BOOLEAN, old: BOOLEAN]

VARIABLES
  lock,     \* the file at the lock's path: who created it, whether it names a
            \* pid, whether it is older than STALE_AGE
  pc,       \* where each process is in acquire_within
  seen,     \* the pid each process read from the file
  waited,   \* polls each process slept
  crashes,
  late      \* history: some takeover removed another file than the leftover it
            \* had judged (no action reads it)
lockVars == <<lock, pc, seen, waited, crashes, late>>

Files == [by: Runs \cup {Stray}, named: BOOLEAN, old: BOOLEAN]
Places == {"creating", "naming", "reading", "judging", "removing",
           "recreating", "deadline", "holding", "released", "refused", "failed", "dead", "gone"}
Ended == {"released", "refused", "failed", "dead", "gone"}

\* A process is inside the protected section from create_new to Drop.
Writers == {r \in Runs : pc[r] \in {"naming", "holding"}}
NewFile(r) == [by |-> r, named |-> FALSE, old |-> FALSE]

LockInit ==
  /\ lock \in {NoLock} \cup
       {f \in Files : Strays /\ f.by = Stray /\ ~f.named}
  /\ pc = [r \in Runs |-> "creating"]
  /\ seen = [r \in Runs |-> Nobody]
  /\ waited = [r \in Runs |-> 0]
  /\ crashes = 0 /\ late = FALSE

Go(r, place) == pc' = [pc EXCEPT ![r] = place]

\* What create_new leaves at the path, and where the two callers go from it.
CreateFile(r, otherwise) ==
  \/ lock = NoLock /\ lock' = NewFile(r) /\ Go(r, "naming")
  \/ lock # NoLock /\ UNCHANGED lock /\ Go(r, otherwise)

Create(r) ==
  /\ pc[r] = "creating"
  /\ CreateFile(r, "reading")
  /\ UNCHANGED <<seen, waited, crashes, late>>

\* The pid line goes to the file this process created, wherever it is now.
NamedFile(r) ==
  IF lock # NoLock /\ lock.by = r
  THEN [by |-> r, named |-> TRUE, old |-> FALSE] ELSE lock

WriteHolder(r) ==
  /\ pc[r] = "naming"
  /\ lock' \in {NamedFile(r)} \cup IF Faulty THEN {lock} ELSE {}
  /\ Go(r, "holding")
  /\ UNCHANGED <<seen, waited, crashes, late>>

HolderOf(r) ==
  /\ pc[r] = "reading"
  /\ IF lock = NoLock
     THEN Go(r, "deadline") /\ UNCHANGED seen
     ELSE /\ Go(r, "judging")
          /\ seen' = [seen EXCEPT ![r] = IF lock.named THEN lock.by ELSE Nobody]
  /\ UNCHANGED <<lock, waited, crashes, late>>

ProcessIsAlive(q) == HasProc => pc[q] \notin {"dead", "gone"}
Aged == lock # NoLock /\ lock.old
\* Mutants: a file without a pid line is stale at any age; nothing ever is.
NamelessIsGone(holder) == holder = Nobody \/ ~ProcessIsAlive(holder)
NeverGone(holder) == FALSE
HolderIsGone(holder) == IF holder = Nobody THEN Aged ELSE ~ProcessIsAlive(holder)

Judge(r) ==
  /\ pc[r] = "judging"
  /\ Go(r, IF HolderIsGone(seen[r]) THEN "removing" ELSE "deadline")
  /\ UNCHANGED <<lock, seen, waited, crashes, late>>

\* remove_file takes whatever is at the path now.
LeftoverNow == lock # NoLock /\ HolderIsGone(IF lock.named THEN lock.by ELSE Nobody)
RemoveStale(r) ==
  /\ pc[r] = "removing"
  /\ lock' = NoLock
  /\ late' = (late \/ (lock # NoLock /\ ~LeftoverNow))
  /\ Go(r, IF lock = NoLock THEN "creating" ELSE "recreating")
  /\ UNCHANGED <<seen, waited, crashes>>

Recreate(r) ==
  /\ pc[r] = "recreating"
  /\ CreateFile(r, "creating")
  /\ UNCHANGED <<seen, waited, crashes, late>>

\* Mutant: the wait without its deadline.
WaitForever(r) ==
  /\ pc[r] = "deadline" /\ Go(r, "creating")
  /\ UNCHANGED <<lock, seen, waited, crashes, late>>

Deadline(r) ==
  /\ pc[r] = "deadline"
  /\ \/ waited[r] >= Budget /\ Go(r, "refused") /\ UNCHANGED waited
     \/ waited[r] < Budget /\ Go(r, "creating")
        /\ waited' = [waited EXCEPT ![r] = @ + 1]
  /\ UNCHANGED <<lock, seen, crashes, late>>

\* Drop removes whatever file is at the path.
Drop(r) ==
  /\ pc[r] = "holding"
  /\ lock' = NoLock
  /\ Go(r, "released")
  /\ UNCHANGED <<seen, waited, crashes, late>>

\* Any other I/O error on create_new or on removing the leftover is returned.
IoError(r) ==
  /\ Faulty /\ pc[r] \in {"creating", "removing"}
  /\ Go(r, "failed")
  /\ UNCHANGED <<lock, seen, waited, crashes, late>>

Crash(r) ==
  /\ crashes < MaxCrashes /\ pc[r] \notin Ended
  /\ crashes' = crashes + 1
  /\ Go(r, "dead")
  /\ UNCHANGED <<lock, seen, waited, late>>

\* The process of a run that is over ends, and its pid with it. (The pid of one
\* that failed is in no file.)
Exit(r) ==
  /\ Exits /\ pc[r] \in {"released", "refused"}
  /\ Go(r, "gone")
  /\ UNCHANGED <<lock, seen, waited, crashes, late>>

\* Ten minutes pass since the file was last written.
Age ==
  /\ lock # NoLock /\ ~lock.old
  /\ Slow \/ lock.by \notin {r \in Runs : pc[r] \notin Ended}
  /\ lock' = [lock EXCEPT !.old = TRUE]
  /\ UNCHANGED <<pc, seen, waited, crashes, late>>

Acquire(r) == \/ Create(r) \/ WriteHolder(r) \/ HolderOf(r) \/ Judge(r)
              \/ RemoveStale(r) \/ Recreate(r) \/ Deadline(r)
LockNext == Age \/ \E r \in Runs : Acquire(r) \/ Drop(r) \/ IoError(r) \/ Crash(r) \/ Exit(r)

(* A run that is not killed keeps executing and its publish ends, so its     *)
(* guard is dropped; time passes.                                            *)
LockSpec == /\ LockInit /\ [][LockNext]_lockVars
            /\ \A r \in Runs : WF_lockVars(Acquire(r) \/ Drop(r))

-----------------------------------------------------------------------------
\* The lock file, the places and the counters stay in their ranges.
LockTypeOK ==
  /\ lock \in Files \cup {NoLock}
  /\ pc \in [Runs -> Places]
  /\ seen \in [Runs -> Runs \cup {Stray, Nobody}]
  /\ waited \in [Runs -> 0..Budget]
  /\ crashes \in 0..MaxCrashes /\ late \in BOOLEAN

\* "One writer per tree": two processes are never between taking the lock and
\* dropping it at once.
OneWriter == Cardinality(Writers) <= 1

\* What the lock does give, whoever is killed or exits: as long as no takeover
\* came too late for the leftover it had judged, there is one writer and the
\* file at the path is its own.
HoldersOwnTheFile == \A r \in Writers : lock # NoLock /\ lock.by = r
OneWriterUnlessLate == late \/ (OneWriter /\ HoldersOwnTheFile)

\* Waiting is bounded: a process that asks for the lock gets it, is refused or
\* is killed, whatever the others do.
EveryAskAnswered ==
  \A r \in Runs : pc[r] = "creating" ~> pc[r] \in {"holding"} \cup Ended

\* The file a killed process left with its pid in it is taken over by the next
\* process that looks, unless one meets an I/O error, and does not stay for ever.
Leftover(d) == lock # NoLock /\ lock.by = d /\ lock.named /\ pc[d] = "dead"
LeftoverTakenOver ==
  \A d \in Runs :
    (Leftover(d) /\ \E r \in Runs : pc[r] = "creating")
      ~> (~Leftover(d) \/ \E r \in Runs : pc[r] = "failed")

\* Nobody waits for ever: every ask ends, and so does every leftover
\* (acquire_within).
LockMovesOn == EveryAskAnswered /\ LeftoverTakenOver
=============================================================================

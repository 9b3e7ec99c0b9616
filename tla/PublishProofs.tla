---------------------------- MODULE PublishProofs ----------------------------
(* What a publish gives for any number of processes, any wait budget and any *)
(* contents, whoever is killed or exits and whatever the file system answers.*)
(* The lock first: while every takeover removed the leftover it had judged,  *)
(* one process at a time is the writer and the file at the path is its own.  *)
(* The publish of a live process must end within STALE_AGE (Slow = FALSE): a *)
(* file without a pid line is honoured no longer than that. TLC shows that   *)
(* the proviso on takeovers is needed (MCPublishLock_OneWriter.cfg).         *)
(* Then what is published under it, as long as no edit brings back an earlier*)
(* content (Reverts = FALSE): TLC shows that this proviso is needed too      *)
(* (MCPublish_CurrentIsPublished.cfg).                                       *)
EXTENDS Publish, FiniteSetTheorems, TLAPS

\* A file past STALE_AGE is not that of a process that publishes.
OldIsNobodys == lock # NoLock /\ lock.old => lock.by \notin Writers
OwnUnlessLate == late \/ HoldersOwnTheFile

LockInv == LockTypeOK /\ OldIsNobodys /\ OwnUnlessLate

\* Two writers would both be the creator of the one file at the path.
LEMMA WritersShareTheFile ==
  ASSUME HoldersOwnTheFile
  PROVE  OneWriter
<1>1. CASE Writers = {}
  BY <1>1, FS_EmptySet DEF OneWriter
<1>2. CASE Writers # {}
  <2>1. PICK r \in Writers : TRUE
    BY <1>2
  <2>2. Writers = {r}
    BY <2>1 DEF HoldersOwnTheFile
  <2>. QED
    BY <2>2, FS_Singleton DEF OneWriter
<1>. QED
  BY <1>1, <1>2

LEMMA LockInitInv ==
  ASSUME LockInit
  PROVE  LockInv
<1>1. LockTypeOK
  <2>1. lock \in Files \cup {NoLock}
    BY Zenon DEF LockInit
  <2>2. waited \in [Runs -> 0..Budget] /\ crashes \in 0..MaxCrashes
    BY LockAssumption DEF LockInit
  <2>3. pc \in [Runs -> Places] /\ seen \in [Runs -> Runs \cup {Stray, Nobody}] /\ late \in BOOLEAN
    BY DEF LockInit, Places
  <2>. QED
    BY <2>1, <2>2, <2>3 DEF LockTypeOK
<1>2. Writers = {}
  BY DEF LockInit, Writers
<1>. QED
  BY <1>1, <1>2 DEF LockInv, OldIsNobodys, OwnUnlessLate, HoldersOwnTheFile

\* create_new succeeds only on a free path, and then nobody publishes.
LEMMA CreateInv ==
  ASSUME LockInv, NEW r \in Runs, Create(r) \/ Recreate(r)
  PROVE  LockInv'
<1>. USE LockAssumption DEF LockInv, LockTypeOK, Create, Recreate, CreateFile, Go, NewFile, Places
<1>1. CASE lock = NoLock
  <2>1. lock' = NewFile(r) /\ pc' = [pc EXCEPT ![r] = "naming"] /\ late' = late
    BY <1>1
  <2>2. late \/ Writers' = {r}
    BY <1>1, <2>1 DEF Writers, OwnUnlessLate, HoldersOwnTheFile
  <2>3. lock' \in Files /\ lock'.by = r /\ ~lock'.old
    BY <2>1 DEF Files
  <2>4. lock' # NoLock
    BY ONLY <2>3, LockAssumption DEF Files
  <2>. QED
    BY <2>1, <2>2, <2>3, <2>4 DEF OldIsNobodys, OwnUnlessLate, HoldersOwnTheFile
<1>2. CASE lock # NoLock
  <2>1. lock' = lock /\ late' = late /\ pc' \in [Runs -> Places]
    BY <1>2
  <2>2. Writers' = Writers
    BY <1>2 DEF Writers
  <2>. QED
    BY <2>1, <2>2 DEF OldIsNobodys, OwnUnlessLate, HoldersOwnTheFile
<1>. QED
  BY <1>1, <1>2

\* The pid line is written to the writer's own file, or to one that is gone.
LEMMA WriteHolderInv ==
  ASSUME LockInv, NEW r \in Runs, WriteHolder(r)
  PROVE  LockInv'
<1>. USE LockAssumption DEF LockInv, LockTypeOK, WriteHolder, Go, Places
<1>1. Writers' = Writers /\ late' = late /\ pc' \in [Runs -> Places]
  BY DEF Writers
<1>2. lock' = lock \/ lock' = NamedFile(r)
  OBVIOUS
<1>3. CASE lock' = lock
  BY <1>1, <1>3 DEF OldIsNobodys, OwnUnlessLate, HoldersOwnTheFile
<1>4. CASE lock' = NamedFile(r) /\ lock' # lock
  <2>1. lock # NoLock /\ lock.by = r /\ lock' = [by |-> r, named |-> TRUE, old |-> FALSE]
    BY <1>4 DEF NamedFile
  <2>2. lock' \in Files /\ lock'.by = lock.by /\ ~lock'.old
    BY <2>1 DEF Files
  <2>3. lock' # NoLock
    BY ONLY <2>2, LockAssumption DEF Files
  <2>. QED
    BY <1>1, <2>1, <2>2, <2>3 DEF OldIsNobodys, OwnUnlessLate, HoldersOwnTheFile
<1>. QED
  BY <1>2, <1>3, <1>4

\* Looking, waiting, failing and exiting leave the file and the writers alone.
LEMMA LookInv ==
  ASSUME LockInv, NEW r \in Runs,
         HolderOf(r) \/ Judge(r) \/ Deadline(r) \/ IoError(r) \/ Exit(r)
  PROVE  LockInv'
<1>. USE LockAssumption DEF LockInv, LockTypeOK, HolderOf, Judge, Deadline, IoError, Exit, Go, Places
<1>1. lock' = lock /\ late' = late
  OBVIOUS
<1>2. Writers' = Writers
  BY DEF Writers
<1>3. LockTypeOK'
  <2>1. CASE HolderOf(r)
    <3>1. lock # NoLock => lock.by \in Runs \cup {Stray}
      BY DEF Files
    <3>. QED
      BY <2>1, <3>1
  <2>2. CASE Deadline(r)
    BY <2>2
  <2>. QED
    BY <2>1, <2>2
<1>. QED
  BY <1>1, <1>2, <1>3 DEF OldIsNobodys, OwnUnlessLate, HoldersOwnTheFile

\* A takeover on time removes a file whose creator does not publish any more;
\* as the writer's file is at the path, there is no writer.
LEMMA RemoveStaleInv ==
  ASSUME LockInv, NEW r \in Runs, RemoveStale(r)
  PROVE  LockInv'
<1>. USE LockAssumption DEF LockInv, LockTypeOK, RemoveStale, Go, Places
<1>1. Writers' = Writers /\ pc' \in [Runs -> Places] /\ lock' = NoLock /\ late' \in BOOLEAN
  BY DEF Writers
<1>2. late' \/ Writers = {}
  <2>1. SUFFICES ASSUME ~late'
                 PROVE  Writers = {}
    OBVIOUS
  <2>2. ~late /\ (lock = NoLock \/ LeftoverNow)
    BY <2>1
  <2>3. HoldersOwnTheFile
    BY <2>2 DEF OwnUnlessLate
  <2>4. CASE lock = NoLock
    BY <2>3, <2>4 DEF HoldersOwnTheFile
  <2>5. CASE lock # NoLock /\ lock.named
    <3>1. lock.by # Nobody
      BY <2>5 DEF Files
    <3>2. pc[lock.by] \in {"dead", "gone"}
      BY <2>2, <2>5, <3>1 DEF LeftoverNow, HolderIsGone, ProcessIsAlive
    <3>. QED
      BY <2>3, <3>2 DEF HoldersOwnTheFile, Writers
  <2>6. CASE lock # NoLock /\ ~lock.named
    <3>1. lock.old
      BY <2>2, <2>6 DEF LeftoverNow, HolderIsGone, Aged
    <3>. QED
      BY <2>3, <2>6, <3>1 DEF HoldersOwnTheFile, OldIsNobodys
  <2>. QED
    BY <2>4, <2>5, <2>6
<1>. QED
  BY <1>1, <1>2 DEF OldIsNobodys, OwnUnlessLate, HoldersOwnTheFile

\* While no takeover was late the file a guard's Drop removes is its own, and
\* its process was the only writer.
LEMMA DropInv ==
  ASSUME LockInv, NEW r \in Runs, Drop(r)
  PROVE  LockInv'
<1>. USE LockAssumption DEF LockInv, LockTypeOK, Drop, Go, Places
<1>1. late \/ Writers = {r}
  BY DEF OwnUnlessLate, HoldersOwnTheFile, Writers
<1>2. late \/ Writers' = {}
  BY <1>1 DEF Writers
<1>. QED
  BY <1>2 DEF OldIsNobodys, OwnUnlessLate, HoldersOwnTheFile

\* A killed process is no writer any more, and its file stays behind.
LEMMA CrashInv ==
  ASSUME LockInv, NEW r \in Runs, Crash(r)
  PROVE  LockInv'
<1>. USE LockAssumption DEF LockInv, LockTypeOK, Crash, Go, Places
<1>1. Writers' \subseteq Writers
  BY DEF Writers
<1>2. crashes' \in 0..MaxCrashes
  OBVIOUS
<1>. QED
  BY <1>1, <1>2 DEF OldIsNobodys, OwnUnlessLate, HoldersOwnTheFile

LEMMA AgeInv ==
  ASSUME Slow = FALSE, LockInv, Age
  PROVE  LockInv'
<1>. USE LockAssumption DEF LockInv, LockTypeOK, Age
<1>1. lock' \in Files /\ lock'.by = lock.by
  BY DEF Files
<1>2. lock' # NoLock
  BY ONLY <1>1, LockAssumption DEF Files
<1>3. Writers' = Writers /\ lock.by \notin Writers
  BY DEF Writers, Ended
<1>. QED
  BY <1>1, <1>2, <1>3 DEF OldIsNobodys, OwnUnlessLate, HoldersOwnTheFile

LEMMA LockNextInv ==
  ASSUME Slow = FALSE, LockInv, [LockNext]_lockVars
  PROVE  LockInv'
<1>1. CASE UNCHANGED lockVars
  BY <1>1 DEF lockVars, LockInv, LockTypeOK, OldIsNobodys, OwnUnlessLate,
     HoldersOwnTheFile, Writers
<1>2. CASE Age
  BY <1>2, AgeInv
<1>3. ASSUME NEW r \in Runs, Acquire(r)
      PROVE  LockInv'
  BY <1>3, CreateInv, WriteHolderInv, LookInv, RemoveStaleInv DEF Acquire
<1>. QED
  BY <1>1, <1>2, <1>3, DropInv, LookInv, CrashInv DEF LockNext

\* acquire_within and Drop: no takeover being late, two processes never publish
\* one tree at the same time and a writer's file stays at the path.
THEOREM OneWriterPerTree ==
  ASSUME Slow = FALSE
  PROVE  LockSpec => []OneWriterUnlessLate
<1>1. LockInit => LockInv
  BY LockInitInv
<1>2. LockInv /\ [LockNext]_lockVars => LockInv'
  BY LockNextInv
<1>3. LockInv => OneWriterUnlessLate
  BY WritersShareTheFile DEF LockInv, OwnUnlessLate, OneWriterUnlessLate
<1>. QED
  BY <1>1, <1>2, <1>3, PTL DEF LockSpec

\* Every field of the lock, and what each process knows of it, keeps its type.
THEOREM LockTypeCorrect ==
  ASSUME Slow = FALSE
  PROVE  LockSpec => []LockTypeOK
<1>1. LockInit => LockInv
  BY LockInitInv
<1>2. LockInv /\ [LockNext]_lockVars => LockInv'
  BY LockNextInv
<1>3. LockInv => LockTypeOK
  BY DEF LockInv
<1>. QED
  BY <1>1, <1>2, <1>3, PTL DEF LockSpec

-----------------------------------------------------------------------------
(* The pipeline. The text of now is none of the past, so a run that discovered *)
(* it has read no other since: its checks, its rows and its payload are of it. *)
(* A run that discovered another is among those that wrote since the token and *)
(* since the readiness record, until one of the two is written anew.           *)

Text == sources.text
Starting == {"waiting", "discovering", "checking"}
Early == Starting \cup {"locking"}
Phases == Early \cup {"graph", "ending", "counting", "readiness", "unlocking", "returned"}
PlanRecords == [seen : Contents \cup {Unwritten}, checked : Contents \cup {Unwritten},
                clean : BOOLEAN, rows : SUBSET (Rows \cup {Unwritten}),
                failed : BOOLEAN, kept : BOOLEAN, next : Nat, stamp : Nat]
PublishTypes ==
  /\ sources \in [text : Contents, stamp : Nat] /\ past \subseteq Contents
  /\ phase \in [Runs -> Phases] /\ plan \in [Runs -> PlanRecords]
  /\ ready.number \in Nat
  /\ since \in [token : SUBSET Runs, ready : SUBSET Runs]

\* No text returns: what was discovered or published is of the past, or of now.
History ==
  /\ Text \notin past
  /\ token \in past \cup {Text, Unwritten}
  /\ \A r \in Runs : plan[r].seen \in past \cup {Text, Unwritten}

\* What a run knows before it writes, and what its checks say of the text.
Prepared(r) ==
  /\ phase[r] \in Early => /\ ~plan[r].failed /\ ~plan[r].kept
                           /\ r \notin since.token /\ r \notin since.ready
  /\ phase[r] \in Starting => ~plan[r].clean
  /\ plan[r].seen = Text /\ phase[r] \notin Starting => plan[r].checked = Text
  /\ plan[r].seen = Text /\ plan[r].clean => Text \in Valid

At(r, places) == pc[r] = "holding" /\ phase[r] \in places
\* A run that publishes is among those that wrote; one that discovered this text
\* made its payload of no other.
Working(r) ==
  /\ At(r, {"graph", "ending"}) => r \in since.token
  /\ plan[r].seen = Text =>
       /\ At(r, {"graph"}) => plan[r].rows \ {NoRows} = {Text}
       /\ At(r, {"graph", "ending"}) /\ ~plan[r].failed => plan[r].rows = {Text} /\ record = {Text}
       /\ At(r, {"ending"}) /\ ~plan[r].failed => graph = {Text}
       /\ At(r, {"counting", "readiness"}) => graph = {Text}
\* A run damages the payload of a token with a failed write, or because it had
\* discovered another text, and then replaces the token or takes it away, unless
\* it is cut short.
Damaging(r) == /\ r \in since.token /\ (plan[r].failed \/ plan[r].seen # Text)
               /\ pc[r] = "dead" \/ plan[r].kept \/ At(r, {"graph", "ending"})
PayloadKept ==
  token = Text => \/ record = {Text} /\ graph = {Text} /\ Text \in Valid
                  \/ \E r \in Runs : Damaging(r)
ReadyGraph ==
  ready.number > 0 =>
    /\ since.ready # {}
    /\ (\A r \in since.ready : plan[r].seen = Text) => graph \ {NoRows} = {Text}

Work == (\A r \in Runs : Working(r)) /\ PayloadKept /\ ReadyGraph
PublishInv == /\ LockInv /\ PublishTypes /\ History
              /\ \A r \in Runs : Prepared(r)
              /\ late \/ Work

LEMMA PublishInitInv ==
  ASSUME PublishInit
  PROVE  PublishInv
<1>. USE PublishAssumption
<1>1. LockInv
  BY LockInitInv DEF PublishInit
<1>2. /\ Text \in Contents /\ past = {} /\ token = Unwritten /\ ready = NoRecord
      /\ phase = [r \in Runs |-> "waiting"] /\ plan = [r \in Runs |-> NoPlan]
      /\ since = [token |-> {}, ready |-> {}]
  BY DEF PublishInit, Text
<1>3. Unwritten \notin Contents
  OBVIOUS
<1>4. PublishTypes
  <2>1. NoPlan \in PlanRecords /\ NoRecord.number \in Nat
    BY DEF NoPlan, NoRecord, PlanRecords, Rows
  <2>2. sources \in [text : Contents, stamp : Nat]
    BY DEF PublishInit
  <2>. QED
    BY <1>2, <2>1, <2>2 DEF PublishTypes, Phases, Early, Starting
<1>5. ASSUME NEW r \in Runs
      PROVE  /\ phase[r] = "waiting" /\ plan[r].seen = Unwritten
             /\ ~plan[r].failed /\ ~plan[r].kept /\ ~plan[r].clean
  BY <1>2 DEF NoPlan
<1>6. History /\ \A r \in Runs : Prepared(r)
  BY <1>2, <1>3, <1>5 DEF History, Prepared
<1>7. Work
  BY <1>2, <1>3, <1>5 DEF Work, Working, At, PayloadKept, ReadyGraph, NoRecord
<1>. QED
  BY <1>1, <1>4, <1>6, <1>7 DEF PublishInv

\* A run changes its own phase and what it knows, and nothing of another's.
Writes(r) == \/ WriteRecord(r) \/ WriteGraph(r) \/ WriteToken(r) \/ RemoveToken(r)
             \/ CountRuns(r) \/ WriteGeneration(r)

\* What a run learns leaves what it read, and no check passes that had not.
Learns(known, old) == /\ known \in PlanRecords /\ known.seen = old.seen /\ known.checked = old.checked
                      /\ known.clean => old.clean

LEMMA Learning ==
  ASSUME NEW old \in PlanRecords, NEW rows \in SUBSET (Rows \cup {Unwritten}), NEW failed \in BOOLEAN,
         NEW clean \in BOOLEAN, clean => old.clean, NEW next \in Nat, NEW stamp \in Nat
  PROVE  /\ Learns(old, old)
         /\ Learns([old EXCEPT !.rows = rows], old)
         /\ Learns([old EXCEPT !.rows = rows, !.failed = TRUE], old)
         /\ Learns([old EXCEPT !.clean = clean], old)
         /\ Learns([old EXCEPT !.clean = clean, !.failed = TRUE], old)
         /\ Learns([old EXCEPT !.kept = TRUE], old)
         /\ Learns([old EXCEPT !.next = next, !.stamp = stamp], old)
<1>. USE DEF Learns, PlanRecords
<1>1. Learns(old, old) /\ Learns([old EXCEPT !.kept = TRUE], old)
  OBVIOUS
<1>2. Learns([old EXCEPT !.rows = rows], old) /\ Learns([old EXCEPT !.rows = rows, !.failed = TRUE], old)
  OBVIOUS
<1>3. Learns([old EXCEPT !.clean = clean], old) /\ Learns([old EXCEPT !.clean = clean, !.failed = TRUE], old)
  OBVIOUS
<1>4. Learns([old EXCEPT !.next = next, !.stamp = stamp], old)
  OBVIOUS
<1>. QED
  BY <1>1, <1>2, <1>3, <1>4

LEMMA WritingRun ==
  ASSUME PublishTypes, NEW r \in Runs, Writes(r)
  PROVE  /\ UNCHANGED <<lockVars, tree>> /\ pc[r] = "holding"
         /\ PublishTypes'
         /\ \A q \in Runs \ {r} : plan'[q] = plan[q] /\ phase'[q] = phase[q]
         /\ plan'[r].seen = plan[r].seen /\ plan'[r].checked = plan[r].checked
         /\ plan'[r].clean => plan[r].clean
         /\ phase[r] \in {"locking", "graph", "ending", "counting", "readiness"}
         /\ phase'[r] \in {"graph", "ending", "counting", "readiness", "unlocking"}
         /\ \A q \in Runs \ {r} : /\ q \in since.token' => q \in since.token
                                  /\ q \in since.ready' => q \in since.ready
<1>1. /\ UNCHANGED <<lockVars, tree>> /\ pc[r] = "holding"
      /\ phase[r] \in {"locking", "graph", "ending", "counting", "readiness"}
  BY DEF Writes, WriteRecord, WriteGraph, WriteToken, RemoveToken, CountRuns, WriteGeneration, Holds
<1>2. PICK next \in {"graph", "ending", "counting", "readiness", "unlocking"} : Enter(r, next)
  BY DEF Writes, WriteRecord, WriteGraph, WriteToken, RemoveToken, CountRuns, WriteGeneration
<1>3. plan[r] \in PlanRecords /\ sources.text \in Rows /\ sources.stamp \in Nat /\ ready.number \in Nat
  BY DEF PublishTypes, Rows
<1>4. PICK known : Learns(known, plan[r]) /\ plan' = [plan EXCEPT ![r] = known]
  <2>. USE <1>3
  <2>1. CASE UNCHANGED plan
    <3>1. plan' = [plan EXCEPT ![r] = plan[r]]
      BY <2>1 DEF PublishTypes
    <3>. QED
      BY <3>1, Learning
  <2>2. CASE WriteRecord(r)
    <3>1. /\ RowsOf(r) \subseteq Rows \cup {Unwritten} /\ NoRows \in Rows
      BY DEF RowsOf, Rows, PlanRecords
    <3>2. PICK rows \in SUBSET (Rows \cup {Unwritten}) :
            \/ plan' = [plan EXCEPT ![r].rows = rows]
            \/ plan' = [plan EXCEPT ![r].rows = rows, ![r].failed = TRUE]
      BY <2>2, <3>1 DEF WriteRecord
    <3>3. \/ plan' = [plan EXCEPT ![r] = [plan[r] EXCEPT !.rows = rows]]
          \/ plan' = [plan EXCEPT ![r] = [plan[r] EXCEPT !.rows = rows, !.failed = TRUE]]
      BY <3>2 DEF PublishTypes
    <3>. QED
      BY <3>3, Learning
  <2>3. CASE WriteGraph(r)
    <3>1. PICK fits \in Verdicts(GraphOf(r)) :
            \/ plan' = [plan EXCEPT ![r].clean = @ /\ fits]
            \/ plan' = [plan EXCEPT ![r].clean = @ /\ fits, ![r].failed = TRUE]
      BY <2>3 DEF WriteGraph
    <3>. PICK clean \in BOOLEAN : clean = (plan[r].clean /\ fits)
      BY Zenon
    <3>2. \/ plan' = [plan EXCEPT ![r] = [plan[r] EXCEPT !.clean = clean]]
          \/ plan' = [plan EXCEPT ![r] = [plan[r] EXCEPT !.clean = clean, !.failed = TRUE]]
      BY <3>1 DEF PublishTypes
    <3>3. clean => plan[r].clean
      OBVIOUS
    <3>. QED
      BY <3>2, <3>3, Learning
  <2>4. CASE plan' = [plan EXCEPT ![r].kept = TRUE]
    <3>1. plan' = [plan EXCEPT ![r] = [plan[r] EXCEPT !.kept = TRUE]]
      BY <2>4 DEF PublishTypes
    <3>. QED
      BY <3>1, Learning
  <2>5. CASE plan' = [plan EXCEPT ![r].next = ready.number + 1, ![r].stamp = sources.stamp]
    <3>1. plan' = [plan EXCEPT ![r] = [plan[r] EXCEPT !.next = ready.number + 1, !.stamp = sources.stamp]]
      BY <2>5 DEF PublishTypes
    <3>2. ready.number + 1 \in Nat
      OBVIOUS
    <3>. QED
      BY <3>1, <3>2, Learning
  <2>. QED
    BY <2>1, <2>2, <2>3, <2>4, <2>5 DEF Writes, WriteToken, RemoveToken, CountRuns, WriteGeneration
<1>5. phase' \in [Runs -> Phases] /\ \A q \in Runs : phase'[q] = IF q = r THEN next ELSE phase[q]
  BY <1>2 DEF Enter, PublishTypes, Phases, Early
<1>6. plan' \in [Runs -> PlanRecords] /\ \A q \in Runs : plan'[q] = IF q = r THEN known ELSE plan[q]
  BY <1>4 DEF PublishTypes, Learns
<1>7. ready.number' \in Nat
  BY <1>3 DEF Writes, WriteRecord, WriteGraph, WriteToken, RemoveToken, CountRuns, WriteGeneration, files, PlanRecords
<1>8. /\ since' \in [token : SUBSET Runs, ready : SUBSET Runs]
      /\ \A q \in Runs \ {r} : /\ q \in since.token' => q \in since.token
                               /\ q \in since.ready' => q \in since.ready
  <2>1. since \in [token : SUBSET Runs, ready : SUBSET Runs]
    BY DEF PublishTypes
  <2>2. PICK left \in SUBSET Runs, still \in SUBSET Runs :
          /\ left \subseteq since.token \cup {r} /\ still \subseteq since.ready \cup {r}
          /\ since' = [token |-> left, ready |-> still]
    <3>1. CASE since' = since
      BY <2>1, <3>1
    <3>2. CASE Wrote(r)
      <4>1. since' = [token |-> since.token \cup {r}, ready |-> since.ready \cup {r}]
        BY <2>1, <3>2 DEF Wrote
      <4>. QED
        BY <2>1, <4>1
    <3>3. CASE since' = [since EXCEPT !.token = {r}] \/ since' = [since EXCEPT !.token = {}]
      <4>1. since' = [token |-> {r}, ready |-> since.ready] \/ since' = [token |-> {}, ready |-> since.ready]
        BY <2>1, <3>3
      <4>. QED
        BY <2>1, <4>1
    <3>4. CASE since' = [since EXCEPT !.ready = {r}]
      <4>1. since' = [token |-> since.token, ready |-> {r}]
        BY <2>1, <3>4
      <4>. QED
        BY <2>1, <4>1
    <3>. QED
      BY <3>1, <3>2, <3>3, <3>4
         DEF Writes, WriteRecord, WriteGraph, WriteToken, RemoveToken, CountRuns, WriteGeneration
  <2>. QED
    BY <2>2
<1>9. PublishTypes'
  BY <1>1, <1>5, <1>6, <1>7, <1>8 DEF PublishTypes, tree
<1>. QED
  BY <1>1, <1>4, <1>5, <1>6, <1>8, <1>9 DEF Learns

\* The other steps: the lock moves, somebody edits, a run starts, looks or ends.
Moves(r) == \/ TakeLock(r) \/ Kill(r) \/ CheckExits(r) \/ LockFails(r)
            \/ StartCheck(r) \/ Discover(r) \/ Check(r) \/ Return(r)

LEMMA StepsSplit ==
  ASSUME PublishNext
  PROVE  \/ OutsideEdit \/ BridgeWrite \/ LockAges
         \/ \E r \in Runs : Moves(r) \/ Writes(r)
BY DEF PublishNext, Run, Moves, Writes

LEMMA LockStepOfPublish ==
  ASSUME [PublishNext]_publishVars
  PROVE  [LockNext]_lockVars
<1>1. CASE OutsideEdit \/ BridgeWrite
  BY <1>1 DEF OutsideEdit, BridgeWrite
<1>2. CASE LockAges
  BY <1>2 DEF LockAges, LockNext
<1>3. ASSUME NEW r \in Runs, Writes(r)
      PROVE  UNCHANGED lockVars
  BY <1>3 DEF Writes, WriteRecord, WriteGraph, WriteToken, RemoveToken, CountRuns, WriteGeneration, Holds
<1>4. ASSUME NEW r \in Runs, Moves(r)
      PROVE  [LockNext]_lockVars
  BY <1>4 DEF Moves, TakeLock, Kill, CheckExits, LockFails, StartCheck, Discover, Check, Return, LockNext
<1>5. CASE UNCHANGED publishVars
  BY <1>5 DEF publishVars
<1>. QED
  BY <1>1, <1>2, <1>3, <1>4, <1>5, StepsSplit

\* None of these writes a file; a run that publishes only ends or is killed; and
\* a text that is new was never discovered or published.
OnlyMoves ==
  /\ UNCHANGED <<files, since>>
  /\ \A q \in Runs : \/ phase[q] \in Early /\ phase'[q] \in Early
                     \/ /\ plan'[q] = plan[q]
                        /\ phase'[q] = phase[q] \/ (phase[q] = "unlocking" /\ phase'[q] = "returned")
  /\ \A q \in Runs : /\ pc[q] = "dead" => pc'[q] = "dead"
                     /\ phase[q] \notin Early /\ pc'[q] = "holding" => pc[q] = "holding"
                     /\ phase[q] \in {"graph", "ending"} /\ pc[q] = "holding" => pc'[q] \in {"holding", "dead"}
  /\ Text' = Text \/ (token # Text' /\ \A q \in Runs : plan[q].seen # Text')

LEMMA WorkKept ==
  ASSUME PublishTypes, \A q \in Runs : Prepared(q), Work, OnlyMoves
  PROVE  Work'
<1>1. ASSUME NEW q \in Runs, phase'[q] \notin Early \/ phase[q] \notin Early
      PROVE  /\ plan'[q] = plan[q] /\ phase[q] \notin Early
             /\ phase'[q] = phase[q] \/ (phase[q] = "unlocking" /\ phase'[q] = "returned")
  BY <1>1 DEF OnlyMoves, Early, Starting
<1>2. record' = record /\ graph' = graph /\ token' = token /\ ready' = ready /\ since' = since
  BY DEF OnlyMoves, files
<1>3. ASSUME NEW q \in Runs
      PROVE  Working(q)'
  <2>. SUFFICES ASSUME At(q, {"graph", "ending", "counting", "readiness"})'
                PROVE  Working(q)'
    BY DEF Working, At
  <2>1. plan'[q] = plan[q] /\ phase'[q] = phase[q] /\ pc[q] = "holding"
    <3>1. phase'[q] \notin Early /\ phase'[q] # "returned"
      BY DEF At, Early, Starting
    <3>. QED
      BY <1>1, <3>1 DEF At, OnlyMoves
  <2>2. Working(q)
    BY DEF Work
  <2>3. plan[q].seen = Text' => Text' = Text
    BY DEF OnlyMoves
  <2>. QED
    BY <1>2, <2>1, <2>2, <2>3 DEF Working, At
<1>4. ASSUME NEW q \in Runs, q \in since.token \/ q \in since.ready
      PROVE  phase[q] \notin Early /\ plan'[q] = plan[q]
  <2>1. phase[q] \notin Early
    BY <1>4 DEF Prepared
  <2>. QED
    BY <1>1, <2>1
<1>5. PayloadKept'
  <2>1. ASSUME NEW q \in Runs, Damaging(q), Text' = Text
        PROVE  Damaging(q)'
    <3>1. phase[q] \notin Early /\ plan'[q] = plan[q]
      BY <1>4, <2>1 DEF Damaging
    <3>2. phase'[q] = phase[q] \/ phase[q] = "unlocking"
      BY <3>1 DEF OnlyMoves
    <3>. QED
      BY <1>2, <2>1, <3>1, <3>2 DEF Damaging, At, OnlyMoves
  <2>. QED
    BY <1>2, <2>1 DEF Work, PayloadKept, OnlyMoves
<1>6. ReadyGraph'
  <2>. SUFFICES ASSUME ready.number > 0
                PROVE  /\ since.ready # {}
                       /\ (\A q \in since.ready : plan'[q].seen = Text') => graph \ {NoRows} = {Text'}
    BY <1>2 DEF ReadyGraph
  <2>1. since.ready # {} /\ since.ready \subseteq Runs
    BY DEF Work, ReadyGraph, PublishTypes
  <2>2. \A q \in since.ready : plan'[q] = plan[q]
    BY <1>4, <2>1
  <2>3. CASE Text' = Text
    BY <2>1, <2>2, <2>3 DEF Work, ReadyGraph
  <2>4. CASE Text' # Text
    BY <2>1, <2>2, <2>4 DEF OnlyMoves
  <2>. QED
    BY <2>1, <2>3, <2>4
<1>. QED
  BY <1>3, <1>5, <1>6 DEF Work

\* What an edit writes is none of the past, and what it replaces becomes past.
LEMMA EditMoves ==
  ASSUME PublishTypes, History, \A q \in Runs : Prepared(q), Reverts = FALSE, OutsideEdit \/ BridgeWrite
  PROVE  PublishTypes' /\ History' /\ (\A q \in Runs : Prepared(q)') /\ OnlyMoves
<1>1. /\ UNCHANGED <<lockVars, files, plan, since>>
      /\ Edit
  BY DEF OutsideEdit, BridgeWrite, runState
<1>2. PICK text \in Contents \ {Text} : /\ text \notin past
                                        /\ sources' = [text |-> text, stamp |-> sources.stamp + 1]
  BY <1>1 DEF Edit, Text
<1>3. past' = past \cup {Text} /\ Text' = text /\ Text' \in Contents
  BY <1>1, <1>2 DEF Edit, Text
<1>4. /\ phase' \in [Runs -> Phases]
      /\ \A q \in Runs : phase'[q] = phase[q] \/ (phase[q] = "waiting" /\ phase'[q] = "discovering")
  <2>1. CASE UNCHANGED phase
    BY <2>1 DEF PublishTypes
  <2>2. CASE ~UNCHANGED phase
    <3>1. PICK r \in Refreshes : phase[r] = "waiting" /\ Enter(r, "discovering")
      BY <2>2 DEF OutsideEdit, BridgeWrite, runState
    <3>. QED
      BY <3>1, PublishAssumption DEF Enter, PublishTypes, Phases, Early, Starting
  <2>. QED
    BY <2>1, <2>2
<1>5. Text \in Contents /\ Unwritten \notin Contents
  BY PublishAssumption DEF PublishTypes, Text
<1>6. PublishTypes'
  <2>1. sources' \in [text : Contents, stamp : Nat] /\ past' \subseteq Contents
    BY <1>2, <1>3, <1>5 DEF PublishTypes
  <2>. QED
    BY <1>1, <1>4, <2>1 DEF PublishTypes, files
<1>7. token # Text' /\ \A q \in Runs : plan[q].seen # Text'
  BY <1>2, <1>3, <1>5 DEF History
<1>8. History'
  BY <1>1, <1>2, <1>3 DEF History, files
<1>9. \A q \in Runs : Prepared(q)'
  BY <1>1, <1>4, <1>7 DEF Prepared, Early, Starting
<1>10. OnlyMoves
  BY <1>1, <1>4, <1>7 DEF OnlyMoves, Early, Starting, lockVars
<1>. QED
  BY <1>6, <1>8, <1>9, <1>10

\* Discovering and checking read the text of now, and the checks pass it only if
\* it is valid.
LEMMA LookMoves ==
  ASSUME PublishTypes, History, \A q \in Runs : Prepared(q), LockTypeOK,
         NEW r \in Runs, StartCheck(r) \/ Discover(r) \/ Check(r)
  PROVE  PublishTypes' /\ History' /\ (\A q \in Runs : Prepared(q)') /\ OnlyMoves
<1>1. /\ UNCHANGED <<lockVars, tree, files, since>> /\ Text' = Text /\ Text \in Contents
      /\ phase[r] \in Starting
  <2>1. UNCHANGED <<lockVars, tree, files, since>> /\ phase[r] \in Starting
    BY DEF StartCheck, Discover, Check, Starting
  <2>. QED
    BY <2>1 DEF tree, Text, PublishTypes
<1>2. PICK next \in Early \ {"waiting"} :
        /\ Enter(r, next)
        /\ next = "locking" => Check(r)
        /\ next # "locking" => ~Check(r)
  <2>1. CASE StartCheck(r)
    BY <2>1 DEF StartCheck, Check, Early, Starting
  <2>2. CASE Discover(r)
    BY <2>2 DEF Discover, Check, Early, Starting
  <2>3. CASE Check(r)
    BY <2>3 DEF Check, Early, Starting
  <2>. QED
    BY <2>1, <2>2, <2>3
<1>3. plan[r] \in PlanRecords /\ ~plan[r].clean /\ phase[r] \in Early
  BY <1>1 DEF PublishTypes, Prepared, Early
<1>4. PICK known \in PlanRecords :
        /\ plan' = [plan EXCEPT ![r] = known]
        /\ known.failed = plan[r].failed /\ known.kept = plan[r].kept
        /\ known.seen \in {plan[r].seen, Text}
        /\ Check(r) => known.checked = Text
        /\ known.clean => Check(r) /\ (known.seen = Text => Text \in Valid)
  <2>1. CASE StartCheck(r)
    <3>1. plan' = [plan EXCEPT ![r] = plan[r]] /\ ~Check(r)
      BY <2>1 DEF StartCheck, Check, PublishTypes
    <3>. QED
      BY <1>3, <3>1
  <2>2. CASE Discover(r)
    <3>. DEFINE learnt == [plan[r] EXCEPT !.seen = Text]
    <3>1. plan' = [plan EXCEPT ![r] = learnt] /\ ~Check(r)
      BY <2>2 DEF Discover, Check, PublishTypes, Text
    <3>2. /\ learnt \in PlanRecords /\ learnt.failed = plan[r].failed /\ learnt.kept = plan[r].kept
          /\ learnt.seen = Text /\ learnt.clean = plan[r].clean
      BY <1>1, <1>3 DEF PlanRecords
    <3>. HIDE DEF learnt
    <3>. QED
      BY <1>3, <3>1, <3>2
  <2>3. CASE Check(r)
    <3>1. PICK passed \in Verdicts({plan[r].seen, Text}) :
            plan' = [plan EXCEPT ![r].checked = Text, ![r].clean = passed]
      BY <2>3 DEF Check, Text
    <3>2. passed \in BOOLEAN /\ (plan[r].seen = Text => (passed = (Text \in Valid)))
      BY <1>1 DEF Verdicts
    <3>. DEFINE learnt == [plan[r] EXCEPT !.checked = Text, !.clean = passed]
    <3>3. plan' = [plan EXCEPT ![r] = learnt]
      BY <3>1 DEF PublishTypes
    <3>4. /\ learnt \in PlanRecords /\ learnt.failed = plan[r].failed /\ learnt.kept = plan[r].kept
          /\ learnt.seen = plan[r].seen /\ learnt.checked = Text /\ learnt.clean = passed
      BY <1>1, <1>3, <3>2 DEF PlanRecords
    <3>. HIDE DEF learnt
    <3>. QED
      BY <2>3, <3>2, <3>3, <3>4
  <2>. QED
    BY <2>1, <2>2, <2>3
<1>5. \A q \in Runs : /\ phase'[q] = IF q = r THEN next ELSE phase[q]
                      /\ plan'[q] = IF q = r THEN known ELSE plan[q]
  BY <1>2, <1>4 DEF Enter, PublishTypes
<1>6. PublishTypes'
  BY <1>1, <1>2, <1>4 DEF PublishTypes, Enter, Phases, tree, files
<1>7. History'
  BY <1>1, <1>4, <1>5 DEF History, tree, files
<1>8. ASSUME NEW q \in Runs
      PROVE  Prepared(q)'
  <2>1. CASE q # r
    BY <1>1, <1>5, <2>1 DEF Prepared, Early
  <2>2. CASE q = r
    <3>1. phase'[r] = next /\ plan'[r] = known /\ Text' = Text /\ since' = since
      BY <1>1, <1>5
    <3>2. ~plan[r].failed /\ ~plan[r].kept /\ r \notin since.token /\ r \notin since.ready
      BY <1>3 DEF Prepared
    <3>3. next \in Starting => ~known.clean
      BY <1>2, <1>4 DEF Starting
    <3>4. next \notin Starting => known.checked = Text
      BY <1>2, <1>4 DEF Early
    <3>. QED
      BY <1>4, <2>2, <3>1, <3>2, <3>3, <3>4 DEF Prepared
  <2>. QED
    BY <2>1, <2>2
<1>9. OnlyMoves
  BY <1>1, <1>2, <1>3, <1>5 DEF OnlyMoves, lockVars
<1>. QED
  BY <1>6, <1>7, <1>8, <1>9

\* The lock moves, a run starts or looks at the sources, or drops its guard.
LEMMA RunMoves ==
  ASSUME PublishTypes, History, \A q \in Runs : Prepared(q), LockTypeOK,
         LockAges \/ \E r \in Runs : Moves(r)
  PROVE  PublishTypes' /\ History' /\ (\A q \in Runs : Prepared(q)') /\ OnlyMoves
<1>1. UNCHANGED <<tree, files, since>> /\ Text' = Text /\ Text \in Contents
  <2>1. UNCHANGED <<tree, files, since>>
    BY DEF LockAges, Moves, TakeLock, Kill, CheckExits, LockFails, StartCheck, Discover, Check, Return
  <2>. QED
    BY <2>1 DEF tree, Text, PublishTypes
<1>2. CASE LockAges
  BY <1>1, <1>2 DEF LockAges, Age, runState, tree, files, PublishTypes, History, Prepared, OnlyMoves, Early, Text
<1>3. ASSUME NEW r \in Runs, TakeLock(r) \/ Kill(r) \/ CheckExits(r) \/ LockFails(r)
      PROVE  PublishTypes' /\ History' /\ (\A q \in Runs : Prepared(q)') /\ OnlyMoves
  <2>1. UNCHANGED runState
    BY <1>3 DEF TakeLock, Kill, CheckExits, LockFails
  <2>2. \A q \in Runs \ {r} : pc'[q] = pc[q]
    BY <1>3 DEF TakeLock, Kill, CheckExits, LockFails, Acquire, Create, WriteHolder, HolderOf, Judge,
       RemoveStale, Recreate, Deadline, CreateFile, IoError, Crash, Exit, Go, LockTypeOK
  <2>3. /\ pc[r] # "dead"
        /\ phase[r] \notin Early => pc[r] # "holding" \/ pc'[r] = "dead"
        /\ phase[r] \notin Early => pc'[r] # "holding"
    <3>1. CASE TakeLock(r)
      BY <3>1 DEF TakeLock, Early, Acquire, Create, WriteHolder, HolderOf, Judge, RemoveStale, Recreate, Deadline
    <3>2. CASE Kill(r)
      BY <3>2 DEF Kill, Crash, Go, LockTypeOK, Ended
    <3>3. CASE CheckExits(r)
      BY <3>3 DEF CheckExits, Exit, Go, LockTypeOK
    <3>4. CASE LockFails(r)
      BY <3>4 DEF LockFails, IoError, Early
    <3>. QED
      BY <1>3, <3>1, <3>2, <3>3, <3>4
  <2>4. OnlyMoves
    BY <1>1, <2>1, <2>2, <2>3 DEF OnlyMoves, runState, Early, Starting
  <2>. QED
    BY <1>1, <2>1, <2>4 DEF runState, tree, files, PublishTypes, History, Prepared, Text
<1>4. ASSUME NEW r \in Runs, Return(r)
      PROVE  PublishTypes' /\ History' /\ (\A q \in Runs : Prepared(q)') /\ OnlyMoves
  <2>1. phase[r] = "unlocking" /\ plan' = plan /\ pc[r] = "holding"
    BY <1>4 DEF Return, Drop
  <2>2. \A q \in Runs : /\ phase'[q] = IF q = r THEN "returned" ELSE phase[q]
                        /\ pc'[q] = IF q = r THEN "released" ELSE pc[q]
    BY <1>4 DEF Return, Drop, Go, Enter, PublishTypes, LockTypeOK
  <2>3. PublishTypes'
    BY <1>1, <1>4, <2>1 DEF PublishTypes, Return, Enter, Phases, tree, files
  <2>4. History' /\ \A q \in Runs : Prepared(q)'
    BY <1>1, <2>1, <2>2 DEF History, Prepared, Early, Starting, tree, files
  <2>5. OnlyMoves
    BY <1>1, <2>1, <2>2 DEF OnlyMoves, Early, Starting
  <2>. QED
    BY <2>3, <2>4, <2>5
<1>. QED
  BY <1>2, <1>3, <1>4, LookMoves DEF Moves

LEMMA WritesKeep ==
  ASSUME PublishTypes, History, \A q \in Runs : Prepared(q), NEW r \in Runs, Writes(r)
  PROVE  PublishTypes' /\ History' /\ (\A q \in Runs : Prepared(q)')
<1>1. /\ PublishTypes' /\ UNCHANGED tree
      /\ \A q \in Runs \ {r} : /\ plan'[q] = plan[q] /\ phase'[q] = phase[q]
                               /\ q \in since.token' => q \in since.token
                               /\ q \in since.ready' => q \in since.ready
      /\ plan'[r].seen = plan[r].seen /\ plan'[r].checked = plan[r].checked
      /\ plan'[r].clean => plan[r].clean
      /\ phase[r] \notin Starting /\ phase'[r] \notin Early
  BY WritingRun DEF Starting, Early
<1>2. token' \in {token, plan[r].seen, Unwritten}
  BY DEF Writes, WriteRecord, WriteGraph, WriteToken, RemoveToken, CountRuns, WriteGeneration, files
<1>3. Text' = Text
  BY <1>1 DEF tree, Text
<1>4. History'
  BY <1>1, <1>2, <1>3 DEF History, tree
<1>5. ASSUME NEW q \in Runs
      PROVE  Prepared(q)'
  <2>1. CASE q = r
    BY <1>1, <1>3, <2>1 DEF Prepared, Early
  <2>2. CASE q # r
    BY <1>1, <1>3, <2>2 DEF Prepared
  <2>. QED
    BY <2>1, <2>2
<1>. QED
  BY <1>1, <1>4, <1>5

\* One process at a time writes: the others keep what they have.
LEMMA BesideWriter ==
  ASSUME LockInv, ~late, PublishTypes, NEW r \in Runs, Writes(r)
  PROVE  /\ Text' = Text /\ pc' = pc /\ plan'[r].seen = plan[r].seen
         /\ \A q \in Runs \ {r} : /\ plan'[q] = plan[q] /\ Working(q)'
                                  /\ Damaging(q) /\ q \in since.token' => Damaging(q)'
<1>1. /\ UNCHANGED <<lockVars, tree>> /\ pc[r] = "holding" /\ plan'[r].seen = plan[r].seen
      /\ \A q \in Runs \ {r} : plan'[q] = plan[q] /\ phase'[q] = phase[q]
  BY WritingRun
<1>2. Text' = Text /\ pc' = pc
  BY <1>1 DEF Text, tree, lockVars
<1>3. \A q \in Runs \ {r} : pc[q] # "holding"
  BY <1>1 DEF LockInv, OwnUnlessLate, HoldersOwnTheFile, Writers
<1>4. ASSUME NEW q \in Runs \ {r}
      PROVE  Working(q)' /\ (Damaging(q) /\ q \in since.token' => Damaging(q)')
  <2>1. plan'[q] = plan[q] /\ phase'[q] = phase[q] /\ pc'[q] = pc[q] /\ pc[q] # "holding"
    BY <1>1, <1>2, <1>3
  <2>2. Working(q)'
    BY <2>1 DEF Working, At
  <2>. QED
    BY <1>2, <2>1, <2>2 DEF Damaging, At
<1>. QED
  BY <1>1, <1>2, <1>3, <1>4

\* The record is made of what the run discovered, what it checked and the text of
\* now, once the lock is held.
LEMMA WriteRecordWork ==
  ASSUME PublishInv, ~late, NEW r \in Runs, WriteRecord(r)
  PROVE  Work'
<1>1. /\ LockInv /\ PublishTypes /\ Prepared(r) /\ Work /\ Writes(r)
      /\ Text \in Contents /\ NoRows # Text
  BY PublishAssumption DEF PublishInv, Writes, PublishTypes, Text
<1>2. /\ Text' = Text /\ pc' = pc /\ plan'[r].seen = plan[r].seen
      /\ \A q \in Runs \ {r} : /\ plan'[q] = plan[q] /\ Working(q)'
                               /\ Damaging(q) /\ q \in since.token' => Damaging(q)'
  BY <1>1, BesideWriter
<1>3. /\ phase[r] = "locking" /\ phase'[r] = "graph" /\ pc[r] = "holding" /\ UNCHANGED <<graph, token, ready>>
      /\ ~plan[r].failed /\ ~plan[r].kept
      /\ since.token' = since.token \cup {r} /\ since.ready' = since.ready \cup {r}
  BY <1>1 DEF WriteRecord, Holds, Enter, PublishTypes, Prepared, Early, Wrote
<1>4. plan[r].seen = Text => Payload(r) = {Text} /\ RowsOf(r) = {Text}
  BY <1>1, <1>3 DEF Payload, RowsOf, Prepared, Starting, Text
<1>5. \/ record' = Payload(r) /\ plan'[r].rows = RowsOf(r) /\ ~plan'[r].failed
      \/ plan'[r].rows \in {RowsOf(r), RowsOf(r) \cup {NoRows}} /\ plan'[r].failed
  <2>1. plan[r] \in PlanRecords
    BY <1>1 DEF PublishTypes
  <2>2. CASE record' = Payload(r) /\ plan' = [plan EXCEPT ![r].rows = RowsOf(r)]
    <3>1. plan'[r] = [plan[r] EXCEPT !.rows = RowsOf(r)]
      BY <1>1, <2>2 DEF PublishTypes
    <3>. QED
      BY <1>3, <2>1, <2>2, <3>1 DEF PlanRecords
  <2>3. ASSUME NEW rows \in {RowsOf(r), RowsOf(r) \cup {NoRows}},
               plan' = [plan EXCEPT ![r].rows = rows, ![r].failed = TRUE]
        PROVE  plan'[r].rows = rows /\ plan'[r].failed
    <3>1. plan'[r] = [plan[r] EXCEPT !.rows = rows, !.failed = TRUE]
      BY <1>1, <2>3 DEF PublishTypes
    <3>. QED
      BY <2>1, <3>1 DEF PlanRecords
  <2>. QED
    BY <2>2, <2>3 DEF WriteRecord
<1>6. Working(r)'
  BY <1>1, <1>2, <1>3, <1>4, <1>5 DEF Working, At
<1>7. PayloadKept'
  <2>. SUFFICES ASSUME token = Text
                PROVE  \/ record' = {Text} /\ graph = {Text} /\ Text \in Valid
                       \/ \E q \in Runs : Damaging(q)'
    BY <1>2, <1>3 DEF PayloadKept
  <2>1. CASE plan[r].seen = Text /\ ~plan'[r].failed
    <3>1. record' = {Text}
      BY <1>4, <1>5, <2>1
    <3>2. \/ graph = {Text} /\ Text \in Valid
          \/ \E q \in Runs \ {r} : Damaging(q)
      BY <1>1, <1>3, <2>1 DEF Work, PayloadKept, Damaging
    <3>. QED
      BY <1>2, <1>3, <3>1, <3>2 DEF Damaging
  <2>2. CASE plan[r].seen # Text \/ plan'[r].failed
    BY <1>2, <1>3, <2>2 DEF Damaging, At
  <2>. QED
    BY <2>1, <2>2
<1>8. ReadyGraph'
  <2>1. r \notin since.ready /\ since.ready \subseteq Runs
    BY <1>1, <1>3 DEF Prepared, Early, PublishTypes
  <2>2. \A q \in since.ready : plan'[q] = plan[q]
    BY <1>2, <2>1
  <2>. QED
    BY <1>1, <1>2, <1>3, <2>2 DEF Work, ReadyGraph
<1>. QED
  BY <1>2, <1>6, <1>7, <1>8 DEF Work

\* The graph is made of the rows the same run has read and of what it checked.
LEMMA WriteGraphWork ==
  ASSUME PublishInv, ~late, NEW r \in Runs, WriteGraph(r)
  PROVE  Work'
<1>1. /\ LockInv /\ PublishTypes /\ Prepared(r) /\ Work /\ Writes(r)
      /\ Text \in Contents /\ NoRows # Text
  BY PublishAssumption DEF PublishInv, Writes, PublishTypes, Text
<1>2. /\ Text' = Text /\ pc' = pc /\ plan'[r].seen = plan[r].seen
      /\ \A q \in Runs \ {r} : /\ plan'[q] = plan[q] /\ Working(q)'
                               /\ Damaging(q) /\ q \in since.token' => Damaging(q)'
  BY <1>1, BesideWriter
<1>3. /\ phase[r] = "graph" /\ phase'[r] = "ending" /\ pc[r] = "holding" /\ UNCHANGED <<record, token, ready>>
      /\ since.token' = since.token \cup {r} /\ since.ready' = since.ready \cup {r}
  BY <1>1 DEF WriteGraph, Holds, Enter, PublishTypes, Wrote
<1>4. /\ plan'[r].rows = plan[r].rows
      /\ \/ graph' = GraphOf(r) /\ plan'[r].failed = plan[r].failed
         \/ graph' = graph /\ plan'[r].failed
  <2>1. plan[r] \in PlanRecords
    BY <1>1 DEF PublishTypes
  <2>2. PICK fits : \/ graph' = GraphOf(r) /\ plan' = [plan EXCEPT ![r].clean = @ /\ fits]
                    \/ graph' = graph /\ plan' = [plan EXCEPT ![r].clean = @ /\ fits, ![r].failed = TRUE]
    BY DEF WriteGraph
  <2>3. \/ graph' = GraphOf(r) /\ plan'[r] = [plan[r] EXCEPT !.clean = @ /\ fits]
        \/ graph' = graph /\ plan'[r] = [plan[r] EXCEPT !.clean = @ /\ fits, !.failed = TRUE]
    BY <1>1, <2>2 DEF PublishTypes
  <2>. QED
    BY <2>1, <2>3 DEF PlanRecords
<1>5. plan[r].seen = Text => /\ GraphOf(r) \ {NoRows} = {Text}
                             /\ ~plan[r].failed => GraphOf(r) = {Text} /\ record = {Text}
  <2>. SUFFICES ASSUME plan[r].seen = Text
                PROVE  /\ GraphOf(r) \ {NoRows} = {Text}
                       /\ ~plan[r].failed => GraphOf(r) = {Text} /\ record = {Text}
    OBVIOUS
  <2>1. plan[r].checked = Text
    BY <1>1, <1>3 DEF Prepared, Starting
  <2>2. /\ plan[r].rows \ {NoRows} = {Text}
        /\ ~plan[r].failed => plan[r].rows = {Text} /\ record = {Text}
    BY <1>1, <1>3 DEF Work, Working, At
  <2>. QED
    BY <1>1, <2>1, <2>2 DEF GraphOf
<1>6. Working(r)'
  BY <1>2, <1>3, <1>4, <1>5, <1>1 DEF Working, At, Work
<1>7. PayloadKept'
  <2>. SUFFICES ASSUME token = Text
                PROVE  \/ record = {Text} /\ graph' = {Text} /\ Text \in Valid
                       \/ \E q \in Runs : Damaging(q)'
    BY <1>2, <1>3 DEF PayloadKept
  <2>1. CASE plan[r].seen # Text \/ plan'[r].failed
    BY <1>2, <1>3, <2>1 DEF Damaging, At
  <2>2. CASE plan[r].seen = Text /\ ~plan'[r].failed
    <3>1. ~plan[r].failed /\ graph' = {Text} /\ record = {Text}
      BY <1>4, <1>5, <2>2
    <3>2. \/ Text \in Valid
          \/ \E q \in Runs \ {r} : Damaging(q)
      BY <1>1, <2>2, <3>1 DEF Work, PayloadKept, Damaging
    <3>. QED
      BY <1>2, <1>3, <3>1, <3>2 DEF Damaging
  <2>. QED
    BY <2>1, <2>2
<1>8. ReadyGraph'
  <2>1. since.ready \subseteq Runs
    BY <1>1 DEF PublishTypes
  <2>2. \A q \in since.ready : plan'[q].seen = plan[q].seen
    BY <1>2, <2>1
  <2>. QED
    BY <1>1, <1>2, <1>3, <1>4, <1>5, <2>2 DEF Work, ReadyGraph
<1>. QED
  BY <1>2, <1>6, <1>7, <1>8 DEF Work

\* A token is written for a payload of the text it names, which passed the checks.
LEMMA WriteTokenWork ==
  ASSUME PublishInv, ~late, NEW r \in Runs, WriteToken(r)
  PROVE  Work'
<1>1. /\ LockInv /\ PublishTypes /\ Prepared(r) /\ Work /\ Writes(r)
  BY DEF PublishInv, Writes
<1>2. /\ Text' = Text /\ pc' = pc /\ plan'[r].seen = plan[r].seen
      /\ \A q \in Runs \ {r} : /\ plan'[q] = plan[q] /\ Working(q)'
                               /\ Damaging(q) /\ q \in since.token' => Damaging(q)'
  BY <1>1, BesideWriter
<1>3. /\ phase[r] = "ending" /\ phase'[r] = "counting" /\ pc[r] = "holding" /\ UNCHANGED <<record, graph, ready>>
      /\ plan[r].clean /\ ~plan[r].failed /\ since.ready' = since.ready
      /\ \/ token' = plan[r].seen
         \/ token' = token /\ since' = since /\ plan' = [plan EXCEPT ![r].kept = TRUE]
  BY <1>1 DEF WriteToken, Holds, Enter, PublishTypes, Clean
<1>4. plan[r].seen = Text => record = {Text} /\ graph = {Text} /\ Text \in Valid
  <2>1. plan[r].seen = Text => record = {Text} /\ graph = {Text}
    BY <1>1, <1>3 DEF Work, Working, At
  <2>2. plan[r].seen = Text => Text \in Valid
    BY <1>1, <1>3 DEF Prepared
  <2>. QED
    BY <2>1, <2>2
<1>5. Working(r)'
  BY <1>2, <1>3, <1>4 DEF Working, At
<1>6. PayloadKept'
  <2>1. CASE token' = plan[r].seen
    BY <1>2, <1>3, <1>4, <2>1 DEF PayloadKept
  <2>2. CASE token' = token /\ since' = since /\ plan' = [plan EXCEPT ![r].kept = TRUE]
    <3>1. plan'[r].kept /\ plan'[r].failed = plan[r].failed
      <4>1. plan[r] \in PlanRecords
        BY <1>1 DEF PublishTypes
      <4>. QED
        BY <1>1, <2>2, <4>1 DEF PublishTypes, PlanRecords
    <3>2. Damaging(r) => Damaging(r)'
      BY <1>2, <2>2, <3>1 DEF Damaging
    <3>3. ASSUME NEW q \in Runs, Damaging(q)
          PROVE  Damaging(q)'
      BY <1>2, <2>2, <3>2, <3>3 DEF Damaging
    <3>. QED
      BY <1>1, <1>2, <1>3, <2>2, <3>3 DEF Work, PayloadKept
  <2>. QED
    BY <1>3, <2>1, <2>2
<1>7. ReadyGraph'
  <2>1. since.ready \subseteq Runs
    BY <1>1 DEF PublishTypes
  <2>2. \A q \in since.ready : plan'[q].seen = plan[q].seen
    BY <1>2, <2>1
  <2>. QED
    BY <1>1, <1>2, <1>3, <2>2 DEF Work, ReadyGraph
<1>. QED
  BY <1>2, <1>5, <1>6, <1>7 DEF Work

\* A run that failed takes the token away, or is cut short leaving it.
LEMMA RemoveTokenWork ==
  ASSUME PublishInv, ~late, NEW r \in Runs, RemoveToken(r)
  PROVE  Work'
<1>1. /\ LockInv /\ PublishTypes /\ Work /\ Writes(r)
      /\ Text \in Contents /\ Unwritten # Text
  BY PublishAssumption DEF PublishInv, Writes, PublishTypes, Text
<1>2. /\ Text' = Text /\ pc' = pc /\ plan'[r].seen = plan[r].seen
      /\ \A q \in Runs \ {r} : /\ plan'[q] = plan[q] /\ Working(q)'
                               /\ Damaging(q) /\ q \in since.token' => Damaging(q)'
  BY <1>1, BesideWriter
<1>3. /\ phase[r] = "ending" /\ phase'[r] = "unlocking" /\ UNCHANGED <<record, graph, ready>>
      /\ since.ready' = since.ready
      /\ \/ token' = Unwritten
         \/ token' = token /\ since' = since /\ plan' = [plan EXCEPT ![r].kept = TRUE]
  BY <1>1 DEF RemoveToken, Holds, Enter, PublishTypes
<1>4. Working(r)'
  BY <1>3 DEF Working, At
<1>5. PayloadKept'
  <2>1. CASE token' = Unwritten
    BY <1>1, <1>2, <2>1 DEF PayloadKept
  <2>2. CASE token' = token /\ since' = since /\ plan' = [plan EXCEPT ![r].kept = TRUE]
    <3>1. plan'[r].kept /\ plan'[r].failed = plan[r].failed
      <4>1. plan[r] \in PlanRecords
        BY <1>1 DEF PublishTypes
      <4>. QED
        BY <1>1, <2>2, <4>1 DEF PublishTypes, PlanRecords
    <3>2. Damaging(r) => Damaging(r)'
      BY <1>2, <2>2, <3>1 DEF Damaging
    <3>3. ASSUME NEW q \in Runs, Damaging(q)
          PROVE  Damaging(q)'
      BY <1>2, <2>2, <3>2, <3>3 DEF Damaging
    <3>. QED
      BY <1>1, <1>2, <1>3, <2>2, <3>3 DEF Work, PayloadKept
  <2>. QED
    BY <1>3, <2>1, <2>2
<1>6. ReadyGraph'
  <2>1. since.ready \subseteq Runs
    BY <1>1 DEF PublishTypes
  <2>2. \A q \in since.ready : plan'[q].seen = plan[q].seen
    BY <1>2, <2>1
  <2>. QED
    BY <1>1, <1>2, <1>3, <2>2 DEF Work, ReadyGraph
<1>. QED
  BY <1>2, <1>4, <1>5, <1>6 DEF Work

\* A readiness record is written for the graph of the run that writes it.
LEMMA ReadinessWork ==
  ASSUME PublishInv, ~late, NEW r \in Runs, CountRuns(r) \/ WriteGeneration(r)
  PROVE  Work'
<1>1. LockInv /\ PublishTypes /\ Work /\ Writes(r)
  BY DEF PublishInv, Writes
<1>2. /\ Text' = Text /\ pc' = pc /\ plan'[r].seen = plan[r].seen
      /\ \A q \in Runs \ {r} : /\ plan'[q] = plan[q] /\ Working(q)'
                               /\ Damaging(q) /\ q \in since.token' => Damaging(q)'
  BY <1>1, BesideWriter
<1>3. /\ UNCHANGED <<record, graph, token>> /\ pc[r] = "holding" /\ since.token' = since.token
      /\ phase[r] \in {"counting", "readiness"} /\ phase'[r] \in {"readiness", "unlocking"}
      /\ \/ ready' = ready /\ since' = since
         \/ phase[r] = "readiness" /\ since.ready' = {r}
  BY <1>1 DEF CountRuns, WriteGeneration, Holds, Enter, PublishTypes, files
<1>4. plan'[r].failed = plan[r].failed /\ plan'[r].kept = plan[r].kept
  <2>1. plan[r] \in PlanRecords
    BY <1>1 DEF PublishTypes
  <2>. QED
    BY <1>1, <2>1 DEF CountRuns, WriteGeneration, PublishTypes, PlanRecords
<1>5. plan[r].seen = Text => graph = {Text}
  BY <1>1, <1>3 DEF Work, Working, At
<1>6. Working(r)'
  BY <1>2, <1>3, <1>5 DEF Working, At
<1>7. PayloadKept'
  <2>1. ASSUME NEW q \in Runs, Damaging(q)
        PROVE  Damaging(q)'
    BY <1>2, <1>3, <1>4, <2>1 DEF Damaging, At
  <2>. QED
    BY <1>1, <1>2, <1>3, <2>1 DEF Work, PayloadKept
<1>8. ReadyGraph'
  <2>1. CASE ready' = ready /\ since' = since
    <3>1. since.ready \subseteq Runs
      BY <1>1 DEF PublishTypes
    <3>2. \A q \in since.ready : plan'[q].seen = plan[q].seen
      BY <1>2, <3>1
    <3>. QED
      BY <1>1, <1>2, <1>3, <2>1, <3>2 DEF Work, ReadyGraph
  <2>2. CASE since.ready' = {r}
    <3>1. NoRows # Text
      BY PublishAssumption, <1>1 DEF PublishTypes, Text
    <3>. QED
      BY <1>2, <1>3, <1>5, <2>2, <3>1 DEF ReadyGraph
  <2>. QED
    BY <1>3, <2>1, <2>2
<1>. QED
  BY <1>2, <1>6, <1>7, <1>8 DEF Work

\* A publish uses the lock as acquire_within and Drop do, and in no other way:
\* what is proved of the lock alone holds of the pipeline that takes it.
THEOREM PublishUsesTheLock == PublishSpec => LockInit /\ [][LockNext]_lockVars
<1>1. PublishInit => LockInit
  BY DEF PublishInit
<1>2. [PublishNext]_publishVars => [LockNext]_lockVars
  BY LockStepOfPublish
<1>. QED
  BY <1>1, <1>2, PTL DEF PublishSpec

LEMMA PublishStep ==
  ASSUME Reverts = FALSE, Slow = FALSE, PublishInv, [PublishNext]_publishVars
  PROVE  PublishInv'
<1>1. LockInv /\ LockInv'
  BY LockStepOfPublish, LockNextInv DEF PublishInv
<1>2. late => late'
  <2>1. CASE UNCHANGED lockVars
    BY <2>1 DEF lockVars
  <2>2. CASE LockNext
    BY <2>2 DEF LockNext, Age, Acquire, Create, WriteHolder, HolderOf, Judge, RemoveStale, Recreate, Deadline,
       Drop, IoError, Crash, Exit
  <2>. QED
    BY <2>1, <2>2, LockStepOfPublish
<1>3. CASE UNCHANGED publishVars
  BY <1>1, <1>3 DEF publishVars, lockVars, tree, files, runState, PublishInv, PublishTypes, History, Prepared,
     Work, Working, At, PayloadKept, Damaging, ReadyGraph, Text
<1>4. CASE OutsideEdit \/ BridgeWrite \/ LockAges \/ \E r \in Runs : Moves(r)
  <2>1. /\ PublishTypes /\ History /\ (\A q \in Runs : Prepared(q)) /\ LockTypeOK
        /\ late \/ Work
    BY DEF PublishInv, LockInv
  <2>2. PublishTypes' /\ History' /\ (\A q \in Runs : Prepared(q)') /\ OnlyMoves
    BY <1>4, <2>1, EditMoves, RunMoves
  <2>3. late' \/ Work'
    BY <1>2, <2>1, <2>2, WorkKept
  <2>. QED
    BY <1>1, <2>2, <2>3 DEF PublishInv
<1>5. ASSUME NEW r \in Runs, Writes(r)
      PROVE  PublishInv'
  <2>1. PublishTypes' /\ History' /\ (\A q \in Runs : Prepared(q)')
    BY <1>5, WritesKeep DEF PublishInv
  <2>2. late' \/ Work'
    BY <1>2, <1>5, WriteRecordWork, WriteGraphWork, WriteTokenWork, RemoveTokenWork, ReadinessWork DEF Writes
  <2>. QED
    BY <1>1, <2>1, <2>2 DEF PublishInv
<1>. QED
  BY <1>3, <1>4, <1>5, StepsSplit

LEMMA PublishInvHolds ==
  ASSUME Reverts = FALSE, Slow = FALSE
  PROVE  PublishSpec => []PublishInv
<1>1. PublishInit => PublishInv
  BY PublishInitInv
<1>2. PublishInv /\ [PublishNext]_publishVars => PublishInv'
  BY PublishStep
<1>. QED
  BY <1>1, <1>2, PTL DEF PublishSpec

\* pipeline.rs: as long as no takeover of the lock was late, no earlier content
\* comes back and a publish ends within STALE_AGE, output that is called current
\* while nobody publishes is made of these sources alone, which pass the checks,
\* unless a run that had failed or discovered other sources was cut short since.
THEOREM CurrentIsOfTheseSources ==
  ASSUME Reverts = FALSE, Slow = FALSE
  PROVE  PublishSpec => [](late \/ CurrentUnlessCutShort)
<1>1. PublishInv => late \/ CurrentUnlessCutShort
  <2>. SUFFICES ASSUME PublishInv, ~late, OutputIsCurrent, \A r \in Runs : ~UnderWay(r)
                PROVE  \/ record = {sources.text} /\ graph = {sources.text} /\ sources.text \in Valid
                       \/ \E r \in Runs : CutShort(r)
    BY DEF CurrentUnlessCutShort, CurrentIsPublished
  <2>1. \/ record = {Text} /\ graph = {Text} /\ Text \in Valid
        \/ \E r \in Runs : Damaging(r)
    BY DEF PublishInv, Work, PayloadKept, OutputIsCurrent, Text
  <2>2. ASSUME NEW r \in Runs, Damaging(r)
        PROVE  CutShort(r)
    <3>1. ~At(r, {"graph", "ending"})
      BY DEF At, UnderWay, Ended
    <3>. QED
      BY <2>2, <3>1 DEF Damaging, CutShort, Text
  <2>. QED
    BY <2>1, <2>2 DEF Text
<1>. QED
  BY <1>1, PublishInvHolds, PTL

\* graph.rs, index.rs: under the same provisos an index that is called ready has
\* a graph of these sources alone, if the run that wrote its record and those that
\* wrote a graph since discovered them.
THEOREM ReadyIsOfTheseSources ==
  ASSUME Reverts = FALSE, Slow = FALSE
  PROVE  PublishSpec => [](late \/ ReadyIfDiscovered)
<1>1. PublishInv => late \/ ReadyIfDiscovered
  BY DEF PublishInv, Work, ReadyGraph, ReadyIfDiscovered, IndexIsReady, GenerationReads, Text
<1>. QED
  BY <1>1, PublishInvHolds, PTL
=============================================================================

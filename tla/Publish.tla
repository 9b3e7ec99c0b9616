------------------------------ MODULE Publish ------------------------------
(* Publishing a build's records and reading them back: pipeline::run from    *)
(* discovery to its last write, the readiness record (graph.rs), the two     *)
(* freshness tests (build_output_is_current in scope_view.rs, state in       *)
(* mcp/src/index.rs) and the bridge's background refreshes. The runs take    *)
(* the lock of PublishLock; the sources are edited meanwhile.                *)
(* The payload files are two: the record (pruning_manifest.tsv and the files *)
(* written beside it) and the graph. A run reads the sources three times:    *)
(* what it publishes is made from the files it discovered, from what the     *)
(* checks read (scope, graft plan, generated lib) and from the texts as they *)
(* are when it writes, so a payload is the set of contents it was made from. *)
EXTENDS PublishLock

CONSTANTS
  Refreshes,     \* the runs that are background refreshes of one bridge
  Contents,      \* contents the sources may have
  Valid,         \* those that pass every check of the pipeline
  Size,          \* how many nodes and edges a graph made from these has
  Unwritten,     \* a file that is not there
  NoRows,        \* stands for rows a graph lacks: their file was not written
  Reverts,       \* whether an edit may bring back an earlier content
  EditsOutside,  \* whether somebody else than the bridge edits
  MaxEdits       \* bound: edits

ASSUME PublishAssumption ==
  /\ Refreshes \subseteq Runs /\ Valid \subseteq Contents
  /\ {Unwritten, NoRows} \cap Contents = {} /\ MaxEdits \in Nat
  /\ Size \in [SUBSET (Contents \cup {NoRows}) -> Nat]
  /\ {Reverts, EditsOutside} \subseteq BOOLEAN

VARIABLES
  sources,   \* what the sources say, and how often they changed: the stamp
  past,      \* history: contents the sources had before
  record, graph,   \* the contents each payload was made from
  token,           \* discovery.fingerprint
  ready,           \* graph.generation: the run's number, counts and stamp
  phase,           \* where each run is in pipeline::run
  plan,            \* what each run knows: the contents it discovered and it
                   \* checked, whether the checks passed, its rows, whether a
                   \* payload failed, whether the old token could not be replaced
                   \* or removed, and the readiness record it is about to write
  since            \* history: the runs that wrote payloads since the token and
                   \* since the readiness record, and the run that wrote it
files == <<record, graph, token, ready>>
tree == <<sources, past>>
runState == <<phase, plan>>
publishVars == <<lockVars, tree, files, runState, since>>

Stamps == 0..MaxEdits
Rows == Contents \cup {NoRows}
NoRecord == [number |-> 0, size |-> 0, stamp |-> 0]
NoPlan == [seen |-> Unwritten, checked |-> Unwritten, clean |-> FALSE, rows |-> {},
           failed |-> FALSE, kept |-> FALSE, next |-> 0, stamp |-> 0]

UnderWay(r) == phase[r] \notin {"waiting", "returned"} /\ pc[r] \notin Ended

PublishInit ==
  /\ LockInit
  /\ sources \in [text: Contents, stamp: {0}] /\ past = {}
  /\ record = {Unwritten} /\ graph = {} /\ token = Unwritten /\ ready = NoRecord
  /\ phase = [r \in Runs |-> "waiting"]
  /\ plan = [r \in Runs |-> NoPlan]
  /\ since = [token |-> {}, ready |-> {}]

Enter(r, next) == phase' = [phase EXCEPT ![r] = next]
Holds(r, here) == pc[r] = "holding" /\ phase[r] = here /\ UNCHANGED <<lockVars, tree>>

\* An edit gives the sources another content and a newer modification time.
Edit ==
  /\ sources.stamp < MaxEdits
  /\ \E text \in Contents \ {sources.text} :
       /\ Reverts \/ text \notin past
       /\ sources' = [text |-> text, stamp |-> sources.stamp + 1]
  /\ past' = past \cup {sources.text}

OutsideEdit == EditsOutside /\ Edit /\ UNCHANGED <<lockVars, files, runState, since>>

\* after_write and start: the bridge lands a file and starts a refresh, unless
\* one is running for this root.
BridgeWrite ==
  /\ Edit
  /\ IF \E r \in Refreshes : UnderWay(r)
     THEN UNCHANGED runState
     ELSE \E r \in Refreshes :
            phase[r] = "waiting" /\ Enter(r, "discovering") /\ UNCHANGED plan
  /\ UNCHANGED <<lockVars, files, since>>

\* The command line's check, or a build script.
StartCheck(r) ==
  /\ r \in Runs \ Refreshes /\ phase[r] = "waiting"
  /\ Enter(r, "discovering")
  /\ UNCHANGED <<lockVars, tree, files, plan, since>>

\* discover_root_reporting, then the fingerprint of the files it found. (One
\* taken of a later content is that content's only if the files are the same.)
Discover(r) ==
  /\ phase[r] = "discovering" /\ pc[r] = "creating"
  /\ Enter(r, "checking")
  /\ plan' = [plan EXCEPT ![r].seen = sources.text]
  /\ UNCHANGED <<lockVars, tree, files, since>>

\* What checks say of one content; of a mixture they may say either.
Verdicts(read) == {v \in BOOLEAN : \A text \in Contents : read = {text} => v = (text \in Valid)}

\* The scope, the checks, the graft plan and the generated lib read the
\* discovered files again.
Check(r) ==
  /\ phase[r] = "checking" /\ pc[r] = "creating"
  /\ Enter(r, "locking")
  /\ \E clean \in Verdicts({plan[r].seen, sources.text}) :
       plan' = [plan EXCEPT ![r].checked = sources.text, ![r].clean = clean]
  /\ UNCHANGED <<lockVars, tree, files, since>>

TakeLock(r) ==
  /\ phase[r] = "locking" /\ Acquire(r)
  /\ UNCHANGED <<tree, files, runState, since>>

Payload(r) == {plan[r].seen, plan[r].checked, sources.text}
RowsOf(r) == {plan[r].seen, sources.text}
Wrote(r) == since' = [since EXCEPT !.token = @ \cup {r}, !.ready = @ \cup {r}]

\* The manifests read the discovered files once more; scope, graft plan and lib
\* are those of the checks. A write that fails leaves the old file beside the
\* new ones, is remembered and may leave rows out.
WriteRecord(r) ==
  /\ Holds(r, "locking") /\ Enter(r, "graph") /\ Wrote(r)
  /\ \/ record' = Payload(r) /\ plan' = [plan EXCEPT ![r].rows = RowsOf(r)]
     \/ /\ Faulty /\ record' \in {record, record \cup Payload(r)}
        /\ \E rows \in {RowsOf(r), RowsOf(r) \cup {NoRows}} :
             plan' = [plan EXCEPT ![r].rows = rows, ![r].failed = TRUE]
  /\ UNCHANGED <<graph, token, ready>>

GraphOf(r) == plan[r].rows \cup {plan[r].checked}

\* Mutant: a graph that could not be written does not make the run a failed one.
ForgetGraphError(r) ==
  /\ Holds(r, "graph") /\ Enter(r, "ending") /\ Wrote(r)
  /\ graph' \in {GraphOf(r)} \cup IF Faulty THEN {graph} ELSE {}
  /\ UNCHANGED <<record, token, ready, plan>>

\* The graph joins the rows to the graft entries of the checks; check_shape then
\* compares the declared shape with the rows.
WriteGraph(r) ==
  /\ Holds(r, "graph") /\ Enter(r, "ending") /\ Wrote(r)
  /\ \E fits \in Verdicts(GraphOf(r)) :
       \/ /\ graph' = GraphOf(r)
          /\ plan' = [plan EXCEPT ![r].clean = @ /\ fits]
       \/ /\ Faulty /\ UNCHANGED graph
          /\ plan' = [plan EXCEPT ![r].clean = @ /\ fits, ![r].failed = TRUE]
  /\ UNCHANGED <<record, token, ready>>

Clean(r) == plan[r].clean /\ ~plan[r].failed

\* Mutant: the token is written whatever the checks and the writes said.
TokenAlways(r) ==
  /\ Holds(r, "ending") /\ Enter(r, "counting")
  /\ token' = plan[r].seen /\ since' = [since EXCEPT !.token = {r}]
  /\ UNCHANGED <<record, graph, ready, plan>>

\* Only a clean run writes the token; a failing write does not stop the run.
WriteToken(r) ==
  /\ Holds(r, "ending") /\ Clean(r) /\ Enter(r, "counting")
  /\ \/ /\ token' = plan[r].seen /\ since' = [since EXCEPT !.token = {r}]
        /\ UNCHANGED plan
     \/ /\ Faulty /\ UNCHANGED <<token, since>>
        /\ plan' = [plan EXCEPT ![r].kept = TRUE]
  /\ UNCHANGED <<record, graph, ready>>

RemoveToken(r) ==
  /\ Holds(r, "ending") /\ ~Clean(r) /\ Enter(r, "unlocking")
  /\ \/ /\ token' = Unwritten /\ since' = [since EXCEPT !.token = {}]
        /\ UNCHANGED plan
     \/ /\ Faulty /\ token # Unwritten /\ UNCHANGED <<token, since>>
        /\ plan' = [plan EXCEPT ![r].kept = TRUE]
  /\ UNCHANGED <<record, graph, ready>>

\* write_generation: the number of the record before, then the stamp of the
\* sources as they are now.
CountRuns(r) ==
  /\ Holds(r, "counting") /\ Enter(r, "readiness")
  /\ plan' = [plan EXCEPT ![r].next = ready.number + 1, ![r].stamp = sources.stamp]
  /\ UNCHANGED <<files, since>>

WriteGeneration(r) ==
  /\ Holds(r, "readiness") /\ Enter(r, "unlocking")
  /\ \/ /\ ready' = [number |-> plan[r].next, size |-> Size[GraphOf(r)], stamp |-> plan[r].stamp]
        /\ since' = [since EXCEPT !.ready = {r}]
     \/ Faulty /\ UNCHANGED <<ready, since>>
  /\ UNCHANGED <<record, graph, token, plan>>

\* run returns and drops its guard.
Return(r) ==
  /\ phase[r] = "unlocking" /\ Drop(r) /\ Enter(r, "returned")
  /\ UNCHANGED <<tree, files, plan, since>>

Kill(r) == UnderWay(r) /\ Crash(r) /\ UNCHANGED <<tree, files, runState, since>>
\* The command line's process ends; the bridge stays.
CheckExits(r) == r \notin Refreshes /\ Exit(r) /\ UNCHANGED <<tree, files, runState, since>>
LockAges == Age /\ UNCHANGED <<tree, files, runState, since>>
LockFails(r) == phase[r] = "locking" /\ IoError(r) /\ UNCHANGED <<tree, files, runState, since>>

Run(r) == \/ Discover(r) \/ Check(r) \/ TakeLock(r) \/ WriteRecord(r)
          \/ WriteGraph(r) \/ WriteToken(r) \/ RemoveToken(r) \/ CountRuns(r)
          \/ WriteGeneration(r) \/ Return(r)
PublishNext ==
  \/ OutsideEdit \/ BridgeWrite \/ LockAges
  \/ \E r \in Runs : StartCheck(r) \/ Run(r) \/ Kill(r) \/ LockFails(r) \/ CheckExits(r)

(* A run that was started is carried on by its process; nobody has to edit   *)
(* or to start one.                                                          *)
PublishSpec == /\ PublishInit /\ [][PublishNext]_publishVars
               /\ \A r \in Runs : WF_publishVars(Run(r))

-----------------------------------------------------------------------------
\* The readers. build_output_is_current hashes the sources and compares.
OutputIsCurrent == token # Unwritten /\ token = sources.text
\* read_generation compares the counts of the record with those of the graph,
\* and state the record's stamp with that of the sources.
GenerationReads == ready.number > 0 /\ graph # {} /\ ready.size = Size[graph]
IndexIsReady == GenerationReads /\ ready.stamp = sources.stamp

\* Output called current while nobody publishes was published from these very
\* sources, which pass the checks: record and graph are made from nothing else.
CurrentIsPublished ==
  OutputIsCurrent /\ (\A r \in Runs : ~UnderWay(r))
    => record = {sources.text} /\ graph = {sources.text} /\ sources.text \in Valid

\* It is, unless a run was cut short after the token was written: killed, or
\* unable to replace or remove it, and a payload of that run had failed or it
\* had discovered other sources. Neither a kill nor a failing write alone makes
\* old output current, unless a run that discovered older sources had waited
\* for the lock meanwhile.
CutShort(r) ==
  /\ r \in since.token /\ (pc[r] = "dead" \/ plan[r].kept)
  /\ plan[r].failed \/ plan[r].seen # sources.text
CurrentUnlessCutShort == CurrentIsPublished \/ \E r \in Runs : CutShort(r)

\* "Ready: the index was published for these sources, and the graph matches its
\* record."
ReadyDescribesSources == IndexIsReady => graph = {sources.text}

\* It does if the run that wrote the record, and every run that wrote a graph
\* since, had discovered these very sources: neither a failed write nor a killed
\* run leaves an index that is called ready beside the graph of other sources.
\* (Rows the graph lacks show only in its counts.)
ReadyIfDiscovered ==
  (\A r \in since.ready : plan[r].seen = sources.text)
    => (IndexIsReady => graph \ {NoRows} = {sources.text})

\* A run that was started returns, is refused the lock or is killed.
EveryRunEnds ==
  \A r \in Runs : phase[r] = "discovering" ~> (phase[r] = "returned" \/ pc[r] \in Ended)
=============================================================================

------------------------------ MODULE Hosting ------------------------------
(* A package and the host that runs its plugins: what the programs write in  *)
(* the locks decides what the host admits, installs and deploys later.       *)
EXTENDS Admission, Deployment

filesVars == <<lock, entry, writer, published, slips, written, blurred>>
hostingVars == <<lockVars, hostVars, deploymentVars>>
Builtin == [builtin |-> TRUE] \* the plugin HotDeployment::new starts with

HostingInit == LockInit /\ AdmissionInit /\ DeploymentInit(Builtin, left.calls)
HostingNext ==
  \/ LockNext /\ UNCHANGED <<hostVars, deploymentVars>>
  \/ AdmissionNext /\ UNCHANGED <<filesVars, deploymentVars>>
  \/ /\ UNCHANGED <<lockVars, hostVars>>
     /\ \E t \in Threads :
          \/ \E verified \in admitted : Check(t, verified)
          \/ Replaces(t) \/ Panic(t)
HostingSpec ==
  /\ HostingInit /\ [][HostingNext]_hostingVars
  /\ \A t \in Threads : WF_hostingVars(Replaces(t) /\ UNCHANGED <<lockVars, hostVars>>)

\* Whatever the locks went through, what a host runs in its deployment and its
\* slots has the bytes its manifest names and was not revoked for the host that
\* let it in, and if it says it is official a key that host trusted signed it and
\* a line accounts for it that its publisher listed, or that slipped in: what a
\* cut left of a line, or a line end in a field made of it. By what they mean to
\* write the two programs add nothing to what the publisher listed.
Warranted(verified) == LET artifact == verified.artifact IN
  /\ artifact.digest = "matches" /\ artifact.manifest.package \notin verified.under.revoked
  /\ Source(artifact) = "official" =>
       /\ \E line \in published \cup slips : Accounts(line, artifact.manifest)
       /\ artifact.signer \in verified.under.keys
PluginsAreWarranted ==
  /\ replaced # <<>> => Warranted(current.plugin)
  /\ \A taken \in installed :
       /\ Warranted(taken.plugin)
       /\ taken.lane = "official" <=> Source(taken.plugin.artifact) = "official"

\* "an official record is admitted only when the lock already accounts for that
\* package identity" (plugin.rs:244): so what runs as official was listed.
OfficialIsPublished ==
  \A taken \in installed : LET artifact == taken.plugin.artifact IN
    Source(artifact) = "official" => \E line \in published : Accounts(line, artifact.manifest)

\* "appending a record the parser rejects produces an artifact the host refuses
\* to read while the writer reports success" (catalog.rs:350-351).
HostReadsWhatWasWritten ==
  opening = "refused" => written = {} \/ \E s \in Sources : lock[s].torn
=============================================================================

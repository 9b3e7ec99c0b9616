----------------------------- MODULE Admission -----------------------------
(* What a host lets in: the selection policy, the trust policy and the lane  *)
(* an artifact earns. kernel/.../plugin/{plugin_policy,trust,slot}.rs,       *)
(* artifact/artifact.rs, toolchain/src/plugin_host/src/admission.rs.         *)
EXTENDS PluginLock

CONSTANTS
  Keys,                 \* signing keys, by fingerprint
  Artifacts,            \* what the host is offered, see ArtifactShape
  Policies, Trusts,     \* the policies a host may be built with
  Channels              \* what the slots of the host may allow

ArtifactShape ==
  [manifest : Manifests,
   fits : BOOLEAN,                          \* its framework is the host's
   digest : {"matches", "differs", "malformed"},
   given : Keys \cup {Unsaid},              \* the fingerprint its caller established
   signer : Keys \cup {Unsaid}]             \* whose signature of exactly this it carries
ASSUME ArtifactsAssumption == Keys \subseteq Values /\ Artifacts \subseteq ArtifactShape
ASSUME PoliciesAssumption ==
  /\ Policies # {} /\ Trusts # {} /\ Channels # {}
  /\ Policies \subseteq [official : BOOLEAN, user : BOOLEAN, digest : BOOLEAN]
  /\ Trusts \subseteq [keys : SUBSET Keys, revoked : SUBSET Packages, digest : BOOLEAN]

Source(artifact) == artifact.manifest.source
Signature(artifact) == artifact.manifest.columns["signature"]
Fingerprint(artifact) ==
  IF artifact.given # Unsaid THEN artifact.given ELSE artifact.manifest.columns["key"]

\* PluginPolicy::decision
Selects(policy, catalog, artifact) ==
  /\ artifact.fits
  /\ policy[Source(artifact)]
  /\ policy.digest => artifact.digest # "malformed"
  /\ policy.digest /\ Source(artifact) = "official" => Signature(artifact) \notin {Unsaid, Empty}
  /\ Source(artifact) = "official" => Accounted(catalog, artifact.manifest)
\* PluginTrustPolicy::verify
Verifies(trust, artifact) ==
  /\ trust.digest => artifact.digest # "malformed"
  /\ artifact.digest = "matches"
  /\ artifact.manifest.package \notin trust.revoked
  /\ Source(artifact) = "official" /\ trust.keys # {} =>
       /\ artifact.manifest.columns["revocations"] # Unsaid
       /\ Signature(artifact) \notin {Unsaid, Empty}
       /\ Fingerprint(artifact) \in trust.keys
\* verify_with: a trust root, and a signature by the key that was named.
VerifiesSigned(trust, artifact) ==
  /\ Verifies(trust, artifact)
  /\ trust.keys # {} /\ Fingerprint(artifact) # Unsaid
  /\ artifact.signer = Fingerprint(artifact)

\* PluginAdmission::admit
Admits(policy, trust, catalog, artifact) ==
  /\ Selects(policy, catalog, artifact)
  /\ IF Source(artifact) = "official" THEN VerifiesSigned(trust, artifact)
     ELSE Verifies(trust, artifact)
Assurance(artifact) == IF Source(artifact) = "official" THEN "signature" ELSE "digest"
\* lane_for
Lane(artifact) == IF Assurance(artifact) = "signature" THEN "official" ELSE "community"
\* validate_artifact: the lane is open, and the artifact may use it.
Fits(channels, lane, artifact) ==
  /\ lane \in channels
  /\ lane = "official" => Source(artifact) = "official" /\ Assurance(artifact) = "signature"
  /\ lane \in {"community", "local"} => Source(artifact) = "user"

\* plugin_catalog: both files as one text, a line end between them.
Together(official, user) ==
  [lines |-> official.lines \o user.lines, torn |-> official.torn \/ user.torn,
   header |-> IF official.header = "absent" THEN user.header
              ELSE IF user.header = "absent" THEN official.header ELSE "twice"]

VARIABLES
  policy, trust, channels,   \* what the host was built with
  half,                      \* official.lock as read, user.lock not yet
  catalog,                   \* the catalog of its PluginAdmission
  opening,                   \* "closed", "reading", "open" or "refused"
  admitted,                  \* what admit returned last, if anything: the artifact
                             \* and the trust policy that it passed
  installed                  \* what a slot took last, if anything, and in which lane
hostVars == <<policy, trust, channels, half, catalog, opening, admitted, installed>>
choices == <<policy, trust, channels>>

AdmissionInit ==
  /\ policy = (CHOOSE p \in Policies : TRUE) /\ trust = (CHOOSE t \in Trusts : TRUE)
  /\ channels = (CHOOSE c \in Channels : TRUE)
  /\ half = Nothing /\ catalog = Nothing /\ opening = "closed"
  /\ admitted = {} /\ installed = {}

\* from_package_root: one file after the other, under the policies it is given.
\* What an earlier admission let in stays.
ReadOfficial ==
  /\ opening # "reading" /\ opening' = "reading" /\ Spend("openings")
  /\ half' = lock["official"] /\ catalog' = Nothing
  /\ policy' \in Policies /\ trust' \in Trusts /\ channels' \in Channels
  /\ UNCHANGED <<admitted, installed>>
ReadUser ==
  LET text == Together(half, lock["user"]) IN
  /\ opening = "reading" /\ half' = Nothing
  /\ IF Readable(text) THEN opening' = "open" /\ catalog' = text
     ELSE opening' = "refused" /\ UNCHANGED catalog
  /\ UNCHANGED <<choices, admitted, installed, left>>
Admit == \E artifact \in Artifacts :
  /\ opening = "open" /\ Admits(policy, trust, catalog, artifact)
  /\ admitted' = {[artifact |-> artifact, under |-> trust]}
  /\ UNCHANGED <<choices, half, catalog, opening, installed, left>>
Install == \E verified \in admitted : LET lane == Lane(verified.artifact) IN
  /\ Fits(channels, lane, verified.artifact)
  /\ installed' = {[plugin |-> verified, lane |-> lane]}
  /\ UNCHANGED <<choices, half, catalog, opening, admitted, left>>
AdmissionNext == ReadOfficial \/ ReadUser \/ Admit \/ Install
=============================================================================

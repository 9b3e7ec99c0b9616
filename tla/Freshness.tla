----------------------------- MODULE Freshness -----------------------------
(* The bridge's memory of "the published output describes these sources":    *)
(* toolchain/src/mcp/src/freshness.rs, its readers, and the refresh a write  *)
(* starts (index.rs). One thread answers, one question at a time; a question *)
(* asks for the verdict as often as its parts need it.                       *)
EXTENDS Sources

CONSTANTS
  MaxAnswers,  \* bound: questions answered
  None         \* no stamp, no entry, no publication

\* since: what has become of the output since the hash ran.
Verdicts == [current : BOOLEAN, stamp : Nat, answer : Nat, since : SUBSET {"published", "revoked"}]

ASSUME FreshnessAssumption == MaxAnswers \in Nat /\ None \notin Nat \cup Verdicts

VARIABLES
  token,       \* the fingerprint in the output: the content it names, or None
  refresh,     \* RUNNING: "started", "working", and not: "idle", "left" after a
               \* refresh that left the fingerprint as it found it
  taken,       \* the content the working refresh has read
  asked,       \* [policy, number] of the question under way; its number is ANSWER
  verified,    \* VERIFIED: what was paid for, or None
  walked,      \* STAMPS: the stamp this answer walked, or None
  paying,      \* the payment under way, or None
  said,        \* the verdict last given in this answer, or None
  moments,     \* the verdicts a hash would have given, at any moment of this answer
  hashed,      \* whether a hash ran for this answer
  unseen       \* whether a save kept the stamp (these three for the properties)
memo == <<verified, walked, paying, said, hashed>>
bridgeVars == <<sourceVars, token, refresh, taken, asked, memo, moments, unseen>>

Policies == {"reuse", "verify", "reuse-only"}
\* build_output_is_current: the output's fingerprint is that of the sources.
Current == token = source

FreshnessInit ==
  /\ SourcesInit
  /\ token \in {None, 0} /\ refresh = "idle" /\ taken = None
  /\ asked = [policy |-> "reuse", number |-> 0]
  /\ verified = None /\ walked = None /\ paying = None /\ said = None
  /\ moments = {} /\ hashed = FALSE /\ unseen = FALSE

Watch == moments' = moments \cup {token' = source'}
Quiet == UNCHANGED <<sourceVars, token, refresh, taken, unseen>> /\ Watch
Ready == asked.number > 0 /\ paying = None

Say(entry, how) == said' = [current |-> entry.current, how |-> how, since |-> entry.since]

\* set_policy and begin_answer. What an answer has walked or said is gone.
BeginAnswer ==
  /\ paying = None /\ asked.number < MaxAnswers
  /\ \E policy \in Policies : asked' = [policy |-> policy, number |-> asked.number + 1]
  /\ walked' = None /\ said' = None /\ hashed' = FALSE
  /\ moments' = {Current}
  /\ UNCHANGED <<sourceVars, token, refresh, taken, unseen, verified, paying>>
\* stamp_for: walked at most once per answer.
Stamp == IF walked = None THEN mtime ELSE walked

\* A miss: the default policy pays, under the stamp it walked; reuse-only says
\* that it does not know.
Miss(stamp) ==
  IF asked.policy = "reuse-only"
  THEN /\ said' = [current |-> FALSE, how |-> "unknown", since |-> {}] /\ UNCHANGED paying
  ELSE /\ paying' = [stage |-> IF stamp = None THEN "walk" ELSE "hash", stamp |-> stamp]
       /\ UNCHANGED said

\* lookup finds nothing, or an entry whose window is over.
LookupNothing ==
  /\ Ready /\ asked.policy # "verify"
  /\ verified' = None /\ Miss(None)
  /\ Quiet /\ UNCHANGED <<asked, walked, hashed>>
\* An entry whose stamp is no longer that of the tree.
LookupMoved ==
  /\ Ready /\ asked.policy # "verify" /\ verified # None /\ verified.stamp # Stamp
  /\ verified' = None /\ walked' = Stamp /\ Miss(Stamp)
  /\ Quiet /\ UNCHANGED <<asked, hashed>>
\* The line of an entry says reused unless this answer paid for it.
Reused(entry) == Say(entry, IF entry.answer = asked.number THEN "verified" ELSE "reused")
LookupHit ==
  /\ Ready /\ asked.policy # "verify" /\ verified # None /\ verified.stamp = Stamp
  /\ walked' = Stamp /\ Reused(verified)
  /\ Quiet /\ UNCHANGED <<asked, verified, paying, hashed>>
Verify ==
  /\ Ready /\ asked.policy = "verify"
  /\ paying' = [stage |-> "walk", stamp |-> None]
  /\ Quiet /\ UNCHANGED <<asked, verified, walked, said, hashed>>

\* pay_with_stamp: the stamp first, then the hash, then record.
PayStamp ==
  /\ paying # None /\ paying.stage = "walk"
  /\ paying' = [stage |-> "hash", stamp |-> mtime]
  /\ Quiet /\ UNCHANGED <<asked, verified, walked, said, hashed>>
Paid(stamp) ==
  [stage |-> "record", stamp |-> stamp,
   entry |-> [current |-> Current, stamp |-> stamp, answer |-> asked.number, since |-> {}]]
PayHash ==
  /\ paying # None /\ paying.stage = "hash" /\ paying' = Paid(paying.stamp)
  /\ hashed' = TRUE
  /\ Quiet /\ UNCHANGED <<asked, verified, walked, said>>
Recorded(stamp) == [paying.entry EXCEPT !.stamp = stamp]
\* Mutant: the stamp is that of the tree when the hash is done.
RecordLate ==
  /\ paying # None /\ paying.stage = "record"
  /\ verified' = Recorded(mtime) /\ walked' = mtime
  /\ Say(paying.entry, "verified") /\ paying' = None
  /\ Quiet /\ UNCHANGED <<asked, hashed>>
RecordEntry ==
  /\ paying # None /\ paying.stage = "record"
  /\ verified' = Recorded(paying.stamp) /\ walked' = paying.stamp
  /\ Say(paying.entry, "verified") /\ paying' = None
  /\ Quiet /\ UNCHANGED <<asked, hashed>>

\* The output changes: an entry, and a hash not yet recorded, do not learn it.
Marked(entry, what) == IF entry = None THEN None ELSE [entry EXCEPT !.since = @ \cup {what}]
Becomes(content, what) ==
  /\ token' = content
  /\ verified' = Marked(verified, what)
  /\ paying' = IF paying # None /\ paying.stage = "record"
               THEN [paying EXCEPT !.entry = Marked(@, what)] ELSE paying

\* The files are saved by somebody else, with or without another stamp.
OutsideSave ==
  /\ \/ Save /\ UNCHANGED unseen
     \/ SaveUnseen /\ unseen' = TRUE
  /\ UNCHANGED <<token, refresh, taken, asked, memo>> /\ Watch
\* A write of the bridge: the file lands, then after_write starts a refresh
\* unless one is running, which may have read the files already.
Write ==
  /\ Ready /\ Save
  /\ refresh' = IF refresh = "working" THEN refresh ELSE "started"
  /\ UNCHANGED <<token, taken, asked, memo, unseen>> /\ Watch
RefreshReads ==
  /\ refresh = "started" /\ refresh' = "working" /\ taken' = source
  /\ UNCHANGED <<sourceVars, token, asked, memo, unseen>> /\ Watch
\* A clean run publishes what it read, a refused one takes the fingerprint
\* away. A run that did not get the lock, or could not write or remove the
\* file, leaves the one there was, and nobody looks at its verdict. In each
\* case the root may be refreshed again.
Leaves == refresh' = "left" /\ UNCHANGED <<token, verified, paying>>
RefreshEnds ==
  /\ refresh = "working" /\ taken' = None
  /\ \/ refresh' = "idle" /\ (Becomes(taken, "published") \/ Becomes(None, "revoked"))
     \/ Leaves
  /\ UNCHANGED <<sourceVars, asked, walked, said, hashed, unseen>> /\ Watch
Refreshing == RefreshReads \/ RefreshEnds
Answering == LookupNothing \/ LookupMoved \/ LookupHit \/ Verify \/ PayStamp \/ PayHash \/ RecordEntry
BridgeNext == BeginAnswer \/ Answering \/ OutsideSave \/ Write \/ Refreshing
(* The refresh has a thread of its own, which is carried on.                 *)
FreshnessSpec == FreshnessInit /\ [][BridgeNext]_bridgeVars /\ WF_bridgeVars(Refreshing)

----------------------------------------------------------------------------
SaidHeld ==
  said # None /\ said.how # "unknown" /\ ~unseen
    => \/ said.current \in moments
       \/ (IF said.current THEN "revoked" ELSE "published") \in said.since
VerifiedWasHashed == said # None /\ said.how = "verified" => hashed

\* Whatever an answer says of the output was so at some moment of that answer,
\* if every save moves the stamp: but a remembered "current" may have been
\* revoked by a refresh that failed, and a remembered "stale" overtaken by one
\* that published, since the hash ran (nothing tells the memo). And no claim
\* without a check: only an answer that hashed the sources says verified.
VerdictHeldInAnswer == SaidHeld /\ VerifiedWasHashed

\* A write that starts a refresh, or finds one that has not read the files, is
\* published or refused and the next write starts another, unless the files are
\* saved again meanwhile, or that refresh could not touch the output at all.
WritesAreRefreshed ==
  \A content \in Contents :
    (source = content /\ refresh = "started")
      ~> ((refresh = "idle" /\ token \in {content, None}) \/ refresh = "left" \/ source # content)
=============================================================================

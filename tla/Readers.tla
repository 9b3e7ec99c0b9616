------------------------------ MODULE Readers ------------------------------
(* One package, an editor, and the bridge or Studio open on it: what one     *)
(* saves is what the others have to notice, by its stamp and nothing else.   *)
EXTENDS Freshness, StudioSession

CONSTANT Sessions    \* which of "bridge" and "studio" may be open together
VARIABLE open        \* those of this behaviour

readersVars == <<bridgeVars, studioVars, open>>
bridgePrivate == <<token, refresh, taken, asked, memo, unseen>>

ReadersInit == FreshnessInit /\ StudioInit /\ open \in Sessions
ReadersNext ==
  /\ \/ OutsideSave /\ UNCHANGED studioVars
     \/ "bridge" \in open /\ BridgeNext /\ UNCHANGED studioVars
     \/ "studio" \in open /\ StudioNext /\ UNCHANGED bridgePrivate /\ Watch
  /\ UNCHANGED open

(* Studio's event loop comes back to poll, and carries on what it began.     *)
StudioRuns == "studio" \in open /\ (Own \/ PollSees) /\ UNCHANGED <<bridgePrivate, open>> /\ Watch
BridgeRuns == "bridge" \in open /\ Refreshing /\ UNCHANGED <<studioVars, open>>
ReadersSpec ==
  /\ ReadersInit /\ [][ReadersNext]_readersVars
  /\ WF_readersVars(BridgeRuns) /\ WF_readersVars(StudioRuns)

\* What Studio shows when it sees no reason to look again is what the files
\* load into, or they do not load and it says so; if every save moves the
\* stamp, and but for a save of somebody else whose stamp Studio kept as its
\* own: between the load and the stamp of the start, under an addition, or
\* under a plugin it selected, which keeps the stamp and loads nothing.
AtRest == "studio" \in open /\ doing = "idle" /\ last = mtime /\ ~unseen
Faithful == IF source \in Loadable THEN shown = source ELSE error
SnapshotFollowsFiles == AtRest /\ ~absorbed => Faithful

\* "Refresh a file-backed registration snapshot after an external save."
EverySaveIsSeen == AtRest => Faithful

\* A save that loads is shown in the end, unless another follows, or Studio
\* kept its stamp as its own.
SavesAreShown ==
  \A content \in Loadable :
    ("studio" \in open /\ source = content)
      ~> (shown = content \/ source # content \/ absorbed \/ unseen)

\* Neither reader stays behind: what was written is refreshed by the bridge and
\* what was saved is shown by Studio (index.rs after_write, poll_hot_reload).
NobodyStaysBehind == WritesAreRefreshed /\ SavesAreShown
=============================================================================

--------------------------- MODULE StudioSession ---------------------------
(* Studio's registration snapshot and the files it was loaded from:          *)
(* toolchain/src/studio/src/studio/app/{lifecycle,mutations,source_stamp}.rs.*)
(* One thread polls, reloads and writes; others save the files meanwhile.    *)
EXTENDS Sources

CONSTANT Nothing     \* a snapshot of no content: empty, or that of no moment

VARIABLES
  shown,       \* registry: the content it is the snapshot of, or Nothing
  error,       \* reload_error: the last load failed
  last,        \* last_source_stamp
  doing,       \* what the thread is in the middle of
  base,        \* the content last loaded, or that an addition was written onto
  absorbed     \* a save of somebody else is under the stamp, not in the snapshot
studioVars == <<shown, error, last, doing, base, absorbed>>

StudioInit ==
  /\ shown = Nothing /\ error = FALSE /\ last = 0 /\ base = 0
  /\ doing = "opening" /\ absorbed = FALSE

Stage(from, to) == doing = from /\ doing' = to
\* load_registry: a failed load keeps the snapshot it had.
Load == /\ IF source \in Loadable THEN shown' = source /\ error' = FALSE
           ELSE UNCHANGED shown /\ error' = TRUE
        /\ base' = source /\ absorbed' = FALSE /\ UNCHANGED sourceVars
Stamped == last' = mtime /\ UNCHANGED sourceVars

\* load_app loads, then App::new takes the stamp.
OpenLoads == Stage("opening", "opened") /\ Load /\ UNCHANGED last
OpenStamps ==
  /\ Stage("opened", "idle") /\ Stamped
  /\ absorbed' = (source # base) /\ UNCHANGED <<shown, error, base>>

\* Mutant: once a load has failed the session waits for the key r.
PollGivesUp ==
  /\ mtime # last /\ ~error /\ Stage("idle", "loading") /\ Stamped
  /\ UNCHANGED <<shown, error, base, absorbed>>
\* poll_hot_reload: another stamp is kept first, then the files are loaded.
PollSees ==
  /\ mtime # last /\ Stage("idle", "loading") /\ Stamped
  /\ UNCHANGED <<shown, error, base, absorbed>>
PollLoads == Stage("loading", "idle") /\ Load /\ UNCHANGED last
\* The key r loads and keeps no stamp.
Reload == Stage("idle", "idle") /\ Load /\ UNCHANGED last

\* submit_edit writes; after_project_write keeps the stamp and reloads.
EditWrites == /\ Stage("idle", "edited") /\ Save
              /\ UNCHANGED <<shown, error, last, base, absorbed>>
\* Mutant: nothing is reloaded.
EditOnlyStamps == Stage("edited", "idle") /\ Stamped /\ UNCHANGED <<shown, error, base, absorbed>>
EditStamps == Stage("edited", "loading") /\ Stamped /\ UNCHANGED <<shown, error, base, absorbed>>
\* submit_add writes; after_project_write keeps the stamp and registers what
\* was written, a face that registers, into the snapshot it has.
AddWrites == /\ Stage("idle", "added") /\ Save /\ source' \in Loadable /\ base' = source
             /\ UNCHANGED <<shown, error, last, absorbed>>
AddStamps ==
  /\ Stage("added", "idle") /\ Stamped
  /\ shown' = IF shown = base THEN base + 1 ELSE Nothing
  /\ base' = base + 1
  /\ absorbed' = (shown # base \/ source # base + 1) /\ UNCHANGED error
\* submit_plugin writes its entry and its lock, which no snapshot is loaded from
\* but the stamp covers; after_project_write keeps the stamp and loads nothing.
PluginWrites == /\ Stage("idle", "selected")
                /\ UNCHANGED <<sourceVars, shown, error, last, base, absorbed>>
PluginStamps ==
  /\ Stage("selected", "idle") /\ Stamped
  /\ absorbed' = (absorbed \/ source # base) /\ UNCHANGED <<shown, error, base>>

Own == OpenLoads \/ OpenStamps \/ PollLoads \/ EditStamps \/ AddStamps \/ PluginStamps
StudioNext == Own \/ PollSees \/ Reload \/ EditWrites \/ AddWrites \/ PluginWrites
=============================================================================

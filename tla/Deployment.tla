----------------------------- MODULE Deployment -----------------------------
(* HotDeployment: readers take a snapshot without a lock, replacements go one *)
(* at a time. toolchain/src/plugin_host/src/deployment.rs. A registry is the *)
(* set of grafts it carries: Overlay says what one graft does to a tree.     *)
EXTENDS Naturals, Sequences, SequencesExt

CONSTANTS
  Threads, Plans        \* a plan is [graft, needs]: what it brings in, what it addresses
ASSUME ThreadsAssumption == "nobody" \notin Threads

VARIABLES
  current,      \* the deployment: generation, registry, plugin
  holder,       \* the thread that holds the writer mutex, or "nobody"
  poisoned,     \* a thread panicked with it
  thread,       \* each thread, with what it replaces and the snapshot it loaded
  replaced,     \* what every store that was made deployed, in order
  calls         \* how many calls of replace this behaviour may still see
deploymentVars == <<current, holder, poisoned, thread, replaced, calls>>

Rests == [at |-> "idle"]
At(t, place) == thread[t].at = place
Goes(t, place) == thread' = [thread EXCEPT ![t].at = place]
Returns(t) == thread' = [thread EXCEPT ![t] = Rests]

DeploymentInit(plugin, most) ==
  /\ current = [generation |-> 0, registry |-> {}, plugin |-> plugin]
  /\ holder = "nobody" /\ poisoned = FALSE
  /\ thread = [t \in Threads |-> Rests] /\ replaced = <<>> /\ calls = most

\* replace: a plugin that fails its health check goes no further.
Check(t, plugin) == \E plan \in Plans :
  /\ At(t, "idle") /\ calls > 0 /\ calls' = calls - 1
  /\ thread' = [thread EXCEPT ![t] =
                  [at |-> "checked", plugin |-> plugin, plan |-> plan, live |-> current]]
  /\ UNCHANGED <<current, holder, poisoned, replaced>>
\* Mutant: the writer does not wait for another one.
LockRegardless(t) ==
  /\ At(t, "checked") /\ ~poisoned /\ holder' = t /\ Goes(t, "locked")
  /\ UNCHANGED <<current, poisoned, replaced, calls>>
Lock(t) ==
  /\ At(t, "checked") /\ holder = "nobody" /\ ~poisoned
  /\ holder' = t /\ Goes(t, "locked")
  /\ UNCHANGED <<current, poisoned, replaced, calls>>
\* "deployment writer lock was poisoned"
LockPoisoned(t) ==
  /\ At(t, "checked") /\ holder = "nobody" /\ poisoned /\ Returns(t)
  /\ UNCHANGED <<current, holder, poisoned, replaced, calls>>
Load(t) ==
  /\ At(t, "locked")
  /\ thread' = [thread EXCEPT ![t].at = "loaded", ![t].live = current]
  /\ UNCHANGED <<current, holder, poisoned, replaced, calls>>
Resolves(t) == thread[t].plan.needs \subseteq thread[t].live.registry
\* Mutant: an overlay that fails returns with the mutex taken.
OverlayFailsLocked(t) ==
  /\ At(t, "loaded") /\ ~Resolves(t) /\ Returns(t)
  /\ UNCHANGED <<current, holder, poisoned, replaced, calls>>
\* The guard is dropped on the way out, nothing is stored.
OverlayFails(t) ==
  /\ At(t, "loaded") /\ ~Resolves(t) /\ Returns(t) /\ holder' = "nobody"
  /\ UNCHANGED <<current, poisoned, replaced, calls>>
Store(t) ==
  /\ At(t, "loaded") /\ Resolves(t) /\ Goes(t, "stored")
  /\ current' = [generation |-> thread[t].live.generation + 1,
                 registry |-> thread[t].live.registry \cup {thread[t].plan.graft},
                 plugin |-> thread[t].plugin]
  /\ replaced' = Append(replaced, [plugin |-> thread[t].plugin, graft |-> thread[t].plan.graft])
  /\ UNCHANGED <<holder, poisoned, calls>>
Unlock(t) ==
  /\ At(t, "stored") /\ Returns(t) /\ holder' = "nobody"
  /\ UNCHANGED <<current, poisoned, replaced, calls>>
\* A panic in the overlay poisons the mutex, what is deployed goes on.
Panic(t) ==
  /\ At(t, "loaded") /\ Returns(t) /\ holder' = "nobody" /\ poisoned' = TRUE
  /\ UNCHANGED <<current, replaced, calls>>

Replaces(t) ==
  Lock(t) \/ LockPoisoned(t) \/ Load(t) \/ OverlayFails(t) \/ Store(t) \/ Unlock(t)

\* A replacement that was stored is part of every later deployment: generations
\* count them, none is overwritten by one that had not seen it, and the plugin
\* is the one that came with the last graft.
NoReplacementLost ==
  /\ current.generation = Len(replaced)
  /\ current.registry = {replaced[i].graft : i \in DOMAIN replaced}
  /\ replaced # <<>> => current.plugin = Last(replaced).plugin

\* Every call of replace returns, whatever the others do, panic or not.
EveryReplacementReturns == \A t \in Threads : ~At(t, "idle") ~> At(t, "idle")
=============================================================================

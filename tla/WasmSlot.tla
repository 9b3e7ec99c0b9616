------------------------------ MODULE WasmSlot ------------------------------
(* One slot of the lazily activated Wasm plugin table                        *)
(* (toolchain/src/plugin_host/src/lazy_wasm.rs and lazy_wasm/slot_state.rs): *)
(* installs queue a generation, and the threads that call an operation take  *)
(* the queued generation, load it outside the slot's lock and publish it.    *)
(* A critical section of the `pending` mutex is one action; every atomic     *)
(* load or store outside it is an action of its own.                         *)
EXTENDS Naturals

CONSTANTS
  Threads,      \* threads of the host that use the slot
  MaxInstalls   \* bound: artifacts installed

ASSUME SlotAssumption == MaxInstalls \in Nat

VARIABLES
  pending,          \* the queued generation, 0 when the queue is empty
  hasPending,       \* the flag readers look at without the lock
  nextGeneration,   \* the last generation handed out
  active,           \* the generation that serves, 0 before the first
  activationError,  \* the generation whose failed load is recorded, 0 when none
  overlapped,       \* history: the last take met an activation still under way
  pc, candidate,    \* where each thread is, and the generation it took
  calling,          \* whether it runs call, which goes on to use `active`
  answer            \* what its last call or activate_pending answered
shared == <<pending, hasPending, nextGeneration, active, activationError, overlapped>>
local == <<pc, candidate, calling, answer>>
slotVars == <<shared, local>>

Generations == 0..MaxInstalls
Places == {"idle", "checking", "taking", "loading", "storing",
           "failing", "skipping", "succeeding", "clearing", "reporting", "invoking"}
SlotAnswers == {"none", "false", "true", "done", "failed", "uninstalled"}

SlotInit ==
  /\ pending = 0 /\ hasPending = FALSE /\ nextGeneration = 0
  /\ active = 0 /\ activationError = 0 /\ overlapped = FALSE
  /\ pc = [t \in Threads |-> "idle"]
  /\ candidate = [t \in Threads |-> 0]
  /\ calling = [t \in Threads |-> FALSE]
  /\ answer = [t \in Threads |-> "none"]

Go(t, place) == pc' = [pc EXCEPT ![t] = place]
Continue(t, place) == Go(t, place) /\ UNCHANGED <<calling, answer>>
Answer(t, value) ==
  /\ Go(t, "idle")
  /\ answer' = [answer EXCEPT ![t] = value]
  /\ calling' = [calling EXCEPT ![t] = FALSE]

\* install: the number is allocated, queued and announced under the lock.
Install(t) ==
  /\ pc[t] = "idle" /\ nextGeneration < MaxInstalls
  /\ nextGeneration' = nextGeneration + 1
  /\ pending' = nextGeneration + 1
  /\ hasPending' = TRUE
  /\ UNCHANGED <<active, activationError, overlapped, local>>

\* call enters activate; activate_pending first answers false on a clear flag.
Call(t) ==
  /\ pc[t] = "idle" /\ Go(t, "checking")
  /\ calling' = [calling EXCEPT ![t] = TRUE]
  /\ answer' = [answer EXCEPT ![t] = "none"]
  /\ UNCHANGED <<shared, candidate>>

ActivatePending(t) ==
  /\ pc[t] = "idle"
  /\ IF hasPending
     THEN /\ Go(t, "checking")
          /\ answer' = [answer EXCEPT ![t] = "none"]
          /\ UNCHANGED calling
     ELSE Answer(t, "false")
  /\ UNCHANGED <<shared, candidate>>

\* activate returned Ok: activate_pending is done, call looks at `active`.
Activated(t) ==
  IF calling[t] THEN Continue(t, "invoking") ELSE Answer(t, "true")

CheckFlag(t) ==
  /\ pc[t] = "checking"
  /\ IF hasPending THEN Continue(t, "taking") ELSE Activated(t)
  /\ UNCHANGED <<shared, candidate>>

TakePending(t) ==
  /\ pc[t] = "taking"
  /\ pending' = 0
  /\ candidate' = [candidate EXCEPT ![t] = pending]
  /\ overlapped' = IF pending = 0 THEN overlapped
                   ELSE \E u \in Threads \ {t} : candidate[u] # 0
  /\ Continue(t, IF pending = 0 THEN "skipping" ELSE "loading")
  /\ UNCHANGED <<hasPending, nextGeneration, active, activationError>>

\* Compiling and the health check succeed or fail.
Load(t) ==
  /\ pc[t] = "loading"
  /\ Continue(t, "storing") \/ Continue(t, "failing")
  /\ UNCHANGED <<shared, candidate>>

StoreActive(t) ==
  /\ pc[t] = "storing" /\ Continue(t, "succeeding")
  /\ active' = candidate[t]
  /\ UNCHANGED <<pending, hasPending, nextGeneration, activationError, overlapped, candidate>>

\* Mutant: the flag is cleared blindly.
ClearFlag == hasPending' = FALSE

PublishFlag == hasPending' = (pending # 0)

\* publish_pending, on the three ways out of activate_with.
PublishPending(t) ==
  /\ PublishFlag
  /\ \/ pc[t] = "succeeding" /\ Continue(t, "clearing")
     \/ pc[t] = "failing" /\ Continue(t, "reporting")
     \/ pc[t] = "skipping" /\ Activated(t)
  /\ UNCHANGED <<pending, nextGeneration, active, activationError, overlapped, candidate>>

\* Mutant: a failed load is answered to the caller and not recorded.
RecordSuccessOnly(t) ==
  /\ \/ pc[t] = "clearing" /\ activationError' = 0 /\ Activated(t)
     \/ pc[t] = "reporting" /\ UNCHANGED activationError /\ Answer(t, "failed")
  /\ candidate' = [candidate EXCEPT ![t] = 0]
  /\ UNCHANGED <<pending, hasPending, nextGeneration, active, overlapped>>

\* record_activation, under a lock of its own and after the flag is published.
RecordActivation(t) ==
  /\ \/ pc[t] = "clearing" /\ activationError' = 0 /\ Activated(t)
     \/ pc[t] = "reporting" /\ activationError' = candidate[t] /\ Answer(t, "failed")
  /\ candidate' = [candidate EXCEPT ![t] = 0]
  /\ UNCHANGED <<pending, hasPending, nextGeneration, active, overlapped>>

\* The second half of call: the generation that serves, whichever it is now.
Invoke(t) ==
  /\ pc[t] = "invoking"
  /\ Answer(t, IF active = 0 THEN "uninstalled" ELSE "done")
  /\ UNCHANGED <<shared, candidate>>

Activate(t) == \/ CheckFlag(t) \/ TakePending(t) \/ Load(t) \/ StoreActive(t)
               \/ PublishPending(t) \/ RecordActivation(t) \/ Invoke(t)
SlotNext == \E t \in Threads :
              Install(t) \/ Call(t) \/ ActivatePending(t) \/ Activate(t)

\* A thread inside the slot keeps running and its load ends; no host is obliged
\* to install or to call.
SlotSpec == /\ SlotInit /\ [][SlotNext]_slotVars
            /\ \A t \in Threads : WF_slotVars(Activate(t))

-----------------------------------------------------------------------------
\* Every field and every thread's place stay in their ranges.
SlotTypeOK ==
  /\ {pending, nextGeneration, active, activationError} \subseteq Generations
  /\ hasPending \in BOOLEAN /\ overlapped \in BOOLEAN
  /\ pc \in [Threads -> Places] /\ candidate \in [Threads -> Generations]
  /\ calling \in [Threads -> BOOLEAN] /\ answer \in [Threads -> SlotAnswers]

\* has_pending describes the queue: a queued generation is always announced, so
\* no call passes it by, and the flag is set over an empty queue only while
\* some thread is between taking a generation and publishing what is left.
InHand(t) == pc[t] \in {"loading", "storing", "failing", "succeeding", "skipping"}
FlagDescribesQueue ==
  /\ pending # 0 => hasPending
  /\ hasPending /\ pending = 0 => \E t \in Threads : InHand(t)

\* What waits is always the artifact installed last: an older generation never
\* takes the place of a newer one in the queue.
QueueHoldsNewest == pending \in {0, nextGeneration}

\* One generation is loaded by one thread: what a thread took is neither queued
\* nor with another thread, and is not serving before that thread stored it.
TakenOnce ==
  \A t \in Threads : candidate[t] # 0 =>
    /\ candidate[t] # pending
    /\ \A u \in Threads \ {t} : candidate[u] # candidate[t]
    /\ pc[t] \in {"loading", "storing", "failing", "reporting"} => active # candidate[t]

\* No installed artifact vanishes.  Until one serves, an install is still queued,
\* in a thread's hands, or its failed load is recorded for is_loaded's callers;
\* and whatever serves, the artifact installed last is queued, in a thread's
\* hands, serving or the failure on record.  The latter is not so while the last
\* take met an activation still under way: the older one may then record its
\* success over the newer one's failure, or store over the newer one.
NoArtifactVanishes ==
  /\ nextGeneration > 0 /\ active = 0 =>
       pending # 0 \/ activationError # 0 \/ \E t \in Threads : candidate[t] # 0
  /\ nextGeneration > 0 /\ ~overlapped =>
       \/ nextGeneration \in {pending, active, activationError}
       \/ \E t \in Threads : candidate[t] = nextGeneration

\* A generation that serves is only ever replaced by a newer one.
GenerationNeverRegresses == [][active' >= active]_slotVars
=============================================================================

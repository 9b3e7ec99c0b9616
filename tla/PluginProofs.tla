----------------------------- MODULE PluginProofs -----------------------------
(* What the two ways a plugin runs keep.  The slot of a Wasm plugin, for any *)
(* number of threads and of installs: the flag describes the queue, the      *)
(* queue holds the newest artifact, and a queued generation goes to one      *)
(* thread.  The call of a process plugin, for every child, pipe, request and *)
(* number of attempts: it leaves no process behind, and its answer is about  *)
(* what the child did.                                                       *)
EXTENDS WasmSlot, ProcessCall, FiniteSetTheorems, TLAPS

------------------------------------------------------------------------------
(* The Wasm slot.                                                            *)

\* A thread holds a generation from taking it to recording how it went, and
\* every generation seen anywhere was handed out by an install; the one that
\* waits has not served.
Holding == {"loading", "storing", "failing", "succeeding", "clearing", "reporting"}
HeldWhileHolding == \A t \in Threads : candidate[t] # 0 <=> pc[t] \in Holding
HandedOut ==
  /\ {pending, active, activationError} \subseteq 0..nextGeneration
  /\ \A t \in Threads : candidate[t] \in 0..nextGeneration
WaitingNotServing == pending # 0 => active # pending
ServesAfterStore == \A t \in Threads : pc[t] \in {"succeeding", "clearing"} => active # 0

\* While the last take was alone, one thread at most has a generation in hand; it
\* is the newest unless a newer one waits, serves once it is stored, and leaves
\* the newest accounted for when it is recorded.
Alone == \A t, u \in Threads : candidate[t] # 0 /\ candidate[u] # 0 => t = u
NewestInHand == \A t \in Threads : candidate[t] # 0 => nextGeneration \in {pending, candidate[t]}
StoredServes == \A t \in Threads : pc[t] \in {"succeeding", "clearing"} => active = candidate[t]
NewestKept == (\A t \in Threads : candidate[t] = 0) =>
                nextGeneration \in {0, pending, active, activationError}
OneAtATime == ~overlapped => Alone /\ NewestInHand /\ StoredServes /\ NewestKept

SlotInv == /\ SlotTypeOK /\ FlagDescribesQueue /\ QueueHoldsNewest /\ TakenOnce
           /\ NoArtifactVanishes /\ HeldWhileHolding /\ HandedOut /\ WaitingNotServing
           /\ ServesAfterStore /\ OneAtATime

LEMMA SlotInitInv == SlotInit => SlotInv
<1>. SUFFICES ASSUME SlotInit PROVE SlotInv
  OBVIOUS
<1>1. SlotTypeOK
  <2>1. 0 \in Generations /\ "idle" \in Places /\ "none" \in SlotAnswers
    BY SlotAssumption DEF Generations, Places, SlotAnswers
  <2>. QED
    BY <2>1 DEF SlotInit, SlotTypeOK
<1>2. FlagDescribesQueue /\ QueueHoldsNewest /\ TakenOnce /\ NoArtifactVanishes
  BY DEF SlotInit, FlagDescribesQueue, QueueHoldsNewest, TakenOnce, NoArtifactVanishes
<1>3. HeldWhileHolding /\ HandedOut /\ WaitingNotServing /\ ServesAfterStore
  BY DEF SlotInit, HeldWhileHolding, Holding, HandedOut, WaitingNotServing, ServesAfterStore
<1>4. OneAtATime
  BY DEF SlotInit, OneAtATime, Alone, NewestInHand, StoredServes, NewestKept
<1>. QED
  BY <1>1, <1>2, <1>3, <1>4 DEF SlotInv

\* The thread's own record is in range after any move.
LEMMA LocalTyped ==
  ASSUME SlotInv, NEW t \in Threads, NEW place \in Places, NEW value \in SlotAnswers,
         \/ Continue(t, place)
         \/ Answer(t, value)
         \/ Activated(t)
  PROVE  /\ pc' \in [Threads -> Places] /\ calling' \in [Threads -> BOOLEAN]
         /\ answer' \in [Threads -> SlotAnswers]
         /\ \A u \in Threads \ {t} : pc'[u] = pc[u]
         /\ Continue(t, place) => pc'[t] = place
         /\ Answer(t, value) => pc'[t] = "idle"
         /\ Activated(t) => pc'[t] \in {"idle", "invoking"}
<1>1. 0 \in Generations /\ "idle" \in Places /\ "invoking" \in Places /\ "true" \in SlotAnswers
  BY SlotAssumption DEF Generations, Places, SlotAnswers
<1>. QED
  BY <1>1 DEF SlotInv, SlotTypeOK, Continue, Answer, Activated, Go

\* An install numbers above every generation in the slot and announces it.
LEMMA InstallInv ==
  ASSUME SlotInv, NEW t \in Threads, Install(t)
  PROVE  SlotInv'
<1>. USE SlotAssumption DEF SlotInv, Install, local, shared
<1>1. nextGeneration \in Nat /\ nextGeneration' = nextGeneration + 1 /\ pending' = nextGeneration'
  BY DEF SlotTypeOK, Generations
<1>2. SlotTypeOK'
  BY <1>1 DEF SlotTypeOK, Generations
<1>3. HandedOut'
  BY <1>1 DEF HandedOut, SlotTypeOK, Generations
<1>4. TakenOnce'
  <2>1. \A u \in Threads : candidate[u] # pending'
    BY <1>1 DEF HandedOut
  <2>. QED
    BY <2>1 DEF TakenOnce
<1>5. WaitingNotServing'
  BY <1>1 DEF WaitingNotServing, HandedOut
<1>6. OneAtATime'
  BY <1>1 DEF OneAtATime, Alone, NewestInHand, StoredServes, NewestKept
<1>. QED
  BY <1>1, <1>2, <1>3, <1>4, <1>5, <1>6 DEF FlagDescribesQueue, QueueHoldsNewest,
     HeldWhileHolding, NoArtifactVanishes, ServesAfterStore

\* Entering the slot, looking at the flag and using what serves touch neither
\* the queue nor a generation, and no thread leaves the hands it is in.
LEMMA LookInv ==
  ASSUME SlotInv, NEW t \in Threads,
         Call(t) \/ ActivatePending(t) \/ CheckFlag(t) \/ Invoke(t)
  PROVE  SlotInv'
<1>. USE SlotAssumption DEF SlotInv, shared
<1>1. UNCHANGED <<shared, candidate>>
  BY DEF Call, ActivatePending, CheckFlag, Invoke
<1>2. /\ pc' \in [Threads -> Places] /\ calling' \in [Threads -> BOOLEAN]
      /\ answer' \in [Threads -> SlotAnswers]
      /\ \A u \in Threads \ {t} : pc'[u] = pc[u]
      /\ pc[t] \notin Holding \cup {"skipping"}
      /\ pc'[t] \in {"idle", "checking", "taking", "invoking"}
  <2>. {"none", "false", "true", "done", "uninstalled"} \subseteq SlotAnswers
    BY DEF SlotAnswers
  <2>. {"idle", "checking", "taking", "invoking"} \subseteq Places
    BY DEF Places
  <2>1. CASE Call(t)
    BY <2>1 DEF Call, Go, SlotTypeOK, Holding, Generations
  <2>2. CASE ActivatePending(t)
    <3>1. CASE hasPending
      BY <2>2, <3>1 DEF ActivatePending, Go, SlotTypeOK, Holding
    <3>2. CASE ~hasPending
      BY <2>2, <3>2, LocalTyped DEF ActivatePending, Holding
    <3>. QED
      BY <3>1, <3>2
  <2>3. CASE CheckFlag(t)
    BY <2>3, LocalTyped DEF CheckFlag, Holding
  <2>4. CASE Invoke(t)
    BY <2>4, LocalTyped DEF Invoke, Holding
  <2>. QED
    BY <2>1, <2>2, <2>3, <2>4
<1>3. SlotTypeOK'
  BY <1>1, <1>2 DEF SlotTypeOK
<1>4. FlagDescribesQueue'
  <2>1. \A u \in Threads : InHand(u) => InHand(u)'
    BY <1>2 DEF InHand, Holding
  <2>. QED
    BY <1>1, <2>1 DEF FlagDescribesQueue
<1>5. TakenOnce'
  BY <1>1, <1>2 DEF TakenOnce, Holding
<1>6. OneAtATime'
  BY <1>1, <1>2 DEF OneAtATime, Alone, NewestInHand, StoredServes, NewestKept
<1>. QED
  BY <1>1, <1>2, <1>3, <1>4, <1>5, <1>6 DEF QueueHoldsNewest, HeldWhileHolding, HandedOut,
     WaitingNotServing, Holding, NoArtifactVanishes, ServesAfterStore

\* The queued generation moves from the queue into one thread's hands.
LEMMA TakeInv ==
  ASSUME SlotInv, NEW t \in Threads, TakePending(t)
  PROVE  SlotInv'
<1>. USE SlotAssumption DEF SlotInv, TakePending
<1>. DEFINE place == IF pending = 0 THEN "skipping" ELSE "loading"
<1>1. /\ pc' \in [Threads -> Places] /\ calling' \in [Threads -> BOOLEAN]
      /\ answer' \in [Threads -> SlotAnswers]
      /\ \A u \in Threads \ {t} : pc'[u] = pc[u]
      /\ pc'[t] = place
  <2>1. place \in Places /\ "none" \in SlotAnswers
    BY DEF Places, SlotAnswers
  <2>. QED
    BY <2>1, LocalTyped
<1>2. /\ candidate' = [candidate EXCEPT ![t] = pending] /\ pending' = 0
      /\ candidate' \in [Threads -> Generations]
  BY DEF SlotTypeOK
<1>3. candidate[t] = 0 /\ ~InHand(t) /\ InHand(t)'
  BY <1>1 DEF HeldWhileHolding, Holding, InHand
<1>4. SlotTypeOK'
  <2>1. overlapped' \in BOOLEAN
    <3>1. overlapped \in BOOLEAN
      BY DEF SlotTypeOK
    <3>2. CASE pending = 0
      BY <3>1, <3>2
    <3>3. CASE pending # 0
      <4>1. overlapped' = (\E u \in Threads \ {t} : candidate[u] # 0)
        BY <3>3
      <4>. QED
        BY ONLY <4>1, Zenon
    <3>. QED
      BY ONLY <3>2, <3>3
  <2>2. UNCHANGED <<hasPending, nextGeneration, active, activationError>>
    OBVIOUS
  <2>. QED
    BY ONLY <1>1, <1>2, <2>1, <2>2, SlotTypeOK, SlotAssumption DEF SlotTypeOK, Generations
<1>5. TakenOnce'
  <2>. SUFFICES ASSUME NEW u \in Threads, candidate'[u] # 0
                PROVE  /\ candidate'[u] # pending'
                       /\ \A v \in Threads \ {u} : candidate'[v] # candidate'[u]
                       /\ pc'[u] \in {"loading", "storing", "failing", "reporting"}
                            => active # candidate'[u]
    BY DEF TakenOnce
  <2>1. CASE u = t
    BY <1>1, <1>2, <2>1 DEF TakenOnce, WaitingNotServing, SlotTypeOK
  <2>2. CASE u # t
    BY <1>1, <1>2, <2>2 DEF TakenOnce, SlotTypeOK
  <2>. QED
    BY <2>1, <2>2
<1>6. HandedOut'
  BY <1>2 DEF HandedOut, SlotTypeOK, Generations
<1>7. HeldWhileHolding'
  BY <1>1, <1>2 DEF HeldWhileHolding, Holding, SlotTypeOK
<1>10. OneAtATime'
  <2>1. candidate'[t] = pending /\ \A u \in Threads \ {t} : candidate'[u] = candidate[u]
    BY <1>2 DEF SlotTypeOK
  <2>2. CASE pending = 0
    <3>1. \A u \in Threads : candidate'[u] = candidate[u]
      BY <1>3, <2>1, <2>2
    <3>2. overlapped' = overlapped /\ pc'[t] = "skipping"
      BY <1>1, <2>2
    <3>. QED
      BY <1>1, <1>2, <2>2, <3>1, <3>2
         DEF OneAtATime, Alone, NewestInHand, StoredServes, NewestKept
  <2>3. CASE pending # 0 /\ ~overlapped'
    <3>1. \A u \in Threads \ {t} : candidate[u] = 0 /\ candidate'[u] = 0
      BY <2>1, <2>3
    <3>2. nextGeneration = candidate'[t]
      BY <2>1, <2>3 DEF QueueHoldsNewest
    <3>3. \A u \in Threads \ {t} : pc'[u] \notin Holding
      BY <1>1, <3>1 DEF HeldWhileHolding
    <3>4. pc'[t] = "loading"
      BY <1>1, <2>3
    <3>. QED
      BY <2>1, <2>3, <3>1, <3>2, <3>3, <3>4
         DEF OneAtATime, Alone, NewestInHand, StoredServes, NewestKept, Holding
  <2>. QED
    BY <2>2, <2>3 DEF OneAtATime
<1>8. NoArtifactVanishes'
  <2>1. \A u \in Threads : candidate[u] # 0 => candidate'[u] # 0
    BY <1>2, <1>3 DEF SlotTypeOK
  <2>2. pending # 0 => candidate'[t] # 0
    BY <1>2 DEF SlotTypeOK
  <2>3. nextGeneration' \in Nat
    BY DEF SlotTypeOK, Generations
  <2>4. nextGeneration' > 0 /\ ~overlapped' =>
          \/ nextGeneration' \in {pending', active', activationError'}
          \/ \E u \in Threads : candidate'[u] = nextGeneration'
    BY <1>10, <2>3 DEF OneAtATime, NewestInHand, NewestKept
  <2>. QED
    BY <2>1, <2>2, <2>4 DEF NoArtifactVanishes
<1>9. ServesAfterStore'
  BY <1>1 DEF ServesAfterStore
<1>. QED
  BY <1>1, <1>2, <1>3, <1>4, <1>5, <1>6, <1>7, <1>8, <1>9, <1>10 DEF FlagDescribesQueue,
     QueueHoldsNewest, WaitingNotServing

\* Loading and storing keep the generation in the same hands; a store puts into
\* service a generation nobody else holds.
LEMMA LoadInv ==
  ASSUME SlotInv, NEW t \in Threads, Load(t) \/ StoreActive(t)
  PROVE  SlotInv'
<1>. USE SlotAssumption DEF SlotInv
<1>1. UNCHANGED <<pending, hasPending, nextGeneration, activationError, overlapped, candidate>>
  BY DEF Load, StoreActive, shared
<1>2. /\ pc' \in [Threads -> Places] /\ calling' \in [Threads -> BOOLEAN]
      /\ answer' \in [Threads -> SlotAnswers]
      /\ \A u \in Threads \ {t} : pc'[u] = pc[u]
      /\ pc[t] \in {"loading", "storing"}
      /\ Load(t) => pc'[t] \in {"storing", "failing"}
      /\ StoreActive(t) => pc'[t] = "succeeding"
  <2>1. {"storing", "failing", "succeeding"} \subseteq Places /\ "none" \in SlotAnswers
    BY DEF Places, SlotAnswers
  <2>. QED
    BY <2>1, LocalTyped DEF Load, StoreActive
<1>3. active' \in Generations
  BY DEF Load, StoreActive, SlotTypeOK, shared
<1>4. SlotTypeOK'
  BY <1>1, <1>2, <1>3 DEF SlotTypeOK
<1>5. active' = active \/ (StoreActive(t) /\ active' = candidate[t])
  BY DEF Load, StoreActive, shared
<1>6. TakenOnce'
  <2>. SUFFICES ASSUME NEW u \in Threads, candidate[u] # 0
                PROVE  /\ candidate[u] # pending
                       /\ \A v \in Threads \ {u} : candidate[v] # candidate[u]
                       /\ pc'[u] \in {"loading", "storing", "failing", "reporting"}
                            => active' # candidate[u]
    BY <1>1 DEF TakenOnce
  <2>1. CASE u = t
    BY <1>2, <1>5, <2>1 DEF TakenOnce, Load, StoreActive
  <2>2. CASE u # t
    BY <1>2, <1>5, <2>2 DEF TakenOnce
  <2>. QED
    BY <2>1, <2>2
<1>7. FlagDescribesQueue'
  <2>1. \A u \in Threads : InHand(u) => InHand(u)'
    BY <1>2 DEF InHand
  <2>. QED
    BY <1>1, <2>1 DEF FlagDescribesQueue
<1>8. HeldWhileHolding' /\ HandedOut'
  BY <1>1, <1>2, <1>5 DEF HeldWhileHolding, Holding, HandedOut
<1>9. WaitingNotServing'
  BY <1>1, <1>5 DEF WaitingNotServing, TakenOnce
<1>10. candidate[t] # 0
  BY <1>2 DEF HeldWhileHolding, Holding
<1>13. OneAtATime'
  <2>1. ~overlapped => \A u \in Threads \ {t} : pc'[u] \notin Holding
    BY <1>2, <1>10 DEF OneAtATime, Alone, HeldWhileHolding
  <2>2. ~overlapped => StoredServes'
    BY <1>1, <1>2, <1>5, <2>1 DEF StoredServes, Holding, Load, StoreActive
  <2>. QED
    BY <1>1, <1>10, <2>2 DEF OneAtATime, Alone, NewestInHand, NewestKept
<1>11. NoArtifactVanishes'
  <2>1. nextGeneration' \in Nat
    BY <1>1 DEF SlotTypeOK, Generations
  <2>2. nextGeneration' > 0 /\ ~overlapped' =>
          \/ nextGeneration' \in {pending', active', activationError'}
          \/ \E u \in Threads : candidate'[u] = nextGeneration'
    BY <1>13, <2>1 DEF OneAtATime, NewestInHand, NewestKept
  <2>. QED
    BY <1>1, <1>10, <2>2 DEF NoArtifactVanishes
<1>12. ServesAfterStore'
  BY <1>2, <1>5, <1>10 DEF ServesAfterStore, Load, StoreActive, shared
<1>. QED
  BY <1>1, <1>4, <1>6, <1>7, <1>8, <1>9, <1>11, <1>12, <1>13 DEF QueueHoldsNewest

\* The flag is read off the queue under the queue's lock, so it is right
\* whatever was installed while the generation loaded.
LEMMA PublishInv ==
  ASSUME SlotInv, NEW t \in Threads, PublishPending(t)
  PROVE  SlotInv'
<1>. USE SlotAssumption DEF SlotInv
<1>1. /\ UNCHANGED <<pending, nextGeneration, active, activationError, overlapped, candidate>>
      /\ hasPending' = (pending # 0)
  BY DEF PublishPending, PublishFlag
<1>2. /\ pc' \in [Threads -> Places] /\ calling' \in [Threads -> BOOLEAN]
      /\ answer' \in [Threads -> SlotAnswers]
      /\ \A u \in Threads \ {t} : pc'[u] = pc[u]
      /\ \/ pc[t] = "succeeding" /\ pc'[t] = "clearing"
         \/ pc[t] = "failing" /\ pc'[t] = "reporting"
         \/ pc[t] = "skipping" /\ pc'[t] \in {"idle", "invoking"}
  <2>1. {"clearing", "reporting"} \subseteq Places /\ "none" \in SlotAnswers
    BY DEF Places, SlotAnswers
  <2>. QED
    BY <2>1, LocalTyped DEF PublishPending
<1>3. SlotTypeOK'
  BY <1>1, <1>2 DEF SlotTypeOK
<1>4. TakenOnce'
  BY <1>1, <1>2 DEF TakenOnce
<1>5. HeldWhileHolding'
  BY <1>1, <1>2 DEF HeldWhileHolding, Holding
<1>6. OneAtATime'
  <2>1. ~overlapped => StoredServes'
    BY <1>1, <1>2 DEF OneAtATime, StoredServes
  <2>. QED
    BY <1>1, <2>1 DEF OneAtATime, Alone, NewestInHand, NewestKept
<1>. QED
  BY <1>1, <1>2, <1>3, <1>4, <1>5, <1>6 DEF FlagDescribesQueue, QueueHoldsNewest, HandedOut,
     WaitingNotServing, NoArtifactVanishes, ServesAfterStore

LEMMA RecordInv ==
  ASSUME SlotInv, NEW t \in Threads, RecordActivation(t)
  PROVE  SlotInv'
<1>. USE SlotAssumption DEF SlotInv
<1>1. /\ UNCHANGED <<pending, hasPending, nextGeneration, active, overlapped>>
      /\ candidate' = [candidate EXCEPT ![t] = 0]
      /\ \/ pc[t] = "clearing" /\ activationError' = 0
         \/ pc[t] = "reporting" /\ activationError' = candidate[t]
  BY DEF RecordActivation
<1>2. /\ pc' \in [Threads -> Places] /\ calling' \in [Threads -> BOOLEAN]
      /\ answer' \in [Threads -> SlotAnswers]
      /\ \A u \in Threads \ {t} : pc'[u] = pc[u]
      /\ pc'[t] \in {"idle", "invoking"}
  <2>1. "failed" \in SlotAnswers /\ "idle" \in Places
    BY DEF SlotAnswers, Places
  <2>. QED
    BY <2>1, LocalTyped DEF RecordActivation
<1>3. SlotTypeOK'
  <2>1. 0 \in Generations
    BY DEF Generations
  <2>2. activationError' \in Generations /\ candidate' \in [Threads -> Generations]
    BY <1>1, <2>1 DEF SlotTypeOK
  <2>. QED
    BY <1>1, <1>2, <2>2 DEF SlotTypeOK
<1>4. TakenOnce'
  <2>1. candidate'[t] = 0 /\ \A u \in Threads \ {t} : candidate'[u] = candidate[u]
    BY <1>1 DEF SlotTypeOK
  <2>2. \A u \in Threads : candidate'[u] # 0 =>
          u # t /\ candidate'[u] = candidate[u] /\ pc'[u] = pc[u]
    BY <1>2, <2>1
  <2>. QED
    BY ONLY <1>1, <2>1, <2>2, SlotInv DEF SlotInv, TakenOnce
<1>5. HeldWhileHolding' /\ HandedOut'
  <2>1. HeldWhileHolding'
    BY <1>1, <1>2 DEF HeldWhileHolding, Holding, SlotTypeOK
  <2>2. 0 \in 0..nextGeneration /\ activationError' \in 0..nextGeneration
    BY <1>1 DEF HandedOut, SlotTypeOK, Generations
  <2>3. \A u \in Threads : candidate'[u] \in 0..nextGeneration
    BY <1>1, <2>2 DEF HandedOut, SlotTypeOK
  <2>. QED
    BY <1>1, <2>1, <2>2, <2>3 DEF HandedOut
<1>6. FlagDescribesQueue'
  <2>1. \A u \in Threads : InHand(u) => InHand(u)'
    BY <1>1, <1>2 DEF InHand
  <2>. QED
    BY <1>1, <2>1 DEF FlagDescribesQueue
<1>9. OneAtATime'
  <2>. SUFFICES ASSUME ~overlapped
                PROVE  Alone' /\ NewestInHand' /\ StoredServes' /\ NewestKept'
    BY <1>1 DEF OneAtATime
  <2>1. /\ candidate[t] # 0 /\ nextGeneration \in {pending, candidate[t]}
        /\ pc[t] = "clearing" => active = candidate[t]
    BY <1>1 DEF HeldWhileHolding, Holding, OneAtATime, NewestInHand, StoredServes
  <2>2. \A u \in Threads \ {t} : candidate[u] = 0 /\ candidate'[u] = 0
    BY <1>1, <2>1 DEF OneAtATime, Alone, SlotTypeOK
  <2>3. \A u \in Threads : candidate'[u] = 0 /\ pc'[u] \notin {"succeeding", "clearing"}
    BY <1>1, <1>2, <2>2 DEF HeldWhileHolding, Holding, SlotTypeOK
  <2>4. nextGeneration \in {pending, active, activationError'}
    BY <1>1, <2>1
  <2>. QED
    BY <1>1, <2>3, <2>4 DEF Alone, NewestInHand, StoredServes, NewestKept
<1>7. NoArtifactVanishes'
  <2>1. active # 0 \/ activationError' # 0
    BY <1>1 DEF ServesAfterStore, HeldWhileHolding, Holding
  <2>2. nextGeneration' \in Nat
    BY <1>1 DEF SlotTypeOK, Generations
  <2>3. nextGeneration' > 0 /\ ~overlapped' =>
          \/ nextGeneration' \in {pending', active', activationError'}
          \/ \E u \in Threads : candidate'[u] = nextGeneration'
    BY <1>9, <2>2 DEF OneAtATime, NewestInHand, NewestKept
  <2>. QED
    BY <1>1, <2>1, <2>3 DEF NoArtifactVanishes
<1>8. ServesAfterStore'
  BY <1>1, <1>2 DEF ServesAfterStore
<1>. QED
  BY <1>1, <1>3, <1>4, <1>5, <1>6, <1>7, <1>8, <1>9 DEF QueueHoldsNewest, WaitingNotServing

\* For any number of threads and installs: a queued generation is always
\* announced and is the newest, a flag over an empty queue has a thread that
\* will put it right, no generation is loaded twice, and none is lost from sight
\* (NoArtifactVanishes).
THEOREM SlotQueueKept ==
  SlotSpec => [](SlotTypeOK /\ FlagDescribesQueue /\ QueueHoldsNewest /\ TakenOnce
                 /\ NoArtifactVanishes)
<1>1. SlotInit => SlotInv
  BY SlotInitInv
<1>2. SlotInv /\ [SlotNext]_slotVars => SlotInv'
  <2>1. CASE UNCHANGED slotVars
    BY <2>1 DEF slotVars, shared, local, SlotInv, SlotTypeOK, FlagDescribesQueue, InHand,
       QueueHoldsNewest, TakenOnce, HeldWhileHolding, HandedOut, WaitingNotServing,
       NoArtifactVanishes, ServesAfterStore, OneAtATime, Alone, NewestInHand, StoredServes,
       NewestKept
  <2>2. ASSUME SlotInv, SlotNext
        PROVE  SlotInv'
    BY <2>2, InstallInv, LookInv, TakeInv, LoadInv, PublishInv, RecordInv DEF SlotNext, Activate
  <2>. QED
    BY <2>1, <2>2
<1>3. SlotInv => SlotTypeOK /\ FlagDescribesQueue /\ QueueHoldsNewest /\ TakenOnce
                   /\ NoArtifactVanishes
  BY DEF SlotInv
<1>. QED
  BY <1>1, <1>2, <1>3, PTL DEF SlotSpec

\* For any number of threads and installs: until one serves, some artifact is
\* queued, in a thread's hands or recorded as failed, and the artifact installed
\* last is queued, in a thread's hands, serving or the recorded failure, unless
\* the last take met an activation still under way (take_pending and
\* record_activation, under two locks).
THEOREM NoArtifactIsLost ==
  SlotSpec => []NoArtifactVanishes
BY SlotQueueKept, PTL

------------------------------------------------------------------------------
(* The process call.                                                         *)

\* Where the loop is says what the child is, and that nothing is answered yet.
PhaseInv ==
  /\ host \in {"checking", "spawning"} => child = "none"
  /\ host \in {"receiving", "waiting", "clock"} => child \in {"running", "exited"}
  /\ host \in {"stderr", "last"} => child = "reaped"
  /\ host = "returned" <=> result # "none"
  /\ child = "none" <=> reader = "unborn"
  /\ fault = "wait" => result = "io"
  /\ fault = "busy" => attempt = Attempts

\* A child ends at the end of its script, and the loop goes on by its code.
EndInv ==
  /\ child = "exited" \/ host \in {"stderr", "last"} => at > Len(script.steps)
  /\ host = "stderr" => script.code # 0
  /\ host = "last" => script.code = 0

\* Until the reader has spoken it has every piece the child wrote that is not
\* in the pipe; what it says, and what the loop remembers of it, is then true.
WordInv ==
  /\ reader \in {"unborn", "framing"} =>
       /\ message = "none" /\ ~refusal /\ Wrote = got + stdout
       /\ got < Awaited
  /\ message = "frame" => Answers(Wrote)
  /\ message = "limit" => script.frame = Over /\ Wrote > 0
  /\ (message = "cut" \/ refusal) /\ result = "none" => at > Len(script.steps) /\ ~Answers(Wrote)

CallInv == /\ CallTypeOK /\ NoProcessLeft /\ AnswersAreHonest
           /\ PhaseInv /\ EndInv /\ WordInv

LEMMA ScriptTyped ==
  ASSUME script \in Scripts
  PROVE  /\ script.steps \in Seq(Steps) /\ Len(script.steps) \in Nat /\ script.code \in {0, 1}
         /\ script.frame = Over \/ script.frame \in Nat \ {0}
         /\ script.frame = Over => script.frame \notin Nat
         /\ Awaited \in Nat \ {0}
BY CallAssumption DEF Awaited

\* What a child wrote is counted from its script.
LEMMA WroteTyped ==
  ASSUME at \in Nat
  PROVE  Wrote \in Nat
<1>. DEFINE Written == {i \in 1..(at - 1) : script.steps[i] = "out"}
<1>1. IsFiniteSet(1..(at - 1))
  BY FS_Interval
<1>2. IsFiniteSet(Written)
  BY <1>1, FS_Subset
<1>. QED
  BY <1>2, FS_CardinalityType DEF Wrote

LEMMA WroteAdvances ==
  ASSUME at \in Nat \ {0}, at' = at + 1, script' = script
  PROVE  Wrote' = IF script.steps[at] = "out" THEN Wrote + 1 ELSE Wrote
<1>. DEFINE Written == {i \in 1..(at - 1) : script.steps[i] = "out"}
            Now == {i \in 1..at : script.steps[i] = "out"}
<1>1. Wrote' = Cardinality(Now)
  <2>1. at' - 1 = at
    OBVIOUS
  <2>2. {i \in 1..(at' - 1) : script.steps'[i] = "out"} = Now
    BY <2>1
  <2>. QED
    BY <2>2 DEF Wrote
<1>2. IsFiniteSet(Written) /\ at \notin Written
  <2>1. IsFiniteSet(1..(at - 1))
    BY FS_Interval
  <2>. QED
    BY <2>1, FS_Subset
<1>3. CASE script.steps[at] = "out"
  <2>1. Now = Written \cup {at}
    BY <1>3
  <2>2. Cardinality(Now) = Cardinality(Written) + 1
    BY <2>1, <1>2, FS_AddElement
  <2>. QED
    BY <1>1, <1>3, <2>2 DEF Wrote
<1>4. CASE script.steps[at] # "out"
  <2>1. Now = Written
    BY <1>4
  <2>. QED
    BY <1>1, <1>4, <2>1 DEF Wrote
<1>. QED
  BY <1>3, <1>4

LEMMA WroteStays ==
  ASSUME at' = at, script' = script
  PROVE  Wrote' = Wrote
BY DEF Wrote

\* What is either true or false, and what the two counts of the host are.
Flags == patient \in BOOLEAN /\ orphan \in BOOLEAN /\ refusal \in BOOLEAN /\ expired \in BOOLEAN

\* Before there is a child nothing is written and the reader has not spoken.
LEMMA InitCallInv == Init => CallInv
<1>. SUFFICES ASSUME Init PROVE CallInv
  OBVIOUS
<1>. USE DEF Init
<1>0. /\ Len(script.steps) \in Nat /\ Request \in Nat /\ Capacity \in Nat /\ Attempts \in Nat \ {0}
      /\ Awaited \in Nat \ {0}
  BY CallAssumption, ScriptTyped DEF Awaited
<1>1. Wrote = 0
  <2>1. {i \in 1..(at - 1) : script.steps[i] = "out"} = {}
    OBVIOUS
  <2>. QED
    BY <2>1, FS_EmptySet DEF Wrote
<1>2. CallTypeOK
  <2>1. Flags
    BY DEF Flags
  <2>. QED
    BY <1>0, <2>1 DEF CallTypeOK, Flags
<1>. QED
  BY <1>0, <1>1, <1>2 DEF CallInv, NoProcessLeft, AnswersAreHonest, PhaseInv, EndInv, WordInv

\* The checks and the attempts of the spawn: there is no child yet, or it is at
\* its first step.
LEMMA StartInv ==
  ASSUME CallInv, CheckRequest \/ SpawnStaged
  PROVE  CallInv'
<1>. USE DEF CallInv, request, plugin, pipes, threads, loop, Goto, Return
<1>. Attempts \in Nat \ {0}
  BY CallAssumption
<1>1. Wrote' = Wrote /\ Awaited' = Awaited
  BY WroteStays DEF CheckRequest, SpawnStaged, Awaited
<1>2. CASE CheckRequest
  <2>1. CallTypeOK'
    <3>1. Flags'
      BY <1>2 DEF CheckRequest, CallTypeOK, Flags
    <3>. QED
      BY <1>1, <1>2, <3>1 DEF CheckRequest, CallTypeOK, Flags
  <2>2. PhaseInv' /\ EndInv' /\ NoProcessLeft'
    BY <1>2 DEF CheckRequest, PhaseInv, EndInv, NoProcessLeft
  <2>3. WordInv'
    BY <1>1, <1>2 DEF CheckRequest, WordInv, Answers, PhaseInv
  <2>4. AnswersAreHonest'
    BY <1>1, <1>2 DEF CheckRequest, AnswersAreHonest, Answers, PhaseInv
  <2>. QED
    BY <2>1, <2>2, <2>3, <2>4
<1>3. CASE SpawnStaged
  <2>1. CallTypeOK'
    <3>1. Flags'
      BY <1>3 DEF SpawnStaged, CallTypeOK, Flags
    <3>. QED
      BY <1>1, <1>3, <3>1 DEF SpawnStaged, CallTypeOK, Flags
  <2>2. PhaseInv' /\ EndInv' /\ NoProcessLeft'
    BY <1>3 DEF SpawnStaged, PhaseInv, EndInv, NoProcessLeft
  <2>3. WordInv'
    BY <1>1, <1>3 DEF SpawnStaged, WordInv, Answers, PhaseInv
  <2>4. AnswersAreHonest'
    BY <1>1, <1>3 DEF SpawnStaged, AnswersAreHonest, Answers, PhaseInv
  <2>. QED
    BY <2>1, <2>2, <2>3, <2>4
<1>. QED
  BY <1>2, <1>3

\* A step of the child leaves everything true that was said of what it wrote:
\* it can only write more, and has not ended if it takes one.
LEMMA ChildInv ==
  ASSUME CallInv, Child \/ OrphanExits
  PROVE  CallInv'
<1>. USE DEF CallInv, Child, request, plugin, pipes, threads, loop, Doing, Advance
<1>1. /\ script' = script /\ script \in Scripts /\ at \in Nat \ {0} /\ Len(script.steps) \in Nat
      /\ Capacity \in Nat /\ Awaited' = Awaited
  BY ScriptTyped, CallAssumption DEF Awaited, ReadStdin, WriteStdout, WriteStderr, Fork, ChildExits, OrphanExits, CallTypeOK
<1>2. Wrote \in Nat
  BY <1>1, WroteTyped
<1>3. /\ WriteStdout => Wrote' = Wrote + 1
      /\ ~WriteStdout => Wrote' = Wrote
  <2>1. CASE WriteStdout
    BY <1>1, <2>1, WroteAdvances DEF WriteStdout
  <2>2. CASE ReadStdin \/ WriteStderr \/ Fork
    BY <1>1, <2>2, WroteAdvances DEF ReadStdin, WriteStderr, Fork, WriteStdout
  <2>3. CASE ChildExits \/ OrphanExits
    <3>1. at' = at
      BY <2>3 DEF ChildExits, OrphanExits
    <3>2. ~WriteStdout
      BY <1>1, <3>1 DEF WriteStdout
    <3>. QED
      BY <1>1, <3>1, <3>2, WroteStays
  <2>. QED
    BY <2>1, <2>2, <2>3
<1>4. /\ UNCHANGED <<request, message, loop, expired, reader, got>>
      /\ stdout' = IF WriteStdout THEN stdout + 1 ELSE stdout
  BY DEF ReadStdin, WriteStdout, WriteStderr, Fork, ChildExits, OrphanExits
<1>5. CallTypeOK'
  <2>. Flags'
    BY DEF ReadStdin, WriteStdout, WriteStderr, Fork, ChildExits, OrphanExits, CallTypeOK, Flags
  <2>. USE DEF Flags
  <2>1. CASE ReadStdin
    BY <1>1, <2>1 DEF ReadStdin, CallTypeOK
  <2>2. CASE WriteStdout
    BY <1>1, <2>2 DEF WriteStdout, CallTypeOK
  <2>3. CASE WriteStderr
    BY <1>1, <2>3 DEF WriteStderr, CallTypeOK
  <2>4. CASE Fork
    BY <1>1, <2>4 DEF Fork, CallTypeOK
  <2>5. CASE ChildExits
    BY <1>1, <2>5 DEF ChildExits, CallTypeOK
  <2>6. CASE OrphanExits
    BY <1>1, <2>6 DEF OrphanExits, CallTypeOK
  <2>. QED
    BY <2>1, <2>2, <2>3, <2>4, <2>5, <2>6
<1>6. \/ child' = child /\ at' = at
      \/ child = "running" /\ at <= Len(script.steps) /\ child' = child
      \/ child = "running" /\ at > Len(script.steps) /\ child' = "exited" /\ at' = at
  BY <1>1 DEF ReadStdin, WriteStdout, WriteStderr, Fork, ChildExits, OrphanExits
<1>7. PhaseInv' /\ NoProcessLeft'
  BY <1>4, <1>6 DEF PhaseInv, NoProcessLeft
<1>8. EndInv'
  BY <1>1, <1>4, <1>6 DEF EndInv, PhaseInv
<1>9. WordInv'
  <2>1. CASE WriteStdout
    <3>1. at <= Len(script.steps) /\ stdout \in Nat /\ got \in Nat
      BY <1>1, <2>1 DEF WriteStdout, CallTypeOK
    <3>2. Wrote' = Wrote + 1 /\ stdout' = stdout + 1
      BY <1>3, <1>4, <2>1
    <3>3. Answers(Wrote) => Answers(Wrote)'
      BY <1>1, <1>2, <3>2, ScriptTyped DEF Answers
    <3>4. message = "limit" => Wrote' > 0
      BY <1>2, <3>2
    <3>. QED
      BY <1>1, <1>2, <1>4, <3>1, <3>2, <3>3, <3>4 DEF WordInv
  <2>2. CASE ~WriteStdout
    BY <1>1, <1>2, <1>3, <1>4, <1>6, <2>2 DEF WordInv, Answers, CallTypeOK
  <2>. QED
    BY <2>1, <2>2
<1>10. AnswersAreHonest'
  <2>1. /\ Answers(Wrote) => Answers(Wrote)'
        /\ Wrote > 0 => Wrote' > 0
        /\ at > Len(script.steps) => at' = at /\ Wrote' = Wrote
    <3>1. script.frame = Over \/ script.frame \in Nat
      BY <1>1, ScriptTyped
    <3>. QED
      BY <1>1, <1>2, <1>3, <1>6, <3>1 DEF Answers, WriteStdout
  <2>2. at > Len(script.steps) => (Answers(Wrote)' => Answers(Wrote))
    BY <1>1, <2>1 DEF Answers
  <2>. QED
    BY <1>1, <1>4, <2>1, <2>2 DEF AnswersAreHonest
<1>. QED
  BY <1>5, <1>7, <1>8, <1>9, <1>10

\* The writer, the drain and the listener move pieces the loop does not ask for.
LEMMA PipesInv ==
  ASSUME CallInv, WriteRequest \/ DrainToEof \/ ReadStderr
  PROVE  CallInv'
<1>. USE DEF CallInv, request, plugin, pipes, threads, loop
<1>1. /\ UNCHANGED <<request, plugin, message, loop, expired, got>> /\ Wrote' = Wrote
      /\ Request \in Nat /\ Capacity \in Nat /\ Awaited' = Awaited
      /\ reader' # reader => reader = "draining" /\ reader' = "done"
      /\ stdout' # stdout => reader = "draining"
  BY CallAssumption, WroteStays DEF WriteRequest, DrainToEof, ReadStderr, Awaited
<1>2. CallTypeOK'
  <2>. Flags'
    BY <1>1 DEF CallTypeOK, Flags
  <2>1. CASE WriteRequest
    BY <1>1, <2>1 DEF WriteRequest, CallTypeOK, Flags
  <2>2. CASE DrainToEof
    BY <1>1, <2>2 DEF DrainToEof, CallTypeOK, Flags
  <2>3. CASE ReadStderr
    BY <1>1, <2>3 DEF ReadStderr, CallTypeOK, Flags
  <2>. QED
    BY <2>1, <2>2, <2>3
<1>3. PhaseInv' /\ EndInv' /\ NoProcessLeft'
  BY <1>1 DEF PhaseInv, EndInv, NoProcessLeft
<1>4. WordInv'
  BY <1>1 DEF WordInv, Answers
<1>5. AnswersAreHonest'
  BY <1>1 DEF AnswersAreHonest, Answers
<1>. QED
  BY <1>2, <1>3, <1>4, <1>5

\* The reader speaks when its frame is whole, too long, or cut off by the end of
\* everybody who could go on writing.
LEMMA FrameInv ==
  ASSUME CallInv, ReadFrame
  PROVE  CallInv'
<1>. USE DEF CallInv, ReadFrame, Say, FrameAfter, request, plugin, pipes, threads, loop
<1>1. /\ UNCHANGED <<request, plugin, loop, expired>> /\ Wrote' = Wrote
      /\ script \in Scripts /\ Capacity \in Nat /\ Awaited' = Awaited /\ Awaited \in Nat \ {0}
      /\ Wrote \in Nat /\ stdout \in Nat /\ got \in Nat
  BY CallAssumption, ScriptTyped, WroteStays, WroteTyped DEF CallTypeOK, Awaited
<1>2. /\ Wrote = got + stdout /\ ~refusal /\ message = "none" /\ got < Awaited
      /\ reader = "framing" /\ child # "none"
  BY DEF WordInv, PhaseInv
<1>3. /\ script.frame = Over => Awaited = 1
      /\ script.frame # Over => Awaited = script.frame
      /\ Answers(Wrote) <=> script.frame # Over /\ Wrote >= script.frame
  BY DEF Awaited, Answers
<1>4. CASE stdout > 0
  <2>1. stdout' = stdout - 1 /\ got' = got + 1 /\ got' <= Awaited /\ Wrote >= got'
    BY <1>1, <1>2, <1>4
  <2>2. /\ reader' \in {"framing", "draining"} /\ message' \in {"none", "frame", "limit"}
        /\ reader' = "framing" => message' = "none" /\ got' < Awaited
        /\ message' = "frame" => Answers(Wrote)
        /\ message' = "limit" => script.frame = Over
    BY <1>1, <1>2, <1>3, <1>4, <2>1
  <2>3. CallTypeOK'
    <3>. Flags'
      BY <1>1 DEF CallTypeOK, Flags
    <3>. QED
      BY <1>1, <1>4, <2>1, <2>2 DEF CallTypeOK, Flags
  <2>4. WordInv'
    BY <1>1, <1>2, <2>1, <2>2 DEF WordInv, Answers
  <2>. QED
    BY <1>1, <1>2, <2>2, <2>3, <2>4
       DEF PhaseInv, EndInv, NoProcessLeft, AnswersAreHonest, Answers
<1>5. CASE stdout = 0
  <2>1. ~Held /\ message' = "cut" /\ reader' = "draining" /\ UNCHANGED <<stdout, got>>
    BY <1>1, <1>5
  <2>2. ~Answers(Wrote)
    BY <1>1, <1>2, <1>3, <1>5, ScriptTyped
  <2>3. result = "none" => at > Len(script.steps)
    <3>1. child \in {"exited", "reaped"}
      BY <1>2, <2>1 DEF Held, CallTypeOK
    <3>. QED
      BY <3>1 DEF PhaseInv, EndInv, CallTypeOK
  <2>4. CallTypeOK'
    <3>. Flags'
      BY <1>1 DEF CallTypeOK, Flags
    <3>. QED
      BY <1>1, <2>1 DEF CallTypeOK, Flags
  <2>5. WordInv'
    BY <1>1, <1>2, <2>1, <2>2, <2>3 DEF WordInv, Answers
  <2>. QED
    BY <1>1, <1>2, <2>1, <2>4, <2>5
       DEF PhaseInv, EndInv, NoProcessLeft, AnswersAreHonest, Answers
<1>. QED
  BY <1>1, <1>4, <1>5

\* A step of the polling loop writes nothing and reads no pipe; it may take the
\* reader's word, end the child and answer.
LEMMA LoopFrame ==
  ASSUME CallInv, TryRecv \/ TryWait \/ CheckDeadline \/ ReportExit \/ LastWord \/ Expire
  PROVE  /\ UNCHANGED <<script, patient, at, orphan, pipes, threads, asked, attempt>>
         /\ Wrote' = Wrote /\ Awaited' = Awaited /\ (Answers(Wrote)' <=> Answers(Wrote))
         /\ message' \in {message, "none"}
         /\ Flags'
<1>. USE DEF plugin, pipes, threads, loop, request, KillAndReap, Goto, Return
<1>1. /\ UNCHANGED <<script, patient, at, orphan, pipes, threads, asked, attempt>>
      /\ message' \in {message, "none"}
  BY DEF TryRecv, TryWait, CheckDeadline, ReportExit, LastWord, Expire
<1>2. Wrote' = Wrote /\ Awaited' = Awaited
  BY <1>1, WroteStays DEF Awaited
<1>3. Flags'
  BY <1>1 DEF TryRecv, TryWait, CheckDeadline, ReportExit, LastWord, Expire, Flags, CallInv,
     CallTypeOK
<1>. QED
  BY <1>1, <1>2, <1>3 DEF Answers

LEMMA TryRecvInv ==
  ASSUME CallInv, TryRecv
  PROVE  CallInv'
<1>. USE DEF CallInv, request, plugin, pipes, threads, loop, KillAndReap, Goto, Return
<1>1. /\ host = "receiving" /\ result = "none" /\ child \in {"running", "exited"}
      /\ UNCHANGED <<fault, expired>>
  BY DEF TryRecv, PhaseInv
<1>2. \/ /\ <<message, result'>> \in {<<"frame", "ok">>, <<"limit", "limit">>}
         /\ host' = "returned" /\ child' = "reaped" /\ refusal' = refusal
      \/ /\ host' = "waiting" /\ result' = "none" /\ child' = child
         /\ (refusal' = refusal \/ message = "cut")
  BY <1>1 DEF TryRecv, Verdict
<1>3. CallTypeOK'
  BY <1>1, <1>2, LoopFrame DEF CallTypeOK, Flags
<1>4. PhaseInv' /\ EndInv' /\ NoProcessLeft'
  BY <1>1, <1>2, LoopFrame DEF PhaseInv, EndInv, NoProcessLeft
<1>5. WordInv'
  BY <1>1, <1>2, LoopFrame DEF WordInv
<1>6. AnswersAreHonest'
  BY <1>1, <1>2, LoopFrame DEF AnswersAreHonest, WordInv
<1>. QED
  BY <1>3, <1>4, <1>5, <1>6

LEMMA TryWaitInv ==
  ASSUME CallInv, TryWait
  PROVE  CallInv'
<1>. USE LoopFrame
     DEF CallInv, TryWait, request, plugin, pipes, threads, loop, KillAndReap, Goto, Return
<1>1. CallTypeOK'
  BY DEF CallTypeOK, Flags
<1>2. PhaseInv' /\ NoProcessLeft'
  BY DEF PhaseInv, NoProcessLeft
<1>3. EndInv'
  BY DEF EndInv, PhaseInv
<1>4. WordInv'
  BY DEF WordInv, PhaseInv
<1>5. AnswersAreHonest'
  BY DEF AnswersAreHonest, PhaseInv
<1>. QED
  BY <1>1, <1>2, <1>3, <1>4, <1>5

LEMMA CheckDeadlineInv ==
  ASSUME CallInv, CheckDeadline
  PROVE  CallInv'
<1>. USE LoopFrame
     DEF CallInv, CheckDeadline, request, plugin, pipes, threads, loop, KillAndReap, Goto, Return
<1>1. CallTypeOK'
  BY DEF CallTypeOK, Flags
<1>2. PhaseInv' /\ EndInv' /\ NoProcessLeft'
  BY DEF PhaseInv, EndInv, NoProcessLeft
<1>3. WordInv'
  BY DEF WordInv, PhaseInv
<1>4. AnswersAreHonest'
  BY DEF AnswersAreHonest, PhaseInv
<1>. QED
  BY <1>1, <1>2, <1>3, <1>4

LEMMA ReportExitInv ==
  ASSUME CallInv, ReportExit
  PROVE  CallInv'
<1>. USE LoopFrame
     DEF CallInv, ReportExit, request, plugin, pipes, threads, loop, Goto, Return
<1>1. CallTypeOK'
  BY DEF CallTypeOK, Flags
<1>2. PhaseInv' /\ EndInv' /\ NoProcessLeft'
  BY DEF PhaseInv, EndInv, NoProcessLeft
<1>3. WordInv'
  BY DEF WordInv, PhaseInv
<1>4. AnswersAreHonest'
  BY DEF AnswersAreHonest, PhaseInv, EndInv
<1>. QED
  BY <1>1, <1>2, <1>3, <1>4

LEMMA LastWordInv ==
  ASSUME CallInv, LastWord
  PROVE  CallInv'
<1>. USE DEF CallInv, request, plugin, pipes, threads, loop, Goto, Return
<1>1. /\ host = "last" /\ host' = "returned" /\ result' \in {"ok", "limit", "cut", "timeout"}
      /\ UNCHANGED <<child, fault, refusal, expired>>
      /\ result' = "timeout" => expired
      /\ result' = "ok" => message = "frame"
      /\ result' = "limit" => message = "limit"
      /\ result' = "cut" => refusal \/ message = "cut"
      /\ result = "none"
  <2>1. message \in {"none", "frame", "limit", "cut"} /\ host # "returned"
    BY DEF CallTypeOK, LastWord
  <2>. QED
    BY <2>1 DEF LastWord, Verdict, PhaseInv
<1>2. CallTypeOK'
  BY <1>1, LoopFrame DEF CallTypeOK, Flags
<1>3. PhaseInv' /\ EndInv' /\ NoProcessLeft'
  BY <1>1, LoopFrame DEF PhaseInv, EndInv, NoProcessLeft
<1>4. WordInv'
  BY <1>1, LoopFrame DEF WordInv
<1>5. AnswersAreHonest'
  BY <1>1, LoopFrame DEF AnswersAreHonest, EndInv, WordInv
<1>. QED
  BY <1>2, <1>3, <1>4, <1>5

LEMMA ExpireInv ==
  ASSUME CallInv, Expire
  PROVE  CallInv'
<1>. USE LoopFrame DEF CallInv, Expire, request, plugin, pipes, threads, loop
<1>1. CallTypeOK'
  BY DEF CallTypeOK, Flags
<1>2. PhaseInv' /\ EndInv' /\ NoProcessLeft' /\ WordInv'
  BY DEF PhaseInv, EndInv, NoProcessLeft, WordInv
<1>3. AnswersAreHonest'
  BY DEF AnswersAreHonest, PhaseInv
<1>. QED
  BY <1>1, <1>2, <1>3

\* CallInv is kept by every step of a call.
LEMMA CallInvHolds == Spec => []CallInv
<1>1. CallInv /\ [Next]_callVars => CallInv'
  <2>. SUFFICES ASSUME CallInv, [Next]_callVars PROVE CallInv'
    OBVIOUS
  <2>1. CASE Child \/ OrphanExits
    BY <2>1, ChildInv
  <2>2. CASE WriteRequest \/ DrainToEof \/ ReadStderr
    BY <2>2, PipesInv
  <2>3. CASE ReadFrame
    BY <2>3, FrameInv
  <2>4. CASE CheckRequest \/ SpawnStaged
    BY <2>4, StartInv
  <2>5. CASE TryRecv \/ TryWait \/ CheckDeadline
    BY <2>5, TryRecvInv, TryWaitInv, CheckDeadlineInv
  <2>6. CASE ReportExit \/ LastWord \/ Expire
    BY <2>6, ReportExitInv, LastWordInv, ExpireInv
  <2>7. CASE UNCHANGED callVars
    <3>1. Wrote' = Wrote /\ Awaited' = Awaited
      BY <2>7, WroteStays DEF callVars, plugin, Awaited
    <3>. QED
      BY <2>7, <3>1 DEF callVars, request, plugin, pipes, threads, loop, CallInv, CallTypeOK,
         NoProcessLeft, AnswersAreHonest, PhaseInv, EndInv, WordInv, Answers
  <2>. QED
    BY <2>1, <2>2, <2>3, <2>4, <2>5, <2>6, <2>7 DEF Next, Host
<1>. QED
  BY <1>1, InitCallInv, PTL DEF Spec

\* A call stays in its types, for every child.
THEOREM CallTypeCorrect == Spec => []CallTypeOK
BY CallInvHolds, PTL DEF CallInv

\* "No call leaves a process behind": every way out of process.rs:312-496 kills
\* and reaps the child it started, the `?` of try_wait excepted.
THEOREM NoProcessIsLeft == Spec => []NoProcessLeft
BY CallInvHolds, PTL DEF CallInv

\* Whatever a call answers is true of what its child did.
THEOREM AnswersStayHonest == Spec => []AnswersAreHonest
BY CallInvHolds, PTL DEF CallInv
==============================================================================

---------------------------- MODULE SourceProofs ----------------------------
(* The source files of a project, those who write them and those who read    *)
(* them. What the two readers claim of the files holds for any contents, any *)
(* number of saves and answers, and both sessions open at a time; what the   *)
(* authoring executor writes loses no line that somebody wrote by hand, for  *)
(* any tree, any requests, faults and crashes.                               *)
EXTENDS Authoring, Readers, FiniteSetTheorems, SequenceTheorems, NaturalsInduction, TLAPS

-----------------------------------------------------------------------------
(* The readers. Neither watches the files: each compares a stamp it kept.    *)
(* The proofs are about how old a kept stamp may be: never newer than what   *)
(* was read under it.                                                        *)

\* Until a save keeps the stamp, the stamp names the content.
StampsName ==
  /\ source \in Nat /\ mtime \in Nat /\ unseen \in BOOLEAN
  /\ ~unseen => mtime = source

LEMMA StampsInit ==
  ASSUME FreshnessInit
  PROVE  StampsName
BY DEF FreshnessInit, SourcesInit, StampsName

\* The files move on, or they do not.
Onward == \/ UNCHANGED <<sourceVars, unseen>>
          \/ Save /\ UNCHANGED unseen
          \/ SaveUnseen /\ unseen' = TRUE

LEMMA EveryStepIsOnward ==
  ASSUME [ReadersNext]_readersVars
  PROVE  Onward
<1>1. CASE UNCHANGED readersVars
  BY <1>1 DEF readersVars, bridgeVars, Onward
<1>2. CASE OutsideSave
  BY <1>2 DEF OutsideSave, Onward
<1>3. CASE BridgeNext
  BY <1>3 DEF BridgeNext, BeginAnswer, Answering, LookupNothing, LookupMoved, LookupHit, Verify, PayStamp,
     PayHash, RecordEntry, OutsideSave, Write, Refreshing, RefreshReads, RefreshEnds, Quiet, Onward
<1>4. CASE StudioNext /\ UNCHANGED bridgePrivate
  BY <1>4 DEF StudioNext, Own, OpenLoads, OpenStamps, PollSees, PollLoads, Reload, EditWrites, EditStamps,
     AddWrites, AddStamps, PluginWrites, PluginStamps, Load, Stamped, bridgePrivate, Onward
<1>. QED
  BY <1>1, <1>2, <1>3, <1>4 DEF ReadersNext

LEMMA StampsStep ==
  ASSUME StampsName, Onward
  PROVE  StampsName' /\ source <= source' /\ mtime <= mtime'
<1>1. /\ source' \in Nat /\ mtime' \in Nat /\ source <= source' /\ mtime <= mtime'
      /\ source' = source => mtime' = mtime
      /\ \/ source' - source = mtime' - mtime
         \/ unseen' = TRUE
  BY DEF StampsName, Onward, Save, SaveUnseen, sourceVars
<1>2. unseen' \in BOOLEAN /\ (unseen' = FALSE => unseen = FALSE)
  BY DEF StampsName, Onward
<1>3. unseen' = FALSE => mtime' = source'
  <2>. SUFFICES ASSUME unseen' = FALSE PROVE mtime' = source'
    OBVIOUS
  <2>1. mtime = source
    BY <1>2 DEF StampsName
  <2>. QED
    BY <1>1, <2>1 DEF StampsName
<1>. QED
  BY <1>1, <1>2, <1>3 DEF StampsName

-----------------------------------------------------------------------------
(* The bridge. A verdict was paid for under a stamp that was taken before the *)
(* sources were hashed; if the files still have that stamp, nothing was saved *)
(* since, and what became of the output is marked on the verdict.             *)

Marker(entry) == IF entry.current THEN "revoked" ELSE "published"
\* The verdict was right at a moment of this answer, or is known to be overtaken.
Held(entry) == entry.current \in moments \/ Marker(entry) \in entry.since
\* As long as the files have the stamp it is kept under, it says how they are.
TrueStill(entry, stamp) ==
  ~unseen /\ source = stamp => entry.current = Current \/ Marker(entry) \in entry.since

Recording == paying # None /\ paying.stage = "record"
Payments == [stage : {"walk", "hash"}, stamp : Nat \cup {None}]
            \cup [stage : {"record"}, stamp : Nat, entry : Verdicts]
BridgeType ==
  /\ token \in Nat \cup {None} /\ taken \in Nat \cup {None}
  /\ asked.number \in Nat
  /\ verified \in Verdicts \cup {None} /\ walked \in Nat \cup {None}
  /\ paying \in Payments \cup {None}
  /\ hashed \in BOOLEAN
\* What a refresh publishes was read after what is published.
ReadLater ==
  /\ token # None => token <= source
  /\ taken # None => taken <= source
  /\ taken # None /\ token # None => token <= taken
  /\ refresh = "working" <=> taken # None
EntryKept ==
  verified # None =>
    /\ verified.stamp <= mtime /\ TrueStill(verified, verified.stamp)
    /\ ~unseen /\ walked = verified.stamp => Held(verified)
    /\ verified.answer <= asked.number
    /\ verified.answer = asked.number => hashed
PaymentKept ==
  /\ paying # None /\ paying.stage = "hash" => paying.stamp \in Nat /\ paying.stamp <= mtime
  /\ Recording =>
       /\ paying.stamp <= mtime
       /\ TrueStill(paying.entry, paying.stamp) /\ paying.entry.current \in moments
       /\ hashed /\ paying.entry.answer = asked.number
WalkedBefore == walked # None => walked <= mtime
VerdictInv ==
  /\ StampsName /\ BridgeType /\ ReadLater /\ WalkedBefore
  /\ asked.number > 0 => Current \in moments
  /\ verified # None \/ paying # None \/ said # None \/ walked # None => asked.number > 0
  /\ EntryKept /\ PaymentKept /\ VerdictHeldInAnswer

LEMMA VerdictInit ==
  ASSUME ReadersInit
  PROVE  VerdictInv
<1>. USE FreshnessAssumption
<1>1. StampsName /\ BridgeType /\ ReadLater
  <2>1. /\ source = 0 /\ token \in {None, 0} /\ refresh = "idle" /\ taken = None
        /\ asked.number = 0 /\ verified = None /\ walked = None /\ paying = None /\ hashed = FALSE
    BY DEF ReadersInit, FreshnessInit, SourcesInit
  <2>2. BridgeType
    <3>1. hashed \in BOOLEAN
      BY <2>1, Zenon
    <3>2. token \in Nat \cup {None} /\ asked.number \in Nat
      BY <2>1
    <3>. QED
      BY <2>1, <3>1, <3>2, Zenon DEF BridgeType
  <2>3. ReadLater
    BY <2>1 DEF ReadLater
  <2>. QED
    BY <2>2, <2>3, StampsInit DEF ReadersInit
<1>. QED
  BY <1>1 DEF ReadersInit, FreshnessInit, VerdictInv, EntryKept, WalkedBefore, PaymentKept, Recording,
     VerdictHeldInAnswer, SaidHeld, VerifiedWasHashed

\* The files move and nothing else of the bridge does: another editor, Studio,
\* or the bridge's own write. A verdict on files that are gone claims nothing.
LEMMA FilesMove ==
  ASSUME VerdictInv, Onward, UNCHANGED <<token, taken, asked, memo>>, Watch,
         refresh' = "working" <=> refresh = "working"
  PROVE  VerdictInv'
<1>. USE FreshnessAssumption
<1>1. StampsName /\ StampsName' /\ source <= source' /\ mtime <= mtime'
  BY StampsStep DEF VerdictInv
<1>2. moments \subseteq moments' /\ Current' \in moments'
  BY DEF Watch, Current
<1>3. source' = source \/ source' > source
  BY <1>1 DEF StampsName
<1>4. unseen => unseen'
  BY DEF Onward, StampsName
<1>5. BridgeType' /\ ReadLater'
  <2>1. BridgeType'
    BY DEF VerdictInv, BridgeType, memo
  <2>2. ReadLater'
    BY <1>1 DEF VerdictInv, ReadLater, BridgeType, StampsName
  <2>. QED
    BY <2>1, <2>2
<1>6. ASSUME NEW entry \in Verdicts, NEW stamp \in Nat, stamp <= mtime, TrueStill(entry, stamp)
      PROVE  TrueStill(entry, stamp)'
  <2>1. CASE source' = source
    BY <1>4, <1>6, <2>1 DEF TrueStill, Current, Marker
  <2>2. CASE source' > source
    <3>. SUFFICES ASSUME ~unseen', source' = stamp
                  PROVE  FALSE
      BY DEF TrueStill
    <3>1. mtime = source
      BY <1>1, <1>4 DEF StampsName
    <3>. QED
      BY <1>1, <1>6, <2>2, <3>1 DEF StampsName
  <2>. QED
    BY <1>3, <2>1, <2>2
<1>7. \A entry : Held(entry) => Held(entry)'
  BY <1>2 DEF Held, Marker
<1>8. EntryKept'
  <2>. SUFFICES ASSUME verified # None
                PROVE  /\ verified.stamp <= mtime' /\ TrueStill(verified, verified.stamp)'
                       /\ ~unseen' /\ walked = verified.stamp => Held(verified)'
                       /\ verified.answer <= asked.number
                       /\ verified.answer = asked.number => hashed
    BY DEF EntryKept, memo
  <2>. DEFINE entry == verified
  <2>1. entry \in Verdicts /\ entry.stamp \in Nat /\ verified' = entry
    BY DEF VerdictInv, BridgeType, Verdicts, memo
  <2>2. entry.stamp <= mtime /\ TrueStill(entry, entry.stamp)
    BY DEF VerdictInv, EntryKept
  <2>3. TrueStill(verified, verified.stamp)'
    BY <1>6, <2>1, <2>2
  <2>4. verified.stamp <= mtime'
    BY <1>1, <2>1, <2>2 DEF StampsName
  <2>5. ~unseen' /\ walked = verified.stamp => Held(verified)'
    BY <1>4, <1>7, <2>1 DEF VerdictInv, EntryKept
  <2>. QED
    BY <2>3, <2>4, <2>5 DEF VerdictInv, EntryKept
<1>9. PaymentKept'
  <2>1. paying' = paying /\ hashed' = hashed /\ asked' = asked
    BY DEF memo
  <2>2. paying # None /\ paying.stage = "hash" => paying.stamp <= mtime'
    BY <1>1 DEF VerdictInv, PaymentKept, StampsName
  <2>3. ASSUME Recording
        PROVE  /\ paying.stamp <= mtime' /\ TrueStill(paying.entry, paying.stamp)'
               /\ paying.entry.current \in moments'
    <3>1. paying.entry \in Verdicts /\ paying.stamp \in Nat
      BY <2>3 DEF VerdictInv, BridgeType, Payments, Recording
    <3>2. paying.stamp <= mtime /\ TrueStill(paying.entry, paying.stamp) /\ paying.entry.current \in moments
      BY <2>3 DEF VerdictInv, PaymentKept
    <3>3. TrueStill(paying.entry, paying.stamp)'
      BY <1>6, <2>1, <3>1, <3>2
    <3>. QED
      BY <1>1, <1>2, <3>1, <3>2, <3>3 DEF StampsName
  <2>. QED
    BY <2>1, <2>2, <2>3 DEF VerdictInv, PaymentKept, Recording
<1>10. VerdictHeldInAnswer'
  BY <1>2, <1>4 DEF VerdictInv, VerdictHeldInAnswer, SaidHeld, VerifiedWasHashed, memo
<1>11. asked'.number > 0 => Current' \in moments'
  BY <1>2
<1>12. WalkedBefore'
  BY <1>1 DEF VerdictInv, WalkedBefore, BridgeType, StampsName, memo
<1>. QED
  BY <1>1, <1>5, <1>8, <1>9, <1>10, <1>11, <1>12 DEF VerdictInv, memo

\* What a step of the bridge that is not its write leaves alone.
LEMMA QuietStep ==
  ASSUME VerdictInv, UNCHANGED sourceVars, unseen' = unseen, Watch, UNCHANGED <<token, taken, refresh>>
  PROVE  /\ StampsName' /\ ReadLater' /\ Current' = Current
         /\ moments' = moments \cup {Current}
         /\ \A entry, stamp : TrueStill(entry, stamp)' <=> TrueStill(entry, stamp)
         /\ \A entry : Held(entry) => Held(entry)'
<1>1. StampsName' /\ ReadLater'
  BY DEF VerdictInv, StampsName, ReadLater, sourceVars
<1>2. Current' = Current
  BY DEF Current, sourceVars
<1>3. moments' = moments \cup {Current}
  BY <1>2 DEF Watch, Current
<1>. QED
  BY <1>1, <1>2, <1>3 DEF TrueStill, Held, Marker, sourceVars

\* A new answer has walked nothing, said nothing and hashed nothing.
LEMMA BeginVerdict ==
  ASSUME VerdictInv, BeginAnswer
  PROVE  VerdictInv'
<1>1. /\ UNCHANGED <<sourceVars, token, refresh, taken, unseen, verified, paying>>
      /\ asked'.number = asked.number + 1 /\ paying = None
      /\ walked' = None /\ said' = None /\ hashed' = FALSE /\ moments' = {Current}
  BY DEF BeginAnswer
<1>2. asked.number \in Nat /\ asked'.number \in Nat /\ asked'.number > 0 /\ asked'.number # asked.number
  BY <1>1 DEF VerdictInv, BridgeType
<1>3. StampsName' /\ ReadLater' /\ Current' = Current
  BY <1>1 DEF VerdictInv, StampsName, ReadLater, Current, sourceVars
<1>4. BridgeType'
  <2>1. hashed' \in BOOLEAN
    BY <1>1, Zenon
  <2>. QED
    BY <1>1, <1>2, <2>1 DEF VerdictInv, BridgeType
<1>5. EntryKept'
  <2>. SUFFICES ASSUME verified # None
                PROVE  /\ verified.stamp <= mtime /\ TrueStill(verified, verified.stamp)'
                       /\ walked' # verified.stamp
                       /\ verified.answer <= asked'.number /\ verified.answer # asked'.number
    BY <1>1 DEF EntryKept, sourceVars
  <2>1. verified \in Verdicts
    BY DEF VerdictInv, BridgeType
  <2>2. walked' # verified.stamp
    BY <1>1, <2>1, FreshnessAssumption DEF Verdicts
  <2>3. verified.stamp <= mtime /\ TrueStill(verified, verified.stamp)
    BY DEF VerdictInv, EntryKept
  <2>4. TrueStill(verified, verified.stamp)'
    BY <1>1, <1>3, <2>3 DEF TrueStill, Marker, sourceVars
  <2>5. verified.answer <= asked'.number /\ verified.answer # asked'.number
    BY <1>1, <1>2, <2>1 DEF VerdictInv, EntryKept, Verdicts
  <2>. QED
    BY <2>2, <2>3, <2>4, <2>5
<1>6. PaymentKept' /\ VerdictHeldInAnswer'
  BY <1>1 DEF PaymentKept, Recording, VerdictHeldInAnswer, SaidHeld, VerifiedWasHashed
<1>7. WalkedBefore'
  BY <1>1 DEF WalkedBefore
<1>. QED
  BY <1>1, <1>2, <1>3, <1>4, <1>5, <1>6, <1>7 DEF VerdictInv

\* A lookup that finds no entry it can use forgets it, and pays or does not know.
LEMMA MissVerdict ==
  ASSUME VerdictInv, LookupNothing \/ LookupMoved
  PROVE  VerdictInv'
<1>. USE FreshnessAssumption
<1>1. /\ UNCHANGED <<sourceVars, token, refresh, taken, unseen, asked, hashed>> /\ Watch
      /\ paying = None /\ asked.number > 0 /\ verified' = None
      /\ walked' \in {walked, Stamp}
  BY DEF LookupNothing, LookupMoved, Ready, Quiet
<1>2. PICK stamp \in {None, Stamp} : Miss(stamp)
  BY DEF LookupNothing, LookupMoved
<1>3. /\ StampsName' /\ ReadLater' /\ Current' = Current /\ moments' = moments \cup {Current}
  BY <1>1, QuietStep
<1>4. Stamp \in Nat /\ Stamp <= mtime
  BY DEF Stamp, VerdictInv, BridgeType, StampsName, WalkedBefore
<1>5. WalkedBefore' /\ walked' \in Nat \cup {None}
  BY <1>1, <1>4 DEF VerdictInv, WalkedBefore, BridgeType, sourceVars
<1>6. \/ paying' = paying /\ said'.how = "unknown"
      \/ said' = said /\ paying' = [stage |-> "walk", stamp |-> None]
      \/ said' = said /\ paying' = [stage |-> "hash", stamp |-> Stamp]
  <2>1. asked.policy = "reuse-only" => paying' = paying /\ said'.how = "unknown"
    BY <1>2 DEF Miss
  <2>2. asked.policy # "reuse-only" /\ stamp = None =>
          said' = said /\ paying' = [stage |-> "walk", stamp |-> None]
    BY <1>2 DEF Miss
  <2>3. asked.policy # "reuse-only" /\ stamp # None =>
          said' = said /\ paying' = [stage |-> "hash", stamp |-> Stamp]
    BY <1>2 DEF Miss
  <2>. QED
    BY <2>1, <2>2, <2>3
<1>7. BridgeType' /\ PaymentKept'
  <2>1. paying' \in Payments \cup {None}
    BY <1>1, <1>4, <1>6 DEF Payments
  <2>2. PaymentKept'
    BY <1>1, <1>4, <1>6 DEF PaymentKept, Recording, sourceVars
  <2>. QED
    BY <1>1, <1>5, <2>1, <2>2 DEF VerdictInv, BridgeType
<1>8. EntryKept'
  BY <1>1 DEF EntryKept
<1>9. VerdictHeldInAnswer'
  BY <1>1, <1>3, <1>6 DEF VerdictInv, VerdictHeldInAnswer, SaidHeld, VerifiedWasHashed
<1>. QED
  BY <1>1, <1>3, <1>5, <1>7, <1>8, <1>9 DEF VerdictInv

\* An entry whose stamp the files had at some moment of this answer is held: by
\* what it says if they still have it, or since it was walked in this answer.
LEMMA HitVerdict ==
  ASSUME VerdictInv, LookupHit
  PROVE  VerdictInv'
<1>. USE FreshnessAssumption
<1>1. /\ UNCHANGED <<sourceVars, token, refresh, taken, unseen, asked, verified, paying, hashed>> /\ Watch
      /\ paying = None /\ asked.number > 0 /\ verified # None /\ verified.stamp = Stamp
      /\ walked' = Stamp /\ Reused(verified)
  BY DEF LookupHit, Ready, Quiet
<1>. DEFINE entry == verified
<1>2. entry \in Verdicts /\ verified' = entry
  BY <1>1 DEF VerdictInv, BridgeType
<1>3. /\ StampsName' /\ ReadLater' /\ Current' = Current /\ moments' = moments \cup {Current}
      /\ TrueStill(entry, entry.stamp)' /\ (Held(entry) => Held(entry)')
  <2>1. TrueStill(entry, entry.stamp)
    BY <1>1 DEF VerdictInv, EntryKept
  <2>. QED
    BY <1>1, <1>2, <2>1, QuietStep
<1>4. Stamp \in Nat /\ Stamp <= mtime
  BY DEF Stamp, VerdictInv, BridgeType, StampsName, WalkedBefore
<1>5. ~unseen => Held(entry)'
  <2>1. CASE walked = None
    <3>. SUFFICES ASSUME ~unseen PROVE Held(entry)'
      OBVIOUS
    <3>1. source = entry.stamp
      BY <1>1, <2>1 DEF Stamp, VerdictInv, StampsName
    <3>2. entry.current = Current \/ Marker(entry) \in entry.since
      BY <1>1, <3>1 DEF VerdictInv, EntryKept, TrueStill
    <3>. QED
      BY <1>1, <1>3, <3>2 DEF Held, Marker
  <2>2. CASE walked # None
    BY <1>1, <1>3, <2>2 DEF Stamp, VerdictInv, EntryKept
  <2>. QED
    BY <2>1, <2>2
<1>6. EntryKept'
  <2>. SUFFICES /\ verified.stamp <= mtime /\ TrueStill(verified, verified.stamp)'
                /\ ~unseen' => Held(verified)'
                /\ verified.answer <= asked.number
                /\ verified.answer = asked.number => hashed
    BY <1>1 DEF EntryKept, sourceVars
  <2>. QED
    BY <1>1, <1>3, <1>5 DEF VerdictInv, EntryKept
<1>7. SaidHeld'
  <2>1. said'.current = entry.current /\ said'.since = entry.since
    BY <1>1 DEF Reused, Say
  <2>. SUFFICES ASSUME ~unseen'
                PROVE  \/ said'.current \in moments'
                       \/ (IF said'.current THEN "revoked" ELSE "published") \in said'.since
    BY DEF SaidHeld
  <2>2. Held(entry)'
    BY <1>1, <1>5
  <2>3. entry.current \in moments' \/ Marker(entry) \in entry.since
    BY <1>2, <2>2 DEF Held, Marker
  <2>. QED
    BY <2>1, <2>3 DEF Marker
<1>8. VerifiedWasHashed'
  <2>. SUFFICES ASSUME said'.how = "verified" PROVE hashed
    BY <1>1 DEF VerifiedWasHashed
  <2>1. entry.answer = asked.number
    BY <1>1 DEF Reused, Say
  <2>. QED
    BY <1>1, <2>1 DEF VerdictInv, EntryKept
<1>9. BridgeType' /\ WalkedBefore' /\ PaymentKept'
  BY <1>1, <1>4 DEF VerdictInv, BridgeType, WalkedBefore, PaymentKept, Recording, sourceVars
<1>. QED
  BY <1>1, <1>3, <1>6, <1>7, <1>8, <1>9 DEF VerdictInv, VerdictHeldInAnswer

\* What is paid for begins with a stamp of the tree.
LEMMA PayStarts ==
  ASSUME VerdictInv, Verify \/ PayStamp
  PROVE  VerdictInv'
<1>. USE FreshnessAssumption
<1>1. /\ UNCHANGED <<sourceVars, token, refresh, taken, unseen, asked, verified, walked, said, hashed>> /\ Watch
      /\ asked.number > 0
      /\ \/ paying' = [stage |-> "walk", stamp |-> None]
         \/ paying' = [stage |-> "hash", stamp |-> mtime]
  BY DEF Verify, PayStamp, Ready, Quiet, VerdictInv
<1>2. /\ StampsName' /\ ReadLater' /\ Current' = Current /\ moments' = moments \cup {Current}
      /\ \A entry, stamp : TrueStill(entry, stamp)' <=> TrueStill(entry, stamp)
      /\ \A entry : Held(entry) => Held(entry)'
  BY <1>1, QuietStep
<1>3. mtime \in Nat /\ mtime <= mtime
  BY DEF VerdictInv, StampsName
<1>4. BridgeType' /\ PaymentKept' /\ WalkedBefore'
  <2>1. paying' \in Payments
    BY <1>1, <1>3 DEF Payments
  <2>2. PaymentKept'
    BY <1>1, <1>3 DEF PaymentKept, Recording, sourceVars
  <2>. QED
    BY <1>1, <2>1, <2>2 DEF VerdictInv, BridgeType, WalkedBefore, sourceVars
<1>5. EntryKept'
  <2>. SUFFICES ASSUME verified # None
                PROVE  /\ verified.stamp <= mtime /\ TrueStill(verified, verified.stamp)'
                       /\ ~unseen /\ walked = verified.stamp => Held(verified)'
                       /\ verified.answer <= asked.number
                       /\ verified.answer = asked.number => hashed
    BY <1>1 DEF EntryKept, sourceVars
  <2>. DEFINE entry == verified
  <2>1. TrueStill(entry, entry.stamp)' /\ (Held(entry) => Held(entry)') /\ verified' = entry
    <3>1. TrueStill(entry, entry.stamp)
      BY DEF VerdictInv, EntryKept
    <3>. QED
      BY <1>1, <1>2, <3>1
  <2>. QED
    BY <2>1 DEF VerdictInv, EntryKept
<1>6. VerdictHeldInAnswer'
  BY <1>1, <1>2 DEF VerdictInv, VerdictHeldInAnswer, SaidHeld, VerifiedWasHashed
<1>. QED
  BY <1>1, <1>2, <1>4, <1>5, <1>6 DEF VerdictInv

\* The hash says how the output is at this moment, whatever the stamp was.
LEMMA HashVerdict ==
  ASSUME VerdictInv, PayHash
  PROVE  VerdictInv'
<1>. USE FreshnessAssumption
<1>. DEFINE entry == [current |-> Current, stamp |-> paying.stamp, answer |-> asked.number, since |-> {}]
<1>1. /\ UNCHANGED <<sourceVars, token, refresh, taken, unseen, asked, verified, walked, said>> /\ Watch
      /\ paying # None /\ paying.stage = "hash" /\ hashed' = TRUE
      /\ paying' = [stage |-> "record", stamp |-> paying.stamp, entry |-> entry]
  BY DEF PayHash, Paid, Quiet
<1>2. /\ StampsName' /\ ReadLater' /\ Current' = Current /\ moments' = moments \cup {Current}
      /\ \A e, stamp : TrueStill(e, stamp)' <=> TrueStill(e, stamp)
      /\ \A e : Held(e) => Held(e)'
  BY <1>1, QuietStep
<1>3. paying.stamp \in Nat /\ paying.stamp <= mtime /\ asked.number \in Nat
  BY <1>1 DEF VerdictInv, PaymentKept, BridgeType
<1>4. Current \in BOOLEAN
  BY DEF Current
<1>5. entry \in Verdicts
  BY <1>3, <1>4 DEF Verdicts
<1>6. entry.current = Current /\ entry.answer = asked.number
  OBVIOUS
<1>. HIDE DEF entry
<1>7. paying' \in Payments /\ paying'.stage = "record" /\ paying'.stamp = paying.stamp /\ paying'.entry = entry
  BY <1>1, <1>3, <1>5 DEF Payments
<1>8. BridgeType'
  <2>1. hashed' \in BOOLEAN
    BY <1>1, Zenon
  <2>. QED
    BY <1>1, <1>7, <2>1 DEF VerdictInv, BridgeType
<1>9. PaymentKept'
  <2>1. TrueStill(paying.entry, paying.stamp)'
    BY <1>2, <1>6, <1>7 DEF TrueStill
  <2>. QED
    BY <1>1, <1>2, <1>3, <1>6, <1>7, <2>1 DEF PaymentKept, Recording, sourceVars
<1>10. EntryKept'
  <2>. SUFFICES ASSUME verified # None
                PROVE  /\ verified.stamp <= mtime /\ TrueStill(verified, verified.stamp)'
                       /\ ~unseen /\ walked = verified.stamp => Held(verified)'
                       /\ verified.answer <= asked.number
    BY <1>1 DEF EntryKept, sourceVars
  <2>. DEFINE kept == verified
  <2>1. TrueStill(kept, kept.stamp)' /\ (Held(kept) => Held(kept)') /\ verified' = kept
    <3>1. TrueStill(kept, kept.stamp)
      BY DEF VerdictInv, EntryKept
    <3>. QED
      BY <1>1, <1>2, <3>1
  <2>. QED
    BY <2>1 DEF VerdictInv, EntryKept
<1>11. VerdictHeldInAnswer' /\ WalkedBefore'
  BY <1>1, <1>2 DEF VerdictInv, VerdictHeldInAnswer, SaidHeld, VerifiedWasHashed, WalkedBefore, sourceVars
<1>. QED
  BY <1>1, <1>2, <1>8, <1>9, <1>10, <1>11 DEF VerdictInv

\* What was paid for is recorded under the stamp of before the hash, and said.
LEMMA RecordVerdict ==
  ASSUME VerdictInv, RecordEntry
  PROVE  VerdictInv'
<1>. USE FreshnessAssumption
<1>. DEFINE entry == [paying.entry EXCEPT !.stamp = paying.stamp]
<1>1. /\ UNCHANGED <<sourceVars, token, refresh, taken, unseen, asked, hashed>> /\ Watch
      /\ Recording /\ paying' = None /\ verified' = entry /\ walked' = paying.stamp
      /\ Say(paying.entry, "verified")
  BY DEF RecordEntry, Recorded, Recording, Quiet
<1>2. paying.entry \in Verdicts /\ paying.stamp \in Nat
  BY <1>1 DEF VerdictInv, BridgeType, Payments, Recording
<1>3. /\ entry \in Verdicts /\ entry.stamp = paying.stamp /\ entry.current = paying.entry.current
      /\ entry.since = paying.entry.since /\ entry.answer = paying.entry.answer
  BY <1>2 DEF Verdicts
<1>. HIDE DEF entry
<1>4. /\ StampsName' /\ ReadLater' /\ Current' = Current /\ moments' = moments \cup {Current}
      /\ \A e, stamp : TrueStill(e, stamp)' <=> TrueStill(e, stamp)
  BY <1>1, QuietStep
<1>5. /\ paying.stamp <= mtime /\ TrueStill(paying.entry, paying.stamp)
      /\ paying.entry.current \in moments /\ hashed /\ paying.entry.answer = asked.number
  BY <1>1 DEF VerdictInv, PaymentKept
<1>6. asked.number > 0
  BY <1>1 DEF VerdictInv, Recording
<1>7. BridgeType' /\ WalkedBefore' /\ PaymentKept'
  BY <1>1, <1>2, <1>3, <1>5 DEF VerdictInv, BridgeType, WalkedBefore, PaymentKept, Recording, sourceVars
<1>8. EntryKept'
  <2>1. TrueStill(entry, entry.stamp)
    BY <1>3, <1>5 DEF TrueStill, Marker
  <2>2. verified' = entry /\ unseen' = unseen /\ source' = source
    BY <1>1 DEF sourceVars
  <2>3. TrueStill(verified, verified.stamp)'
    BY <1>4, <2>1, <2>2 DEF TrueStill, Marker
  <2>4. Held(verified)'
    BY <1>1, <1>3, <1>4, <1>5 DEF Held
  <2>5. asked.number <= asked.number
    BY DEF VerdictInv, BridgeType
  <2>. QED
    BY <1>1, <1>3, <1>5, <2>3, <2>4, <2>5 DEF EntryKept, sourceVars
<1>9. VerdictHeldInAnswer'
  <2>1. said'.current = paying.entry.current /\ said'.how = "verified"
    BY <1>1 DEF Say
  <2>. QED
    BY <1>1, <1>4, <1>5, <2>1 DEF VerdictHeldInAnswer, SaidHeld, VerifiedWasHashed
<1>. QED
  BY <1>1, <1>4, <1>6, <1>7, <1>8, <1>9 DEF VerdictInv

\* A refresh reads the files after what is published was read.
LEMMA ReadsVerdict ==
  ASSUME VerdictInv, RefreshReads
  PROVE  VerdictInv'
<1>. USE FreshnessAssumption
<1>1. /\ UNCHANGED <<sourceVars, token, asked, memo, unseen>> /\ Watch
      /\ refresh' = "working" /\ taken' = source
  BY DEF RefreshReads
<1>2. source \in Nat /\ source <= source
  BY DEF VerdictInv, StampsName
<1>3. StampsName' /\ BridgeType' /\ WalkedBefore'
  BY <1>1, <1>2 DEF VerdictInv, StampsName, BridgeType, WalkedBefore, sourceVars, memo
<1>4. ReadLater'
  BY <1>1, <1>2 DEF VerdictInv, ReadLater, sourceVars
<1>5. Current' = Current /\ moments' = moments \cup {Current}
  BY <1>1 DEF Watch, Current, sourceVars
<1>6. EntryKept' /\ PaymentKept'
  BY <1>1, <1>5 DEF VerdictInv, EntryKept, PaymentKept, Recording, TrueStill, Held, Marker, sourceVars, memo
<1>7. VerdictHeldInAnswer'
  BY <1>1, <1>5 DEF VerdictInv, VerdictHeldInAnswer, SaidHeld, VerifiedWasHashed, memo
<1>. QED
  BY <1>1, <1>3, <1>4, <1>5, <1>6, <1>7 DEF VerdictInv, memo

\* A refresh that leaves the output alone changes nothing a verdict is about.
LEMMA LeavesVerdict ==
  ASSUME VerdictInv, RefreshEnds, Leaves
  PROVE  VerdictInv'
<1>. USE FreshnessAssumption
<1>1. /\ UNCHANGED <<sourceVars, token, asked, memo, unseen>> /\ Watch
      /\ refresh' = "left" /\ taken' = None
  BY DEF RefreshEnds, Leaves, memo
<1>2. StampsName' /\ WalkedBefore' /\ BridgeType' /\ ReadLater'
  BY <1>1 DEF VerdictInv, StampsName, WalkedBefore, BridgeType, ReadLater, memo, sourceVars
<1>3. Current' = Current /\ moments' = moments \cup {Current}
  BY <1>1 DEF Watch, Current, sourceVars
<1>4. EntryKept' /\ PaymentKept'
  BY <1>1, <1>3 DEF VerdictInv, EntryKept, PaymentKept, Recording, TrueStill, Held, Marker, sourceVars, memo
<1>5. VerdictHeldInAnswer'
  BY <1>1, <1>3 DEF VerdictInv, VerdictHeldInAnswer, SaidHeld, VerifiedWasHashed, memo
<1>. QED
  BY <1>1, <1>2, <1>3, <1>4, <1>5 DEF VerdictInv, memo

\* A refresh changes the output under a verdict, which is marked: "stale" by a
\* publication, "current" by a fingerprint taken away. A publication leaves
\* "current" right, since what it publishes was read after what was current.
LEMMA EndsVerdict ==
  ASSUME VerdictInv, RefreshEnds, ~Leaves
  PROVE  VerdictInv'
<1>. USE FreshnessAssumption
<1>1. /\ UNCHANGED <<sourceVars, asked, walked, said, hashed, unseen>> /\ Watch
      /\ refresh = "working" /\ refresh' = "idle" /\ taken' = None
  BY DEF RefreshEnds
<1>2. PICK what \in {"published", "revoked"} :
        /\ token' = IF what = "published" THEN taken ELSE None
        /\ Becomes(token', what)
  BY DEF RefreshEnds, Becomes
<1>3. taken \in Nat /\ taken <= source /\ (token # None => token <= taken /\ token \in Nat) /\ source \in Nat
  BY <1>1 DEF VerdictInv, ReadLater, BridgeType, StampsName
<1>4. StampsName' /\ WalkedBefore' /\ ReadLater'
  BY <1>1, <1>2, <1>3 DEF VerdictInv, StampsName, WalkedBefore, ReadLater, sourceVars
<1>5. /\ verified' = Marked(verified, what)
      /\ ~Recording => paying' = paying
      /\ Recording => paying' = [paying EXCEPT !.entry = Marked(paying.entry, what)]
  BY <1>2 DEF Becomes, Recording
<1>6. ASSUME NEW entry \in Verdicts
      PROVE  /\ Marked(entry, what) \in Verdicts /\ Marked(entry, what) # None
             /\ Marked(entry, what).current = entry.current
             /\ Marked(entry, what).stamp = entry.stamp /\ Marked(entry, what).answer = entry.answer
             /\ Marked(entry, what).since = entry.since \cup {what}
  BY DEF Marked, Verdicts
<1>7. ASSUME NEW entry \in Verdicts, NEW stamp \in Nat, TrueStill(entry, stamp), ~unseen, source = stamp
      PROVE  entry.current = Current' \/ Marker(entry) \in entry.since \cup {what}
  <2>1. Current' = (token' = source)
    BY <1>1 DEF Current, sourceVars
  <2>2. entry.current = Current \/ Marker(entry) \in entry.since
    BY <1>7 DEF TrueStill
  <2>3. CASE what = "published"
    <3>1. CASE entry.current = FALSE
      BY <2>3, <3>1 DEF Marker
    <3>2. CASE entry.current = TRUE /\ token = source
      <4>1. token' = taken /\ taken = source
        BY <1>2, <1>3, <2>3, <3>2
      <4>. QED
        BY <2>1, <3>2, <4>1, Zenon
    <3>. QED
      BY <2>2, <3>1, <3>2 DEF Verdicts, Current
  <2>4. CASE what = "revoked"
    <3>1. CASE entry.current = TRUE
      BY <2>4, <3>1 DEF Marker
    <3>2. CASE entry.current = FALSE
      BY <1>2, <1>3, <2>1, <2>4, <3>2
    <3>. QED
      BY <3>1, <3>2 DEF Verdicts
  <2>. QED
    BY <2>3, <2>4
<1>8. moments \subseteq moments' /\ Current' \in moments'
  BY <1>1 DEF Watch, Current
<1>9. EntryKept'
  <2>. SUFFICES ASSUME verified' # None
                PROVE  /\ verified'.stamp <= mtime' /\ TrueStill(verified, verified.stamp)'
                       /\ ~unseen' /\ walked' = verified'.stamp => Held(verified)'
                       /\ verified'.answer <= asked'.number
                       /\ verified'.answer = asked'.number => hashed'
    BY DEF EntryKept
  <2>. DEFINE entry == verified
  <2>1. verified # None
    BY <1>5 DEF Marked
  <2>2. entry \in Verdicts /\ entry.stamp \in Nat
    BY <2>1 DEF VerdictInv, BridgeType, Verdicts
  <2>3. /\ entry.stamp <= mtime /\ TrueStill(entry, entry.stamp)
        /\ ~unseen /\ walked = entry.stamp => Held(entry)
        /\ entry.answer <= asked.number
        /\ entry.answer = asked.number => hashed
    BY <2>1 DEF VerdictInv, EntryKept
  <2>4. /\ verified'.current = entry.current /\ verified'.stamp = entry.stamp
        /\ verified'.answer = entry.answer /\ verified'.since = entry.since \cup {what}
    BY <1>5, <1>6, <2>2
  <2>5. ~unseen /\ source = entry.stamp => entry.current = Current' \/ Marker(entry) \in entry.since \cup {what}
    BY <1>7, <2>2, <2>3
  <2>6. TrueStill(verified, verified.stamp)'
    BY <1>1, <2>4, <2>5 DEF TrueStill, Marker, sourceVars
  <2>7. ~unseen' /\ walked' = verified'.stamp => Held(verified)'
    BY <1>1, <1>8, <2>3, <2>4 DEF Held, Marker
  <2>. QED
    BY <1>1, <2>3, <2>4, <2>6, <2>7 DEF sourceVars
<1>10. PaymentKept' /\ paying' \in Payments \cup {None}
  <2>1. CASE ~Recording
    BY <1>1, <1>5, <2>1 DEF VerdictInv, BridgeType, PaymentKept, Recording, sourceVars
  <2>2. CASE Recording
    <3>. DEFINE entry == paying.entry
    <3>1. /\ paying \in [stage : {"record"}, stamp : Nat, entry : Verdicts]
          /\ entry \in Verdicts /\ paying.stamp \in Nat
      BY <2>2 DEF VerdictInv, BridgeType, Payments, Recording
    <3>2. /\ paying.stamp <= mtime /\ TrueStill(entry, paying.stamp) /\ entry.current \in moments
          /\ hashed /\ entry.answer = asked.number
      BY <2>2 DEF VerdictInv, PaymentKept
    <3>. DEFINE marked == Marked(entry, what)
    <3>3. /\ marked \in Verdicts /\ marked.current = entry.current /\ marked.answer = entry.answer
          /\ marked.since = entry.since \cup {what}
      BY <1>6, <3>1
    <3>4. paying' = [paying EXCEPT !.entry = marked]
      BY <1>5, <2>2
    <3>. HIDE DEF marked
    <3>5. /\ paying' \in [stage : {"record"}, stamp : Nat, entry : Verdicts]
          /\ paying'.stage = "record" /\ paying'.stamp = paying.stamp /\ paying'.entry = marked
      BY <3>1, <3>3, <3>4
    <3>6. ~unseen /\ source = paying.stamp => entry.current = Current' \/ Marker(entry) \in entry.since \cup {what}
      BY <1>7, <3>1, <3>2
    <3>7. TrueStill(paying.entry, paying.stamp)'
      BY <1>1, <3>3, <3>5, <3>6 DEF TrueStill, Marker, sourceVars
    <3>8. PaymentKept'
      BY <1>1, <1>8, <3>2, <3>3, <3>5, <3>7 DEF PaymentKept, sourceVars
    <3>. QED
      BY <3>5, <3>8 DEF Payments
  <2>. QED
    BY <2>1, <2>2
<1>11. BridgeType'
  <2>1. verified' \in Verdicts \cup {None}
    BY <1>5, <1>6 DEF Marked, VerdictInv, BridgeType
  <2>. QED
    BY <1>1, <1>2, <1>3, <1>10, <2>1 DEF VerdictInv, BridgeType
<1>12. VerdictHeldInAnswer'
  BY <1>1, <1>8 DEF VerdictInv, VerdictHeldInAnswer, SaidHeld, VerifiedWasHashed
<1>13. verified' # None \/ paying' # None => verified # None \/ paying # None
  BY <1>5 DEF Marked, Recording
<1>. QED
  BY <1>1, <1>4, <1>8, <1>9, <1>10, <1>11, <1>12, <1>13 DEF VerdictInv

LEMMA VerdictStep ==
  ASSUME VerdictInv, [ReadersNext]_readersVars
  PROVE  VerdictInv'
<1>1. CASE UNCHANGED readersVars
  BY <1>1 DEF readersVars, bridgeVars, sourceVars, memo, VerdictInv, StampsName, BridgeType, ReadLater,
     WalkedBefore, EntryKept, PaymentKept, Recording, TrueStill, Held, Marker, Current,
     VerdictHeldInAnswer, SaidHeld, VerifiedWasHashed
<1>2. CASE OutsideSave \/ Write
  <2>1. /\ UNCHANGED <<token, taken, asked, memo>> /\ Watch
        /\ refresh' = "working" <=> refresh = "working"
    BY <1>2 DEF OutsideSave, Write
  <2>. QED
    BY <2>1, EveryStepIsOnward, FilesMove
<1>3. CASE StudioNext /\ UNCHANGED bridgePrivate /\ Watch
  <2>1. UNCHANGED <<token, refresh, taken, asked, memo>>
    BY <1>3 DEF bridgePrivate
  <2>. QED
    BY <1>3, <2>1, EveryStepIsOnward, FilesMove
<1>4. CASE BeginAnswer
  BY <1>4, BeginVerdict
<1>5. CASE Answering
  BY <1>5, MissVerdict, HitVerdict, PayStarts, HashVerdict, RecordVerdict DEF Answering
<1>6. CASE Refreshing
  BY <1>6, ReadsVerdict, LeavesVerdict, EndsVerdict DEF Refreshing
<1>. QED
  BY <1>1, <1>2, <1>3, <1>4, <1>5, <1>6 DEF ReadersNext, BridgeNext

\* Whatever an answer says of the output was so at a moment of that answer, or
\* was overtaken by a refresh since it was hashed; and only an answer that
\* hashed the sources says it verified (freshness.rs).
THEOREM VerdictsHold == ReadersSpec => []VerdictHeldInAnswer
<1>1. ReadersSpec => []VerdictInv
  <2>1. ReadersInit => VerdictInv
    BY VerdictInit
  <2>2. VerdictInv /\ [ReadersNext]_readersVars => VerdictInv'
    BY VerdictStep
  <2>. QED
    BY <2>1, <2>2, PTL DEF ReadersSpec
<1>2. VerdictInv => VerdictHeldInAnswer
  BY DEF VerdictInv
<1>. QED
  BY <1>1, <1>2, PTL

-----------------------------------------------------------------------------
(* Studio. The stamp it keeps is never newer than the files, so that when it  *)
(* is theirs and nothing is under way, the last load was of these files.      *)

\* What a load of this content leaves on the screen.
Shows(content) == IF content \in Loadable THEN shown = content ELSE error
SnapshotInv ==
  /\ StampsName /\ last \in Nat /\ base \in Nat /\ last <= mtime
  /\ doing = "opened" => Shows(base)
  /\ doing = "added" => base + 1 \in Loadable
  /\ doing \in {"idle", "selected"} /\ ~absorbed => Shows(base)
  /\ doing = "idle" /\ ~absorbed /\ ~unseen /\ last = mtime => source = base

\* A save of somebody else moves the stamp, or is not seen.
LEMMA SavedUnderSnapshot ==
  ASSUME SnapshotInv, Onward, UNCHANGED studioVars
  PROVE  SnapshotInv'
<1>1. StampsName' /\ mtime <= mtime' /\ source <= source'
  BY StampsStep DEF SnapshotInv
<1>2. \/ source' = source /\ mtime' = mtime /\ unseen' = unseen
      \/ unseen' = TRUE
      \/ mtime' = mtime + 1
  BY DEF Onward, Save, SaveUnseen, sourceVars
<1>3. last' = last /\ base' = base /\ last \in Nat /\ base \in Nat /\ last <= mtime /\ mtime \in Nat /\ mtime' \in Nat
  BY <1>1 DEF SnapshotInv, studioVars, StampsName
<1>4. last' <= mtime' /\ (mtime' = mtime + 1 => last' # mtime')
  BY <1>1, <1>3
<1>. QED
  BY <1>1, <1>2, <1>3, <1>4 DEF SnapshotInv, Shows, studioVars

LEMMA StudioSnapshot ==
  ASSUME SnapshotInv, StudioNext, UNCHANGED bridgePrivate, Onward
  PROVE  SnapshotInv'
<1>1. /\ StampsName /\ StampsName' /\ mtime <= mtime' /\ unseen' = unseen
      /\ last \in Nat /\ base \in Nat /\ last <= mtime /\ mtime \in Nat /\ mtime' \in Nat /\ source \in Nat
  BY StampsStep DEF SnapshotInv, StampsName, bridgePrivate
<1>2. CASE OpenLoads \/ PollLoads \/ Reload
  <2>1. Load /\ UNCHANGED <<sourceVars, last>> /\ doing' \in {"opened", "idle"} /\ base' = source
    BY <1>2 DEF OpenLoads, PollLoads, Reload, Stage, Load
  <2>2. IF source \in Loadable THEN shown' = source ELSE error'
    BY <2>1, Zenon DEF Load
  <2>. QED
    BY <1>1, <2>1, <2>2 DEF SnapshotInv, Shows, sourceVars
<1>3. CASE OpenStamps
  <2>1. Shows(base) /\ UNCHANGED <<shown, error, base, sourceVars>> /\ last' = mtime /\ doing' = "idle"
    BY <1>3 DEF OpenStamps, Stage, Stamped, SnapshotInv
  <2>2. ~absorbed' => source = base
    BY <1>3 DEF OpenStamps
  <2>. QED
    BY <1>1, <2>1, <2>2 DEF SnapshotInv, Shows, sourceVars
<1>4. CASE PollSees \/ EditStamps
  <2>1. doing' = "loading" /\ last' = mtime /\ mtime' = mtime /\ base' = base
    BY <1>4 DEF PollSees, EditStamps, Stage, Stamped, sourceVars
  <2>. QED
    BY <1>1, <2>1 DEF SnapshotInv
<1>5. CASE EditWrites
  <2>1. doing' = "edited" /\ last' = last /\ base' = base
    BY <1>5 DEF EditWrites, Stage
  <2>. QED
    BY <1>1, <2>1 DEF SnapshotInv
<1>6. CASE AddWrites
  <2>1. doing' = "added" /\ last' = last /\ base' = source /\ source + 1 \in Loadable
    BY <1>6 DEF AddWrites, Stage, Save
  <2>. QED
    BY <1>1, <2>1 DEF SnapshotInv
<1>7. CASE AddStamps
  <2>1. doing' = "idle" /\ last' = mtime /\ base' = base + 1 /\ base + 1 \in Loadable /\ UNCHANGED sourceVars
    BY <1>7 DEF AddStamps, Stage, Stamped, SnapshotInv
  <2>2. ~absorbed' => shown' = base + 1 /\ source = base + 1
    BY <1>7 DEF AddStamps
  <2>. QED
    BY <1>1, <2>1, <2>2 DEF SnapshotInv, Shows, sourceVars
<1>8. CASE PluginWrites
  <2>1. doing = "idle" /\ doing' = "selected" /\ UNCHANGED <<sourceVars, shown, error, last, base, absorbed>>
    BY <1>8 DEF PluginWrites, Stage
  <2>. QED
    BY <1>1, <2>1 DEF SnapshotInv, Shows
<1>9. CASE PluginStamps
  <2>1. /\ doing = "selected" /\ doing' = "idle" /\ last' = mtime
        /\ UNCHANGED <<sourceVars, shown, error, base>>
    BY <1>9 DEF PluginStamps, Stage, Stamped
  <2>2. ~absorbed' => ~absorbed /\ source = base
    BY <1>9 DEF PluginStamps
  <2>. QED
    BY <1>1, <2>1, <2>2 DEF SnapshotInv, Shows, sourceVars
<1>. QED
  BY <1>2, <1>3, <1>4, <1>5, <1>6, <1>7, <1>8, <1>9 DEF StudioNext, Own

LEMMA SnapshotStep ==
  ASSUME SnapshotInv, [ReadersNext]_readersVars
  PROVE  SnapshotInv'
<1>1. Onward
  BY EveryStepIsOnward
<1>2. CASE UNCHANGED studioVars
  BY <1>1, <1>2, SavedUnderSnapshot
<1>3. CASE StudioNext /\ UNCHANGED bridgePrivate
  BY <1>1, <1>3, StudioSnapshot
<1>. QED
  BY <1>2, <1>3 DEF ReadersNext, readersVars

\* What Studio shows when it sees no reason to look again is what the files
\* load into (lifecycle.rs poll_hot_reload, mutations.rs after_project_write).
THEOREM SnapshotsFollow == ReadersSpec => []SnapshotFollowsFiles
<1>1. ReadersInit => SnapshotInv
  <2>. SUFFICES ASSUME ReadersInit PROVE SnapshotInv
    OBVIOUS
  <2>1. StampsName
    BY StampsInit DEF ReadersInit
  <2>2. last = 0 /\ base = 0 /\ doing = "opening" /\ mtime = 0
    BY DEF ReadersInit, StudioInit, FreshnessInit, SourcesInit
  <2>. QED
    BY <2>1, <2>2 DEF SnapshotInv
<1>2. SnapshotInv /\ [ReadersNext]_readersVars => SnapshotInv'
  BY SnapshotStep
<1>3. SnapshotInv => SnapshotFollowsFiles
  BY DEF SnapshotInv, SnapshotFollowsFiles, AtRest, Faithful, Shows
<1>. QED
  BY <1>1, <1>2, <1>3, PTL DEF ReadersSpec

-----------------------------------------------------------------------------
(* The listing of a directory, a fold over a finite set, lists what is there. *)

LEMMA SmallestNumber ==
  ASSUME NEW T \in SUBSET Nat, T # {}
  PROVE  \E n \in T : \A m \in T : n <= m
<1> DEFINE R == OpToRel(<, Nat)
<1>1. \E n \in T : \A m \in T : ~(<<m, n>> \in R)
  <2>1. IsWellFoundedOn(R, Nat)
    BY NatLessThanWellFounded, Zenon
  <2> HIDE DEF R
  <2> QED BY <2>1, WFMin
<1>2. \A m, n \in Nat : <<m, n>> \in R <=> m < n
  BY Zenon DEF OpToRel
<1> HIDE DEF R
<1>3. PICK n \in T : \A m \in T : ~(<<m, n>> \in R)
  BY <1>1
<1>4. ASSUME NEW m \in T PROVE n <= m
  <2>1. m \in Nat /\ n \in Nat /\ ~(m < n)
    BY <1>2, <1>3
  <2> QED BY <2>1
<1> QED BY <1>4

Pick(s) == CHOOSE x \in s : TRUE
Small(places, n) == {s \in SUBSET places : Cardinality(s) <= n}
Lists(iter, family) ==
  iter = [s \in family |-> IF s = {} THEN <<>> ELSE Append(iter[s \ {Pick(s)}], Pick(s))]

\* A set is listed when it is listed without one of its elements.
LEMMA ListStep ==
  ASSUME NEW places, IsFiniteSet(places), NEW n \in Nat,
         NEW iter, Lists(iter, Small(places, n))
  PROVE  \E longer : Lists(longer, Small(places, n + 1))
<1> DEFINE next(s) == IF s = {} THEN <<>> ELSE Append(iter[s \ {Pick(s)}], Pick(s))
           longer == [s \in Small(places, n + 1) |-> next(s)]
<1>1. \A s \in SUBSET places : IsFiniteSet(s) /\ Cardinality(s) \in Nat
  BY FS_Subset, FS_CardinalityType
<1>2. ASSUME NEW s \in Small(places, n + 1), s # {}
      PROVE  s \ {Pick(s)} \in Small(places, n)
  <2>1. Pick(s) \in s
    BY <1>2 DEF Pick
  <2>2. Cardinality(s \ {Pick(s)}) = Cardinality(s) - 1
    BY <1>1, <2>1, FS_RemoveElement DEF Small
  <2>3. s \ {Pick(s)} \in SUBSET places /\ Cardinality(s) \in Nat /\ Cardinality(s) <= n + 1
    BY <1>1 DEF Small
  <2>4. Cardinality(s \ {Pick(s)}) <= n
    BY <2>2, <2>3
  <2> QED BY <2>3, <2>4 DEF Small
<1>3. \A t \in Small(places, n) : iter[t] = next(t)
  BY DEF Lists
<1>4. \A t \in Small(places, n) : t \in Small(places, n + 1)
  BY <1>1 DEF Small
<1>5. \A s \in Small(places, n + 1) : s # {} => longer[s \ {Pick(s)}] = iter[s \ {Pick(s)}]
  <2> SUFFICES ASSUME NEW s \in Small(places, n + 1), s # {}
               PROVE  longer[s \ {Pick(s)}] = iter[s \ {Pick(s)}]
    OBVIOUS
  <2> DEFINE t == s \ {Pick(s)}
  <2>1. t \in Small(places, n)
    BY <1>2
  <2> HIDE DEF t
  <2>2. longer[t] = next(t)
    BY <2>1, <1>4
  <2> QED BY <2>1, <2>2, <1>3 DEF t
<1>6. Lists(longer, Small(places, n + 1))
  BY <1>5 DEF Lists
<1> QED BY <1>6

\* Sets of any size have a listing: else there would be a least size without.
LEMMA ListsExist ==
  ASSUME NEW places, IsFiniteSet(places)
  PROVE  \E iter : Lists(iter, SUBSET places)
<1> DEFINE Bad == {n \in Nat : ~ \E iter : Lists(iter, Small(places, n))}
<1>1. \A s \in SUBSET places : IsFiniteSet(s) /\ Cardinality(s) \in Nat
  BY FS_Subset, FS_CardinalityType
<1>2. 0 \notin Bad
  <2> DEFINE iter == [s \in Small(places, 0) |-> <<>>]
  <2>1. \A s \in Small(places, 0) : s = {}
    BY <1>1, FS_EmptySet DEF Small
  <2>2. Lists(iter, Small(places, 0))
    BY <2>1 DEF Lists
  <2> QED BY <2>2
<1>3. Bad = {}
  <2> SUFFICES ASSUME Bad # {} PROVE FALSE
    OBVIOUS
  <2>1. PICK n \in Bad : \A m \in Bad : n <= m
    <3>1. Bad \in SUBSET Nat
      OBVIOUS
    <3> HIDE DEF Bad
    <3> QED BY <3>1, SmallestNumber
  <2>2. n \in Nat /\ n # 0
    BY <1>2
  <2>3. n - 1 \in Nat /\ n - 1 \notin Bad
    <3> HIDE DEF Bad
    <3> QED BY <2>1, <2>2
  <2>4. PICK iter : Lists(iter, Small(places, n - 1))
    BY <2>3
  <2>5. \E longer : Lists(longer, Small(places, (n - 1) + 1))
    BY <2>3, <2>4, ListStep
  <2>6. (n - 1) + 1 = n
    BY <2>2
  <2> QED BY <2>5, <2>6
<1>4. PICK iter : Lists(iter, Small(places, Cardinality(places)))
  BY <1>1, <1>3
<1>5. Small(places, Cardinality(places)) = SUBSET places
  <2>1. \A s \in SUBSET places : Cardinality(s) <= Cardinality(places)
    BY FS_Subset
  <2> QED BY <2>1 DEF Small
<1> QED BY <1>4, <1>5

\* The fold lists every element of the set, and nothing else.
LEMMA ListedLists ==
  ASSUME NEW places, IsFiniteSet(places)
  PROVE  Listed(places) \in Seq(places)
<1> DEFINE iter == CHOOSE iter : Lists(iter, SUBSET places)
<1>1. Listed(places) = iter[places]
  BY DEF Listed, FoldSet, MapThenFoldSet, Lists, Pick
<1>2. Lists(iter, SUBSET places)
  BY ListsExist
<1> HIDE DEF iter
<1> DEFINE Bad == {n \in Nat : \E s \in SUBSET places : Cardinality(s) = n /\ iter[s] \notin Seq(places)}
<1>3. \A s \in SUBSET places : IsFiniteSet(s) /\ Cardinality(s) \in Nat
  BY FS_Subset, FS_CardinalityType
<1>4. ASSUME NEW s \in SUBSET places
      PROVE  iter[s] = IF s = {} THEN <<>> ELSE Append(iter[s \ {Pick(s)}], Pick(s))
  BY <1>2 DEF Lists
<1>5. Bad = {}
  <2> SUFFICES ASSUME Bad # {} PROVE FALSE
    OBVIOUS
  <2>1. PICK n \in Bad : \A m \in Bad : n <= m
    <3>1. Bad \in SUBSET Nat
      OBVIOUS
    <3> HIDE DEF Bad
    <3> QED BY <3>1, SmallestNumber
  <2>2. PICK s \in SUBSET places : Cardinality(s) = n /\ iter[s] \notin Seq(places)
    OBVIOUS
  <2>3. s # {}
    <3> HIDE DEF Bad
    <3>1. {} \in SUBSET places /\ <<>> \in Seq(places)
      OBVIOUS
    <3>2. iter[{}] = <<>>
      BY <1>4, <3>1
    <3> QED BY <2>2, <3>1, <3>2
  <2> DEFINE t == s \ {Pick(s)}
  <2>4. Pick(s) \in s /\ Pick(s) \in places /\ t \in SUBSET places
    BY <2>3 DEF Pick
  <2>5. Cardinality(t) = n - 1 /\ Cardinality(t) \in Nat
    BY <1>3, <2>2, <2>4, FS_RemoveElement
  <2>6. iter[t] \in Seq(places)
    <3>1. n - 1 \notin Bad /\ n - 1 \in Nat
      <4>1. n \in Nat
        OBVIOUS
      <4> HIDE DEF Bad, t
      <4> QED BY <2>1, <2>5, <4>1
    <3> QED BY <2>4, <2>5, <3>1
  <2>7. iter[s] \in Seq(places)
    <3>1. iter[s] = Append(iter[t], Pick(s))
      BY <1>4, <2>3
    <3> HIDE DEF t
    <3> QED BY <2>4, <2>6, <3>1
  <2> QED BY <2>2, <2>7
<1>6. iter[places] \in Seq(places)
  <2>1. places \in SUBSET places /\ Cardinality(places) \in Nat
    BY <1>3
  <2> QED BY <1>5, <2>1
<1> QED BY <1>1, <1>6

-----------------------------------------------------------------------------
(* Places, and where the renaming of a directory takes them.                 *)

Dirs == Seq(Words)
Rest(a, b) == SubSeq(b, Len(a) + 1, Len(b))

LEMMA PrefixPointwise ==
    ASSUME NEW S, NEW s \in Seq(S), NEW t \in Seq(S)
    PROVE  IsPrefix(s, t) <=> Len(s) <= Len(t) /\ \A i \in 1..Len(s) : s[i] = t[i]
  <1>1. SubSeq(s, 1, Len(s)) = s
    BY SubSeqFull
  <1>2. CASE Len(s) <= Len(t)
    <2>1. /\ SubSeq(t, 1, Len(s)) \in Seq(S)
          /\ Len(SubSeq(t, 1, Len(s))) = Len(s)
          /\ \A i \in 1..Len(s) : SubSeq(t, 1, Len(s))[i] = t[i]
      BY <1>2
    <2>2. ASSUME \A i \in 1..Len(s) : s[i] = t[i]
          PROVE  s = SubSeq(t, 1, Len(s))
      BY <2>1, <2>2, SeqEqual
    <2> QED BY <1>1, <1>2, <2>1, <2>2 DEF IsPrefix
  <1>3. CASE ~(Len(s) <= Len(t))
    BY <1>3 DEF IsPrefix
  <1> QED BY <1>2, <1>3

LEMMA RestOfPrefix ==
    ASSUME NEW S, NEW a \in Seq(S), NEW b \in Seq(S), IsPrefix(a, b)
    PROVE  Rest(a, b) \in Seq(S) /\ b = a \o Rest(a, b)
  <1>1. Len(a) \in Nat /\ Len(b) \in Nat /\ Len(a) <= Len(b)
    BY LenProperties DEF IsPrefix
  <1>2. Rest(a, b) \in Seq(S)
    <2>1. \A i \in (Len(a) + 1)..Len(b) : b[i] \in S
      <3> SUFFICES ASSUME NEW i \in (Len(a) + 1)..Len(b) PROVE b[i] \in S
        OBVIOUS
      <3>1. i \in 1..Len(b)
        BY <1>1
      <3> QED BY <3>1, ElementOfSeq
    <2>2. Len(a) + 1 \in Int /\ Len(b) \in Int
      BY <1>1
    <2> QED BY <2>1, <2>2, SubSeqProperties DEF Rest
  <1>3. SubSeq(b, 1, Len(a)) = a
    BY SubSeqFull DEF IsPrefix
  <1>4. SubSeq(b, 1, Len(a)) \o SubSeq(b, Len(a) + 1, Len(b)) = SubSeq(b, 1, Len(b))
    <2>1. /\ 1 \in 1..(Len(b) + 1) /\ Len(a) \in (1 - 1)..Len(b) /\ Len(b) \in Len(a)..Len(b)
      BY <1>1
    <2> QED BY <2>1, ConcatAdjacentSubSeq
  <1>5. SubSeq(b, 1, Len(b)) = b
    BY SubSeqFull
  <1> QED BY <1>2, <1>3, <1>4, <1>5 DEF Rest

LEMMA RestOfConcat ==
    ASSUME NEW S, NEW a \in Seq(S), NEW x \in Seq(S)
    PROVE  a \o x \in Seq(S) /\ IsPrefix(a, a \o x) /\ Rest(a, a \o x) = x
  <1>1. /\ Len(a) \in Nat /\ Len(x) \in Nat
        /\ a \o x \in Seq(S) /\ Len(a \o x) = Len(a) + Len(x)
        /\ \A i \in 1..(Len(a) + Len(x)) :
              (a \o x)[i] = IF i <= Len(a) THEN a[i] ELSE x[i - Len(a)]
    <2>1. Len(a) \in Nat /\ Len(x) \in Nat
      BY LenProperties
    <2> QED BY <2>1, ConcatProperties, Zenon
  <1>2. IsPrefix(a, a \o x)
    <2>1. Len(a) <= Len(a \o x)
      BY <1>1
    <2>2. \A i \in 1..Len(a) : a[i] = (a \o x)[i]
      BY <1>1
    <2> QED BY <1>1, <2>1, <2>2, PrefixPointwise
  <1>3. Rest(a, a \o x) \in Seq(S) /\ a \o x = a \o Rest(a, a \o x)
    BY <1>1, <1>2, RestOfPrefix
  <1> DEFINE r == Rest(a, a \o x)
  <1>4. /\ Len(a \o r) = Len(a) + Len(r) /\ Len(r) \in Nat
        /\ \A i \in 1..(Len(a) + Len(r)) :
              (a \o r)[i] = IF i <= Len(a) THEN a[i] ELSE r[i - Len(a)]
    <2>1. Len(r) \in Nat /\ r \in Seq(S)
      BY <1>3, LenProperties
    <2> HIDE DEF r
    <2> QED BY <2>1, ConcatProperties, Zenon
  <1>5. a \o x = a \o r
    BY <1>3
  <1> HIDE DEF r
  <1>6. Len(r) = Len(x)
    BY <1>1, <1>4, <1>5
  <1>7. ASSUME NEW i \in 1..Len(r) PROVE r[i] = x[i]
    <2>1. PICK k \in Nat : k = Len(a) + i
      BY <1>1, <1>4
    <2>2. k \in 1..(Len(a) + Len(r)) /\ ~(k <= Len(a)) /\ k - Len(a) = i
      BY <1>1, <1>4, <2>1
    <2> QED BY <1>1, <1>4, <1>5, <1>6, <2>2
  <1>8. r \in Seq(S)
    BY <1>3 DEF r
  <1>9. r = x
    BY <1>6, <1>7, <1>8, SeqEqual
  <1> QED BY <1>1, <1>2, <1>9 DEF r

\* The place p, when the directory from becomes the directory to.
New(from, to, p) == At(Atomic!Rebased(from, to, p.dir), p.file)

LEMMA PlaceParts ==
  ASSUME NEW p \in Places
  PROVE  /\ p.dir \in Dirs /\ p.file \in Words /\ p = At(p.dir, p.file)
         /\ \A x : [p EXCEPT !.dir = x] = At(x, p.file)
BY DEF Places, Dirs, At

LEMMA PlaceMade ==
  ASSUME NEW dir \in Dirs, NEW file \in Words
  PROVE  At(dir, file) \in Places /\ At(dir, file).dir = dir /\ At(dir, file).file = file
BY DEF Places, Dirs, At

LEMMA DirParts ==
  ASSUME NEW dir \in Dirs, dir # <<>>
  PROVE  /\ Front(dir) \in Dirs /\ Last(dir) \in Words
         /\ Len(dir) \in Nat \ {0} /\ FaceFile(dir) = At(dir, Last(dir))
<1>1. Len(dir) \in Nat \ {0} /\ \A i \in 1..Len(dir) : dir[i] \in Words
  BY EmptySeq, LenProperties, ElementOfSeq DEF Dirs
<1>2. Front(dir) \in Dirs
  <2>1. \A i \in 1..(Len(dir) - 1) : dir[i] \in Words
    BY <1>1
  <2>2. 1 \in Int /\ Len(dir) - 1 \in Int
    BY <1>1
  <2> QED BY <2>1, <2>2, SubSeqProperties DEF Front, Dirs
<1>3. Last(dir) \in Words
  BY <1>1 DEF Last
<1> QED BY <1>1, <1>2, <1>3 DEF FaceFile

LEMMA DirExtended ==
  ASSUME NEW dir \in Dirs, NEW name \in Words
  PROVE  /\ Append(dir, name) \in Dirs /\ Append(dir, name) # <<>>
         /\ Last(Append(dir, name)) = name
         /\ Len(Append(dir, name)) = Len(dir) + 1
<1>1. /\ Append(dir, name) \in Dirs /\ Len(dir) \in Nat
      /\ Len(Append(dir, name)) = Len(dir) + 1 /\ Append(dir, name)[Len(dir) + 1] = name
  BY AppendProperties, LenProperties DEF Dirs
<1>2. Append(dir, name) # <<>>
  <2>1. Append(dir, name) \in Seq(Words)
    BY <1>1 DEF Dirs
  <2>2. Len(Append(dir, name)) # 0
    BY <1>1
  <2> QED BY <2>1, <2>2, EmptySeq
<1> QED BY <1>1, <1>2 DEF Last

\* A directory below the renamed one keeps its path from there.
LEMMA RebasedBelow ==
  ASSUME NEW from \in Dirs, NEW to \in Dirs, NEW dir \in Dirs, IsPrefix(from, dir)
  PROVE  /\ Atomic!Rebased(from, to, dir) = to \o Rest(from, dir)
         /\ Rest(from, dir) \in Dirs /\ dir = from \o Rest(from, dir)
         /\ Atomic!Rebased(from, to, dir) \in Dirs
         /\ IsPrefix(to, Atomic!Rebased(from, to, dir))
         /\ Rest(to, Atomic!Rebased(from, to, dir)) = Rest(from, dir)
<1>1. Rest(from, dir) \in Dirs /\ dir = from \o Rest(from, dir)
  BY RestOfPrefix DEF Dirs
<1>2. Atomic!Rebased(from, to, dir) = to \o Rest(from, dir)
  BY DEF Atomic!Rebased, Atomic!IsPrefix, IsPrefix, Rest
<1> QED BY <1>1, <1>2, RestOfConcat DEF Dirs

LEMMA RebasedElsewhere ==
  ASSUME NEW from, NEW to, NEW dir, ~IsPrefix(from, dir)
  PROVE  Atomic!Rebased(from, to, dir) = dir
BY DEF Atomic!Rebased, Atomic!IsPrefix, IsPrefix

LEMMA RebasedTyped ==
  ASSUME NEW from \in Dirs, NEW to \in Dirs, NEW dir \in Dirs
  PROVE  /\ Atomic!Rebased(from, to, dir) \in Dirs
         /\ dir # <<>> /\ to # <<>> => Atomic!Rebased(from, to, dir) # <<>>
<1>1. CASE IsPrefix(from, dir)
  <2>1. Atomic!Rebased(from, to, dir) = to \o Rest(from, dir) /\ Rest(from, dir) \in Dirs
    BY <1>1, RebasedBelow
  <2>2. to # <<>> => to \o Rest(from, dir) # <<>>
    BY <2>1, ConcatEmptySeq, ConcatProperties, EmptySeq, LenProperties DEF Dirs
  <2> QED BY <1>1, <2>1, <2>2, RebasedBelow
<1>2. CASE ~IsPrefix(from, dir)
  BY <1>2, RebasedElsewhere
<1> QED BY <1>1, <1>2

\* The directory itself becomes the other, and nothing else does.
LEMMA RebasedItself ==
  ASSUME NEW from \in Dirs, NEW to \in Dirs, NEW dir \in Dirs
  PROVE  /\ IsPrefix(from, from) /\ Atomic!Rebased(from, to, from) = to
         /\ IsPrefix(from, dir) /\ Atomic!Rebased(from, to, dir) = to => dir = from
<1>0. from \in Seq(Words) /\ to \in Seq(Words)
  BY DEF Dirs
<1>1. from \o <<>> = from /\ to \o <<>> = to /\ <<>> \in Dirs
  BY ConcatEmptySeq DEF Dirs
<1>2. IsPrefix(from, from) /\ Rest(from, from) = <<>>
  <2>1. <<>> \in Seq(Words)
    BY <1>1 DEF Dirs
  <2>2. IsPrefix(from, from \o <<>>) /\ Rest(from, from \o <<>>) = <<>>
    BY <1>0, <2>1, RestOfConcat
  <2> QED BY <1>1, <2>2
<1>3. Atomic!Rebased(from, to, from) = to
  <2>1. Atomic!Rebased(from, to, from) = to \o Rest(from, from)
    BY <1>2, RebasedBelow, Zenon
  <2> QED BY <1>1, <1>2, <2>1
<1>4. ASSUME IsPrefix(from, dir), Atomic!Rebased(from, to, dir) = to
      PROVE  dir = from
  <2>1. Rest(to, to) = <<>>
    <3>1. <<>> \in Seq(Words)
      BY <1>1 DEF Dirs
    <3>2. Rest(to, to \o <<>>) = <<>>
      BY <1>0, <3>1, RestOfConcat
    <3> QED BY <1>1, <3>2
  <2>2. /\ Rest(to, Atomic!Rebased(from, to, dir)) = Rest(from, dir)
        /\ dir = from \o Rest(from, dir)
    BY <1>4, RebasedBelow, Zenon
  <2> QED BY <1>1, <1>4, <2>1, <2>2
<1> QED BY <1>2, <1>3, <1>4

\* Two places stay two, if nothing is where they are moved to.
LEMMA NewTellsApart ==
  ASSUME NEW from \in Dirs, NEW to \in Dirs, NEW p \in Places, NEW q \in Places,
         ~IsPrefix(to, p.dir), ~IsPrefix(to, q.dir),
         New(from, to, p) = New(from, to, q)
  PROVE  p = q
<1>1. p.dir \in Dirs /\ q.dir \in Dirs /\ p = At(p.dir, p.file) /\ q = At(q.dir, q.file)
  BY PlaceParts
<1>2. p.file = q.file /\ Atomic!Rebased(from, to, p.dir) = Atomic!Rebased(from, to, q.dir)
  BY DEF New, At
<1>3. CASE IsPrefix(from, p.dir) /\ IsPrefix(from, q.dir)
  <2>1. /\ Rest(to, Atomic!Rebased(from, to, p.dir)) = Rest(from, p.dir)
        /\ Rest(to, Atomic!Rebased(from, to, q.dir)) = Rest(from, q.dir)
    BY <1>1, <1>3, RebasedBelow, Zenon
  <2>2. p.dir = from \o Rest(from, p.dir) /\ q.dir = from \o Rest(from, q.dir)
    BY <1>1, <1>3, RebasedBelow
  <2> QED BY <1>1, <1>2, <2>1, <2>2
<1>4. CASE IsPrefix(from, p.dir) /\ ~IsPrefix(from, q.dir)
  BY <1>1, <1>2, <1>4, RebasedBelow, RebasedElsewhere
<1>5. CASE ~IsPrefix(from, p.dir) /\ IsPrefix(from, q.dir)
  BY <1>1, <1>2, <1>5, RebasedBelow, RebasedElsewhere
<1>6. CASE ~IsPrefix(from, p.dir) /\ ~IsPrefix(from, q.dir)
  BY <1>1, <1>2, <1>6, RebasedElsewhere
<1> QED BY <1>3, <1>4, <1>5, <1>6

\* Every file of a directory that is renamed is there under its new name.
LEMMA CarriedKeeps ==
  ASSUME NEW d, Typed(d), NEW from \in Dirs \ {<<>>}, NEW to \in Dirs \ {<<>>}, Under(d, to) = {}
  PROVE  /\ \A p \in DOMAIN d : /\ New(from, to, p) \in DOMAIN Carried(d, from, to)
                                /\ Carried(d, from, to)[New(from, to, p)] = d[p]
         /\ \A q \in DOMAIN Carried(d, from, to) : \E p \in DOMAIN d : q = New(from, to, p)
         /\ \A p, q \in DOMAIN d : New(from, to, p) = New(from, to, q) => p = q
<1> DEFINE new(p) == [p EXCEPT !.dir = IF p \in Under(d, from) THEN Atomic!Rebased(from, to, @) ELSE @]
<1>1. \A p \in DOMAIN d : p \in Places /\ p.dir \in Dirs
  BY PlaceParts DEF Typed
<1>2. \A dir \in {from, to} : ~IsPrefix(dir, <<>>)
  BY EmptySeq, LenProperties DEF IsPrefix, Dirs
<1>3. ASSUME NEW p \in DOMAIN d
      PROVE  new(p) = New(from, to, p) /\ ~IsPrefix(to, p.dir)
  <2>1. p \in Under(d, from) <=> IsPrefix(from, p.dir)
    BY <1>2 DEF Under
  <2>2. p \in Under(d, to) <=> IsPrefix(to, p.dir)
    BY <1>2 DEF Under
  <2>3. CASE IsPrefix(from, p.dir)
    <3>1. new(p) = [p EXCEPT !.dir = Atomic!Rebased(from, to, p.dir)]
      BY <2>1, <2>3
    <3> HIDE DEF new
    <3> QED BY <1>1, <2>2, <3>1, PlaceParts DEF New
  <2>4. CASE ~IsPrefix(from, p.dir)
    <3>1. new(p) = [p EXCEPT !.dir = p.dir]
      BY <2>1, <2>4
    <3>2. Atomic!Rebased(from, to, p.dir) = p.dir
      BY <2>4, RebasedElsewhere
    <3> HIDE DEF new
    <3> QED BY <1>1, <2>2, <3>1, <3>2, PlaceParts DEF New
  <2> QED BY <2>3, <2>4
<1>4. \A p, q \in DOMAIN d : New(from, to, p) = New(from, to, q) => p = q
  BY <1>1, <1>3, NewTellsApart
<1>5. Carried(d, from, to) = [q \in {new(p) : p \in DOMAIN d} |-> d[CHOOSE p \in DOMAIN d : new(p) = q]]
  BY DEF Carried
<1> HIDE DEF new
<1>6. /\ \A p \in DOMAIN d : New(from, to, p) \in DOMAIN Carried(d, from, to)
      /\ \A q \in DOMAIN Carried(d, from, to) : \E p \in DOMAIN d : q = New(from, to, p)
  BY <1>3, <1>5
<1>7. ASSUME NEW p \in DOMAIN d
      PROVE  Carried(d, from, to)[New(from, to, p)] = d[p]
  <2>1. new(p) = New(from, to, p) /\ new(p) \in {new(x) : x \in DOMAIN d}
    BY <1>3
  <2>2. (CHOOSE x \in DOMAIN d : new(x) = new(p)) = p
    BY <1>3, <1>4
  <2> QED BY <1>5, <2>1, <2>2
<1> QED BY <1>4, <1>5, <1>6, <1>7

-----------------------------------------------------------------------------
(* One call: what it leaves a disk of typed files, and no line lost.         *)

Hand(text) == IF text.is = "face" THEN text.hand ELSE "none"
\* The lines that are safe, whatever becomes of the disk.
Gone == {"none"} \cup Hands(trash) \cup shed
HandsOn(d) == {Hand(d[p]) : p \in DOMAIN d}

CallOK(c) ==
  /\ c.at \in Places
  /\ c.do \in {"put", "create"} /\ c.text.is = "face" => c.text \in FaceTexts /\ FacePlace(c.at)
  /\ c.do = "drop" => ~FacePlace(c.at)
  /\ c.do = "move" => c.from \in Dirs \ {<<>>} /\ c.to \in Dirs \ {<<>>}
  /\ c.do = "rename" => c.to \in Places /\ FacePlace(c.to)

LEMMA HandsAre ==
  ASSUME NEW texts, NEW h
  PROVE  h \in Hands(texts) <=> h # "none" /\ \E x \in texts : Hand(x) = h
BY DEF Hands, Hand

LEMMA DiskAfterIs ==
  ASSUME NEW d, NEW c
  PROVE  /\ c.do \in {"put", "create"} => DiskAfter(d, c) = Set(d, c.at, c.text)
         /\ c.do \in {"drop", "discard"} => DiskAfter(d, c) = Only(d, DOMAIN d \ {c.at})
         /\ c.do = "move" => DiskAfter(d, c) = Carried(d, c.from, c.to)
         /\ c.do = "rename" => DiskAfter(d, c) = Set(Only(d, DOMAIN d \ {c.at}), c.to, d[c.at])
         /\ c.do = "trash" => DiskAfter(d, c) = Only(d, DOMAIN d \ Under(d, c.from))
         /\ c.do \notin {"put", "create", "drop", "discard", "move", "rename", "trash"} => DiskAfter(d, c) = d
BY DEF DiskAfter

LEMMA PossibleIs ==
  ASSUME NEW d, NEW c, Possible(d, c)
  PROVE  /\ c.do = "create" => c.at \notin DOMAIN d
         /\ c.do = "rename" => c.at \in DOMAIN d
         /\ c.do = "move" => Under(d, c.from) # {} /\ Under(d, c.to) = {} /\ ~IsPrefix(c.from, c.to)
BY DEF Possible

LEMMA SetTyped ==
  ASSUME NEW d, Typed(d), NEW p \in Places, NEW text,
         text.is = "face" => text \in FaceTexts /\ FacePlace(p)
  PROVE  Typed(Set(d, p, text))
<1>1. DOMAIN Set(d, p, text) = DOMAIN d \cup {p} /\ IsFiniteSet(DOMAIN d \cup {p})
  BY FS_AddElement DEF Set, Typed
<1>2. \A q \in DOMAIN d \cup {p} : Set(d, p, text)[q] = IF q = p THEN text ELSE d[q]
  BY DEF Set
<1> QED BY <1>1, <1>2 DEF Typed

LEMMA OnlyTyped ==
  ASSUME NEW d, Typed(d), NEW places, places \subseteq DOMAIN d
  PROVE  /\ Typed(Only(d, places)) /\ DOMAIN Only(d, places) = places
         /\ \A q \in places : Only(d, places)[q] = d[q]
<1>1. DOMAIN Only(d, places) = places /\ IsFiniteSet(places)
  BY FS_Subset DEF Only, Typed
<1>2. \A q \in places : Only(d, places)[q] = d[q]
  BY DEF Only
<1> QED BY <1>1, <1>2 DEF Typed

LEMMA CarriedTyped ==
  ASSUME NEW d, Typed(d), NEW from \in Dirs \ {<<>>}, NEW to \in Dirs \ {<<>>}, Under(d, to) = {}
  PROVE  Typed(Carried(d, from, to))
<1>1. \A p \in DOMAIN d : /\ New(from, to, p) \in DOMAIN Carried(d, from, to)
                           /\ Carried(d, from, to)[New(from, to, p)] = d[p]
  BY CarriedKeeps
<1>4. \A q \in DOMAIN Carried(d, from, to) : \E p \in DOMAIN d : q = New(from, to, p)
  BY CarriedKeeps
<1>5. {New(from, to, p) : p \in DOMAIN d} = DOMAIN Carried(d, from, to)
  BY <1>1, <1>4
<1>2. IsFiniteSet({New(from, to, p) : p \in DOMAIN d})
  <2> DEFINE new == [p \in DOMAIN d |-> New(from, to, p)]
             places == {New(from, to, p) : p \in DOMAIN d}
  <2>1. new \in Surjection(DOMAIN d, places)
    BY DEF Surjection
  <2>2. IsFiniteSet(DOMAIN d)
    BY DEF Typed
  <2> HIDE DEF new, places
  <2>3. IsFiniteSet(places)
    BY <2>1, <2>2, FS_Surjection
  <2> QED BY <2>3 DEF places
<1>3. ASSUME NEW p \in DOMAIN d
      PROVE  /\ New(from, to, p) \in Places
             /\ d[p].is = "face" => d[p] \in FaceTexts /\ FacePlace(New(from, to, p))
  <2>1. p \in Places /\ (d[p].is = "face" => d[p] \in FaceTexts /\ FacePlace(p))
    BY DEF Typed
  <2>2. p.dir \in Dirs /\ p.file \in Words
    BY <2>1, PlaceParts
  <2>3. /\ Atomic!Rebased(from, to, p.dir) \in Dirs
        /\ p.dir # <<>> => Atomic!Rebased(from, to, p.dir) # <<>>
    BY <2>2, RebasedTyped
  <2>4. /\ New(from, to, p) \in Places /\ New(from, to, p).dir = Atomic!Rebased(from, to, p.dir)
        /\ New(from, to, p).file = p.file
    BY <2>2, <2>3, PlaceMade DEF New
  <2> QED BY <2>1, <2>3, <2>4 DEF FacePlace
<1> QED BY <1>1, <1>2, <1>3, <1>4, <1>5 DEF Typed

\* A call leaves files at places the program makes, and faces whole.
LEMMA CallTyped ==
  ASSUME NEW d, Typed(d), NEW c, CallOK(c), Possible(d, c)
  PROVE  Typed(DiskAfter(d, c))
<1>1. CASE c.do \in {"put", "create"}
  <2>1. c.at \in Places /\ (c.text.is = "face" => c.text \in FaceTexts /\ FacePlace(c.at))
    BY <1>1 DEF CallOK
  <2>2. Typed(Set(d, c.at, c.text))
    BY <2>1, SetTyped
  <2> QED BY <1>1, <2>2, DiskAfterIs, Zenon
<1>2. ASSUME NEW places, places \subseteq DOMAIN d PROVE Typed(Only(d, places))
  BY <1>2, OnlyTyped
<1>3. CASE c.do \in {"drop", "discard"}
  <2>1. Typed(Only(d, DOMAIN d \ {c.at}))
    BY <1>2
  <2> QED BY <1>3, <2>1, DiskAfterIs, Zenon
<1>4. CASE c.do = "move"
  <2>1. Under(d, c.to) = {} /\ c.from \in Dirs \ {<<>>} /\ c.to \in Dirs \ {<<>>}
    BY <1>4, PossibleIs DEF CallOK
  <2>2. Typed(Carried(d, c.from, c.to))
    BY <2>1, CarriedTyped
  <2> QED BY <1>4, <2>2, DiskAfterIs, Zenon
<1>5. CASE c.do = "rename"
  <2> DEFINE o == Only(d, DOMAIN d \ {c.at})
  <2>1. Typed(o) /\ c.at \in DOMAIN d
    BY <1>2, <1>5, PossibleIs
  <2>2. c.to \in Places /\ (d[c.at].is = "face" => d[c.at] \in FaceTexts /\ FacePlace(c.to))
    BY <1>5, <2>1 DEF CallOK, Typed
  <2> HIDE DEF o
  <2>3. Typed(Set(o, c.to, d[c.at]))
    BY <2>1, <2>2, SetTyped
  <2>4. DiskAfter(d, c) = Set(o, c.to, d[c.at])
    BY <1>5, DiskAfterIs, Zenon DEF o
  <2> QED BY <2>3, <2>4
<1>6. CASE c.do = "trash"
  <2>1. Typed(Only(d, DOMAIN d \ Under(d, c.from)))
    BY <1>2
  <2> QED BY <1>6, <2>1, DiskAfterIs, Zenon
<1>7. CASE c.do \notin {"put", "create", "drop", "discard", "move", "rename", "trash"}
  BY <1>7, DiskAfterIs
<1> QED BY <1>1, <1>3, <1>4, <1>5, <1>6, <1>7

LEMMA NoHandHere ==
  ASSUME NEW d, Typed(d), NEW p \in DOMAIN d, ~FacePlace(p)
  PROVE  Hand(d[p]) = "none"
BY DEF Typed, Hand

\* A call loses no line, if what it replaces is safe or says the same.
LEMMA CallKeeps ==
  ASSUME NEW d, Typed(d), NEW c, CallOK(c), Possible(d, c), NEW t, NEW safe, "none" \in safe,
         Hands(TrashAfter(d, t, c)) \subseteq safe,
         c.do = "put" /\ c.at \in DOMAIN d => Hand(d[c.at]) \in safe \cup {Hand(c.text)},
         c.do = "rename" /\ c.to \in DOMAIN d => Hand(d[c.to]) \in safe
  PROVE  HandsOn(d) \subseteq safe \cup HandsOn(DiskAfter(d, c))
<1> DEFINE e == DiskAfter(d, c)
<1> SUFFICES ASSUME NEW p \in DOMAIN d PROVE Hand(d[p]) \in safe \cup HandsOn(e)
  BY DEF HandsOn
<1>1. \A q \in DOMAIN e : Hand(e[q]) \in HandsOn(e)
  BY DEF HandsOn
<1>2. CASE c.do \in {"put", "create"}
  <2>1. /\ c.at \in DOMAIN e /\ e[c.at] = c.text
        /\ \A q \in DOMAIN d \ {c.at} : q \in DOMAIN e /\ e[q] = d[q]
    <3>2. e = Set(d, c.at, c.text)
      BY <1>2, DiskAfterIs, Zenon
    <3> DEFINE f == Set(d, c.at, c.text)
    <3>3. DOMAIN f = DOMAIN d \cup {c.at} /\ f[c.at] = c.text /\ \A q \in DOMAIN d \ {c.at} : f[q] = d[q]
      BY DEF Set
    <3> HIDE DEF e, f
    <3>4. e = f
      BY <3>2 DEF f
    <3> QED BY <3>3, <3>4
  <2>2. c.do = "create" => c.at \notin DOMAIN d
    BY PossibleIs
  <2> HIDE DEF e
  <2> QED BY <1>1, <1>2, <2>1, <2>2
<1>3. CASE c.do \in {"drop", "discard"}
  <2>1. \A q \in DOMAIN d \ {c.at} : q \in DOMAIN e /\ e[q] = d[q]
    <3>1. e = Only(d, DOMAIN d \ {c.at}) /\ DOMAIN d \ {c.at} \subseteq DOMAIN d
      BY <1>3, DiskAfterIs, Zenon
    <3> HIDE DEF e
    <3> QED BY <3>1, OnlyTyped
  <2>2. p = c.at /\ c.do = "drop" => Hand(d[p]) = "none"
    BY NoHandHere DEF CallOK
  <2>3. c.do = "discard" => TrashAfter(d, t, c) = t \cup {d[c.at]}
    BY DEF TrashAfter
  <2>4. p = c.at /\ c.do = "discard" => Hand(d[p]) \in safe
    BY <2>3, HandsAre
  <2> HIDE DEF e
  <2> QED BY <1>1, <1>3, <2>1, <2>2, <2>4
<1>4. CASE c.do = "move"
  <2>1. /\ e = Carried(d, c.from, c.to) /\ Under(d, c.to) = {}
        /\ c.from \in Dirs \ {<<>>} /\ c.to \in Dirs \ {<<>>}
    BY <1>4, DiskAfterIs, PossibleIs DEF CallOK
  <2>2. New(c.from, c.to, p) \in DOMAIN e /\ e[New(c.from, c.to, p)] = d[p]
    <3> HIDE DEF e
    <3>1. \A q \in DOMAIN d : /\ New(c.from, c.to, q) \in DOMAIN Carried(d, c.from, c.to)
                               /\ Carried(d, c.from, c.to)[New(c.from, c.to, q)] = d[q]
      BY <2>1, CarriedKeeps
    <3> QED BY <2>1, <3>1
  <2> HIDE DEF e
  <2> QED BY <1>1, <2>2
<1>5. CASE c.do = "rename"
  <2> DEFINE o == Only(d, DOMAIN d \ {c.at})
  <2>1. Typed(o) /\ c.at \in DOMAIN d /\ DOMAIN o = DOMAIN d \ {c.at} /\ \A q \in DOMAIN o : o[q] = d[q]
    BY <1>5, OnlyTyped, PossibleIs
  <2>2. c.to \in Places /\ (d[c.at].is = "face" => d[c.at] \in FaceTexts /\ FacePlace(c.to))
    BY <1>5, <2>1 DEF CallOK, Typed
  <2>3. e = Set(o, c.to, d[c.at])
    BY <1>5, DiskAfterIs
  <2> HIDE DEF o, e
  <2>4. /\ c.to \in DOMAIN e /\ e[c.to] = d[c.at]
        /\ \A q \in DOMAIN d \ {c.at, c.to} : q \in DOMAIN e /\ e[q] = d[q]
    <3> DEFINE f == Set(o, c.to, d[c.at])
    <3>1. DOMAIN f = DOMAIN o \cup {c.to} /\ f[c.to] = d[c.at] /\ \A q \in DOMAIN o \ {c.to} : f[q] = o[q]
      BY DEF Set
    <3>2. e = f
      BY <2>3
    <3> HIDE DEF f
    <3> QED BY <2>1, <3>1, <3>2
  <2> QED BY <1>1, <1>5, <2>4
<1>6. CASE c.do = "trash"
  <2>1. \A q \in DOMAIN d \ Under(d, c.from) : q \in DOMAIN e /\ e[q] = d[q]
    <3>1. e = Only(d, DOMAIN d \ Under(d, c.from)) /\ DOMAIN d \ Under(d, c.from) \subseteq DOMAIN d
      BY <1>6, DiskAfterIs, Zenon
    <3> HIDE DEF e
    <3> QED BY <3>1, OnlyTyped
  <2>2. TrashAfter(d, t, c) = t \cup {d[q] : q \in Under(d, c.from)}
    BY <1>6 DEF TrashAfter
  <2>3. p \in Under(d, c.from) => Hand(d[p]) \in safe
    BY <2>2, HandsAre
  <2> HIDE DEF e
  <2> QED BY <1>1, <2>1, <2>3
<1>7. CASE c.do \notin {"put", "create", "drop", "discard", "move", "rename", "trash"}
  <2>1. e = d
    BY <1>7, DiskAfterIs
  <2> HIDE DEF e
  <2> QED BY <1>1, <2>1
<1> QED BY <1>2, <1>3, <1>4, <1>5, <1>6, <1>7

LEMMA TrashGrows ==
  ASSUME NEW d, NEW t, NEW c
  PROVE  t \subseteq TrashAfter(d, t, c)
BY DEF TrashAfter

\* A line that is on the disk stays there, or is safe.
LEMMA HandsStay ==
  ASSUME HandTextKept, trash \subseteq trash', shed \subseteq shed',
         HandsOn(disk) \subseteq Gone' \cup HandsOn(disk')
  PROVE  HandTextKept'
<1> SUFFICES ASSUME NEW h \in Hands({Start[p] : p \in DOMAIN Start})
             PROVE  h \in Hands({disk'[p] : p \in DOMAIN disk'}) \cup Hands(trash') \cup shed'
  BY DEF HandTextKept
<1>1. h # "none" /\ (h \in Hands({disk[p] : p \in DOMAIN disk}) \/ h \in Hands(trash) \/ h \in shed)
  BY HandsAre DEF HandTextKept
<1>2. h \in Hands(trash) => h \in Hands(trash')
  BY HandsAre
<1>3. CASE h \in Hands({disk[p] : p \in DOMAIN disk})
  <2>1. h \in HandsOn(disk)
    BY <1>3, HandsAre DEF HandsOn
  <2>2. CASE h \in Gone'
    BY <1>1, <2>2 DEF Gone
  <2>3. CASE h \in HandsOn(disk')
    BY <1>1, <2>3, HandsAre DEF HandsOn
  <2> QED BY <2>1, <2>2, <2>3
<1> QED BY <1>1, <1>2, <1>3

-----------------------------------------------------------------------------
(* Calls that are pending. Whichever of them still run, no line is lost.     *)

IsSeq(s) == \E S : s \in Seq(S)
Writes(calls) == {c \in calls : c.do \in {"put", "create"}}
Moves(calls) == {c \in calls : c.do = "move"}

\* A put replaces a text whose line is safe, or repeats it.
Fits(calls, d, safe) ==
  \A c \in calls : c.do = "put" =>
    /\ c.at \in DOMAIN d => Hand(d[c.at]) \in safe \cup {Hand(c.text)}
    /\ \A w \in Writes(calls) : w.at = c.at => Hand(w.text) \in safe \cup {Hand(c.text)}

\* A rename replaces nothing, not even after the move that comes before it.
Free(calls, d, p) == p \notin DOMAIN d /\ \A w \in Writes(calls) : w.at # p
Clear(calls, d) ==
  \A c \in calls : c.do = "rename" =>
    /\ Free(calls, d, c.to)
    /\ \A m \in Moves(calls) : m.to = c.to.dir /\ Free(calls, d, At(m.from, c.to.file))

Harmless(calls, d, safe) ==
  (\A c \in calls : CallOK(c)) /\ Fits(calls, d, safe) /\ Clear(calls, d)

\* Undoing calls: puts and drops, then a move, then a rename.
Backward(u) ==
  /\ IsSeq(u)
  /\ \A i \in 1..Len(u) :
       /\ u[i].do \in {"put", "drop", "move", "rename"}
       /\ \A j \in 1..Len(u) : i < j => u[i].do # "rename" /\ (u[i].do = "move" => u[j].do = "rename")

CalmStep(s) ==
  /\ s.call.do \in {"put", "create", "drop", "stash", "discard", "check", "refuse", "trash"}
  /\ Backward(s.undo)
  /\ s.tears => s.call.do \in {"put", "create"}
  /\ s.call.do = "stash" => s.undo = <<>> \/ Hand(s.call.text) = "none"
Pending(steps) == {s.call : s \in steps} \cup UNION {ToSet(s.undo) : s \in steps}
Stashed(plan) ==
  IF plan # <<>> /\ Head(plan).call.do = "stash" THEN {Hand(Head(plan).call.text)} ELSE {}
Calm(plan, d, safe) ==
  /\ IsSeq(plan) /\ \A s \in ToSet(plan) : CalmStep(s)
  /\ Harmless(Pending(ToSet(plan)), d, safe \cup Stashed(plan))

LEMMA SeqParts ==
  ASSUME NEW s, IsSeq(s), s # <<>>
  PROVE  /\ IsSeq(Tail(s)) /\ Head(s) = s[1] /\ Len(s) \in Nat \ {0} /\ Len(Tail(s)) = Len(s) - 1
         /\ \A i \in 1..Len(Tail(s)) : Tail(s)[i] = s[i + 1]
         /\ Head(s) \in ToSet(s) /\ ToSet(Tail(s)) \subseteq ToSet(s)
<1>1. PICK S : s \in Seq(S)
  BY DEF IsSeq
<1>2. /\ Tail(s) \in Seq(S) /\ Head(s) = s[1] /\ Len(s) \in Nat \ {0} /\ Len(Tail(s)) = Len(s) - 1
      /\ \A i \in 1..Len(Tail(s)) : Tail(s)[i] = s[i + 1]
  BY <1>1, HeadTailProperties, EmptySeq, LenProperties
<1>3. DOMAIN s = 1..Len(s) /\ DOMAIN Tail(s) = 1..Len(Tail(s))
  BY <1>1, <1>2, LenProperties
<1>4. Head(s) \in ToSet(s) /\ ToSet(Tail(s)) \subseteq ToSet(s)
  BY <1>2, <1>3 DEF ToSet
<1> QED BY <1>2, <1>4 DEF IsSeq

LEMMA SetOfConcat ==
  ASSUME NEW s, IsSeq(s), NEW t, IsSeq(t)
  PROVE  /\ IsSeq(s \o t) /\ ToSet(s \o t) = ToSet(s) \cup ToSet(t)
         /\ Len(s \o t) = Len(s) + Len(t) /\ Len(s) \in Nat /\ Len(t) \in Nat
         /\ \A i \in 1..(Len(s) + Len(t)) : (s \o t)[i] = IF i <= Len(s) THEN s[i] ELSE t[i - Len(s)]
<1>1. PICK S : s \in Seq(S)
  BY DEF IsSeq
<1>2. PICK T : t \in Seq(T)
  BY DEF IsSeq
<1> DEFINE U == S \cup T
<1>3. s \in Seq(U) /\ t \in Seq(U)
  <2>1. /\ DOMAIN s = 1..Len(s) /\ Len(s) \in Nat /\ \A i \in 1..Len(s) : s[i] \in S
        /\ DOMAIN t = 1..Len(t) /\ Len(t) \in Nat /\ \A i \in 1..Len(t) : t[i] \in T
    BY <1>1, <1>2, LenProperties, ElementOfSeq
  <2>2. s = [i \in 1..Len(s) |-> s[i]] /\ t = [i \in 1..Len(t) |-> t[i]]
    BY <1>1, <1>2, <2>1
  <2> QED BY <1>1, <1>2, <2>1, <2>2
<1> HIDE DEF U
<1>4. /\ Len(s) \in Nat /\ Len(t) \in Nat /\ DOMAIN s = 1..Len(s) /\ DOMAIN t = 1..Len(t)
  BY <1>3, LenProperties
<1>5. /\ s \o t \in Seq(U) /\ Len(s \o t) = Len(s) + Len(t)
      /\ \A i \in 1..(Len(s) + Len(t)) : (s \o t)[i] = IF i <= Len(s) THEN s[i] ELSE t[i - Len(s)]
  BY <1>3, ConcatProperties
<1>6. DOMAIN (s \o t) = 1..(Len(s) + Len(t))
  BY <1>5, LenProperties
<1> DEFINE c == s \o t
<1> HIDE DEF c
<1>7. ToSet(c) = ToSet(s) \cup ToSet(t)
  <2>1. ASSUME NEW i \in DOMAIN c PROVE c[i] \in ToSet(s) \cup ToSet(t)
    <3>1. i \in 1..(Len(s) + Len(t)) /\ c[i] = IF i <= Len(s) THEN s[i] ELSE t[i - Len(s)]
      BY <1>5, <1>6 DEF c
    <3>2. CASE i <= Len(s)
      BY <1>4, <3>1, <3>2 DEF ToSet
    <3>3. CASE ~(i <= Len(s))
      <4>1. i - Len(s) \in 1..Len(t)
        BY <1>4, <3>1, <3>3
      <4> QED BY <1>4, <3>1, <3>3, <4>1 DEF ToSet
    <3> QED BY <3>2, <3>3
  <2>2. ASSUME NEW i \in DOMAIN s PROVE s[i] \in ToSet(c)
    <3>1. i \in 1..Len(s) /\ i \in 1..(Len(s) + Len(t)) /\ i <= Len(s)
      BY <1>4
    <3>2. c[i] = s[i] /\ i \in DOMAIN c
      BY <1>5, <1>6, <3>1 DEF c
    <3> QED BY <3>2 DEF ToSet
  <2>3. ASSUME NEW i \in DOMAIN t PROVE t[i] \in ToSet(c)
    <3>1. PICK k \in Nat : k = Len(s) + i
      BY <1>4
    <3>2. k \in 1..(Len(s) + Len(t)) /\ ~(k <= Len(s)) /\ k - Len(s) = i
      BY <1>4, <3>1
    <3>3. c[k] = t[i] /\ k \in DOMAIN c
      BY <1>5, <1>6, <3>2 DEF c
    <3> QED BY <3>3 DEF ToSet
  <2>4. ToSet(c) = {c[i] : i \in DOMAIN c} /\ ToSet(s) = {s[i] : i \in DOMAIN s}
        /\ ToSet(t) = {t[i] : i \in DOMAIN t}
    BY DEF ToSet
  <2> QED BY <2>1, <2>2, <2>3, <2>4
<1> QED BY <1>4, <1>5, <1>7 DEF IsSeq, c

\* Writes that agree with the disk agree with each other.
LEMMA FitsFromDisk ==
  ASSUME NEW calls, NEW d, NEW safe,
         \A w \in Writes(calls) :
           \/ Hand(w.text) \in safe /\ (w.at \in DOMAIN d => Hand(d[w.at]) \in safe)
           \/ w.at \in DOMAIN d /\ Hand(w.text) = Hand(d[w.at])
  PROVE  Fits(calls, d, safe)
<1> SUFFICES ASSUME NEW c \in calls, c.do = "put"
             PROVE  /\ c.at \in DOMAIN d => Hand(d[c.at]) \in safe \cup {Hand(c.text)}
                    /\ \A w \in Writes(calls) : w.at = c.at => Hand(w.text) \in safe \cup {Hand(c.text)}
  BY DEF Fits
<1>1. c \in Writes(calls)
  BY DEF Writes
<1> QED BY <1>1

\* Fewer calls on fewer files are harmless too, and with more that is safe.
LEMMA HarmlessFewer ==
  ASSUME NEW calls, NEW d, NEW safe, Harmless(calls, d, safe),
         NEW fewer, fewer \subseteq calls, NEW more, safe \subseteq more,
         NEW e, DOMAIN e \subseteq DOMAIN d, \A p \in DOMAIN e : e[p] = d[p]
  PROVE  Harmless(fewer, e, more)
<1>1. Writes(fewer) \subseteq Writes(calls) /\ Moves(fewer) \subseteq Moves(calls)
  BY DEF Writes, Moves
<1>2. Fits(fewer, e, more)
  BY <1>1 DEF Harmless, Fits
<1>3. \A p : Free(calls, d, p) => Free(fewer, e, p)
  BY <1>1 DEF Free
<1>4. Clear(fewer, e)
  BY <1>1, <1>3 DEF Harmless, Clear
<1> QED BY <1>2, <1>4 DEF Harmless

\* A write leaves the calls that follow harmless, also when it tears.
LEMMA HarmlessAfterWrite ==
  ASSUME NEW calls, NEW d, NEW safe, Harmless(calls, d, safe),
         NEW w \in Writes(calls), NEW text, text = w.text \/ Hand(text) \in safe
  PROVE  Harmless(calls, Set(d, w.at, text), safe)
<1> DEFINE e == Set(d, w.at, text)
<1>1. DOMAIN e = DOMAIN d \cup {w.at} /\ e[w.at] = text /\ \A q \in DOMAIN d \ {w.at} : e[q] = d[q]
  BY DEF Set
<1> HIDE DEF e
<1>2. Fits(calls, e, safe)
  <2> SUFFICES ASSUME NEW c \in calls, c.do = "put", c.at \in DOMAIN e
               PROVE  Hand(e[c.at]) \in safe \cup {Hand(c.text)}
    BY DEF Harmless, Fits
  <2>1. CASE c.at = w.at
    BY <1>1, <2>1 DEF Harmless, Fits
  <2>2. CASE c.at # w.at
    BY <1>1, <2>2 DEF Harmless, Fits
  <2> QED BY <2>1, <2>2
<1>3. \A p : Free(calls, d, p) => Free(calls, e, p)
  BY <1>1 DEF Free
<1>4. Clear(calls, e)
  BY <1>3 DEF Harmless, Clear
<1>5. Harmless(calls, e, safe)
  BY <1>2, <1>4 DEF Harmless
<1> QED BY <1>5 DEF e

\* So does the move of a rollback, after which only its rename is left.
LEMMA HarmlessAfterMove ==
  ASSUME NEW calls, NEW d, Typed(d), NEW safe, Harmless(calls, d, safe),
         NEW m \in Moves(calls), Under(d, m.to) = {},
         NEW rest, rest \subseteq calls, \A c \in rest : c.do = "rename"
  PROVE  Harmless(rest, Carried(d, m.from, m.to), safe)
<1> DEFINE e == Carried(d, m.from, m.to)
<1>0. m.from \in Dirs \ {<<>>} /\ m.to \in Dirs \ {<<>>}
  BY DEF Harmless, CallOK, Moves
<1>1. \A q \in DOMAIN e : \E p \in DOMAIN d : q = New(m.from, m.to, p)
  BY <1>0, CarriedKeeps
<1> HIDE DEF e
<1>2. Writes(rest) = {} /\ Moves(rest) = {}
  BY DEF Writes, Moves
<1>3. ASSUME NEW c \in rest PROVE c.to \notin DOMAIN e
  <2>0. c.to \in Places
    BY <1>3 DEF Harmless, CallOK
  <2>1. /\ c.to \notin DOMAIN d /\ m.to = c.to.dir /\ At(m.from, c.to.file) \notin DOMAIN d
    BY <1>3 DEF Harmless, Clear, Free
  <2>2. SUFFICES ASSUME NEW p \in DOMAIN d, c.to = New(m.from, m.to, p) PROVE FALSE
    BY <1>1
  <2>3. p.dir \in Dirs /\ p = At(p.dir, p.file)
    BY PlaceParts DEF Typed
  <2>4. c.to.dir = Atomic!Rebased(m.from, m.to, p.dir) /\ c.to.file = p.file
    BY <2>2 DEF New, At
  <2>5. CASE IsPrefix(m.from, p.dir)
    <3>1. p.dir = m.from
      BY <1>0, <2>1, <2>3, <2>4, <2>5, RebasedItself
    <3> QED BY <2>1, <2>3, <2>4, <3>1
  <2>6. CASE ~IsPrefix(m.from, p.dir)
    <3>1. c.to.dir = p.dir
      BY <2>4, <2>6, RebasedElsewhere
    <3>2. c.to = At(c.to.dir, c.to.file)
      BY <2>0, PlaceParts
    <3> QED BY <2>1, <2>3, <2>4, <3>1, <3>2
  <2> QED BY <2>5, <2>6
<1>4. Fits(rest, e, safe)
  BY DEF Fits
<1>5. Clear(rest, e)
  BY <1>2, <1>3 DEF Clear, Free
<1>6. Harmless(rest, e, safe)
  BY <1>4, <1>5 DEF Harmless
<1> QED BY <1>6 DEF e

-----------------------------------------------------------------------------
(* The steps of a request whose pending calls are harmless.                  *)

LEMMA GoneGrows ==
  ASSUME trash \subseteq trash', shed \subseteq shed'
  PROVE  Gone \subseteq Gone'
<1>1. Hands(trash) \subseteq Hands(trash')
  BY HandsAre
<1> QED BY <1>1 DEF Gone

LEMMA TrashedAreGone ==
  ASSUME NEW t, trash' = t
  PROVE  Hands(t) \subseteq Gone' /\ \A x \in t : Hand(x) \in Gone'
<1>1. Hands(t) \subseteq Gone' /\ "none" \in Gone'
  BY DEF Gone
<1> QED BY <1>1, HandsAre

LEMMA CallLosesNothing ==
  ASSUME Typed(disk), HandTextKept, NEW c, CallOK(c), Possible(disk, c),
         disk' = DiskAfter(disk, c), trash' = TrashAfter(disk, trash, c), shed \subseteq shed',
         c.do = "put" /\ c.at \in DOMAIN disk => Hand(disk[c.at]) \in Gone' \cup {Hand(c.text)},
         c.do = "rename" /\ c.to \in DOMAIN disk => Hand(disk[c.to]) \in Gone'
  PROVE  Typed(disk') /\ HandTextKept'
<1>1. Typed(DiskAfter(disk, c))
  BY CallTyped
<1>2. Hands(TrashAfter(disk, trash, c)) \subseteq Gone' /\ "none" \in Gone'
  BY TrashedAreGone DEF Gone
<1>3. trash \subseteq trash'
  BY TrashGrows
<1> DEFINE safe == Gone'
<1>4. HandsOn(disk) \subseteq safe \cup HandsOn(DiskAfter(disk, c))
  <2> HIDE DEF safe
  <2>1. /\ "none" \in safe /\ Hands(TrashAfter(disk, trash, c)) \subseteq safe
        /\ c.do = "put" /\ c.at \in DOMAIN disk => Hand(disk[c.at]) \in safe \cup {Hand(c.text)}
        /\ c.do = "rename" /\ c.to \in DOMAIN disk => Hand(disk[c.to]) \in safe
    BY <1>2 DEF safe
  <2> QED BY <2>1, CallKeeps
<1>5. HandsOn(disk) \subseteq Gone' \cup HandsOn(disk')
  BY <1>4
<1>6. HandTextKept'
  BY <1>3, <1>5, HandsStay
<1> QED BY <1>1, <1>6

\* A step that changes neither the disk nor what is safe.
LEMMA WholeLosesNothing ==
  ASSUME HandTextKept, UNCHANGED <<disk, trash>>, shed \subseteq shed'
  PROVE  HandTextKept'
<1>1. HandsOn(disk) \subseteq Gone' \cup HandsOn(disk')
  OBVIOUS
<1> QED BY <1>1, HandsStay

LEMMA CalmHead ==
  ASSUME NEW plan, plan # <<>>, NEW d, NEW safe, Calm(plan, d, safe)
  PROVE  /\ CalmStep(Head(plan)) /\ Head(plan).call \in Pending(ToSet(plan)) /\ CallOK(Head(plan).call)
         /\ Pending(ToSet(Tail(plan))) \subseteq Pending(ToSet(plan))
         /\ ToSet(Head(plan).undo) \subseteq Pending(ToSet(plan))
         /\ IsSeq(Tail(plan)) /\ \A s \in ToSet(Tail(plan)) : CalmStep(s)
<1>1. Head(plan) \in ToSet(plan) /\ ToSet(Tail(plan)) \subseteq ToSet(plan) /\ IsSeq(Tail(plan))
  BY SeqParts DEF Calm
<1> QED BY <1>1 DEF Calm, Pending, Harmless

\* A call of a calm plan loses nothing, and the rest of the plan is calm.
LEMMA CalmDo ==
  ASSUME Typed(disk), HandTextKept, Calm(todo, disk, Gone), Do
  PROVE  Typed(disk') /\ HandTextKept' /\ Calm(todo', disk', Gone')
<1> DEFINE c == Head(todo).call
           calls == Pending(ToSet(todo))
           later == Pending(ToSet(Tail(todo)))
           before1 == Gone \cup Stashed(todo)
<1>1. /\ todo # <<>> /\ todo' = Tail(todo) /\ Possible(disk, c)
      /\ disk' = DiskAfter(disk, c) /\ trash' = TrashAfter(disk, trash, c) /\ shed' = shed
  BY DEF Do
<1>2. /\ CalmStep(Head(todo)) /\ c \in calls /\ CallOK(c) /\ later \subseteq calls
      /\ IsSeq(todo') /\ \A s \in ToSet(todo') : CalmStep(s)
  BY <1>1, CalmHead
<1>3. c.do \in {"put", "create", "drop", "stash", "discard", "check", "refuse", "trash"}
  BY <1>2 DEF CalmStep
<1>4. Gone \subseteq Gone'
  BY <1>1, TrashGrows, GoneGrows
<1>5. before1 \subseteq Gone'
  <2>1. CASE c.do = "stash"
    <3>1. trash' = trash \cup {c.text} /\ Stashed(todo) = {Hand(c.text)}
      BY <1>1, <2>1 DEF TrashAfter, Stashed
    <3> QED BY <1>4, <3>1, TrashedAreGone
  <2>2. CASE c.do # "stash"
    BY <1>4, <2>2 DEF Stashed
  <2> QED BY <2>1, <2>2
<1>6. Harmless(calls, disk, before1)
  BY DEF Calm
<1>7. c.do = "put" /\ c.at \in DOMAIN disk => Hand(disk[c.at]) \in Gone' \cup {Hand(c.text)}
  BY <1>2, <1>5, <1>6 DEF Harmless, Fits
<1>8. Typed(disk') /\ HandTextKept'
  <2> HIDE DEF c
  <2> QED BY <1>1, <1>2, <1>3, <1>7, CallLosesNothing
<1> HIDE DEF c, calls, later, before1
<1>9. Harmless(later, disk', Gone' \cup Stashed(todo'))
  <2>1. CASE c.do \in {"put", "create"}
    <3>1. Harmless(calls, Set(disk, c.at, c.text), before1)
      <4>1. c \in Writes(calls)
        BY <1>2, <2>1 DEF Writes
      <4> QED BY <1>6, <4>1, HarmlessAfterWrite
    <3>2. disk' = Set(disk, c.at, c.text)
      BY <1>1, <2>1, DiskAfterIs, Zenon
    <3> QED BY <1>2, <1>5, <3>1, <3>2, HarmlessFewer
  <2>2. ASSUME NEW places, places \subseteq DOMAIN disk, disk' = Only(disk, places)
        PROVE  Harmless(later, disk', Gone' \cup Stashed(todo'))
    <3>1. DOMAIN disk' \subseteq DOMAIN disk /\ \A p \in DOMAIN disk' : disk'[p] = disk[p]
      BY <2>2 DEF Only
    <3> QED BY <1>2, <1>5, <1>6, <3>1, HarmlessFewer
  <2>3. CASE c.do \in {"drop", "discard"}
    <3>1. disk' = Only(disk, DOMAIN disk \ {c.at})
      BY <1>1, <2>3, DiskAfterIs, Zenon
    <3> QED BY <2>2, <3>1
  <2>4. CASE c.do = "trash"
    <3>1. disk' = Only(disk, DOMAIN disk \ Under(disk, c.from))
      BY <1>1, <2>4, DiskAfterIs, Zenon
    <3> QED BY <2>2, <3>1
  <2>5. CASE c.do \in {"stash", "check", "refuse"}
    <3>1. disk' = disk
      BY <1>1, <2>5, DiskAfterIs
    <3> QED BY <1>2, <1>5, <1>6, <3>1, HarmlessFewer
  <2> QED BY <1>3, <2>1, <2>3, <2>4, <2>5
<1> QED BY <1>1, <1>2, <1>8, <1>9 DEF Calm, later

\* What a step of such a plan leaves to undo is harmless too.
LEMMA CalmUndo ==
  ASSUME todo # <<>>, Calm(todo, disk, Gone)
  PROVE  Backward(Head(todo).undo) /\ Harmless(ToSet(Head(todo).undo), disk, Gone)
<1> DEFINE s == Head(todo)
           calls == Pending(ToSet(todo))
<1>1. CalmStep(s) /\ ToSet(s.undo) \subseteq calls
  BY CalmHead
<1>2. Harmless(calls, disk, Gone \cup Stashed(todo))
  BY DEF Calm
<1>3. CASE Stashed(todo) \subseteq Gone
  <2>1. Gone \cup Stashed(todo) \subseteq Gone
    BY <1>3
  <2> HIDE DEF s, calls
  <2> QED BY <1>1, <1>2, <2>1, HarmlessFewer DEF CalmStep, s
<1>4. CASE s.undo = <<>>
  <2>1. ToSet(s.undo) = {}
    BY <1>4 DEF ToSet
  <2>2. Harmless({}, disk, Gone)
    BY DEF Harmless, Fits, Clear
  <2> QED BY <1>1, <2>1, <2>2 DEF CalmStep
<1>5. Stashed(todo) \subseteq Gone \/ s.undo = <<>>
  BY <1>1 DEF Stashed, CalmStep, Gone
<1> QED BY <1>3, <1>4, <1>5

\* So does a write that stops halfway: what it tears is counted as shed.
LEMMA CalmTears ==
  ASSUME Typed(disk), HandTextKept, todo # <<>>, Calm(todo, disk, Gone), Tears(Head(todo)), trash' = trash
  PROVE  /\ Typed(disk') /\ HandTextKept'
         /\ Harmless(ToSet(Head(todo).undo), disk', Gone')
<1> DEFINE c == Head(todo).call
           calls == Pending(ToSet(todo))
           u == Head(todo).undo
<1>1. /\ disk' = Set(disk, c.at, Torn) /\ shed \subseteq shed'
      /\ shed' = shed \cup Hands({disk[p] : p \in {c.at} \cap DOMAIN disk})
  BY DEF Tears
<1>2. /\ c \in calls /\ CallOK(c) /\ c.do \in {"put", "create"} /\ ToSet(u) \subseteq calls
  BY CalmHead DEF CalmStep, Tears
<1>3. Torn.is # "face" /\ Hand(Torn) = "none" /\ c.at \in Places
  BY <1>2 DEF Torn, Hand, CallOK
<1>4. Typed(disk')
  <2>1. Typed(Set(disk, c.at, Torn))
    BY <1>3, SetTyped
  <2> QED BY <1>1, <2>1
<1>5. Gone \subseteq Gone' /\ "none" \in Gone
  BY <1>1, GoneGrows DEF Gone
<1>6. HandsOn(disk) \subseteq Gone' \cup HandsOn(disk')
  <2> SUFFICES ASSUME NEW p \in DOMAIN disk PROVE Hand(disk[p]) \in Gone' \cup HandsOn(disk')
    BY DEF HandsOn
  <2>1. CASE p = c.at
    <3>1. Hand(disk[p]) = "none" \/ Hand(disk[p]) \in Hands({disk[q] : q \in {c.at} \cap DOMAIN disk})
      BY <2>1, HandsAre
    <3> QED BY <1>1, <3>1 DEF Gone
  <2>2. CASE p # c.at
    <3>1. p \in DOMAIN disk' /\ disk'[p] = disk[p]
      BY <1>1, <2>2 DEF Set
    <3> QED BY <3>1 DEF HandsOn
  <2> QED BY <2>1, <2>2
<1>7. HandTextKept'
  BY <1>1, <1>6, HandsStay
<1>8. c \in Writes(calls)
  BY <1>2 DEF Writes
<1>9. Stashed(todo) = {}
  BY <1>2 DEF Stashed
<1>10. Harmless(calls, disk, Gone)
  BY <1>9 DEF Calm
<1> HIDE DEF c, calls, u
<1>11. Harmless(calls, Set(disk, c.at, Torn), Gone)
  BY <1>3, <1>5, <1>8, <1>10, HarmlessAfterWrite
<1>12. Harmless(ToSet(u), disk', Gone')
  BY <1>1, <1>2, <1>5, <1>11, HarmlessFewer
<1> QED BY <1>4, <1>7, <1>12 DEF u

\* An undoing call loses nothing, whether it runs, fails or is impossible.
LEMMA UndoKeeps ==
  ASSUME Typed(disk), HandTextKept, undoing # <<>>, Backward(undoing), Harmless(ToSet(undoing), disk, Gone),
         undoing' = Tail(undoing), UNCHANGED <<trash, shed>>,
         \/ Possible(disk, Head(undoing)) /\ disk' = DiskAfter(disk, Head(undoing))
         \/ UNCHANGED disk
  PROVE  Typed(disk') /\ HandTextKept' /\ Backward(undoing') /\ Harmless(ToSet(undoing'), disk', Gone')
<1> DEFINE c == Head(undoing)
           calls == ToSet(undoing)
           rest == ToSet(Tail(undoing))
<1>1. /\ IsSeq(undoing) /\ IsSeq(Tail(undoing)) /\ c = undoing[1] /\ Len(undoing) \in Nat \ {0}
      /\ Len(Tail(undoing)) = Len(undoing) - 1
      /\ \A i \in 1..Len(Tail(undoing)) : Tail(undoing)[i] = undoing[i + 1]
      /\ c \in calls /\ rest \subseteq calls
  BY SeqParts DEF Backward
<1>2. c.do \in {"put", "drop", "move", "rename"} /\ CallOK(c)
  BY <1>1 DEF Backward, Harmless
<1>3. Backward(undoing')
  <2> DEFINE t == Tail(undoing)
  <2> HIDE DEF t
  <2>0. /\ IsSeq(t) /\ Len(t) = Len(undoing) - 1 /\ \A i \in 1..Len(t) : t[i] = undoing[i + 1]
    BY <1>1 DEF t
  <2>1. ASSUME NEW i \in 1..Len(t), NEW j \in 1..Len(t)
        PROVE  /\ t[i].do \in {"put", "drop", "move", "rename"}
               /\ i < j => t[i].do # "rename" /\ (t[i].do = "move" => t[j].do = "rename")
    <3>1. i + 1 \in 1..Len(undoing) /\ j + 1 \in 1..Len(undoing) /\ (i < j => i + 1 < j + 1)
      BY <1>1, <2>0
    <3> QED BY <2>0, <3>1 DEF Backward
  <2>2. Backward(t)
    BY <2>0, <2>1 DEF Backward
  <2> QED BY <2>2 DEF t
<1>4. Gone' = Gone
  BY DEF Gone
<1>5. DOMAIN Tail(undoing) = 1..Len(Tail(undoing))
  BY <1>1, LenProperties DEF IsSeq
<1>6. \A x \in rest : \E j \in 2..Len(undoing) : x = undoing[j]
  <2> SUFFICES ASSUME NEW i \in 1..Len(Tail(undoing))
               PROVE  \E j \in 2..Len(undoing) : Tail(undoing)[i] = undoing[j]
    BY <1>5 DEF ToSet
  <2>1. i + 1 \in 2..Len(undoing)
    BY <1>1
  <2> QED BY <1>1, <2>1
<1>7. /\ c.do = "move" => \A x \in rest : x.do = "rename"
      /\ c.do = "rename" => rest = {}
  <2>1. ASSUME NEW j \in 2..Len(undoing)
        PROVE  c.do # "rename" /\ (c.do = "move" => undoing[j].do = "rename")
    <3>1. 1 \in 1..Len(undoing) /\ j \in 1..Len(undoing) /\ 1 < j
      BY <1>1
    <3> QED BY <1>1, <3>1 DEF Backward
  <2> QED BY <1>6, <2>1
<1>8. CASE UNCHANGED disk
  <2>1. Harmless(rest, disk', Gone')
    <3> HIDE DEF calls, rest
    <3> QED BY <1>1, <1>4, <1>8, HarmlessFewer DEF calls
  <2>2. HandTextKept'
    BY <1>8, WholeLosesNothing
  <2> QED BY <1>3, <1>8, <2>1, <2>2
<1>9. CASE Possible(disk, c) /\ disk' = DiskAfter(disk, c)
  <2>1. /\ c.do = "put" /\ c.at \in DOMAIN disk => Hand(disk[c.at]) \in Gone' \cup {Hand(c.text)}
        /\ c.do = "rename" => c.to \notin DOMAIN disk
    BY <1>1, <1>4 DEF Harmless, Fits, Clear, Free
  <2>2. trash' = TrashAfter(disk, trash, c)
    BY <1>2 DEF TrashAfter
  <2>3. Typed(disk') /\ HandTextKept'
    <3> HIDE DEF c
    <3> QED BY <1>2, <1>9, <2>1, <2>2, CallLosesNothing
  <2> HIDE DEF c, calls, rest
  <2>0. Harmless(calls, disk, Gone)
    BY DEF calls
  <2>4. Harmless(rest, disk', Gone)
    <3>1. CASE c.do = "put"
      <4>1. c \in Writes(calls)
        BY <1>1, <3>1 DEF Writes
      <4>2. Harmless(calls, Set(disk, c.at, c.text), Gone)
        BY <2>0, <4>1, HarmlessAfterWrite
      <4>3. disk' = Set(disk, c.at, c.text)
        BY <1>9, <3>1, DiskAfterIs, Zenon
      <4> QED BY <1>1, <4>2, <4>3, HarmlessFewer
    <3>2. CASE c.do = "drop"
      <4>1. disk' = Only(disk, DOMAIN disk \ {c.at})
        BY <1>9, <3>2, DiskAfterIs, Zenon
      <4>2. DOMAIN disk' \subseteq DOMAIN disk /\ \A p \in DOMAIN disk' : disk'[p] = disk[p]
        BY <4>1 DEF Only
      <4> QED BY <1>1, <2>0, <4>2, HarmlessFewer
    <3>3. CASE c.do = "move"
      <4>1. disk' = Carried(disk, c.from, c.to) /\ Under(disk, c.to) = {} /\ c \in Moves(calls)
        BY <1>1, <1>9, <3>3, DiskAfterIs, PossibleIs DEF Moves
      <4>2. Harmless(rest, Carried(disk, c.from, c.to), Gone)
        BY <1>1, <1>7, <2>0, <3>3, <4>1, HarmlessAfterMove
      <4> QED BY <4>1, <4>2
    <3>4. CASE c.do = "rename"
      BY <1>7, <3>4 DEF Harmless, Fits, Clear
    <3> QED BY <1>2, <3>1, <3>2, <3>3, <3>4
  <2> QED BY <1>3, <1>4, <2>3, <2>4 DEF rest
<1> QED BY <1>8, <1>9

-----------------------------------------------------------------------------
(* What a request names, and the texts its plan writes.                      *)

\* A module directory with its face in it.
Faced(d, dir) ==
  /\ dir \in Dirs \ {<<>>} /\ FaceFile(dir) \in DOMAIN d /\ FaceFile(dir) \in Places
  /\ FacePlace(FaceFile(dir)) /\ d[FaceFile(dir)] \in FaceTexts
FreshName(name) == name \in Words \ {"registry_rule"}
AskedFace(face) == face.kind \in Kinds /\ face.owns \in BOOLEAN

LEMMA FaceFileIs ==
  ASSUME NEW dir
  PROVE  FaceFile(dir) = At(dir, Last(dir)) /\ FaceFile(dir).dir = dir /\ FaceFile(dir).file = Last(dir)
BY DEF FaceFile, At

LEMMA ViewedAreFaced ==
  ASSUME NEW d, Typed(d), NEW dir \in DOMAIN View(d).faces
  PROVE  Faced(d, dir)
<1>1. PICK p \in Standard(d) : dir = p.dir
  BY DEF View
<1>2. /\ p \in DOMAIN d /\ dir # <<>> /\ p.file = Last(dir) /\ d[p].is = "face"
  BY <1>1 DEF Standard
<1>3. p \in Places /\ d[p] \in FaceTexts /\ FacePlace(p)
  BY <1>2 DEF Typed
<1>4. p = FaceFile(dir) /\ dir \in Dirs
  BY <1>1, <1>2, <1>3, PlaceParts DEF FaceFile
<1> QED BY <1>2, <1>3, <1>4 DEF Faced

LEMMA FacedName ==
  ASSUME NEW d, NEW dir, Faced(d, dir)
  PROVE  FreshName(Last(dir)) /\ d[FaceFile(dir)].is = "face"
<1>1. Last(dir) # "registry_rule"
  BY FaceFileIs DEF Faced, FacePlace
<1>2. Last(dir) \in Words
  BY DirParts DEF Faced
<1> QED BY <1>1, <1>2 DEF FreshName, Faced, FaceTexts

\* The parts of a request, as the registry it was read against has them.
LEMMA RequestParts ==
  ASSUME NEW d, Typed(d), NEW r \in Atomic!Requests(View(d))
  PROVE  /\ r.op \in {"create", "edit", "promote", "delete", "deepen", "cut", "graft", "retire", "move", "plugin"}
         /\ r.op \notin {"create", "plugin"} => Faced(d, r.dir)
         /\ r.op = "create" => /\ r.dir \in Dirs \ {<<>>} /\ Front(r.dir) \in Dirs
                               /\ FreshName(Last(r.dir))
         /\ r.op \in {"edit", "move"} => FreshName(r.name)
         /\ r.op \in {"create", "edit", "promote"} => AskedFace(r.face)
         /\ r.op = "move" => r.to \in Dirs
<1> DEFINE faces == DOMAIN View(d).faces
           wanted == [kind : Kinds, owns : BOOLEAN, rule : Atomic!Rules]
<1>1. \A dir \in faces : Faced(d, dir) /\ FreshName(Last(dir))
  BY ViewedAreFaced, FacedName
<1>2. faces \cup {<<>>} \subseteq Dirs
  BY <1>1, EmptySeq DEF Faced, Dirs
<1>3. \A n \in Names : FreshName(n)
  BY AuthoringAssumption DEF FreshName
<1> HIDE DEF faces
<1>4. \/ r \in [op : {"create"}, dir : {Append(x, n) : x \in faces \cup {<<>>}, n \in Names}, face : wanted]
      \/ \E x \in faces : r \in [op : {"edit"}, dir : {x}, name : Names \cup {Last(x)}, face : wanted]
      \/ r \in [op : {"promote"}, dir : faces, face : wanted]
      \/ r \in [op : {"delete", "deepen", "cut", "graft", "retire"}, dir : faces]
      \/ \E x \in faces : r \in [op : {"move"}, dir : {x}, to : faces \cup {<<>>}, name : Names \cup {Last(x)}]
      \/ r \in [op : {"plugin"}, dir : {<<>>}]
  <2> DEFINE creates == [op : {"create"}, dir : {Append(x, n) : x \in faces \cup {<<>>}, n \in Names}, face : wanted]
             edits(x) == [op : {"edit"}, dir : {x}, name : Names \cup {Last(x)}, face : wanted]
             promotes == [op : {"promote"}, dir : faces, face : wanted]
             others == [op : {"delete", "deepen", "cut", "graft", "retire"}, dir : faces]
             moves(x) == [op : {"move"}, dir : {x}, to : faces \cup {<<>>}, name : Names \cup {Last(x)}]
             plugins == [op : {"plugin"}, dir : {<<>>}]
  <2>1. Atomic!Requests(View(d)) =
          creates \cup (UNION {edits(x) : x \in faces}) \cup promotes \cup others
            \cup (UNION {moves(x) : x \in faces}) \cup plugins
    BY DEF Atomic!Requests, Atomic!Last, Last, faces
  <2> HIDE DEF creates, edits, promotes, others, moves, plugins
  <2>2. \/ r \in creates \/ (\E x \in faces : r \in edits(x)) \/ r \in promotes \/ r \in others
        \/ (\E x \in faces : r \in moves(x)) \/ r \in plugins
    BY <2>1
  <2> QED BY <2>2 DEF creates, edits, promotes, others, moves, plugins
<1>5. CASE r \in [op : {"create"}, dir : {Append(x, n) : x \in faces \cup {<<>>}, n \in Names}, face : wanted]
  <2>1. PICK x \in faces \cup {<<>>}, n \in Names : r.dir = Append(x, n)
    BY <1>5
  <2>2. x \in Dirs /\ n \in Words /\ FreshName(n)
    BY <1>2, <1>3 DEF FreshName
  <2>3. r.dir \in Dirs /\ r.dir # <<>> /\ Last(r.dir) = n
    BY <2>1, <2>2, DirExtended
  <2>4. Front(r.dir) \in Dirs
    BY <2>3, DirParts
  <2> QED BY <1>5, <2>2, <2>3, <2>4 DEF AskedFace
<1>6. CASE \E x \in faces : r \in [op : {"edit"}, dir : {x}, name : Names \cup {Last(x)}, face : wanted]
  BY <1>1, <1>3, <1>6 DEF AskedFace
<1>7. CASE r \in [op : {"promote"}, dir : faces, face : wanted]
  BY <1>1, <1>7 DEF AskedFace
<1>8. CASE r \in [op : {"delete", "deepen", "cut", "graft", "retire"}, dir : faces]
  BY <1>1, <1>8
<1>9. CASE \E x \in faces : r \in [op : {"move"}, dir : {x}, to : faces \cup {<<>>}, name : Names \cup {Last(x)}]
  BY <1>1, <1>2, <1>3, <1>9
<1>10. CASE r \in [op : {"plugin"}, dir : {<<>>}]
  BY <1>10
<1> QED BY <1>4, <1>5, <1>6, <1>7, <1>8, <1>9, <1>10

LEMMA FaceTyped ==
  ASSUME NEW kind \in Kinds, NEW parent \in Dirs, NEW owns \in BOOLEAN, NEW rule
  PROVE  Face(kind, parent, owns, rule) \in FaceTexts /\ Face(kind, parent, owns, rule).hand = "none"
<1>1. parent # <<>> => Last(parent) \in Words
  BY DirParts
<1> DEFINE alias == IF parent = <<>> THEN "root" ELSE Last(parent)
           names == owns \/ rule # "ANY"
<1>2. Face(kind, parent, owns, rule) =
        [is |-> "face", kind |-> kind, parent |-> parent, alias |-> alias,
         owns |-> owns, names |-> names, deep |-> FALSE, hand |-> "none"]
  BY DEF Face, Atomic!Written, Atomic!Last, Last
<1>3. alias \in Words /\ "none" \in Words
  BY <1>1 DEF Words
<1>4. names \in BOOLEAN
  OBVIOUS
<1> HIDE DEF alias, names
<1> QED BY <1>2, <1>3, <1>4 DEF FaceTexts, Dirs

LEMMA RenderedTyped ==
  ASSUME NEW d, NEW r, Faced(d, r.dir), AskedFace(r.face)
  PROVE  Rendered(d, r) \in FaceTexts /\ Hand(Rendered(d, r)) = "none"
<1> DEFINE old == d[FaceFile(r.dir)]
           text == Face(r.face.kind, old.parent, r.face.owns, r.face.rule)
<1>1. old.parent \in Dirs /\ old.alias \in Words
  BY DEF Faced, FaceTexts, Dirs
<1>2. text \in FaceTexts /\ text.hand = "none"
  BY <1>1, FaceTyped DEF AskedFace
<1>3. Rendered(d, r) = [text EXCEPT !.alias = old.alias]
  BY DEF Rendered
<1> HIDE DEF text, old
<1>4. [text EXCEPT !.alias = old.alias] \in FaceTexts /\ [text EXCEPT !.alias = old.alias].hand = "none"
  BY <1>1, <1>2 DEF FaceTexts
<1> QED BY <1>3, <1>4 DEF Hand, FaceTexts

\* What a request gives up is safe.
LEMMA GivenHas ==
  ASSUME NEW d, NEW r, NEW safe, "none" \in safe, Given(d, r) \subseteq safe, NEW p \in DOMAIN d,
         \/ r.op \in {"edit", "promote"} /\ p = FaceFile(r.dir) /\ (Renames(r) \/ r.face.kind # d[p].kind)
         \/ Renames(r) /\ p = At(r.dir, r.name)
  PROVE  Hand(d[p]) \in safe
<1> DEFINE replaced ==
        {q \in DOMAIN d :
           \/ r.op \in {"edit", "promote"} /\ q = FaceFile(r.dir)
              /\ (Renames(r) \/ r.face.kind # d[q].kind)
           \/ Renames(r) /\ q = At(r.dir, r.name)}
<1>1. Given(d, r) = Hands({d[q] : q \in replaced})
  BY DEF Given
<1>2. p \in replaced
  OBVIOUS
<1> HIDE DEF replaced
<1>3. d[p] \in {d[q] : q \in replaced}
  BY <1>2
<1> DEFINE texts == {d[q] : q \in replaced}
<1> HIDE DEF texts
<1>4. Given(d, r) = Hands(texts) /\ d[p] \in texts
  BY <1>1, <1>3 DEF texts
<1> QED BY <1>4, HandsAre

-----------------------------------------------------------------------------
(* Plans that replace only what is safe.                                     *)

\* A write agrees with the disk: both say safe lines, or the same.
Agrees(w, d, safe) ==
  \/ Hand(w.text) \in safe /\ (w.at \in DOMAIN d => Hand(d[w.at]) \in safe)
  \/ w.at \in DOMAIN d /\ Hand(w.text) = Hand(d[w.at])
Fine(c, d, safe) ==
  /\ CallOK(c) /\ c.do # "rename"
  /\ c.do \in {"put", "create"} => Agrees(c, d, safe)
FineStep(s, d, safe) ==
  CalmStep(s) /\ \A c \in {s.call} \cup ToSet(s.undo) : Fine(c, d, safe)

LEMMA Tuples ==
  /\ IsSeq(<<>>) /\ ToSet(<<>>) = {} /\ Len(<<>>) = 0
  /\ \A x : IsSeq(<<x>>) /\ ToSet(<<x>>) = {x} /\ Len(<<x>>) = 1 /\ <<x>>[1] = x
  /\ \A x, y : /\ IsSeq(<<x, y>>) /\ ToSet(<<x, y>>) = {x, y} /\ Len(<<x, y>>) = 2
               /\ <<x, y>>[1] = x /\ <<x, y>>[2] = y
<1>1. IsSeq(<<>>) /\ ToSet(<<>>) = {} /\ Len(<<>>) = 0
  <2>1. <<>> \in Seq({})
    OBVIOUS
  <2> QED BY <2>1 DEF IsSeq, ToSet
<1>2. ASSUME NEW x PROVE IsSeq(<<x>>) /\ ToSet(<<x>>) = {x} /\ Len(<<x>>) = 1 /\ <<x>>[1] = x
  <2>1. <<x>> \in Seq({x}) /\ DOMAIN <<x>> = {1} /\ <<x>>[1] = x
    OBVIOUS
  <2> QED BY <2>1 DEF IsSeq, ToSet
<1>3. ASSUME NEW x, NEW y
      PROVE  /\ IsSeq(<<x, y>>) /\ ToSet(<<x, y>>) = {x, y} /\ Len(<<x, y>>) = 2
             /\ <<x, y>>[1] = x /\ <<x, y>>[2] = y
  <2>1. <<x, y>> \in Seq({x, y})
    OBVIOUS
  <2>2. DOMAIN <<x, y>> = {1, 2} /\ <<x, y>>[1] = x /\ <<x, y>>[2] = y
    OBVIOUS
  <2> QED BY <2>1, <2>2 DEF IsSeq, ToSet
<1> QED BY <1>1, <1>2, <1>3

\* A plan whose every call is fine on the disk it starts from is calm.
LEMMA CalmFromFine ==
  ASSUME NEW plan, IsSeq(plan), NEW d, NEW safe,
         \A s \in ToSet(plan) : FineStep(s, d, safe \cup Stashed(plan))
  PROVE  Calm(plan, d, safe)
<1> DEFINE kept == safe \cup Stashed(plan)
           calls == Pending(ToSet(plan))
<1>1. \A c \in calls : Fine(c, d, kept)
  BY DEF Pending, FineStep
<1> HIDE DEF kept, calls
<1>2. Fits(calls, d, kept)
  <2>1. \A w \in Writes(calls) : Agrees(w, d, kept)
    BY <1>1 DEF Writes, Fine
  <2> QED BY <2>1, FitsFromDisk DEF Agrees
<1>3. Clear(calls, d)
  BY <1>1 DEF Clear, Fine
<1>4. Harmless(calls, d, kept)
  BY <1>1, <1>2, <1>3 DEF Harmless, Fine
<1> QED BY <1>4 DEF Calm, FineStep, kept, calls

\* Undoing lists of one call or two.
LEMMA ShortUndo ==
  /\ Backward(<<>>)
  /\ \A c : c.do \in {"put", "drop", "move"} => Backward(<<c>>)
  /\ \A b, c : b.do \in {"put", "drop"} /\ c.do \in {"put", "drop"} => Backward(<<b, c>>)
<1>1. Backward(<<>>)
  BY Tuples DEF Backward
<1>2. ASSUME NEW c, c.do \in {"put", "drop", "move"} PROVE Backward(<<c>>)
  <2>1. 1..Len(<<c>>) = {1} /\ <<c>>[1] = c /\ IsSeq(<<c>>)
    BY Tuples
  <2> QED BY <1>2, <2>1 DEF Backward
<1>3. ASSUME NEW b, NEW c, b.do \in {"put", "drop"}, c.do \in {"put", "drop"} PROVE Backward(<<b, c>>)
  <2>1. 1..Len(<<b, c>>) = {1, 2} /\ <<b, c>>[1] = b /\ <<b, c>>[2] = c /\ IsSeq(<<b, c>>)
    BY Tuples
  <2> HIDE DEF Backward
  <2> QED BY <1>3, <2>1 DEF Backward
<1> QED BY <1>1, <1>2, <1>3

LEMMA PutFine ==
  ASSUME NEW d, Typed(d), NEW safe, "none" \in safe, NEW p \in Places, NEW text,
         text.is = "face" => text \in FaceTexts /\ FacePlace(p),
         \/ ~FacePlace(p)
         \/ Hand(text) \in safe /\ (p \in DOMAIN d => Hand(d[p]) \in safe)
         \/ p \in DOMAIN d /\ Hand(text) = Hand(d[p])
  PROVE  /\ Fine(Put(p, text), d, safe) /\ Put(p, text).do = "put"
         /\ Fine(Create(p, text), d, safe) /\ Create(p, text).do = "create"
<1>1. ~FacePlace(p) => Hand(text) = "none" /\ (p \in DOMAIN d => Hand(d[p]) = "none")
  BY NoHandHere DEF Hand
<1>2. ASSUME NEW c, c.at = p, c.text = text, c.do \in {"put", "create"}
      PROVE  Fine(c, d, safe)
  BY <1>1, <1>2 DEF Fine, CallOK, Agrees
<1>3. /\ Put(p, text).at = p /\ Put(p, text).text = text /\ Put(p, text).do = "put"
      /\ Create(p, text).at = p /\ Create(p, text).text = text /\ Create(p, text).do = "create"
  BY DEF Put, Create, Call
<1> HIDE DEF Fine
<1> QED BY <1>2, <1>3

LEMMA OtherFine ==
  ASSUME NEW d, NEW safe
  PROVE  /\ Fine(Check, d, safe) /\ Check.do = "check"
         /\ Fine(Refuse, d, safe) /\ Refuse.do = "refuse"
         /\ \A text : Fine(Stash(text), d, safe) /\ Stash(text).do = "stash" /\ Stash(text).text = text
         /\ \A p \in Places : Fine(Discard(p), d, safe) /\ Discard(p).do = "discard"
         /\ \A p \in Places : ~FacePlace(p) => Fine(Drop(p), d, safe) /\ Drop(p).do = "drop"
         /\ \A dir : Fine(TrashDir(dir), d, safe) /\ TrashDir(dir).do = "trash"
         /\ \A from, to \in Dirs \ {<<>>} : /\ Fine(MoveDir(from, to), d, safe) /\ MoveDir(from, to).do = "move"
                                          /\ MoveDir(from, to).from = from /\ MoveDir(from, to).to = to
<1>0. Entry \in Places
  <2>1. <<>> \in Dirs
    BY DEF Dirs
  <2>2. "lib.rs" \in Words
    BY DEF Words
  <2> QED BY <2>1, <2>2, PlaceMade DEF Entry
<1>1. \A c : c.at \in Places /\ c.do \in {"check", "refuse", "stash", "discard", "trash"} => Fine(c, d, safe)
  BY DEF Fine, CallOK
<1>2. \A c : c.at \in Places /\ c.do = "drop" /\ ~FacePlace(c.at) => Fine(c, d, safe)
  BY DEF Fine, CallOK
<1>3. \A c : c.at \in Places /\ c.do = "move" /\ c.from \in Dirs \ {<<>>} /\ c.to \in Dirs \ {<<>>} => Fine(c, d, safe)
  BY DEF Fine, CallOK
<1> HIDE DEF Fine
<1>4. Check.do = "check" /\ Check.at = Entry /\ Refuse.do = "refuse" /\ Refuse.at = Entry
  BY DEF Check, Refuse, Call
<1>5. \A text : Stash(text).do = "stash" /\ Stash(text).at = Entry /\ Stash(text).text = text
  BY DEF Stash, Call
<1>6. \A p : Discard(p).do = "discard" /\ Discard(p).at = p /\ Drop(p).do = "drop" /\ Drop(p).at = p
  BY DEF Discard, Drop, Call
<1>7. \A dir : TrashDir(dir).do = "trash" /\ TrashDir(dir).at = Entry
  BY DEF TrashDir, Call
<1>8. \A from, to : /\ MoveDir(from, to).do = "move" /\ MoveDir(from, to).at = Entry
                    /\ MoveDir(from, to).from = from /\ MoveDir(from, to).to = to
  BY DEF MoveDir, Call
<1>9. Fine(Check, d, safe) /\ Fine(Refuse, d, safe)
  BY <1>0, <1>1, <1>4
<1>10. \A text : Fine(Stash(text), d, safe)
  BY <1>0, <1>1, <1>5
<1>11. \A p \in Places : Fine(Discard(p), d, safe) /\ (~FacePlace(p) => Fine(Drop(p), d, safe))
  BY <1>1, <1>2, <1>6
<1>12. \A dir : Fine(TrashDir(dir), d, safe)
  BY <1>0, <1>1, <1>7
<1>13. \A from, to \in Dirs \ {<<>>} : Fine(MoveDir(from, to), d, safe)
  BY <1>0, <1>3, <1>8
<1> QED BY <1>4, <1>5, <1>6, <1>7, <1>8, <1>9, <1>10, <1>11, <1>12, <1>13

LEMMA MoveFine ==
  ASSUME NEW d, NEW safe, NEW from \in Dirs \ {<<>>}, NEW to \in Dirs \ {<<>>}
  PROVE  Fine(MoveDir(from, to), d, safe) /\ MoveDir(from, to).do = "move"
BY OtherFine

\* Steps made of such calls.
LEMMA StepIs ==
  ASSUME NEW call, NEW undo
  PROVE  /\ Step(call, undo).call = call /\ Step(call, undo).undo = undo /\ ~Step(call, undo).tears
         /\ Late(Step(call, undo)).call = call /\ Late(Step(call, undo)).undo = undo
         /\ ~Late(Step(call, undo)).tears
         /\ Tearing(Step(call, undo)).call = call /\ Tearing(Step(call, undo)).undo = undo
         /\ Late(Tearing(Step(call, undo))).call = call /\ Late(Tearing(Step(call, undo))).undo = undo
BY DEF Step, Tearing, Late

LEMMA StepFine ==
  ASSUME NEW d, NEW safe, NEW s, Fine(s.call, d, safe), Backward(s.undo),
         \A c \in ToSet(s.undo) : Fine(c, d, safe),
         s.call.do \in {"put", "create", "drop", "stash", "discard", "check", "refuse", "trash"},
         s.tears => s.call.do \in {"put", "create"},
         s.call.do = "stash" => s.undo = <<>> \/ Hand(s.call.text) = "none"
  PROVE  FineStep(s, d, safe)
BY DEF FineStep, CalmStep

LEMMA StepsFine ==
  ASSUME NEW d, NEW safe, NEW call, Fine(call, d, safe),
         call.do \in {"put", "create", "drop", "stash", "discard", "check", "refuse", "trash"},
         NEW undo, Backward(undo), \A c \in ToSet(undo) : Fine(c, d, safe),
         call.do = "stash" => undo = <<>> \/ Hand(call.text) = "none"
  PROVE  /\ FineStep(Step(call, undo), d, safe) /\ FineStep(Late(Step(call, undo)), d, safe)
         /\ call.do \in {"put", "create"} => /\ FineStep(Tearing(Step(call, undo)), d, safe)
                                             /\ FineStep(Late(Tearing(Step(call, undo))), d, safe)
<1>1. ASSUME NEW s, s.call = call, s.undo = undo, s.tears => call.do \in {"put", "create"}
      PROVE  FineStep(s, d, safe)
  BY <1>1, StepFine
<1>2. FineStep(Step(call, undo), d, safe)
  BY <1>1, StepIs
<1>3. FineStep(Late(Step(call, undo)), d, safe)
  BY <1>1, StepIs
<1>4. ASSUME call.do \in {"put", "create"} PROVE FineStep(Tearing(Step(call, undo)), d, safe)
  BY <1>1, <1>4, StepIs
<1>5. ASSUME call.do \in {"put", "create"} PROVE FineStep(Late(Tearing(Step(call, undo))), d, safe)
  BY <1>1, <1>5, StepIs
<1> QED BY <1>2, <1>3, <1>4, <1>5

LEMMA OtherPlaces ==
  /\ \A dir \in Dirs : RuleFile(dir) \in Places /\ ~FacePlace(RuleFile(dir))
  /\ \A p \in {Entry, Record, Anchor, Lock, MoveNote} : p \in Places /\ ~FacePlace(p)
<1>1. ASSUME NEW dir \in Dirs PROVE RuleFile(dir) \in Places /\ ~FacePlace(RuleFile(dir))
  <2>1. "registry_rule" \in Words
    BY DEF Words
  <2> QED BY <2>1, PlaceMade DEF RuleFile, FacePlace
<1>2. <<>> \in Dirs
  BY DEF Dirs
<1>3. ASSUME NEW file \in {"lib.rs", "graft.plan", "plugins.rs", "plugins.lock", "moves"}
      PROVE  At(<<>>, file) \in Places /\ ~FacePlace(At(<<>>, file))
  <2>1. file \in Words
    BY <1>3 DEF Words
  <2> QED BY <1>2, <2>1, PlaceMade DEF FacePlace
<1> QED BY <1>1, <1>3 DEF Entry, Record, Anchor, Lock, MoveNote

\* Files that are no faces may be written and dropped.
LEMMA OtherFilesFine ==
  ASSUME NEW d, Typed(d), NEW safe, "none" \in safe, NEW p \in Places, ~FacePlace(p)
  PROVE  /\ \A text : text.is # "face" =>
              /\ Fine(Put(p, text), d, safe) /\ Put(p, text).do = "put"
              /\ Fine(Create(p, text), d, safe) /\ Create(p, text).do = "create"
         /\ Fine(Drop(p), d, safe) /\ Drop(p).do = "drop"
         /\ Fine(PutBack(d, p), d, safe) /\ PutBack(d, p).do \in {"put", "drop"}
         /\ Fine(Discard(p), d, safe) /\ Discard(p).do = "discard"
<1>1. ASSUME NEW text, text.is # "face"
      PROVE  /\ Fine(Put(p, text), d, safe) /\ Put(p, text).do = "put"
             /\ Fine(Create(p, text), d, safe) /\ Create(p, text).do = "create"
  BY <1>1, PutFine
<1>2. Fine(Drop(p), d, safe) /\ Drop(p).do = "drop" /\ Fine(Discard(p), d, safe) /\ Discard(p).do = "discard"
  BY OtherFine
<1>3. Fine(PutBack(d, p), d, safe) /\ PutBack(d, p).do \in {"put", "drop"}
  <2>1. CASE p \in DOMAIN d
    <3>1. d[p].is # "face"
      BY <2>1 DEF Typed
    <3>2. PutBack(d, p) = Put(p, d[p])
      BY <2>1 DEF PutBack
    <3> QED BY <1>1, <3>1, <3>2
  <2>2. CASE p \notin DOMAIN d
    BY <1>2, <2>2 DEF PutBack
  <2> QED BY <2>1, <2>2
<1> QED BY <1>1, <1>2, <1>3

\* A face that was there may be put back, and written again when its line is safe.
LEMMA FaceFine ==
  ASSUME NEW d, Typed(d), NEW dir, Faced(d, dir), NEW safe, "none" \in safe
  PROVE  /\ Fine(Put(FaceFile(dir), d[FaceFile(dir)]), d, safe)
         /\ Put(FaceFile(dir), d[FaceFile(dir)]).do = "put"
         /\ \A text \in FaceTexts :
              (\/ Hand(text) = Hand(d[FaceFile(dir)])
               \/ Hand(text) = "none" /\ Hand(d[FaceFile(dir)]) \in safe)
                => Fine(Put(FaceFile(dir), text), d, safe) /\ Put(FaceFile(dir), text).do = "put"
<1>1. ASSUME NEW text \in FaceTexts,
             \/ Hand(text) = Hand(d[FaceFile(dir)])
             \/ Hand(text) = "none" /\ Hand(d[FaceFile(dir)]) \in safe
      PROVE  Fine(Put(FaceFile(dir), text), d, safe) /\ Put(FaceFile(dir), text).do = "put"
  BY <1>1, PutFine DEF Faced
<1>2. d[FaceFile(dir)] \in FaceTexts
  BY DEF Faced
<1> QED BY <1>1, <1>2

\* A plan of one step, or of two.
LEMMA OneStep ==
  ASSUME NEW d, NEW safe, NEW s, FineStep(s, d, safe)
  PROVE  IsSeq(<<s>>) /\ \A x \in ToSet(<<s>>) : FineStep(x, d, safe)
BY Tuples

LEMMA TwoSteps ==
  ASSUME NEW d, NEW safe, NEW s, FineStep(s, d, safe), NEW t, FineStep(t, d, safe)
  PROVE  IsSeq(<<s, t>>) /\ \A x \in ToSet(<<s, t>>) : FineStep(x, d, safe)
BY Tuples

LEMMA MoreSteps ==
  ASSUME NEW d, NEW safe, NEW plan, IsSeq(plan), \A s \in ToSet(plan) : FineStep(s, d, safe),
         NEW rest, IsSeq(rest), \A s \in ToSet(rest) : FineStep(s, d, safe)
  PROVE  IsSeq(plan \o rest) /\ \A s \in ToSet(plan \o rest) : FineStep(s, d, safe)
<1>1. IsSeq(plan \o rest) /\ ToSet(plan \o rest) = ToSet(plan) \cup ToSet(rest)
  BY SetOfConcat
<1> QED BY <1>1

\* Nothing to undo, or one call.
LEMMA UndoFine ==
  ASSUME NEW d, NEW safe
  PROVE  /\ Backward(<<>>) /\ \A c \in ToSet(<<>>) : Fine(c, d, safe)
         /\ \A u : Fine(u, d, safe) /\ u.do \in {"put", "drop", "move"}
                     => Backward(<<u>>) /\ \A c \in ToSet(<<u>>) : Fine(c, d, safe)
         /\ \A u, v : Fine(u, d, safe) /\ u.do \in {"put", "drop"} /\ Fine(v, d, safe) /\ v.do \in {"put", "drop"}
                     => Backward(<<u, v>>) /\ \A c \in ToSet(<<u, v>>) : Fine(c, d, safe)
BY ShortUndo, Tuples

LEMMA CreateFine ==
  ASSUME NEW d, Typed(d), NEW safe, "none" \in safe, NEW r,
         r.dir \in Dirs \ {<<>>}, Front(r.dir) \in Dirs, FreshName(Last(r.dir)), AskedFace(r.face),
         FaceFile(r.dir) \notin DOMAIN d
  PROVE  IsSeq(CreatePlan(d, r)) /\ \A s \in ToSet(CreatePlan(d, r)) : FineStep(s, d, safe)
<1> DEFINE text == Face(r.face.kind, Front(r.dir), r.face.owns, r.face.rule)
           face == Create(FaceFile(r.dir), text)
           rule == Create(RuleFile(r.dir), RuleText(r.face.rule))
           back == Drop(RuleFile(r.dir))
<1>1. text \in FaceTexts /\ Hand(text) = "none"
  BY FaceTyped DEF AskedFace, Hand
<1>2. FaceFile(r.dir) \in Places /\ FacePlace(FaceFile(r.dir))
  <2>1. Last(r.dir) \in Words
    BY DEF FreshName
  <2>2. At(r.dir, Last(r.dir)) \in Places
    BY <2>1, PlaceMade
  <2> QED BY <2>2, FaceFileIs DEF FacePlace, FreshName
<1>3. Fine(face, d, safe) /\ face.do = "create"
  <2> HIDE DEF text
  <2> QED BY <1>1, <1>2, PutFine
<1>4. RuleFile(r.dir) \in Places /\ ~FacePlace(RuleFile(r.dir)) /\ RuleText(r.face.rule).is # "face"
  BY OtherPlaces DEF RuleText
<1>5. Fine(rule, d, safe) /\ rule.do = "create" /\ Fine(back, d, safe) /\ back.do = "drop"
  BY <1>4, OtherFilesFine
<1>6. CreatePlan(d, r) = IF r.face.owns
                         THEN <<Tearing(Step(rule, <<>>)), Tearing(Step(face, <<back>>))>>
                         ELSE <<Tearing(Step(face, <<>>))>>
  BY DEF CreatePlan
<1> HIDE DEF face, rule, back
<1>7. FineStep(Tearing(Step(rule, <<>>)), d, safe)
  BY <1>5, UndoFine, StepsFine
<1>8. FineStep(Tearing(Step(face, <<>>)), d, safe)
  BY <1>3, UndoFine, StepsFine
<1>9. FineStep(Tearing(Step(face, <<back>>)), d, safe)
  BY <1>3, <1>5, UndoFine, StepsFine
<1> QED BY <1>6, <1>7, <1>8, <1>9, OneStep, TwoSteps

\* Replacing a face keeps its old text in the trash before it writes.
LEMMA ReplaceFine ==
  ASSUME NEW d, Typed(d), NEW safe, "none" \in safe, NEW r, Faced(d, r.dir), AskedFace(r.face),
         Hand(d[FaceFile(r.dir)]) \in safe
  PROVE  IsSeq(ReplacePlan(d, r)) /\ \A s \in ToSet(ReplacePlan(d, r)) : FineStep(s, d, safe)
<1> DEFINE target == FaceFile(r.dir)
           rule == RuleFile(r.dir)
           text == Rendered(d, r)
           restore == <<Put(target, d[target]), PutBack(d, rule)>>
           keep == IF text = d[target] THEN <<>> ELSE <<Step(Stash(d[target]), <<>>)>>
           land == Step(Put(target, text), <<Put(target, d[target])>>)
           tail == CASE text.names /\ text.owns -> <<Step(Put(rule, RuleText(r.face.rule)), restore)>>
                     [] text.names /\ ~text.owns -> <<Step(Refuse, <<>>)>>
                     [] ~text.names /\ rule \in DOMAIN d -> <<Step(Drop(rule), restore)>>
                     [] OTHER -> <<>>
<1>1. ReplacePlan(d, r) = keep \o <<land>> \o tail
  BY DEF ReplacePlan
<1>2. text \in FaceTexts /\ Hand(text) = "none"
  BY RenderedTyped
<1>3. /\ Fine(Put(target, text), d, safe) /\ Put(target, text).do = "put"
      /\ Fine(Put(target, d[target]), d, safe) /\ Put(target, d[target]).do = "put"
  <2> HIDE DEF text
  <2> QED BY <1>2, FaceFine
<1>4. rule \in Places /\ ~FacePlace(rule) /\ RuleText(r.face.rule).is # "face"
  BY OtherPlaces DEF RuleText, Faced
<1>5. /\ Fine(Put(rule, RuleText(r.face.rule)), d, safe) /\ Put(rule, RuleText(r.face.rule)).do = "put"
      /\ Fine(Drop(rule), d, safe) /\ Drop(rule).do = "drop"
      /\ Fine(PutBack(d, rule), d, safe) /\ PutBack(d, rule).do \in {"put", "drop"}
  <2> HIDE DEF rule
  <2> QED BY <1>4, OtherFilesFine
<1>6. Backward(restore) /\ \A c \in ToSet(restore) : Fine(c, d, safe)
  BY <1>3, <1>5, UndoFine
<1>7. IsSeq(keep) /\ \A s \in ToSet(keep) : FineStep(s, d, safe)
  <2>1. FineStep(Step(Stash(d[target]), <<>>), d, safe)
    <3>1. Fine(Stash(d[target]), d, safe) /\ Stash(d[target]).do = "stash"
      BY OtherFine
    <3>2. Backward(<<>>) /\ \A c \in ToSet(<<>>) : Fine(c, d, safe)
      BY UndoFine
    <3> HIDE DEF target
    <3> QED BY <3>1, <3>2, StepsFine
  <2> QED BY <2>1, OneStep, Tuples
<1>8. FineStep(land, d, safe)
  <2> HIDE DEF text, target
  <2> QED BY <1>3, UndoFine, StepsFine
<1>9. IsSeq(tail) /\ \A s \in ToSet(tail) : FineStep(s, d, safe)
  <2> DEFINE give == Step(Put(rule, RuleText(r.face.rule)), restore)
             take == Step(Drop(rule), restore)
  <2>1. FineStep(give, d, safe)
    <3> HIDE DEF rule, restore
    <3> QED BY <1>5, <1>6, StepsFine
  <2>2. FineStep(take, d, safe)
    <3> HIDE DEF rule, restore
    <3> QED BY <1>5, <1>6, StepsFine
  <2>3. FineStep(Step(Refuse, <<>>), d, safe)
    BY OtherFine, UndoFine, StepsFine
  <2>4. tail \in {<<give>>, <<Step(Refuse, <<>>)>>, <<take>>, <<>>}
    <3> HIDE DEF text, give, take
    <3> QED BY Zenon DEF give, take
  <2> HIDE DEF tail, give, take
  <2> QED BY <2>1, <2>2, <2>3, <2>4, OneStep, Tuples
<1> HIDE DEF keep, land, tail
<1>10. IsSeq(<<land>>) /\ \A s \in ToSet(<<land>>) : FineStep(s, d, safe)
  BY <1>8, OneStep
<1>11. IsSeq(keep \o <<land>>) /\ \A s \in ToSet(keep \o <<land>>) : FineStep(s, d, safe)
  BY <1>7, <1>10, MoreSteps
<1>12. IsSeq((keep \o <<land>>) \o tail) /\ \A s \in ToSet((keep \o <<land>>) \o tail) : FineStep(s, d, safe)
  BY <1>9, <1>11, MoreSteps
<1> QED BY <1>1, <1>12

LEMMA StashedFirst ==
  ASSUME NEW plan, IsSeq(plan), NEW rest, IsSeq(rest), Len(plan) # 0
  PROVE  /\ Stashed(plan \o rest) = Stashed(plan) /\ Len(plan \o rest) # 0
         /\ plan # <<>> /\ Head(plan) = plan[1]
<1>1. /\ IsSeq(plan \o rest) /\ Len(plan \o rest) = Len(plan) + Len(rest)
      /\ Len(plan) \in Nat /\ Len(rest) \in Nat
      /\ \A i \in 1..(Len(plan) + Len(rest)) : (plan \o rest)[i] = IF i <= Len(plan) THEN plan[i] ELSE rest[i - Len(plan)]
  BY SetOfConcat
<1> DEFINE both == plan \o rest
<1>2. both[1] = plan[1] /\ Len(both) # 0 /\ IsSeq(both)
  <2>1. 1 \in 1..(Len(plan) + Len(rest)) /\ 1 <= Len(plan)
    BY <1>1
  <2> QED BY <1>1, <2>1
<1>3. both # <<>> /\ plan # <<>>
  BY <1>2, Tuples
<1> HIDE DEF both
<1>4. Head(both) = both[1] /\ Head(plan) = plan[1]
  BY <1>2, <1>3, SeqParts
<1>5. Stashed(both) = Stashed(plan)
  BY <1>2, <1>3, <1>4 DEF Stashed
<1> QED BY <1>2, <1>3, <1>4, <1>5 DEF both

\* That is its first call, unless the text says the same.
LEMMA ReplaceStashes ==
  ASSUME NEW d, Typed(d), NEW r, Faced(d, r.dir), AskedFace(r.face), IsSeq(ReplacePlan(d, r))
  PROVE  /\ Hand(d[FaceFile(r.dir)]) \in {"none"} \cup Stashed(ReplacePlan(d, r))
         /\ Len(ReplacePlan(d, r)) # 0
<1> DEFINE target == FaceFile(r.dir)
           rule == RuleFile(r.dir)
           text == Rendered(d, r)
           restore == <<Put(target, d[target]), PutBack(d, rule)>>
           stash == Step(Stash(d[target]), <<>>)
           land == Step(Put(target, text), <<Put(target, d[target])>>)
           tail == CASE text.names /\ text.owns -> <<Step(Put(rule, RuleText(r.face.rule)), restore)>>
                     [] text.names /\ ~text.owns -> <<Step(Refuse, <<>>)>>
                     [] ~text.names /\ rule \in DOMAIN d -> <<Step(Drop(rule), restore)>>
                     [] OTHER -> <<>>
<1>1. ReplacePlan(d, r) = (IF text = d[target] THEN <<>> ELSE <<stash>>) \o <<land>> \o tail
  BY DEF ReplacePlan
<1>2. IsSeq(tail)
  <2>1. tail \in {<<Step(Put(rule, RuleText(r.face.rule)), restore)>>, <<Step(Refuse, <<>>)>>,
                  <<Step(Drop(rule), restore)>>, <<>>}
    <3> HIDE DEF text, restore
    <3> QED BY Zenon
  <2> HIDE DEF tail
  <2> QED BY <2>1, Tuples
<1>3. stash.call.do = "stash" /\ stash.call.text = d[target]
  BY StepIs, OtherFine
<1>4. Hand(text) = "none"
  BY RenderedTyped
<1> HIDE DEF text, stash, land, tail
<1>5. CASE text = d[target]
  <2>1. ReplacePlan(d, r) = (<<>> \o <<land>>) \o tail
    BY <1>1, <1>5
  <2>2. IsSeq(<<>> \o <<land>>) /\ Len(<<>> \o <<land>>) = 0 + 1
    BY Tuples, SetOfConcat
  <2>3. Len((<<>> \o <<land>>) \o tail) # 0
    BY <1>2, <2>2, StashedFirst
  <2> QED BY <1>4, <1>5, <2>1, <2>3
<1>6. CASE text # d[target]
  <2>1. ReplacePlan(d, r) = (<<stash>> \o <<land>>) \o tail
    BY <1>1, <1>6
  <2>2. IsSeq(<<stash>>) /\ Len(<<stash>>) # 0 /\ IsSeq(<<land>>) /\ <<stash>>[1] = stash
    BY Tuples
  <2>3. /\ Stashed(<<stash>> \o <<land>>) = Stashed(<<stash>>) /\ Len(<<stash>> \o <<land>>) # 0
        /\ <<stash>> # <<>> /\ Head(<<stash>>) = stash
    BY <2>2, StashedFirst
  <2>4. IsSeq(<<stash>> \o <<land>>)
    BY <2>2, SetOfConcat
  <2>5. /\ Stashed((<<stash>> \o <<land>>) \o tail) = Stashed(<<stash>> \o <<land>>)
        /\ Len((<<stash>> \o <<land>>) \o tail) # 0
    BY <1>2, <2>3, <2>4, StashedFirst
  <2>6. Stashed(<<stash>>) = {Hand(d[target])}
    BY <1>3, <2>3 DEF Stashed
  <2> QED BY <2>1, <2>3, <2>5, <2>6
<1> QED BY <1>5, <1>6

LEMMA KindFine ==
  ASSUME NEW d, Typed(d), NEW safe, "none" \in safe, NEW r, Faced(d, r.dir), AskedFace(r.face),
         Hand(d[FaceFile(r.dir)]) \in safe
  PROVE  /\ IsSeq(KindPlan(d, r)) /\ \A s \in ToSet(KindPlan(d, r)) : FineStep(s, d, safe)
         /\ Len(KindPlan(d, r)) # 0
<1> DEFINE target == FaceFile(r.dir)
           text == Rendered(d, r)
<1>1. text \in FaceTexts /\ Hand(text) = "none"
  BY RenderedTyped
<1>2. KindPlan(d, r) = <<Step(Put(target, text), <<>>), Step(Check, <<Put(target, d[target])>>)>>
  BY DEF KindPlan
<1> HIDE DEF text
<1>3. /\ Fine(Put(target, text), d, safe) /\ Put(target, text).do = "put"
      /\ Fine(Put(target, d[target]), d, safe) /\ Put(target, d[target]).do = "put"
  BY <1>1, FaceFine
<1>4. FineStep(Step(Put(target, text), <<>>), d, safe)
  BY <1>3, UndoFine, StepsFine
<1>5. FineStep(Step(Check, <<Put(target, d[target])>>), d, safe)
  BY <1>3, OtherFine, UndoFine, StepsFine
<1> QED BY <1>2, <1>4, <1>5, TwoSteps, Tuples

\* A promotion replaces the face or changes its kind, and then the entry.
LEMMA PromoteFine ==
  ASSUME NEW d, Typed(d), NEW safe, "none" \in safe, NEW r, Faced(d, r.dir), AskedFace(r.face),
         r.op = "promote", Given(d, r) \subseteq safe
  PROVE  Calm(PromotePlan(d, r), d, safe)
<1> DEFINE target == FaceFile(r.dir)
           repointed == {[cut |-> c.cut, graft |-> IF c.cut = r.dir THEN "itself" ELSE c.graft] : c \in Cuts(d)}
           land == IF r.face.kind = d[target].kind THEN ReplacePlan(d, r) ELSE KindPlan(d, r)
           undo == <<Put(target, d[target])>>
           s1 == Step(Stash(EntryText(Cuts(d))), undo)
           s2 == Tearing(Step(Put(Entry, EntryText(repointed)), undo))
           s3 == Late(Step(Discard(Record), <<>>))
           kept == safe \cup Stashed(PromotePlan(d, r))
<1>1. PromotePlan(d, r) = land \o <<s1, s2, s3>>
  BY DEF PromotePlan
<1>2. IsSeq(<<s1, s2, s3>>) /\ ToSet(<<s1, s2, s3>>) = {s1, s2, s3}
  <2> HIDE DEF s1, s2, s3
  <2>1. <<s1, s2, s3>> \in Seq({s1, s2, s3})
    OBVIOUS
  <2>2. DOMAIN <<s1, s2, s3>> = {1, 2, 3} /\ <<s1, s2, s3>>[1] = s1
        /\ <<s1, s2, s3>>[2] = s2 /\ <<s1, s2, s3>>[3] = s3
    OBVIOUS
  <2> QED BY <2>1, <2>2 DEF IsSeq, ToSet
<1>3. /\ Fine(Put(target, d[target]), d, kept) /\ Put(target, d[target]).do = "put"
  BY FaceFine
<1>4. Backward(undo) /\ \A c \in ToSet(undo) : Fine(c, d, kept)
  BY <1>3, UndoFine
<1>5. FineStep(s1, d, kept)
  <2>1. Hand(EntryText(Cuts(d))) = "none"
    BY DEF EntryText, Hand
  <2>2. /\ Fine(Stash(EntryText(Cuts(d))), d, kept) /\ Stash(EntryText(Cuts(d))).do = "stash"
        /\ Stash(EntryText(Cuts(d))).text = EntryText(Cuts(d))
    BY OtherFine
  <2> HIDE DEF undo, kept
  <2> QED BY <1>4, <2>1, <2>2, StepsFine
<1>6. FineStep(s2, d, kept)
  <2>1. Entry \in Places /\ ~FacePlace(Entry) /\ EntryText(repointed).is # "face"
    BY OtherPlaces DEF EntryText
  <2>2. Fine(Put(Entry, EntryText(repointed)), d, kept) /\ Put(Entry, EntryText(repointed)).do = "put"
    BY <2>1, OtherFilesFine
  <2> HIDE DEF undo, kept
  <2> QED BY <1>4, <2>2, StepsFine
<1>7. FineStep(s3, d, kept)
  <2>1. Record \in Places
    BY OtherPlaces
  <2> HIDE DEF kept
  <2> QED BY <2>1, OtherFine, UndoFine, StepsFine
<1>8. ASSUME r.face.kind = d[target].kind
      PROVE  IsSeq(land) /\ \A s \in ToSet(land) : FineStep(s, d, kept)
  <2>1. land = ReplacePlan(d, r)
    BY <1>8
  <2> DEFINE all == {Hand(d[target]), "none"}
  <2>2. IsSeq(ReplacePlan(d, r))
    <3>1. "none" \in all /\ Hand(d[FaceFile(r.dir)]) \in all
      OBVIOUS
    <3> HIDE DEF all
    <3> QED BY <3>1, ReplaceFine
  <2>3. Hand(d[target]) \in {"none"} \cup Stashed(land) /\ Len(land) # 0
    BY <2>1, <2>2, ReplaceStashes
  <2>4. Stashed(PromotePlan(d, r)) = Stashed(land)
    <3> HIDE DEF land, s1, s2, s3
    <3> QED BY <1>1, <1>2, <2>1, <2>2, <2>3, StashedFirst
  <2>5. Hand(d[target]) \in kept /\ "none" \in kept
    BY <2>3, <2>4
  <2> HIDE DEF kept, land
  <2>6. \A s \in ToSet(ReplacePlan(d, r)) : FineStep(s, d, kept)
    BY <2>5, ReplaceFine
  <2> QED BY <2>1, <2>2, <2>6
<1>9. ASSUME r.face.kind # d[target].kind
      PROVE  IsSeq(land) /\ \A s \in ToSet(land) : FineStep(s, d, kept)
  <2>1. land = KindPlan(d, r)
    BY <1>9
  <2>2. Hand(d[target]) \in safe
    BY <1>9, GivenHas DEF Faced
  <2>3. Hand(d[FaceFile(r.dir)]) \in kept /\ "none" \in kept
    BY <2>2
  <2> HIDE DEF kept, land
  <2>4. IsSeq(KindPlan(d, r)) /\ \A s \in ToSet(KindPlan(d, r)) : FineStep(s, d, kept)
    BY <2>3, KindFine
  <2> QED BY <2>1, <2>4
<1> HIDE DEF kept, land
<1>10. IsSeq(land) /\ \A s \in ToSet(land) : FineStep(s, d, kept)
  BY <1>8, <1>9
<1> HIDE DEF s1, s2, s3
<1>11. \A s \in ToSet(<<s1, s2, s3>>) : FineStep(s, d, kept)
  BY <1>2, <1>5, <1>6, <1>7
<1>13. PromotePlan(d, r) = land \o <<s1, s2, s3>>
  BY <1>1 DEF land, s1, s2, s3
<1>12. IsSeq(PromotePlan(d, r)) /\ \A s \in ToSet(PromotePlan(d, r)) : FineStep(s, d, kept)
  BY <1>2, <1>10, <1>11, <1>13, MoreSteps
<1> QED BY <1>12, CalmFromFine DEF kept

\* Requests of one call or two.
LEMMA SmallPlansFine ==
  ASSUME NEW d, Typed(d), NEW safe, "none" \in safe, NEW r
  PROVE  /\ IsSeq(DeletePlan(d, r)) /\ \A s \in ToSet(DeletePlan(d, r)) : FineStep(s, d, safe)
         /\ Faced(d, r.dir) => IsSeq(DeepenPlan(d, r)) /\ \A s \in ToSet(DeepenPlan(d, r)) : FineStep(s, d, safe)
         /\ IsSeq(CutPlan(d, r)) /\ \A s \in ToSet(CutPlan(d, r)) : FineStep(s, d, safe)
         /\ IsSeq(GraftPlan(d, r)) /\ \A s \in ToSet(GraftPlan(d, r)) : FineStep(s, d, safe)
         /\ IsSeq(RetirePlan(d, r)) /\ \A s \in ToSet(RetirePlan(d, r)) : FineStep(s, d, safe)
         /\ IsSeq(PluginPlan(d, r)) /\ \A s \in ToSet(PluginPlan(d, r)) : FineStep(s, d, safe)
<1>1. /\ \A p \in {Entry, Record, Anchor, Lock} : p \in Places /\ ~FacePlace(p)
  BY OtherPlaces
<1>2. Backward(<<>>) /\ \A c \in ToSet(<<>>) : Fine(c, d, safe)
  BY UndoFine
<1>3. IsSeq(DeletePlan(d, r)) /\ \A s \in ToSet(DeletePlan(d, r)) : FineStep(s, d, safe)
  <2>1. Fine(TrashDir(r.dir), d, safe) /\ TrashDir(r.dir).do = "trash"
    BY OtherFine
  <2>2. FineStep(Step(TrashDir(r.dir), <<>>), d, safe)
    BY <1>2, <2>1, StepsFine
  <2> QED BY <2>2, OneStep DEF DeletePlan
<1>4. ASSUME Faced(d, r.dir)
      PROVE  IsSeq(DeepenPlan(d, r)) /\ \A s \in ToSet(DeepenPlan(d, r)) : FineStep(s, d, safe)
  <2> DEFINE old == d[FaceFile(r.dir)]
             text == [old EXCEPT !.deep = TRUE]
             call == Put(FaceFile(r.dir), text)
  <2>1. text \in FaceTexts /\ Hand(text) = Hand(old)
    BY <1>4 DEF Faced, FaceTexts, Hand
  <2>2. DeepenPlan(d, r) = <<Tearing(Step(call, <<>>))>>
    BY DEF DeepenPlan
  <2> HIDE DEF text
  <2>3. Fine(call, d, safe) /\ call.do = "put"
    BY <1>4, <2>1, FaceFine
  <2> HIDE DEF call
  <2>4. FineStep(Tearing(Step(call, <<>>)), d, safe)
    BY <1>2, <2>3, StepsFine
  <2> QED BY <2>2, <2>4, OneStep
<1>5. IsSeq(CutPlan(d, r)) /\ \A s \in ToSet(CutPlan(d, r)) : FineStep(s, d, safe)
  <2> DEFINE text == EntryText(Cuts(d) \cup {[cut |-> r.dir, graft |-> "external"]})
             call == Put(Entry, text)
  <2>1. text.is # "face"
    BY DEF EntryText
  <2>2. CutPlan(d, r) = <<Tearing(Step(call, <<>>))>>
    BY DEF CutPlan
  <2> HIDE DEF text
  <2>3. Fine(call, d, safe) /\ call.do = "put"
    BY <1>1, <2>1, OtherFilesFine
  <2> HIDE DEF call
  <2>4. FineStep(Tearing(Step(call, <<>>)), d, safe)
    BY <1>2, <2>3, StepsFine
  <2> QED BY <2>2, <2>4, OneStep
<1>6. IsSeq(GraftPlan(d, r)) /\ \A s \in ToSet(GraftPlan(d, r)) : FineStep(s, d, safe)
  <2> DEFINE text == [is |-> "record", slot |-> r.dir]
             call == Put(Record, text)
  <2>1. text.is # "face"
    OBVIOUS
  <2>2. GraftPlan(d, r) = <<Step(call, <<Drop(Record)>>)>>
    BY DEF GraftPlan
  <2> HIDE DEF text
  <2>3. Fine(call, d, safe) /\ call.do = "put" /\ Fine(Drop(Record), d, safe) /\ Drop(Record).do = "drop"
    BY <1>1, <2>1, OtherFilesFine
  <2> HIDE DEF call
  <2>4. FineStep(Step(call, <<Drop(Record)>>), d, safe)
    BY <2>3, UndoFine, StepsFine
  <2> QED BY <2>2, <2>4, OneStep
<1>7. IsSeq(RetirePlan(d, r)) /\ \A s \in ToSet(RetirePlan(d, r)) : FineStep(s, d, safe)
  <2>1. Fine(Discard(Record), d, safe) /\ Discard(Record).do = "discard"
    BY <1>1, OtherFine
  <2>2. FineStep(Step(Discard(Record), <<>>), d, safe)
    BY <1>2, <2>1, StepsFine
  <2> QED BY <2>2, OneStep DEF RetirePlan
<1>8. IsSeq(PluginPlan(d, r)) /\ \A s \in ToSet(PluginPlan(d, r)) : FineStep(s, d, safe)
  <2> DEFINE a == Put(Anchor, [is |-> "anchor"])
             l == Put(Lock, [is |-> "lock"])
             u == PutBack(d, Anchor)
  <2>1. Fine(a, d, safe) /\ a.do = "put" /\ Fine(u, d, safe) /\ u.do \in {"put", "drop"}
    BY <1>1, OtherFilesFine
  <2>2. Fine(l, d, safe) /\ l.do = "put"
    BY <1>1, OtherFilesFine
  <2>3. PluginPlan(d, r) = <<Tearing(Step(a, <<>>)), Tearing(Step(l, <<u>>))>>
    BY DEF PluginPlan
  <2> HIDE DEF a, l, u
  <2>4. FineStep(Tearing(Step(a, <<>>)), d, safe)
    BY <1>2, <2>1, StepsFine
  <2>5. FineStep(Tearing(Step(l, <<u>>)), d, safe)
    BY <2>1, <2>2, UndoFine, StepsFine
  <2> QED BY <2>3, <2>4, <2>5, TwoSteps
<1> QED BY <1>3, <1>4, <1>5, <1>6, <1>7, <1>8

\* Every request but a move and a rename begins with a plan that is calm.
LEMMA PlansAreCalm ==
  ASSUME NEW d, Typed(d), NEW safe, "none" \in safe, NEW r \in Atomic!Requests(View(d)),
         Accepted(d, r), Given(d, r) \subseteq safe, r.op # "move", ~Renames(r)
  PROVE  Calm(Plan(d, r), d, safe)
<1>0. /\ r.op \in {"create", "edit", "promote", "delete", "deepen", "cut", "graft", "retire", "plugin"}
      /\ r.op \notin {"create", "plugin"} => Faced(d, r.dir)
      /\ r.op = "create" => /\ r.dir \in Dirs \ {<<>>} /\ Front(r.dir) \in Dirs /\ FreshName(Last(r.dir))
      /\ r.op \in {"create", "edit", "promote"} => AskedFace(r.face)
      /\ r.op = "edit" => r.name = Last(r.dir)
  BY RequestParts DEF Renames
<1>1. ASSUME NEW plan, IsSeq(plan), \A s \in ToSet(plan) : FineStep(s, d, safe \cup Stashed(plan))
      PROVE  Calm(plan, d, safe)
  BY <1>1, CalmFromFine
<1>2. \A plan : "none" \in safe \cup Stashed(plan)
  OBVIOUS
<1>3. CASE r.op = "create"
  <2>1. Plan(d, r) = CreatePlan(d, r)
    BY <1>3 DEF Plan
  <2>2. FaceFile(r.dir) \notin DOMAIN d
    BY <1>3 DEF Accepted
  <2> DEFINE kept == safe \cup Stashed(CreatePlan(d, r))
  <2>3. "none" \in kept
    OBVIOUS
  <2> HIDE DEF kept
  <2>4. IsSeq(CreatePlan(d, r)) /\ \A s \in ToSet(CreatePlan(d, r)) : FineStep(s, d, kept)
    BY <1>0, <1>3, <2>2, <2>3, CreateFine
  <2> QED BY <1>1, <2>1, <2>4 DEF kept
<1>4. CASE r.op = "edit" /\ r.face.kind # d[FaceFile(r.dir)].kind
  <2>1. Plan(d, r) = KindPlan(d, r)
    BY <1>0, <1>4 DEF Plan
  <2>2. Hand(d[FaceFile(r.dir)]) \in safe
    BY <1>0, <1>4, GivenHas DEF Faced
  <2> DEFINE kept == safe \cup Stashed(KindPlan(d, r))
  <2>3. "none" \in kept /\ Hand(d[FaceFile(r.dir)]) \in kept
    BY <2>2
  <2> HIDE DEF kept
  <2>4. IsSeq(KindPlan(d, r)) /\ \A s \in ToSet(KindPlan(d, r)) : FineStep(s, d, kept)
    BY <1>0, <1>4, <2>3, KindFine
  <2> QED BY <1>1, <2>1, <2>4 DEF kept
<1>5. CASE r.op = "edit" /\ r.face.kind = d[FaceFile(r.dir)].kind
  <2>1. Plan(d, r) = ReplacePlan(d, r)
    BY <1>0, <1>5 DEF Plan
  <2>2. IsSeq(ReplacePlan(d, r))
    <3> DEFINE all == {"none", Hand(d[FaceFile(r.dir)])}
    <3>1. "none" \in all /\ Hand(d[FaceFile(r.dir)]) \in all
      OBVIOUS
    <3> HIDE DEF all
    <3> QED BY <1>0, <1>5, <3>1, ReplaceFine
  <2>3. Hand(d[FaceFile(r.dir)]) \in {"none"} \cup Stashed(ReplacePlan(d, r))
    BY <1>0, <1>5, <2>2, ReplaceStashes
  <2> DEFINE kept == safe \cup Stashed(ReplacePlan(d, r))
  <2>4. "none" \in kept /\ Hand(d[FaceFile(r.dir)]) \in kept
    BY <2>3
  <2> HIDE DEF kept
  <2>5. \A s \in ToSet(ReplacePlan(d, r)) : FineStep(s, d, kept)
    BY <1>0, <1>5, <2>4, ReplaceFine
  <2> QED BY <1>1, <2>1, <2>2, <2>5 DEF kept
<1>6. CASE r.op = "promote"
  <2>1. Plan(d, r) = PromotePlan(d, r)
    BY <1>6 DEF Plan
  <2> QED BY <1>0, <1>6, <2>1, PromoteFine
<1>7. CASE r.op \in {"delete", "deepen", "cut", "graft", "retire", "plugin"}
  <2>1. Plan(d, r) \in {DeletePlan(d, r), DeepenPlan(d, r), CutPlan(d, r), GraftPlan(d, r), RetirePlan(d, r), PluginPlan(d, r)}
        /\ (Plan(d, r) = DeepenPlan(d, r) \/ r.op # "deepen")
    BY <1>7 DEF Plan
  <2> DEFINE kept == safe \cup Stashed(Plan(d, r))
  <2>2. "none" \in kept
    OBVIOUS
  <2> HIDE DEF kept
  <2>3. CASE r.op = "deepen"
    <3>1. IsSeq(DeepenPlan(d, r)) /\ \A s \in ToSet(DeepenPlan(d, r)) : FineStep(s, d, kept)
      BY <1>0, <2>2, <2>3, SmallPlansFine
    <3>2. Plan(d, r) = DeepenPlan(d, r)
      BY <2>1, <2>3
    <3> QED BY <1>1, <3>1, <3>2 DEF kept
  <2>4. CASE r.op # "deepen"
    <3>1. Plan(d, r) \in {DeletePlan(d, r), CutPlan(d, r), GraftPlan(d, r), RetirePlan(d, r), PluginPlan(d, r)}
      BY <1>7, <2>4 DEF Plan
    <3>2. IsSeq(Plan(d, r)) /\ \A s \in ToSet(Plan(d, r)) : FineStep(s, d, kept)
      BY <2>2, <3>1, SmallPlansFine
    <3> QED BY <1>1, <3>2 DEF kept
  <2> QED BY <2>3, <2>4
<1> QED BY <1>0, <1>3, <1>4, <1>5, <1>6, <1>7

-----------------------------------------------------------------------------
(* A move, once the directory is renamed.                                    *)

LEMMA Together ==
  ASSUME NEW s, IsSeq(s), NEW t, IsSeq(t)
  PROVE  \E U : s \in Seq(U) /\ t \in Seq(U)
<1>1. PICK S : s \in Seq(S)
  BY DEF IsSeq
<1>2. PICK T : t \in Seq(T)
  BY DEF IsSeq
<1> DEFINE U == S \cup T
<1>3. /\ DOMAIN s = 1..Len(s) /\ Len(s) \in Nat /\ \A i \in 1..Len(s) : s[i] \in S
      /\ DOMAIN t = 1..Len(t) /\ Len(t) \in Nat /\ \A i \in 1..Len(t) : t[i] \in T
  BY <1>1, <1>2, LenProperties, ElementOfSeq
<1>4. s = [i \in 1..Len(s) |-> s[i]] /\ t = [i \in 1..Len(t) |-> t[i]]
  BY <1>1, <1>2, <1>3
<1>5. s \in Seq(U) /\ t \in Seq(U)
  BY <1>1, <1>2, <1>3, <1>4
<1> QED BY <1>5

LEMMA Grouped ==
  ASSUME NEW s, IsSeq(s), NEW t, IsSeq(t), NEW u, IsSeq(u)
  PROVE  (s \o t) \o u = s \o (t \o u)
<1>1. PICK S : s \in Seq(S) /\ t \in Seq(S)
  BY Together
<1>2. IsSeq(s \o t)
  BY SetOfConcat
<1>3. PICK T : t \in Seq(T) /\ u \in Seq(T)
  BY Together
<1> DEFINE U == S \cup T
<1>4. /\ DOMAIN s = 1..Len(s) /\ Len(s) \in Nat /\ \A i \in 1..Len(s) : s[i] \in S
      /\ DOMAIN t = 1..Len(t) /\ Len(t) \in Nat /\ \A i \in 1..Len(t) : t[i] \in S
      /\ DOMAIN u = 1..Len(u) /\ Len(u) \in Nat /\ \A i \in 1..Len(u) : u[i] \in T
  BY <1>1, <1>3, LenProperties, ElementOfSeq
<1>5. /\ s = [i \in 1..Len(s) |-> s[i]] /\ t = [i \in 1..Len(t) |-> t[i]]
      /\ u = [i \in 1..Len(u) |-> u[i]]
  BY <1>1, <1>3, <1>4
<1>6. s \in Seq(U) /\ t \in Seq(U) /\ u \in Seq(U)
  BY <1>1, <1>3, <1>4, <1>5
<1> HIDE DEF U
<1> QED BY <1>6, ConcatAssociative

LEMMA FirstAndRest ==
  ASSUME NEW x, NEW rest, IsSeq(rest)
  PROVE  /\ IsSeq(<<x>> \o rest) /\ <<x>> \o rest # <<>>
         /\ Head(<<x>> \o rest) = x /\ Tail(<<x>> \o rest) = rest
<1> DEFINE all == <<x>> \o rest
<1>1. /\ IsSeq(all) /\ Len(all) = 1 + Len(rest) /\ Len(rest) \in Nat
      /\ \A i \in 1..(1 + Len(rest)) : all[i] = IF i <= 1 THEN x ELSE rest[i - 1]
  <2> DEFINE one == <<x>>
  <2>1. IsSeq(one) /\ Len(one) = 1 /\ one[1] = x
    BY Tuples
  <2>2. all = one \o rest
    OBVIOUS
  <2> HIDE DEF one, all
  <2>3. /\ IsSeq(one \o rest) /\ Len(one \o rest) = 1 + Len(rest) /\ Len(rest) \in Nat
        /\ \A i \in 1..(1 + Len(rest)) : (one \o rest)[i] = IF i <= 1 THEN one[i] ELSE rest[i - 1]
    BY <2>1, SetOfConcat
  <2> QED BY <2>1, <2>2, <2>3
<1> HIDE DEF all
<1>2. all # <<>>
  BY <1>1, Tuples
<1>3. /\ IsSeq(Tail(all)) /\ Head(all) = all[1] /\ Len(Tail(all)) = Len(all) - 1
      /\ \A i \in 1..Len(Tail(all)) : Tail(all)[i] = all[i + 1]
  BY <1>1, <1>2, SeqParts
<1>4. Head(all) = x
  BY <1>1, <1>3
<1>5. PICK U : Tail(all) \in Seq(U) /\ rest \in Seq(U)
  BY <1>1, <1>3, Together
<1>6. Len(Tail(all)) = Len(rest)
  BY <1>1, <1>3
<1>7. ASSUME NEW i \in 1..Len(rest) PROVE Tail(all)[i] = rest[i]
  <2>1. i + 1 \in 1..(1 + Len(rest)) /\ ~(i + 1 <= 1) /\ (i + 1) - 1 = i
    BY <1>1
  <2> QED BY <1>1, <1>3, <1>6, <2>1
<1>8. Tail(all) = rest
  BY <1>5, <1>6, <1>7, SeqEqual
<1> QED BY <1>1, <1>2, <1>4, <1>8 DEF all

LEMMA ListIsSeq ==
  ASSUME NEW n \in Nat, NEW f, f = [i \in 1..n |-> f[i]]
  PROVE  IsSeq(f) /\ Len(f) = n /\ \A x \in ToSet(f) : \E i \in 1..n : x = f[i]
<1>1. f \in Seq({f[i] : i \in 1..n}) /\ Len(f) = n /\ DOMAIN f = 1..n
  OBVIOUS
<1> QED BY <1>1 DEF IsSeq, ToSet

\* Files of typed disks are listed.
LEMMA ListedFiles ==
  ASSUME NEW d, Typed(d), NEW places, places \subseteq DOMAIN d
  PROVE  /\ Len(Listed(places)) \in Nat
         /\ \A i \in 1..Len(Listed(places)) : Listed(places)[i] \in places
<1>1. IsFiniteSet(places)
  BY FS_Subset DEF Typed
<1>2. Listed(places) \in Seq(places)
  BY <1>1, ListedLists
<1> QED BY <1>2, LenProperties, ElementOfSeq

\* The text of a carried file, with its parent line and its alias rewritten,
\* may be written where the file is now.
LEMMA CarriedFine ==
  ASSUME NEW d, Typed(d), NEW from \in Dirs \ {<<>>}, NEW to \in Dirs \ {<<>>}, Under(d, to) = {},
         NEW safe, "none" \in safe, NEW p \in DOMAIN d, d[p].is = "face",
         NEW text \in FaceTexts, Hand(text) = Hand(d[p])
  PROVE  /\ Fine(Put(New(from, to, p), text), Carried(d, from, to), safe)
         /\ Put(New(from, to, p), text).do = "put"
<1> DEFINE e == Carried(d, from, to)
           q == New(from, to, p)
<1>1. d[p] \in FaceTexts
  BY DEF Typed
<1>3. Typed(e)
  BY CarriedTyped
<1>4. q \in DOMAIN e /\ e[q] = d[p]
  BY CarriedKeeps
<1> HIDE DEF e, q
<1>5. q \in Places /\ FacePlace(q)
  BY <1>3, <1>4 DEF Typed
<1>6. Fine(Put(q, text), e, safe) /\ Put(q, text).do = "put"
  BY <1>3, <1>4, <1>5, PutFine
<1> QED BY <1>6 DEF e, q

LEMMA NewIs ==
  ASSUME NEW p \in Places, NEW from, NEW to
  PROVE  [p EXCEPT !.dir = Atomic!Rebased(from, to, @)] = New(from, to, p)
BY PlaceParts DEF New

LEMMA NewFace ==
  ASSUME NEW from \in Dirs \ {<<>>}, NEW to \in Dirs \ {<<>>}
  PROVE  New(from, to, FaceFile(from)) = At(to, Last(from))
BY FaceFileIs, RebasedItself DEF New

LEMMA MovedDir ==
  ASSUME NEW d, NEW r, Faced(d, r.dir), r.to \in Dirs, FreshName(r.name)
  PROVE  Append(r.to, r.name) \in Dirs \ {<<>>} /\ Last(Append(r.to, r.name)) = r.name
BY DirExtended DEF FreshName

MoveRest(d, r) == Tail(MovePlan(d, r))

\* A move is calm once its directory has the new name.
LEMMA MoveCalm ==
  ASSUME NEW d, Typed(d), NEW safe, "none" \in safe, NEW r, Faced(d, r.dir), r.to \in Dirs,
         FreshName(r.name)
  PROVE  /\ MovePlan(d, r) # <<>> /\ Head(MovePlan(d, r)) = Step(MoveDir(r.dir, Append(r.to, r.name)), <<>>)
         /\ Under(d, Append(r.to, r.name)) = {}
              => Calm(MoveRest(d, r), Carried(d, r.dir, Append(r.to, r.name)), safe)
<1> DEFINE to == Append(r.to, r.name)
           home == <<MoveDir(to, r.dir)>>
           children == Listed({p \in Standard(d) : d[p].parent = r.dir})
           moved == [d[FaceFile(r.dir)] EXCEPT
                       !.parent = r.to, !.alias = IF r.to = <<>> THEN "root" ELSE Last(r.to)]
           place(p) == [p EXCEPT !.dir = Atomic!Rebased(r.dir, to, @)]
           first == Step(MoveDir(r.dir, to), <<>>)
           own == Tearing(Step(Put(FaceFile(to), moved), home))
           child(i) == Late(Tearing(Step(Put(place(children[i]), [d[children[i]] EXCEPT !.parent = to]), home)))
           each == [i \in 1..Len(children) |-> child(i)]
           note == Late(Step(Put(MoveNote, [is |-> "note"]), <<>>))
           rest == IF r.name # Last(r.dir) THEN <<Step(Refuse, home)>> ELSE <<own>> \o each \o <<note>>
           e == Carried(d, r.dir, to)
<1>1. MovePlan(d, r) = <<first>> \o rest
  BY DEF MovePlan
<1>2. to \in Dirs \ {<<>>} /\ Last(to) = r.name /\ r.dir \in Dirs \ {<<>>}
  BY MovedDir DEF Faced
<1>3. /\ Len(children) \in Nat
      /\ \A i \in 1..Len(children) : children[i] \in DOMAIN d /\ d[children[i]].is = "face"
  <2> DEFINE places == {p \in Standard(d) : d[p].parent = r.dir}
  <2>1. places \subseteq DOMAIN d /\ \A p \in places : d[p].is = "face"
    BY DEF Standard
  <2> HIDE DEF places
  <2> QED BY <2>1, ListedFiles DEF places
<1>4. IsSeq(each) /\ \A x \in ToSet(each) : \E i \in 1..Len(children) : x = child(i)
  <2>1. each = [i \in 1..Len(children) |-> each[i]] /\ \A i \in 1..Len(children) : each[i] = child(i)
    OBVIOUS
  <2> HIDE DEF each, child, children
  <2> QED BY <1>3, <2>1, ListIsSeq
<1>5. IsSeq(rest)
  <2> HIDE DEF each, own, note, home
  <2>1. IsSeq(<<own>> \o each)
    BY <1>4, Tuples, SetOfConcat
  <2>2. IsSeq((<<own>> \o each) \o <<note>>)
    BY <2>1, Tuples, SetOfConcat
  <2> QED BY <2>2, Tuples
<1>6. MovePlan(d, r) # <<>> /\ Head(MovePlan(d, r)) = first /\ MoveRest(d, r) = rest
  <2> HIDE DEF first, rest
  <2> QED BY <1>1, <1>5, FirstAndRest DEF MoveRest
<1>7. ASSUME Under(d, to) = {}
      PROVE  \A s \in ToSet(rest) : FineStep(s, e, safe)
  <2>0. Typed(e)
    BY <1>2, <1>7, CarriedTyped
  <2>1. Backward(home) /\ \A c \in ToSet(home) : Fine(c, e, safe)
    <3>1. to \in Dirs \ {<<>>} /\ r.dir \in Dirs \ {<<>>}
      BY <1>2
    <3>2. Fine(MoveDir(to, r.dir), e, safe) /\ MoveDir(to, r.dir).do = "move"
      <4> HIDE DEF to, e
      <4> QED BY <3>1, MoveFine
    <3> QED BY <3>2, UndoFine
  <2>2. FineStep(Step(Refuse, home), e, safe)
    <3> HIDE DEF home, e
    <3> QED BY <2>1, OtherFine, StepsFine
  <2>3. r.name = Last(r.dir) => FineStep(own, e, safe)
    <3> SUFFICES ASSUME r.name = Last(r.dir) PROVE FineStep(own, e, safe)
      OBVIOUS
    <3>1. FaceFile(to) = New(r.dir, to, FaceFile(r.dir))
      <4> HIDE DEF to
      <4> QED BY <1>2, NewFace, FaceFileIs
    <3>2. (IF r.to = <<>> THEN "root" ELSE Last(r.to)) \in Words
      BY DirParts DEF Words
    <3>3. FaceFile(r.dir) \in DOMAIN d /\ d[FaceFile(r.dir)].is = "face"
      BY FacedName DEF Faced
    <3>4. Fine(Put(FaceFile(to), moved), e, safe) /\ Put(FaceFile(to), moved).do = "put"
      <4> DEFINE alias == IF r.to = <<>> THEN "root" ELSE Last(r.to)
      <4>1. alias \in Words
        BY <3>2
      <4>2. moved \in FaceTexts /\ Hand(moved) = Hand(d[FaceFile(r.dir)])
        <5>1. moved = [d[FaceFile(r.dir)] EXCEPT !.parent = r.to, !.alias = alias] /\ r.to \in Seq(Words)
          BY DEF Dirs
        <5> HIDE DEF moved, alias
        <5> QED BY <4>1, <5>1 DEF FaceTexts, Hand, Faced
      <4> HIDE DEF alias, to, moved
      <4>3. /\ Fine(Put(New(r.dir, to, FaceFile(r.dir)), moved), Carried(d, r.dir, to), safe)
            /\ Put(New(r.dir, to, FaceFile(r.dir)), moved).do = "put"
        BY <1>2, <1>7, <3>3, <4>2, CarriedFine
      <4> QED BY <3>1, <4>3
    <3> HIDE DEF moved, home, e
    <3> QED BY <2>1, <3>4, StepsFine
  <2>4. ASSUME NEW i \in 1..Len(children) PROVE FineStep(child(i), e, safe)
    <3> DEFINE p == children[i]
               text == [d[p] EXCEPT !.parent = to]
    <3>1. p \in DOMAIN d /\ d[p].is = "face" /\ p \in Places /\ d[p] \in FaceTexts
      BY <1>3 DEF Typed
    <3>2. place(p) = New(r.dir, to, p)
      BY <3>1, NewIs
    <3> HIDE DEF p
    <3>3. text \in FaceTexts /\ Hand(text) = Hand(d[p])
      <4>1. to \in Seq(Words)
        BY <1>2 DEF Dirs
      <4> HIDE DEF to
      <4> QED BY <3>1, <4>1 DEF FaceTexts, Hand
    <3>4. Fine(Put(New(r.dir, to, p), text), e, safe) /\ Put(New(r.dir, to, p), text).do = "put"
      <4> HIDE DEF to, text
      <4> QED BY <1>2, <1>7, <3>1, <3>3, CarriedFine
    <3> DEFINE call == Put(New(r.dir, to, p), text)
    <3>5. child(i) = Late(Tearing(Step(call, home)))
      BY <3>2 DEF p
    <3> HIDE DEF child, call, home, text, e
    <3> QED BY <2>1, <3>4, <3>5, StepsFine DEF call
  <2>5. FineStep(note, e, safe)
    <3>1. MoveNote \in Places /\ ~FacePlace(MoveNote)
      BY OtherPlaces
    <3> DEFINE text == [is |-> "note"]
    <3>2. text.is # "face"
      OBVIOUS
    <3> HIDE DEF text, e
    <3>3. Fine(Put(MoveNote, text), e, safe) /\ Put(MoveNote, text).do = "put"
      BY <2>0, <3>1, <3>2, OtherFilesFine
    <3>4. FineStep(Late(Step(Put(MoveNote, text), <<>>)), e, safe)
      BY <3>3, UndoFine, StepsFine
    <3> QED BY <3>4 DEF text
  <2> HIDE DEF each, child, own, note, e, home, children
  <2>6. CASE r.name # Last(r.dir)
    <3>1. rest = <<Step(Refuse, home)>>
      BY <2>6
    <3> HIDE DEF rest
    <3> QED BY <2>2, <3>1, OneStep
  <2>7. CASE r.name = Last(r.dir)
    <3>1. rest = (<<own>> \o each) \o <<note>>
      BY <2>7
    <3>2. \A s \in ToSet(each) : FineStep(s, e, safe)
      BY <1>4, <2>4
    <3>3. IsSeq(<<own>> \o each) /\ \A s \in ToSet(<<own>> \o each) : FineStep(s, e, safe)
      BY <1>4, <2>3, <2>7, <3>2, OneStep, MoreSteps
    <3>4. \A s \in ToSet((<<own>> \o each) \o <<note>>) : FineStep(s, e, safe)
      BY <2>5, <3>3, OneStep, MoreSteps
    <3> HIDE DEF rest
    <3> QED BY <3>1, <3>4
  <2> QED BY <2>6, <2>7
<1> HIDE DEF rest, first, e
<1>8. ASSUME Under(d, to) = {} PROVE Calm(rest, e, safe)
  <2> DEFINE kept == safe \cup Stashed(rest)
  <2>1. \A s \in ToSet(rest) : FineStep(s, e, safe)
    BY <1>7, <1>8
  <2>2. \A s \in ToSet(rest) : FineStep(s, e, kept)
    BY <2>1 DEF FineStep, Fine, Agrees
  <2> QED BY <1>5, <2>2, CalmFromFine
<1> QED BY <1>6, <1>8 DEF first, e

-----------------------------------------------------------------------------
(* A rename, once the directory and the face file have their new names.      *)

RenameTo(r) == Append(Front(r.dir), r.name)
OldName(r) == At(RenameTo(r), Last(r.dir))
NewFile(r, p) == IF p = FaceFile(r.dir) THEN FaceFile(RenameTo(r)) ELSE New(r.dir, RenameTo(r), p)
AfterMove(d, r) == Carried(d, r.dir, RenameTo(r))
AfterRename(d, r) ==
  LET e == AfterMove(d, r)
  IN Set(Only(e, DOMAIN e \ {OldName(r)}), FaceFile(RenameTo(r)), e[OldName(r)])

\* The request names a face and gives it another name.
Renaming(d, r) ==
  /\ Typed(d) /\ Faced(d, r.dir) /\ AskedFace(r.face) /\ FreshName(r.name) /\ r.name # Last(r.dir)

LEMMA RenamedDir ==
  ASSUME NEW d, NEW r, Renaming(d, r)
  PROVE  /\ RenameTo(r) \in Dirs \ {<<>>} /\ r.dir \in Dirs \ {<<>>} /\ RenameTo(r) # r.dir
         /\ Last(RenameTo(r)) = r.name /\ ~IsPrefix(RenameTo(r), r.dir)
         /\ FaceFile(RenameTo(r)) = At(RenameTo(r), r.name) /\ FaceFile(RenameTo(r)) # OldName(r)
<1> DEFINE to == RenameTo(r)
           front == Front(r.dir)
<1>1. /\ r.dir \in Dirs /\ r.dir # <<>> /\ front \in Dirs /\ Last(r.dir) \in Words
      /\ Len(r.dir) \in Nat \ {0}
  BY DirParts DEF Renaming, Faced
<1>2. Len(front) = Len(r.dir) - 1
  <2>1. front \in Seq(Words) /\ front = SubSeq(r.dir, 1, Len(r.dir) - 1)
    BY <1>1 DEF Front, Dirs
  <2>2. Len(SubSeq(r.dir, 1, Len(r.dir) - 1)) = Len(r.dir) - 1
    <3>1. \A i \in 1..(Len(r.dir) - 1) : r.dir[i] \in Words
      BY <1>1, ElementOfSeq DEF Dirs
    <3>2. 1 \in Int /\ Len(r.dir) - 1 \in Int
      BY <1>1
    <3> QED BY <1>1, <3>1, <3>2, SubSeqProperties
  <2> QED BY <2>1, <2>2
<1> HIDE DEF front
<1>3. /\ to \in Dirs /\ to # <<>> /\ Last(to) = r.name /\ Len(to) = Len(front) + 1
  <2>1. r.name \in Words
    BY DEF Renaming, FreshName
  <2> QED BY <1>1, <2>1, DirExtended DEF RenameTo, front
<1> HIDE DEF to
<1>4. to # r.dir
  BY <1>3 DEF Renaming
<1>5. ~IsPrefix(to, r.dir)
  <2> SUFFICES ASSUME IsPrefix(to, r.dir) PROVE FALSE
    OBVIOUS
  <2>1. Len(to) = Len(r.dir)
    BY <1>1, <1>2, <1>3
  <2>2. to \in Seq(Words) /\ r.dir \in Seq(Words)
    BY <1>1, <1>3 DEF Dirs
  <2>3. \A i \in 1..Len(to) : to[i] = r.dir[i]
    BY <2>2, PrefixPointwise
  <2>4. to = r.dir
    BY <2>1, <2>2, <2>3, SeqEqual
  <2> QED BY <1>4, <2>4
<1>6. FaceFile(to) = At(to, r.name)
  BY <1>3, FaceFileIs
<1>7. FaceFile(to) # OldName(r)
  BY <1>6 DEF OldName, At, Renaming, to
<1> QED BY <1>1, <1>3, <1>4, <1>5, <1>6, <1>7 DEF to

\* Where the files are between the two renames and after them. Only a file
\* that had the new name already is replaced.
LEMMA RenamedFiles ==
  ASSUME NEW d, NEW r, Renaming(d, r), Under(d, RenameTo(r)) = {}
  PROVE  LET e == AfterMove(d, r)
             f == AfterRename(d, r)
             face == FaceFile(r.dir)
             new == FaceFile(RenameTo(r))
             moved(p) == New(r.dir, RenameTo(r), p)
         IN /\ Typed(e) /\ OldName(r) \in DOMAIN e /\ e[OldName(r)] = d[face]
            /\ \A p \in DOMAIN d : moved(p) \in DOMAIN e /\ e[moved(p)] = d[p]
            /\ \A p \in DOMAIN d : moved(p) = new => p = At(r.dir, r.name)
            /\ new \in DOMAIN e => At(r.dir, r.name) \in DOMAIN d /\ e[new] = d[At(r.dir, r.name)]
            /\ Typed(f) /\ new \in DOMAIN f /\ f[new] = d[face]
            /\ \A p \in DOMAIN d : p # face /\ moved(p) # new => moved(p) \in DOMAIN f /\ f[moved(p)] = d[p]
            /\ OldName(r) \notin DOMAIN f /\ face \notin DOMAIN f
            /\ new \in Places /\ FacePlace(new) /\ OldName(r) \in Places
<1> DEFINE to == RenameTo(r)
           e == AfterMove(d, r)
           f == AfterRename(d, r)
           face == FaceFile(r.dir)
           new == FaceFile(to)
           old == OldName(r)
           moved(p) == New(r.dir, to, p)
<1>1. /\ to \in Dirs \ {<<>>} /\ r.dir \in Dirs \ {<<>>} /\ to # r.dir /\ ~IsPrefix(to, r.dir)
      /\ new = At(to, r.name) /\ new # old /\ Typed(d) /\ Under(d, to) = {}
  BY RenamedDir DEF Renaming
<1>2. Typed(e)
  BY <1>1, CarriedTyped DEF AfterMove
<1>3. /\ \A p \in DOMAIN d : moved(p) \in DOMAIN e /\ e[moved(p)] = d[p]
  BY <1>1, CarriedKeeps DEF AfterMove
<1>4. \A q \in DOMAIN e : \E p \in DOMAIN d : q = moved(p)
  BY <1>1, CarriedKeeps DEF AfterMove
<1>5. \A p, q \in DOMAIN d : moved(p) = moved(q) => p = q
  BY <1>1, CarriedKeeps DEF AfterMove
<1>6. face \in DOMAIN d /\ moved(face) = old
  <2>1. New(r.dir, to, FaceFile(r.dir)) = At(to, Last(r.dir))
    <3> HIDE DEF to
    <3> QED BY <1>1, NewFace
  <2> QED BY <2>1 DEF OldName, Renaming, Faced
<1>7. \A p \in DOMAIN d : p.dir \in Dirs /\ p = At(p.dir, p.file) /\ ~IsPrefix(to, p.dir)
  <2> SUFFICES ASSUME NEW p \in DOMAIN d PROVE p.dir \in Dirs /\ p = At(p.dir, p.file) /\ ~IsPrefix(to, p.dir)
    OBVIOUS
  <2>1. p.dir \in Dirs /\ p = At(p.dir, p.file)
    BY <1>1, PlaceParts DEF Typed
  <2>2. ~IsPrefix(to, <<>>)
    BY <1>1, EmptySeq, LenProperties DEF IsPrefix, Dirs
  <2>3. p \notin Under(d, to)
    BY <1>1
  <2> HIDE DEF to
  <2> QED BY <2>1, <2>2, <2>3 DEF Under
<1>8. ASSUME NEW p \in DOMAIN d, moved(p) = new PROVE p = At(r.dir, r.name)
  <2>1. p.file = r.name /\ Atomic!Rebased(r.dir, to, p.dir) = to
    BY <1>1, <1>8 DEF New, At
  <2>2. CASE IsPrefix(r.dir, p.dir)
    <3>1. p.dir = r.dir
      <4> HIDE DEF to
      <4> QED BY <1>1, <1>7, <2>1, <2>2, RebasedItself
    <3> QED BY <1>7, <2>1, <3>1
  <2>3. CASE ~IsPrefix(r.dir, p.dir)
    <3>1. p.dir = to
      BY <2>1, <2>3, RebasedElsewhere
    <3>2. IsPrefix(to, to)
      <4> HIDE DEF to
      <4> QED BY <1>1, RebasedItself
    <3> QED BY <1>7, <3>1, <3>2
  <2> QED BY <2>2, <2>3
<1>9. ASSUME NEW p \in DOMAIN d PROVE moved(p) # face
  <2> SUFFICES ASSUME moved(p) = face PROVE FALSE
    OBVIOUS
  <2>1. Atomic!Rebased(r.dir, to, p.dir) = r.dir
    BY FaceFileIs DEF New, At
  <2>2. CASE IsPrefix(r.dir, p.dir)
    <3>1. IsPrefix(to, Atomic!Rebased(r.dir, to, p.dir))
      <4> HIDE DEF to
      <4> QED BY <1>1, <1>7, <2>2, RebasedBelow
    <3> QED BY <1>1, <2>1, <3>1
  <2>3. CASE ~IsPrefix(r.dir, p.dir)
    <3>1. p.dir = r.dir
      BY <2>1, <2>3, RebasedElsewhere
    <3>2. IsPrefix(r.dir, r.dir)
      <4> HIDE DEF to
      <4> QED BY <1>1, RebasedItself
    <3> QED BY <2>3, <3>1, <3>2
  <2> QED BY <2>2, <2>3
<1>10. face # new
  BY <1>1, FaceFileIs
<1>11. new \in Places /\ FacePlace(new) /\ old \in Places
  <2>1. r.name \in Words /\ r.name # "registry_rule" /\ Last(r.dir) \in Words
    BY DirParts DEF Renaming, FreshName, Faced
  <2> QED BY <1>1, <2>1, PlaceMade DEF OldName, FacePlace
<1>12. /\ DOMAIN f = (DOMAIN e \ {old}) \cup {new} /\ f[new] = e[old]
       /\ \A q \in DOMAIN e \ {old, new} : f[q] = e[q]
  <2> HIDE DEF e, new, old
  <2> QED BY DEF AfterRename, Set, Only, e, new, old
<1>13. Typed(f)
  <2> DEFINE o == Only(e, DOMAIN e \ {old})
  <2>1. Typed(o)
    <3>1. DOMAIN e \ {old} \subseteq DOMAIN e
      OBVIOUS
    <3> HIDE DEF e, old
    <3> QED BY <1>2, <3>1, OnlyTyped
  <2>2. e[old] = d[face] /\ d[face] \in FaceTexts
    BY <1>3, <1>6 DEF Renaming, Faced
  <2> DEFINE text == e[old]
  <2>3. text \in FaceTexts
    BY <2>2
  <2>4. f = Set(o, new, text)
    BY DEF AfterRename
  <2> HIDE DEF o, f, text, new
  <2>5. Typed(Set(o, new, text))
    BY <1>11, <2>1, <2>3, SetTyped
  <2> QED BY <2>4, <2>5
<1> HIDE DEF e, f, face, new, old, moved
<1>14. old \in DOMAIN e /\ e[old] = d[face]
  BY <1>3, <1>6
<1>15. new \in DOMAIN e => At(r.dir, r.name) \in DOMAIN d /\ e[new] = d[At(r.dir, r.name)]
  BY <1>3, <1>4, <1>8
<1>16. \A p \in DOMAIN d : p # face /\ moved(p) # new => moved(p) \in DOMAIN f /\ f[moved(p)] = d[p]
  BY <1>3, <1>5, <1>6, <1>12
<1>17. old \notin DOMAIN f /\ face \notin DOMAIN f
  BY <1>1, <1>4, <1>9, <1>10, <1>12
<1> QED BY <1>2, <1>3, <1>8, <1>11, <1>12, <1>13, <1>14, <1>15, <1>16, <1>17 DEF e, f, face, new, old, moved

\* A file of the module may be written at its new place, and its old text again.
LEMMA RenamedFine ==
  ASSUME NEW d, NEW r, Renaming(d, r), Under(d, RenameTo(r)) = {},
         NEW safe, "none" \in safe, Hand(d[FaceFile(r.dir)]) \in safe,
         At(r.dir, r.name) \in DOMAIN d => Hand(d[At(r.dir, r.name)]) \in safe,
         NEW p \in DOMAIN d, NEW text,
         text.is = "face" => text \in FaceTexts /\ d[p].is = "face",
         Hand(text) = Hand(d[p]) \/ (p = FaceFile(r.dir) /\ Hand(text) = "none")
  PROVE  /\ Fine(Put(NewFile(r, p), text), AfterRename(d, r), safe)
         /\ Put(NewFile(r, p), text).do = "put" /\ Put(NewFile(r, p), text).at \in DOMAIN AfterRename(d, r)
<1> DEFINE f == AfterRename(d, r)
           face == FaceFile(r.dir)
           new == FaceFile(RenameTo(r))
           q == NewFile(r, p)
<1>1. /\ Typed(f) /\ new \in DOMAIN f /\ f[new] = d[face] /\ new \in Places /\ FacePlace(new)
      /\ p # face /\ New(r.dir, RenameTo(r), p) # new
           => New(r.dir, RenameTo(r), p) \in DOMAIN f /\ f[New(r.dir, RenameTo(r), p)] = d[p]
      /\ New(r.dir, RenameTo(r), p) = new => p = At(r.dir, r.name)
  BY RenamedFiles
<1>2. IF p = face THEN q = new ELSE q = New(r.dir, RenameTo(r), p)
  BY DEF NewFile
<1>3. q = new => Hand(text) \in safe
  <2> SUFFICES ASSUME q = new PROVE Hand(text) \in safe
    OBVIOUS
  <2>1. CASE p = face
    BY <2>1
  <2>2. CASE p # face
    <3>1. p = At(r.dir, r.name) /\ Hand(d[p]) \in safe
      BY <1>1, <1>2, <2>2
    <3>2. Hand(text) = Hand(d[p])
      BY <2>2
    <3> QED BY <3>1, <3>2
  <2> QED BY <2>1, <2>2
<1> HIDE DEF f, new, q
<1>4. q \in DOMAIN f /\ (q # new => f[q] = d[p] /\ Hand(text) = Hand(d[p]))
  BY <1>1, <1>2
<1>5. q \in Places /\ (text.is = "face" => FacePlace(q))
  BY <1>1, <1>4 DEF Typed
<1>6. \/ Hand(text) \in safe /\ Hand(f[q]) \in safe
      \/ Hand(text) = Hand(f[q])
  BY <1>1, <1>3, <1>4
<1>7. Fine(Put(q, text), f, safe) /\ Put(q, text).do = "put"
  BY <1>1, <1>4, <1>5, <1>6, PutFine
<1>8. Put(q, text).at = q
  BY DEF Put, Call
<1> QED BY <1>4, <1>7, <1>8 DEF f, q

LEMMA RewrittenTyped ==
  ASSUME NEW d, NEW r, Renaming(d, r), NEW p \in DOMAIN d
  PROVE  /\ Rewritten(d, r, p).is = "face" => Rewritten(d, r, p) \in FaceTexts /\ d[p].is = "face"
         /\ Hand(Rewritten(d, r, p)) = IF p = FaceFile(r.dir) THEN "none" ELSE Hand(d[p])
<1> DEFINE text == IF p = FaceFile(r.dir) THEN Rendered(d, r) ELSE d[p]
           alias == IF Len(r.dir) = 1 /\ text.alias = Last(r.dir) THEN r.name ELSE text.alias
           parent == Atomic!Rebased(r.dir, RenameTo(r), text.parent)
<1>1. Rewritten(d, r, p) = IF text.is # "face" THEN text ELSE [text EXCEPT !.parent = parent, !.alias = alias]
  BY DEF Rewritten, RenameTo
<1>2. Rendered(d, r) \in FaceTexts /\ Hand(Rendered(d, r)) = "none"
  BY RenderedTyped DEF Renaming
<1>3. /\ text.is = "face" => text \in FaceTexts /\ d[p].is = "face"
      /\ Hand(text) = IF p = FaceFile(r.dir) THEN "none" ELSE Hand(d[p])
  <2>1. CASE p = FaceFile(r.dir)
    BY <1>2, <2>1, FacedName DEF Renaming
  <2>2. CASE p # FaceFile(r.dir)
    BY <2>2 DEF Renaming, Typed
  <2> QED BY <2>1, <2>2
<1>4. text \in FaceTexts => parent \in Seq(Words) /\ alias \in Words
  <2> SUFFICES ASSUME text \in FaceTexts PROVE parent \in Seq(Words) /\ alias \in Words
    OBVIOUS
  <2>1. text.parent \in Dirs /\ text.alias \in Words /\ r.name \in Words
    BY DEF FaceTexts, Dirs, Renaming, FreshName
  <2>2. RenameTo(r) \in Dirs /\ r.dir \in Dirs
    BY RenamedDir
  <2> HIDE DEF text
  <2>3. parent \in Dirs
    BY <2>1, <2>2, RebasedTyped
  <2> QED BY <2>1, <2>3 DEF Dirs
<1> HIDE DEF text, parent, alias
<1>5. CASE text.is # "face"
  BY <1>1, <1>3, <1>5
<1>6. CASE text.is = "face"
  <2> DEFINE t == [text EXCEPT !.parent = parent, !.alias = alias]
  <2>1. text \in FaceTexts /\ parent \in Seq(Words) /\ alias \in Words
    BY <1>3, <1>4, <1>6
  <2>2. t \in FaceTexts /\ t.hand = text.hand
    BY <2>1 DEF FaceTexts
  <2>3. Rewritten(d, r, p) = t /\ t.is = "face"
    BY <1>1, <1>6, <2>1 DEF FaceTexts
  <2> HIDE DEF t
  <2> QED BY <1>3, <1>6, <2>2, <2>3 DEF Hand
<1> QED BY <1>5, <1>6

\* What a rename and its rollback do once both names have changed.
Back(r) == Rename(At(r.dir, r.name), FaceFile(r.dir))
GoodCall(c, d, r, safe) ==
  \/ c = Back(r)
  \/ /\ Fine(c, AfterRename(d, r), safe)
     /\ c.do \in {"put", "create"} => c.do = "put" /\ c.at \in DOMAIN AfterRename(d, r)
     /\ c.do = "move" => c.from = RenameTo(r) /\ c.to = r.dir

LEMMA BackIs ==
  ASSUME NEW r
  PROVE  /\ Back(r).do = "rename" /\ Back(r).at = At(r.dir, r.name) /\ Back(r).to = FaceFile(r.dir)
BY DEF Back, Rename, Call

LEMMA GoodIsHarmless ==
  ASSUME NEW d, NEW r, Renaming(d, r), Under(d, RenameTo(r)) = {}, NEW safe, "none" \in safe,
         NEW calls, \A c \in calls : GoodCall(c, d, r, safe)
  PROVE  Harmless(calls, AfterRename(d, r), safe)
<1> DEFINE f == AfterRename(d, r)
           face == FaceFile(r.dir)
<1>1. face \notin DOMAIN f /\ OldName(r) \notin DOMAIN f
  BY RenamedFiles
<1>2. /\ face \in Places /\ FacePlace(face) /\ At(r.dir, r.name) \in Places
      /\ face.dir = r.dir /\ face.file = Last(r.dir)
  <2>1. face \in Places /\ FacePlace(face) /\ r.dir \in Dirs /\ r.name \in Words
    BY DEF Renaming, Faced, FreshName
  <2> QED BY <2>1, FaceFileIs, PlaceMade
<1>3. Back(r).do = "rename" /\ Back(r).at = At(r.dir, r.name) /\ Back(r).to = face
  BY BackIs
<1> HIDE DEF f, face
<1>4. \A c \in calls : CallOK(c)
  <2>1. CallOK(Back(r))
    BY <1>2, <1>3 DEF CallOK
  <2> QED BY <2>1 DEF GoodCall, Fine
<1>5. \A c \in calls : c.do = "rename" => c.to = face
  BY <1>3 DEF GoodCall, Fine
<1>6. \A w \in Writes(calls) : Agrees(w, f, safe) /\ w.at \in DOMAIN f
  BY <1>3 DEF GoodCall, Fine, Writes, f
<1>7. \A m \in Moves(calls) : m.from = RenameTo(r) /\ m.to = r.dir
  BY <1>3 DEF GoodCall, Moves
<1>8. Fits(calls, f, safe)
  BY <1>6, FitsFromDisk DEF Agrees
<1>9. Clear(calls, f)
  <2>1. At(RenameTo(r), Last(r.dir)) = OldName(r)
    BY DEF OldName
  <2> QED BY <1>1, <1>2, <1>5, <1>6, <1>7, <2>1 DEF Clear, Free
<1> QED BY <1>4, <1>8, <1>9 DEF Harmless, f

\* A rollback writes where files are, then takes both names back.
LEMMA RollbackIsGood ==
  ASSUME NEW d, NEW r, Renaming(d, r), Under(d, RenameTo(r)) = {},
         NEW safe, "none" \in safe, Hand(d[FaceFile(r.dir)]) \in safe,
         At(r.dir, r.name) \in DOMAIN d => Hand(d[At(r.dir, r.name)]) \in safe,
         NEW moved, \A i \in 1..Len(moved) : moved[i] \in DOMAIN d, Len(moved) \in Nat,
         NEW n \in 0..Len(moved)
  PROVE  /\ Backward(Rollback(d, r, moved, n))
         /\ \A c \in ToSet(Rollback(d, r, moved, n)) : GoodCall(c, d, r, safe)
<1> DEFINE to == RenameTo(r)
           puts == [i \in 1..n |-> Put(NewFile(r, moved[n + 1 - i]), d[moved[n + 1 - i]])]
           home == MoveDir(to, r.dir)
           end == <<home, Back(r)>>
           all == puts \o end
<1>1. Rollback(d, r, moved, n) = all
  <2> DEFINE back(p) == Put(IF p = FaceFile(r.dir) THEN FaceFile(to)
                            ELSE [p EXCEPT !.dir = Atomic!Rebased(r.dir, to, @)], d[p])
  <2>1. Rollback(d, r, moved, n) = [i \in 1..n |-> back(moved[n + 1 - i])] \o end
    BY DEF Rollback, RenameTo, Back
  <2>2. ASSUME NEW i \in 1..n
        PROVE  back(moved[n + 1 - i]) = Put(NewFile(r, moved[n + 1 - i]), d[moved[n + 1 - i]])
    <3>1. n + 1 - i \in 1..Len(moved)
      OBVIOUS
    <3> DEFINE p == moved[n + 1 - i]
    <3>2. p \in Places
      BY <3>1 DEF Renaming, Typed
    <3>3. [p EXCEPT !.dir = Atomic!Rebased(r.dir, to, @)] = New(r.dir, to, p)
      BY <3>2, NewIs
    <3> HIDE DEF p
    <3> QED BY <3>3 DEF NewFile, p
  <2>3. [i \in 1..n |-> back(moved[n + 1 - i])] = puts
    BY <2>2
  <2> HIDE DEF end, back, puts
  <2> QED BY <2>1, <2>3
<1>2. /\ n \in Nat /\ \A i \in 1..n :
        /\ GoodCall(puts[i], d, r, safe) /\ puts[i].do = "put"
  <2> SUFFICES ASSUME NEW i \in 1..n PROVE GoodCall(puts[i], d, r, safe) /\ puts[i].do = "put"
    OBVIOUS
  <2> DEFINE p == moved[n + 1 - i]
  <2>1. n + 1 - i \in 1..Len(moved)
    OBVIOUS
  <2>2. p \in DOMAIN d /\ (d[p].is = "face" => d[p] \in FaceTexts)
    BY <2>1 DEF Renaming, Typed
  <2>3. puts[i] = Put(NewFile(r, p), d[p])
    OBVIOUS
  <2> HIDE DEF p, puts
  <2>4. /\ Fine(Put(NewFile(r, p), d[p]), AfterRename(d, r), safe)
        /\ Put(NewFile(r, p), d[p]).do = "put" /\ Put(NewFile(r, p), d[p]).at \in DOMAIN AfterRename(d, r)
    BY <2>2, RenamedFine
  <2> QED BY <2>3, <2>4 DEF GoodCall
<1>3. GoodCall(home, d, r, safe) /\ home.do = "move" /\ Back(r).do = "rename" /\ GoodCall(Back(r), d, r, safe)
  <2>1. to \in Dirs \ {<<>>} /\ r.dir \in Dirs \ {<<>>}
    BY RenamedDir
  <2> DEFINE f == AfterRename(d, r)
  <2> HIDE DEF to, f
  <2>2. /\ Fine(MoveDir(to, r.dir), f, safe) /\ MoveDir(to, r.dir).do = "move"
        /\ MoveDir(to, r.dir).from = to /\ MoveDir(to, r.dir).to = r.dir
    <3>1. Fine(MoveDir(to, r.dir), f, safe) /\ MoveDir(to, r.dir).do = "move"
      BY <2>1, MoveFine
    <3>2. MoveDir(to, r.dir).from = to /\ MoveDir(to, r.dir).to = r.dir
      BY DEF MoveDir, Call
    <3> QED BY <3>1, <3>2
  <2>3. Fine(home, f, safe) /\ home.do = "move" /\ home.from = to /\ home.to = r.dir
    BY <2>2
  <2> HIDE DEF home
  <2> QED BY <2>3, BackIs DEF GoodCall, to, f
<1>4. IsSeq(puts) /\ Len(puts) = n /\ \A x \in ToSet(puts) : \E i \in 1..n : x = puts[i]
  <2>1. puts = [i \in 1..n |-> puts[i]]
    OBVIOUS
  <2> HIDE DEF puts
  <2> QED BY <1>2, <2>1, ListIsSeq
<1>5. IsSeq(end) /\ ToSet(end) = {home, Back(r)} /\ Len(end) = 2 /\ end[1] = home /\ end[2] = Back(r)
  BY Tuples
<1> HIDE DEF puts, home, end, all
<1>6. /\ IsSeq(all) /\ ToSet(all) = ToSet(puts) \cup ToSet(end) /\ Len(all) = n + 2
      /\ \A i \in 1..(n + 2) : all[i] = IF i <= n THEN puts[i] ELSE end[i - n]
  <2>1. /\ IsSeq(puts \o end) /\ ToSet(puts \o end) = ToSet(puts) \cup ToSet(end)
        /\ Len(puts \o end) = Len(puts) + Len(end)
        /\ \A i \in 1..(Len(puts) + Len(end)) :
             (puts \o end)[i] = IF i <= Len(puts) THEN puts[i] ELSE end[i - Len(puts)]
    BY <1>4, <1>5, SetOfConcat
  <2>2. all = puts \o end
    BY DEF all
  <2> QED BY <1>4, <1>5, <2>1, <2>2
<1>7. \A c \in ToSet(all) : GoodCall(c, d, r, safe)
  BY <1>2, <1>3, <1>4, <1>5, <1>6
<1>8. Backward(all)
  <2>1. ASSUME NEW i \in 1..Len(all)
        PROVE  /\ i <= n => all[i].do = "put"
               /\ i = n + 1 => all[i].do = "move"
               /\ i = n + 2 => all[i].do = "rename"
               /\ i <= n \/ i = n + 1 \/ i = n + 2
    <3>1. i \in 1..(n + 2) /\ n \in Nat
      BY <1>2, <1>6
    <3>2. CASE i <= n
      BY <1>2, <1>6, <3>1, <3>2
    <3>3. CASE i = n + 1
      <4>1. i - n = 1 /\ ~(i <= n)
        BY <3>1, <3>3
      <4>2. all[i] = end[1]
        BY <1>6, <3>1, <4>1
      <4> QED BY <1>3, <1>5, <3>1, <3>3, <4>2
    <3>4. CASE i = n + 2
      <4>1. i - n = 2 /\ ~(i <= n)
        BY <3>1, <3>4
      <4>2. all[i] = end[2]
        BY <1>6, <3>1, <4>1
      <4> QED BY <1>3, <1>5, <3>1, <3>4, <4>2
    <3>5. i <= n \/ i = n + 1 \/ i = n + 2
      BY <3>1
    <3> QED BY <3>2, <3>3, <3>4, <3>5
  <2>2. ASSUME NEW i \in 1..Len(all), NEW j \in 1..Len(all), i < j
        PROVE  all[i].do # "rename" /\ (all[i].do = "move" => all[j].do = "rename")
    <3>1. i <= n \/ (i = n + 1 /\ j = n + 2)
      BY <1>2, <1>6, <2>2
    <3> QED BY <2>1, <3>1
  <2> QED BY <1>6, <2>1, <2>2 DEF Backward
<1> QED BY <1>1, <1>7, <1>8

-----------------------------------------------------------------------------
\* The plan of a rename: two renames, then the files and the registry's word.
Files(d, r) == Listed({p \in Under(d, r.dir) \ {At(r.dir, r.name)} : d[p].is # "torn"})
RenameRest(d, r) ==
  [i \in 1..Len(Files(d, r)) |->
     Step(Put(NewFile(r, Files(d, r)[i]), Rewritten(d, r, Files(d, r)[i])), Rollback(d, r, Files(d, r), i))]
  \o <<Step(Check, Rollback(d, r, Files(d, r), Len(Files(d, r))))>>
FirstStep(r) == Step(MoveDir(r.dir, RenameTo(r)), <<>>)
SecondStep(r) == Step(Rename(OldName(r), FaceFile(RenameTo(r))), <<MoveDir(RenameTo(r), r.dir)>>)

LEMMA FilesListed ==
  ASSUME NEW d, Typed(d), NEW r
  PROVE  /\ Len(Files(d, r)) \in Nat
         /\ \A i \in 1..Len(Files(d, r)) : Files(d, r)[i] \in DOMAIN d /\ Files(d, r)[i] \in Places
<1> DEFINE places == {p \in Under(d, r.dir) \ {At(r.dir, r.name)} : d[p].is # "torn"}
<1>1. places \subseteq DOMAIN d
  BY DEF Under
<1>2. Files(d, r) = Listed(places)
  BY DEF Files
<1> HIDE DEF places
<1>3. Len(Files(d, r)) \in Nat /\ \A i \in 1..Len(Files(d, r)) : Files(d, r)[i] \in places
  BY <1>1, <1>2, ListedFiles
<1> QED BY <1>1, <1>3 DEF Typed

LEMMA Pair ==
  ASSUME NEW x, NEW y
  PROVE  <<x, y>> = <<x>> \o <<y>>
<1> DEFINE one == <<x>>
           two == <<y>>
           both == <<x, y>>
<1>1. /\ IsSeq(one) /\ IsSeq(two) /\ IsSeq(both) /\ Len(one) = 1 /\ Len(two) = 1 /\ Len(both) = 2
      /\ one[1] = x /\ two[1] = y /\ both[1] = x /\ both[2] = y
  BY Tuples
<1> HIDE DEF one, two, both
<1>2. /\ IsSeq(one \o two) /\ Len(one \o two) = 2
      /\ \A i \in 1..2 : (one \o two)[i] = IF i <= 1 THEN one[i] ELSE two[i - 1]
  <2>1. /\ IsSeq(one \o two) /\ Len(one \o two) = Len(one) + Len(two)
        /\ \A i \in 1..(Len(one) + Len(two)) :
             (one \o two)[i] = IF i <= Len(one) THEN one[i] ELSE two[i - Len(one)]
    BY <1>1, SetOfConcat
  <2> QED BY <1>1, <2>1
<1>3. (one \o two)[1] = x /\ (one \o two)[2] = y
  <2>1. 1 \in 1..2 /\ 2 \in 1..2 /\ 1 <= 1 /\ ~(2 <= 1) /\ 2 - 1 = 1
    OBVIOUS
  <2> QED BY <1>1, <1>2, <2>1
<1>4. PICK U : both \in Seq(U) /\ one \o two \in Seq(U)
  BY <1>1, <1>2, Together
<1>5. ASSUME NEW i \in 1..Len(both) PROVE both[i] = (one \o two)[i]
  <2>1. i = 1 \/ i = 2
    BY <1>1
  <2> QED BY <1>1, <1>3, <2>1
<1>6. both = one \o two
  BY <1>1, <1>2, <1>4, <1>5, SeqEqual
<1> QED BY <1>6 DEF one, two, both

LEMMA RenameShape ==
  ASSUME NEW d, Typed(d), NEW r
  PROVE  /\ RenamePlan(d, r) # <<>> /\ Head(RenamePlan(d, r)) = FirstStep(r)
         /\ Tail(RenamePlan(d, r)) # <<>> /\ Head(Tail(RenamePlan(d, r))) = SecondStep(r)
         /\ Tail(Tail(RenamePlan(d, r))) = RenameRest(d, r)
         /\ IsSeq(RenameRest(d, r))
         /\ \A s \in ToSet(RenameRest(d, r)) :
              \/ s = Step(Check, Rollback(d, r, Files(d, r), Len(Files(d, r))))
              \/ \E i \in 1..Len(Files(d, r)) :
                   s = Step(Put(NewFile(r, Files(d, r)[i]), Rewritten(d, r, Files(d, r)[i])),
                            Rollback(d, r, Files(d, r), i))
<1> DEFINE to == RenameTo(r)
           moved == Files(d, r)
           step(i) == Step(Put(NewFile(r, moved[i]), Rewritten(d, r, moved[i])), Rollback(d, r, moved, i))
           each == [i \in 1..Len(moved) |-> step(i)]
           final == Step(Check, Rollback(d, r, moved, Len(moved)))
           S1 == FirstStep(r)
           S2 == SecondStep(r)
<1>1. Len(moved) \in Nat /\ \A i \in 1..Len(moved) : moved[i] \in Places
  BY FilesListed
<1>2. RenamePlan(d, r) = (<<S1, S2>> \o each) \o <<final>>
  <2> DEFINE place(p) == IF p = FaceFile(r.dir) THEN FaceFile(to)
                         ELSE [p EXCEPT !.dir = Atomic!Rebased(r.dir, to, @)]
             planned(i) == Step(Put(place(moved[i]), Rewritten(d, r, moved[i])), Rollback(d, r, moved, i))
  <2>1. RenamePlan(d, r) = <<S1, S2>> \o [i \in 1..Len(moved) |-> planned(i)] \o <<final>>
    BY DEF RenamePlan, FirstStep, SecondStep, RenameTo, OldName, Files
  <2>2. ASSUME NEW i \in 1..Len(moved) PROVE planned(i) = step(i)
    <3>1. [moved[i] EXCEPT !.dir = Atomic!Rebased(r.dir, to, @)] = New(r.dir, to, moved[i])
      BY <1>1, NewIs
    <3> HIDE DEF moved
    <3> QED BY <3>1 DEF NewFile
  <2> HIDE DEF planned, step
  <2>3. [i \in 1..Len(moved) |-> planned(i)] = each
    BY <2>2
  <2> HIDE DEF each, S1, S2, final
  <2> QED BY <2>1, <2>3
<1>3. RenameRest(d, r) = each \o <<final>>
  BY DEF RenameRest
<1>4. IsSeq(each) /\ \A x \in ToSet(each) : \E i \in 1..Len(moved) : x = step(i)
  <2>1. each = [i \in 1..Len(moved) |-> each[i]] /\ \A i \in 1..Len(moved) : each[i] = step(i)
    OBVIOUS
  <2> HIDE DEF each, step, moved
  <2> QED BY <1>1, <2>1, ListIsSeq
<1> HIDE DEF each, final, S1, S2
<1> DEFINE rest == each \o <<final>>
<1>5. IsSeq(rest) /\ ToSet(rest) = ToSet(each) \cup {final}
  <2>1. IsSeq(<<final>>) /\ ToSet(<<final>>) = {final}
    BY Tuples
  <2>2. IsSeq(each \o <<final>>) /\ ToSet(each \o <<final>>) = ToSet(each) \cup ToSet(<<final>>)
    BY <1>4, <2>1, SetOfConcat
  <2> QED BY <2>1, <2>2
<1>6. RenamePlan(d, r) = <<S1>> \o (<<S2>> \o rest)
  <2>1. IsSeq(<<S1>>) /\ IsSeq(<<S2>>) /\ IsSeq(<<final>>) /\ IsSeq(<<S1, S2>>)
    BY Tuples
  <2>2. <<S1, S2>> = <<S1>> \o <<S2>>
    BY Pair
  <2>3. RenamePlan(d, r) = <<S1, S2>> \o rest
    BY <1>2, <1>4, <2>1, Grouped
  <2> HIDE DEF rest
  <2> QED BY <1>5, <2>1, <2>2, <2>3, Grouped
<1> HIDE DEF rest
<1>7. IsSeq(<<S2>> \o rest) /\ <<S2>> \o rest # <<>> /\ Head(<<S2>> \o rest) = S2 /\ Tail(<<S2>> \o rest) = rest
  BY <1>5, FirstAndRest
<1> DEFINE later == <<S2>> \o rest
<1>8. IsSeq(later) /\ RenamePlan(d, r) = <<S1>> \o later
  BY <1>6, <1>7
<1> HIDE DEF later
<1>9. <<S1>> \o later # <<>> /\ Head(<<S1>> \o later) = S1 /\ Tail(<<S1>> \o later) = later
  BY <1>8, FirstAndRest
<1>10. /\ RenamePlan(d, r) # <<>> /\ Head(RenamePlan(d, r)) = S1 /\ Tail(RenamePlan(d, r)) = later
  BY <1>8, <1>9
<1>11. later # <<>> /\ Head(later) = S2 /\ Tail(later) = RenameRest(d, r)
  BY <1>3, <1>7 DEF later, rest
<1>12. \A s \in ToSet(RenameRest(d, r)) : s = final \/ \E i \in 1..Len(moved) : s = step(i)
  <2>1. RenameRest(d, r) = rest
    BY <1>3 DEF rest
  <2> HIDE DEF step, moved
  <2> QED BY <1>4, <1>5, <2>1
<1>13. IsSeq(RenameRest(d, r))
  BY <1>3, <1>5 DEF rest
<1> QED BY <1>10, <1>11, <1>12, <1>13 DEF S1, S2, final

\* Once both names have changed, the rest of a rename is calm.
LEMMA RenameCalm ==
  ASSUME NEW d, NEW r, Renaming(d, r), Under(d, RenameTo(r)) = {},
         NEW safe, "none" \in safe, Hand(d[FaceFile(r.dir)]) \in safe,
         At(r.dir, r.name) \in DOMAIN d => Hand(d[At(r.dir, r.name)]) \in safe
  PROVE  Calm(RenameRest(d, r), AfterRename(d, r), safe)
<1> DEFINE moved == Files(d, r)
           rest == RenameRest(d, r)
           calls == Pending(ToSet(rest))
<1>1. Typed(d) /\ Len(moved) \in Nat /\ \A i \in 1..Len(moved) : moved[i] \in DOMAIN d
  BY FilesListed DEF Renaming
<1>2. ASSUME NEW n \in 0..Len(moved)
      PROVE  /\ Backward(Rollback(d, r, moved, n))
             /\ \A c \in ToSet(Rollback(d, r, moved, n)) : GoodCall(c, d, r, safe)
  <2> HIDE DEF moved
  <2> QED BY <1>1, <1>2, RollbackIsGood
<1>3. ASSUME NEW i \in 1..Len(moved)
      PROVE  LET call == Put(NewFile(r, moved[i]), Rewritten(d, r, moved[i]))
             IN GoodCall(call, d, r, safe) /\ call.do = "put"
  <2> DEFINE p == moved[i]
             text == Rewritten(d, r, p)
  <2>1. p \in DOMAIN d
    BY <1>1
  <2> HIDE DEF p
  <2>2. /\ text.is = "face" => text \in FaceTexts /\ d[p].is = "face"
        /\ Hand(text) = IF p = FaceFile(r.dir) THEN "none" ELSE Hand(d[p])
    BY <2>1, RewrittenTyped
  <2> HIDE DEF text
  <2>3. Hand(text) = Hand(d[p]) \/ (p = FaceFile(r.dir) /\ Hand(text) = "none")
    BY <2>2
  <2>4. /\ Fine(Put(NewFile(r, p), text), AfterRename(d, r), safe)
        /\ Put(NewFile(r, p), text).do = "put" /\ Put(NewFile(r, p), text).at \in DOMAIN AfterRename(d, r)
    BY <2>1, <2>2, <2>3, RenamedFine
  <2> QED BY <2>4 DEF GoodCall, text, p
<1>4. GoodCall(Check, d, r, safe) /\ Check.do = "check"
  BY OtherFine DEF GoodCall
<1>5. /\ IsSeq(rest)
      /\ \A s \in ToSet(rest) :
           \/ s = Step(Check, Rollback(d, r, moved, Len(moved)))
           \/ \E i \in 1..Len(moved) :
                s = Step(Put(NewFile(r, moved[i]), Rewritten(d, r, moved[i])), Rollback(d, r, moved, i))
  BY <1>1, RenameShape
<1> HIDE DEF moved, rest
<1>6. ASSUME NEW s \in ToSet(rest)
      PROVE  /\ GoodCall(s.call, d, r, safe) /\ s.call.do \in {"put", "check"} /\ ~s.tears
             /\ Backward(s.undo) /\ \A c \in ToSet(s.undo) : GoodCall(c, d, r, safe)
  <2>1. CASE s = Step(Check, Rollback(d, r, moved, Len(moved)))
    <3>1. Len(moved) \in 0..Len(moved)
      BY <1>1
    <3>2. s.call = Check /\ s.undo = Rollback(d, r, moved, Len(moved)) /\ ~s.tears
      BY <2>1, StepIs
    <3> QED BY <1>2, <1>4, <3>1, <3>2
  <2>2. ASSUME NEW i \in 1..Len(moved),
               s = Step(Put(NewFile(r, moved[i]), Rewritten(d, r, moved[i])), Rollback(d, r, moved, i))
        PROVE  /\ GoodCall(s.call, d, r, safe) /\ s.call.do \in {"put", "check"} /\ ~s.tears
               /\ Backward(s.undo) /\ \A c \in ToSet(s.undo) : GoodCall(c, d, r, safe)
    <3>1. i \in 0..Len(moved)
      BY <1>1
    <3>2. /\ s.call = Put(NewFile(r, moved[i]), Rewritten(d, r, moved[i]))
          /\ s.undo = Rollback(d, r, moved, i) /\ ~s.tears
      BY <2>2, StepIs
    <3> QED BY <1>2, <1>3, <3>1, <3>2
  <2> QED BY <1>5, <2>1, <2>2
<1>7. \A s \in ToSet(rest) : CalmStep(s)
  BY <1>6 DEF CalmStep
<1>8. \A c \in calls : GoodCall(c, d, r, safe)
  BY <1>6 DEF Pending
<1> HIDE DEF calls
<1>9. Harmless(calls, AfterRename(d, r), safe)
  BY <1>8, GoodIsHarmless
<1>10. Stashed(rest) \subseteq {}
  <2> SUFFICES ASSUME rest # <<>>, Head(rest).call.do = "stash" PROVE FALSE
    BY DEF Stashed
  <2>1. Head(rest) \in ToSet(rest)
    BY <1>5, SeqParts
  <2> QED BY <1>6, <2>1
<1>11. safe \cup Stashed(rest) = safe
  BY <1>10
<1> QED BY <1>5, <1>7, <1>9, <1>11 DEF Calm, calls, rest

-----------------------------------------------------------------------------
(* The invariant.                                                            *)

\* A move or a rename that has yet to make its first call.
Fresh ==
  /\ before = disk /\ todo = Plan(disk, request) /\ Given(disk, request) \subseteq shed
  /\ \/ /\ request.op = "move" /\ Faced(disk, request.dir)
        /\ request.to \in Dirs /\ FreshName(request.name)
     \/ Renames(request) /\ Renaming(disk, request)
\* A rename whose directory has its new name and whose face file has not.
Halfway ==
  /\ Renames(request) /\ Renaming(before, request) /\ Under(before, RenameTo(request)) = {}
  /\ disk = AfterMove(before, request) /\ todo = Tail(RenamePlan(before, request))
  /\ Given(before, request) \subseteq shed
HandIInv ==
  /\ Typed(disk) /\ HandTextKept
  /\ mode \in {"idle", "working", "undoing"}
  /\ mode = "working" => Fresh \/ Halfway \/ Calm(todo, disk, Gone)
  /\ mode = "undoing" => Backward(undoing) /\ Harmless(ToSet(undoing), disk, Gone)

LEMMA PlanOf ==
  ASSUME NEW d, NEW r
  PROVE  /\ r.op = "move" => Plan(d, r) = MovePlan(d, r)
         /\ Renames(r) => Plan(d, r) = RenamePlan(d, r)
BY DEF Plan, Renames

LEMMA GivenIsGone ==
  ASSUME NEW d, NEW r, Given(d, r) \subseteq shed, Renames(r), Faced(d, r.dir)
  PROVE  /\ Hand(d[FaceFile(r.dir)]) \in Gone
         /\ At(r.dir, r.name) \in DOMAIN d => Hand(d[At(r.dir, r.name)]) \in Gone
<1> DEFINE safe == Gone
<1>1. "none" \in safe /\ Given(d, r) \subseteq safe
  BY DEF Gone
<1> HIDE DEF safe
<1>2. FaceFile(r.dir) \in DOMAIN d /\ r.op = "edit"
  BY DEF Faced, Renames
<1>3. Hand(d[FaceFile(r.dir)]) \in safe
  BY <1>1, <1>2, GivenHas
<1>4. At(r.dir, r.name) \in DOMAIN d => Hand(d[At(r.dir, r.name)]) \in safe
  BY <1>1, GivenHas
<1> QED BY <1>3, <1>4 DEF safe

\* The first step of a move or a rename renames the directory.
LEMMA FreshHead ==
  ASSUME Typed(disk), Fresh
  PROVE  /\ todo # <<>>
         /\ \E to \in Dirs \ {<<>>} :
              /\ request.dir \in Dirs \ {<<>>} /\ Head(todo) = Step(MoveDir(request.dir, to), <<>>)
              /\ request.op = "move" => to = Append(request.to, request.name)
              /\ Renames(request) => to = RenameTo(request)
<1>1. CASE request.op = "move"
  <2> DEFINE to == Append(request.to, request.name)
  <2>1. Faced(disk, request.dir) /\ request.to \in Dirs /\ FreshName(request.name) /\ ~Renames(request)
    BY <1>1 DEF Fresh, Renames, Renaming
  <2>2. to \in Dirs \ {<<>>} /\ request.dir \in Dirs \ {<<>>}
    BY <2>1, MovedDir DEF Faced
  <2>3. todo = MovePlan(disk, request)
    BY <1>1, PlanOf DEF Fresh
  <2> DEFINE safe == {"none"}
  <2>4. "none" \in safe
    OBVIOUS
  <2> HIDE DEF safe
  <2>5. MovePlan(disk, request) # <<>> /\ Head(MovePlan(disk, request)) = Step(MoveDir(request.dir, to), <<>>)
    BY <2>1, <2>4, MoveCalm
  <2> QED BY <1>1, <2>1, <2>2, <2>3, <2>5
<1>2. CASE Renames(request)
  <2>1. Renaming(disk, request) /\ request.op # "move" /\ todo = RenamePlan(disk, request)
    BY <1>2, PlanOf DEF Fresh, Renames
  <2>2. RenameTo(request) \in Dirs \ {<<>>} /\ request.dir \in Dirs \ {<<>>}
    BY <2>1, RenamedDir
  <2>3. todo # <<>> /\ Head(todo) = Step(MoveDir(request.dir, RenameTo(request)), <<>>)
    BY <2>1, RenameShape DEF FirstStep
  <2> QED BY <1>2, <2>1, <2>2, <2>3
<1> QED BY <1>1, <1>2 DEF Fresh

LEMMA HalfwayHead ==
  ASSUME Halfway
  PROVE  /\ todo # <<>> /\ Head(todo) = SecondStep(request) /\ Tail(todo) = RenameRest(before, request)
         /\ RenameTo(request) \in Dirs \ {<<>>} /\ request.dir \in Dirs \ {<<>>}
<1>1. Typed(before) /\ Renaming(before, request)
  BY DEF Halfway, Renaming
<1> QED BY <1>1, RenameShape, RenamedDir DEF Halfway

\* What they undo is harmless, and they write nothing that could be torn.
LEMMA EarlyUndo ==
  ASSUME Typed(disk), Fresh \/ Halfway
  PROVE  /\ todo # <<>> /\ ~Head(todo).tears
         /\ Backward(Head(todo).undo) /\ Harmless(ToSet(Head(todo).undo), disk, Gone)
<1> DEFINE safe == Gone
<1>1. CASE Fresh
  <2>1. todo # <<>> /\ Head(todo).undo = <<>> /\ ~Head(todo).tears
    BY <1>1, FreshHead, StepIs
  <2>2. Backward(<<>>) /\ ToSet(<<>>) = {}
    BY ShortUndo, Tuples
  <2>3. Harmless({}, disk, safe)
    BY DEF Harmless, Fits, Clear
  <2> QED BY <2>1, <2>2, <2>3
<1>2. CASE Halfway
  <2> DEFINE home == MoveDir(RenameTo(request), request.dir)
  <2>1. /\ todo # <<>> /\ Head(todo).undo = <<home>> /\ ~Head(todo).tears
        /\ RenameTo(request) \in Dirs \ {<<>>} /\ request.dir \in Dirs \ {<<>>}
    BY <1>2, HalfwayHead, StepIs DEF SecondStep
  <2> DEFINE d == disk
  <2> HIDE DEF safe, d
  <2>2. Fine(home, d, safe) /\ home.do = "move"
    BY <2>1, MoveFine
  <2> HIDE DEF home
  <2>3. Backward(<<home>>) /\ ToSet(<<home>>) = {home}
    BY <2>2, ShortUndo, Tuples
  <2>4. Harmless({home}, d, safe)
    BY <2>2 DEF Harmless, Fits, Clear, Fine
  <2> QED BY <2>1, <2>3, <2>4 DEF safe, d
<1> QED BY <1>1, <1>2

LEMMA FreshDo ==
  ASSUME HandIInv, Fresh, Do
  PROVE  Typed(disk') /\ HandTextKept' /\ (Halfway' \/ Calm(todo', disk', Gone'))
<1>1. PICK to \in Dirs \ {<<>>} :
              /\ request.dir \in Dirs \ {<<>>} /\ Head(todo) = Step(MoveDir(request.dir, to), <<>>)
              /\ request.op = "move" => to = Append(request.to, request.name)
              /\ Renames(request) => to = RenameTo(request)
  BY FreshHead DEF HandIInv
<1> DEFINE c == MoveDir(request.dir, to)
<1>2. Head(todo).call = c
  BY <1>1, StepIs
<1>3. c.do = "move" /\ c.from = request.dir /\ c.to = to /\ c.at = Entry
  BY DEF MoveDir, Call
<1>4. /\ Possible(disk, c) /\ disk' = DiskAfter(disk, c) /\ trash' = TrashAfter(disk, trash, c)
      /\ todo' = Tail(todo) /\ before' = before /\ request' = request /\ shed' = shed
  BY <1>2 DEF Do
<1> HIDE DEF c
<1>5. CallOK(c)
  <2>1. Entry \in Places
    BY OtherPlaces
  <2> QED BY <1>1, <1>3, <2>1 DEF CallOK
<1>6. Typed(disk') /\ HandTextKept'
  BY <1>3, <1>4, <1>5, CallLosesNothing DEF HandIInv
<1>7. disk' = Carried(disk, request.dir, to) /\ Under(disk, to) = {}
  <2>1. DiskAfter(disk, c) = Carried(disk, c.from, c.to)
    BY <1>3, DiskAfterIs, Zenon
  <2>2. Under(disk, c.to) = {}
    BY <1>3, <1>4, PossibleIs
  <2> QED BY <1>3, <1>4, <2>1, <2>2
<1>8. CASE request.op = "move"
  <2>1. /\ todo = MovePlan(disk, request) /\ Faced(disk, request.dir) /\ request.to \in Dirs
        /\ FreshName(request.name) /\ to = Append(request.to, request.name)
    BY <1>1, <1>8, PlanOf DEF Fresh, Renames
  <2> DEFINE safe == Gone'
  <2>2. "none" \in safe
    BY DEF Gone
  <2> HIDE DEF safe
  <2>3. Calm(MoveRest(disk, request), Carried(disk, request.dir, to), safe)
    BY <1>7, <2>1, <2>2, MoveCalm DEF HandIInv
  <2>4. todo' = MoveRest(disk, request)
    BY <1>4, <2>1 DEF MoveRest
  <2> QED BY <1>6, <1>7, <2>3, <2>4 DEF safe
<1>9. CASE Renames(request)
  <2>1. Renaming(disk, request) /\ before = disk /\ todo = RenamePlan(disk, request) /\ to = RenameTo(request)
    BY <1>1, <1>9, PlanOf DEF Fresh, Renames
  <2>2. disk' = AfterMove(before, request) /\ todo' = Tail(RenamePlan(before, request))
    BY <1>4, <1>7, <2>1 DEF AfterMove
  <2>3. Halfway'
    BY <1>4, <1>7, <1>9, <2>1, <2>2 DEF Halfway, Fresh
  <2> QED BY <1>6, <2>3
<1> QED BY <1>8, <1>9 DEF Fresh

\* The second rename replaces only what the request gave up.
LEMMA HalfwayDo ==
  ASSUME HandIInv, Halfway, Do
  PROVE  Typed(disk') /\ HandTextKept' /\ Calm(todo', disk', Gone')
<1> DEFINE r == request
           d == before
           new == FaceFile(RenameTo(r))
           c == Rename(OldName(r), new)
<1>1. Head(todo) = SecondStep(r) /\ Tail(todo) = RenameRest(d, r)
  BY HalfwayHead
<1>2. Head(todo).call = c
  BY <1>1, StepIs DEF SecondStep
<1>3. c.do = "rename" /\ c.at = OldName(r) /\ c.to = new
  BY DEF Rename, Call
<1>4. /\ Possible(disk, c) /\ disk' = DiskAfter(disk, c) /\ trash' = TrashAfter(disk, trash, c)
      /\ todo' = RenameRest(d, r) /\ shed' = shed
  BY <1>1, <1>2 DEF Do
<1> HIDE DEF c
<1>5. Renaming(d, r) /\ Under(d, RenameTo(r)) = {} /\ Renames(r) /\ disk = AfterMove(d, r) /\ Given(d, r) \subseteq shed
  BY DEF Halfway
<1>6. /\ new \in Places /\ FacePlace(new) /\ OldName(r) \in Places
      /\ new \in DOMAIN disk => At(r.dir, r.name) \in DOMAIN d /\ disk[new] = d[At(r.dir, r.name)]
  BY <1>5, RenamedFiles
<1>7. /\ Hand(d[FaceFile(r.dir)]) \in Gone
      /\ At(r.dir, r.name) \in DOMAIN d => Hand(d[At(r.dir, r.name)]) \in Gone
  BY <1>5, GivenIsGone DEF Renaming
<1>8. Gone \subseteq Gone'
  BY <1>4, TrashGrows, GoneGrows
<1> HIDE DEF new
<1>9. CallOK(c)
  BY <1>3, <1>6 DEF CallOK
<1>10. Typed(disk') /\ HandTextKept'
  <2>1. c.do = "rename" /\ c.to \in DOMAIN disk => Hand(disk[c.to]) \in Gone'
    BY <1>3, <1>6, <1>7, <1>8
  <2>2. ~(c.do = "put")
    BY <1>3
  <2> QED BY <1>4, <1>9, <2>1, <2>2, CallLosesNothing DEF HandIInv
<1>11. disk' = AfterRename(d, r)
  <2>1. DiskAfter(disk, c) = Set(Only(disk, DOMAIN disk \ {c.at}), c.to, disk[c.at])
    BY <1>3, DiskAfterIs, Zenon
  <2>2. disk' = Set(Only(disk, DOMAIN disk \ {OldName(r)}), new, disk[OldName(r)])
    BY <1>3, <1>4, <2>1
  <2> QED BY <1>5, <2>2 DEF AfterRename, new
<1>12. Calm(RenameRest(d, r), AfterRename(d, r), Gone')
  <2> DEFINE safe == Gone'
  <2>1. /\ "none" \in safe /\ Hand(d[FaceFile(r.dir)]) \in safe
        /\ At(r.dir, r.name) \in DOMAIN d => Hand(d[At(r.dir, r.name)]) \in safe
    BY <1>7, <1>8 DEF Gone
  <2> HIDE DEF safe
  <2>2. Calm(RenameRest(d, r), AfterRename(d, r), safe)
    BY <1>5, <2>1, RenameCalm
  <2> QED BY <2>2 DEF safe
<1> QED BY <1>4, <1>10, <1>11, <1>12

\* Each action keeps the invariant.
LEMMA BeginKeeps ==
  ASSUME HandIInv, Begin
  PROVE  HandIInv'
<1>1. /\ disk' = disk /\ trash' = trash /\ before' = disk /\ mode' = "working"
  BY DEF Begin
<1>2. PICK r \in Atomic!Requests(View(disk)) :
        /\ Accepted(disk, r) /\ request' = r /\ todo' = Plan(disk, r) /\ shed' = shed \cup Given(disk, r)
  BY DEF Begin
<1>3. Typed(disk') /\ HandTextKept'
  BY <1>1, <1>2, WholeLosesNothing DEF HandIInv
<1>4. /\ r.op \in {"create", "edit", "promote", "delete", "deepen", "cut", "graft", "retire", "move", "plugin"}
      /\ r.op \notin {"create", "plugin"} => Faced(disk, r.dir)
      /\ r.op \in {"edit", "move"} => FreshName(r.name)
      /\ r.op \in {"create", "edit", "promote"} => AskedFace(r.face)
      /\ r.op = "move" => r.to \in Dirs
  BY RequestParts DEF HandIInv
<1>5. CASE r.op = "move"
  <2>1. Fresh'
    BY <1>1, <1>2, <1>4, <1>5 DEF Fresh
  <2> QED BY <1>1, <1>3, <2>1 DEF HandIInv
<1>6. CASE Renames(r)
  <2>1. Renaming(disk, r)
    BY <1>4, <1>6 DEF Renaming, Renames, HandIInv
  <2>2. Fresh'
    BY <1>1, <1>2, <1>6, <2>1 DEF Fresh
  <2> QED BY <1>1, <1>3, <2>2 DEF HandIInv
<1>7. CASE r.op # "move" /\ ~Renames(r)
  <2> DEFINE safe == Gone'
  <2>1. "none" \in safe /\ Given(disk, r) \subseteq safe
    BY <1>2 DEF Gone
  <2> HIDE DEF safe
  <2>2. Calm(Plan(disk, r), disk, safe)
    BY <1>2, <1>7, <2>1, PlansAreCalm DEF HandIInv
  <2> QED BY <1>1, <1>2, <1>3, <2>2 DEF HandIInv, safe
<1> QED BY <1>5, <1>6, <1>7

LEMMA FailKeeps ==
  ASSUME HandIInv, Fail
  PROVE  HandIInv'
<1>1. /\ mode = "working" /\ todo # <<>> /\ mode' = "undoing" /\ trash' = trash
      /\ undoing' = Head(todo).undo /\ (Whole \/ Tears(Head(todo)))
  BY DEF Fail
<1>2. Typed(disk) /\ HandTextKept /\ (Fresh \/ Halfway \/ Calm(todo, disk, Gone))
  BY <1>1 DEF HandIInv
<1>3. Backward(Head(todo).undo) /\ Harmless(ToSet(Head(todo).undo), disk, Gone)
  BY <1>1, <1>2, EarlyUndo, CalmUndo
<1>4. CASE Whole
  <2>1. disk' = disk /\ shed' = shed /\ Gone' = Gone
    BY <1>1, <1>4 DEF Whole, Gone
  <2>2. HandTextKept'
    BY <1>1, <1>2, <2>1, WholeLosesNothing
  <2> QED BY <1>1, <1>2, <1>3, <2>1, <2>2 DEF HandIInv
<1>5. CASE Tears(Head(todo))
  <2>1. Calm(todo, disk, Gone)
    BY <1>2, <1>5, EarlyUndo DEF Tears
  <2>2. Typed(disk') /\ HandTextKept' /\ Harmless(ToSet(Head(todo).undo), disk', Gone')
    BY <1>1, <1>2, <1>5, <2>1, CalmTears
  <2> QED BY <1>1, <1>3, <2>2 DEF HandIInv
<1> QED BY <1>1, <1>4, <1>5

LEMMA HandInit == Init => HandIInv
<1> SUFFICES ASSUME Init PROVE HandIInv
  OBVIOUS
<1>1. disk = Start /\ mode = "idle" /\ Typed(Start)
  BY StartAssumption DEF Init
<1> QED BY <1>1 DEF HandIInv, HandTextKept

LEMMA HandNext == HandIInv /\ [Next]_authoringVars => HandIInv'
<1> SUFFICES ASSUME HandIInv, [Next]_authoringVars PROVE HandIInv'
  OBVIOUS
<1>1. CASE Begin
  BY <1>1, BeginKeeps
<1>2. CASE Do
  <2>1. mode = "working" /\ mode' = "working"
    BY <1>2 DEF Do
  <2>2. Typed(disk') /\ HandTextKept' /\ (Halfway' \/ Calm(todo', disk', Gone'))
    BY <1>2, <2>1, FreshDo, HalfwayDo, CalmDo DEF HandIInv
  <2> QED BY <2>1, <2>2 DEF HandIInv
<1>3. CASE Fail
  BY <1>3, FailKeeps
<1>4. CASE Undo
  <2>1. /\ mode = "undoing" /\ mode' = mode /\ undoing # <<>> /\ undoing' = Tail(undoing)
        /\ UNCHANGED <<trash, shed>>
        /\ \/ Possible(disk, Head(undoing)) /\ disk' = DiskAfter(disk, Head(undoing))
           \/ UNCHANGED disk
    BY <1>4 DEF Undo
  <2>2. Typed(disk') /\ HandTextKept' /\ Backward(undoing') /\ Harmless(ToSet(undoing'), disk', Gone')
    BY <2>1, UndoKeeps DEF HandIInv
  <2> QED BY <2>1, <2>2 DEF HandIInv
<1>5. CASE Finish \/ Report
  <2>1. UNCHANGED <<disk, trash, shed>> /\ mode' = "idle"
    BY <1>5 DEF Finish, Report, Answer
  <2>2. HandTextKept'
    BY <2>1, WholeLosesNothing DEF HandIInv
  <2> QED BY <2>1, <2>2 DEF HandIInv
<1>6. CASE Crash
  <2>1. mode' = "idle" /\ trash' = trash /\ (Whole \/ (mode = "working" /\ todo # <<>> /\ Tears(Head(todo))))
    BY <1>6 DEF Crash
  <2>2. CASE Whole
    <3>1. UNCHANGED <<disk, trash, shed>>
      BY <2>1, <2>2 DEF Whole
    <3>2. HandTextKept'
      BY <3>1, WholeLosesNothing DEF HandIInv
    <3> QED BY <2>1, <3>1, <3>2 DEF HandIInv
  <2>3. CASE mode = "working" /\ todo # <<>> /\ Tears(Head(todo))
    <3>1. Calm(todo, disk, Gone)
      BY <2>3, EarlyUndo DEF Tears, HandIInv
    <3>2. Typed(disk') /\ HandTextKept'
      BY <2>1, <2>3, <3>1, CalmTears DEF HandIInv
    <3> QED BY <2>1, <3>2 DEF HandIInv
  <2> QED BY <2>1, <2>2, <2>3
<1>7. CASE UNCHANGED authoringVars
  <2>1. UNCHANGED <<disk, trash, before, request, todo, undoing, mode, shed>>
    BY <1>7 DEF authoringVars, progress
  <2>2. HandTextKept'
    BY <2>1, WholeLosesNothing DEF HandIInv
  <2>3. Gone' = Gone /\ (Fresh => Fresh') /\ (Halfway => Halfway')
    BY <2>1 DEF Gone, Fresh, Halfway
  <2> QED BY <2>1, <2>2, <2>3 DEF HandIInv
<1> QED BY <1>1, <1>2, <1>3, <1>4, <1>5, <1>6, <1>7 DEF Next

\* Lines written by hand are never lost: through every request, failure, torn
\* write and crash they are on the disk, in the trash, or among those the
\* request gave up when it began (stash_face_source, delete_module).
THEOREM HandTextIsKept == Spec => []HandTextKept
<1>1. HandIInv => HandTextKept
  BY DEF HandIInv
<1> QED BY <1>1, HandInit, HandNext, PTL DEF Spec

\* The files stay at places the program makes, and a face at a place of a face
\* has all its fields, whatever fails (generated_paths, render_source).
THEOREM SourcesStayTyped == Spec => []Typed(disk)
<1>1. HandIInv => Typed(disk)
  BY DEF HandIInv
<1> QED BY <1>1, HandInit, HandNext, PTL DEF Spec
=============================================================================

------------------------- MODULE PaperDeliveryProofs -------------------------
(***************************************************************************)
(* Proofs about PaperDelivery for every number of minutes, every queue     *)
(* size and every number of crashes, failed saves and stops.               *)
(***************************************************************************)
EXTENDS PaperDelivery, NaturalSets, TLAPS

USE MinutesAssumption, QueueAssumption, GapsAssumption, BoundsAssumption

\* Minutes are cursors, and so is the bootstrap cutoff.
LEMMA CursorFacts ==
  0 \in Cursors /\ Bars \subseteq Cursors /\ Cursors \subseteq Nat /\ 0 \notin Bars
BY DEF Bars, Cursors

-----------------------------------------------------------------------------
(* Types.                                                                  *)

\* A bar in hand is a real minute: it is kept while it is processed and while
\* the checkpoint that covers it is saved.
BarInHand ==
  \/ main = "process"
  \/ main \in {"rotate", "publish", "acknowledge"} /\ ~closing
  => bar \in Bars

TypeInv == TypeOK /\ BarInHand

\* The freshly built engine, and what a bar makes of an engine, are images.
LEMMA BootstrapType == Bootstrap \in EngineImages
BY CursorFacts DEF Bootstrap, EngineImages

LEMMA AbsorbType ==
  ASSUME engine \in EngineImages, NEW b \in Bars, NEW stage
  PROVE  Absorb(b, stage) \in EngineImages
<1>1. engine.context \in Seq(Bars) /\ engine.hmm \in Cursors /\ engine.clock \in Cursors
  BY DEF EngineImages
<1>2. Append(engine.context, b) \in Seq(Bars) /\ b \in Cursors
  BY <1>1, CursorFacts
<1>3. QED
  BY <1>1, <1>2 DEF Absorb, EngineImages

\* No file, a saved file and an unreadable file are checkpoint files.
LEMMA NoFileType == NoFile \in CheckpointFiles
BY BootstrapType, CursorFacts DEF NoFile, CheckpointFiles

LEMMA SavedType ==
  ASSUME NEW minute \in Cursors, NEW image \in EngineImages
  PROVE  Saved(minute, image) \in CheckpointFiles
BY DEF Saved, CheckpointFiles

LEMMA CorruptedType ==
  ASSUME NEW file \in CheckpointFiles
  PROVE  [file EXCEPT !.valid = FALSE] \in CheckpointFiles
BY DEF CheckpointFiles

\* Whatever can be enqueued is an item.
LEMMA ItemTypes ==
  /\ Exception \in Items /\ Sentinel \in Items
  /\ <<>> \in Seq(Items) /\ Len(<<>>) = 0 /\ Len(<<>>) <= QueueSize
BY DEF Items

LEMMA BarItemType == \A b \in Bars : BarItem(b) \in Items
BY DEF Items

\* Counting one more interference keeps the budget a budget.
LEMMA BudgetType ==
  ASSUME NEW b \in Budgets
  PROVE  /\ [b EXCEPT !.crashes = @ + 1] \in Budgets
         /\ [b EXCEPT !.saves = @ + 1] \in Budgets
         /\ [b EXCEPT !.failures = @ + 1] \in Budgets
         /\ [b EXCEPT !.corruptions = @ + 1] \in Budgets
         /\ [b EXCEPT !.stops = @ + 1] \in Budgets
BY DEF Budgets

\* What a restart would load is a checkpoint file.
LEMMA LoadableType ==
  ASSUME TypeOK
  PROVE  Loadable \in CheckpointFiles /\ Loadable.last \in Cursors
         /\ Loadable.engine \in EngineImages
<1>1. Loadable \in CheckpointFiles
  BY NoFileType DEF Loadable, TypeOK, DurableTypes
<1>2. QED
  BY <1>1 DEF CheckpointFiles

\* Every cursor the ledger hands out is a minute or the bootstrap cutoff.
LEMMA CommittedCursorType ==
  ASSUME TypeOK
  PROVE  CommittedCursor \in Cursors
<1>1. committed \union {after} \in SUBSET (0..Minutes)
  BY CursorFacts DEF TypeOK, DurableTypes, FeedTypes, Cursors
<1>2. QED
  BY <1>1, MaxOfInterval DEF Cursors, CommittedCursor

\* The oldest eligible minute exists and is eligible.
LEMMA MinEligible ==
  ASSUME TypeOK, Eligible(last) # {}
  PROVE  Min(Eligible(last)) \in Eligible(last)
<1>1. \A b \in Eligible(last) : b \in Nat
  BY CursorFacts DEF TypeOK, DurableTypes, Eligible
<1>2. QED
  BY <1>1, MinOfNaturals

\* The oldest unstaged minute exists and is unstaged.
LEMMA MinUnstaged ==
  ASSUME TypeOK, Unstaged # {}
  PROVE  Min(Unstaged) \in Unstaged
<1>1. \A b \in Unstaged : b \in Nat
  BY CursorFacts DEF TypeOK, DurableTypes, Unstaged
<1>2. QED
  BY <1>1, MinOfNaturals

\* A placeable bar, or the backfilled one before it, is later than the last.
LEMMA NextBarAdvances ==
  ASSUME TypeInv, Placeable
  PROVE  NextBar \in Bars /\ last < NextBar
<1>1. bar \in Bars /\ last \in Cursors
  BY DEF TypeInv, TypeOK, MainTypes, BarInHand, Placeable
<1>2. last < bar
  BY <1>1 DEF Bars, Cursors, Placeable, IsDuplicate, Refused
<1>3. CASE Expected(bar) = {}
  BY <1>1, <1>2, <1>3 DEF Bars, Cursors, Expected, NextBar
<1>4. CASE Expected(bar) # {}
  BY <1>1, <1>2, <1>4 DEF Bars, Cursors, Expected, NextBar
<1>5. QED
  BY <1>3, <1>4

\* The initial state is well typed.
LEMMA TypeInit == Init => TypeInv
<1>1. NoInterference \in Budgets
  BY DEF NoInterference, Budgets
<1>2. Init => DurableTypes
  BY NoFileType DEF Init, DurableTypes
<1>3. Init => MainTypes /\ BarInHand
  BY BootstrapType, CursorFacts DEF Init, MainTypes, BarInHand
<1>4. Init => QueueTypes /\ FeedTypes
  BY ItemTypes, CursorFacts DEF Init, QueueTypes, FeedTypes
<1>5. Init => WatchTypes
  BY <1>1, CursorFacts DEF Init, WatchTypes
<1>6. QED
  BY <1>2, <1>3, <1>4, <1>5 DEF TypeInv, TypeOK

\* When the process ends, what is left of it is well typed.
LEMMA TypeProcessEnds ==
  ASSUME TypeInv, ProcessEnds, UNCHANGED durable, budget' \in Budgets
  PROVE  TypeInv'
<1>1. DurableTypes'
  BY DEF TypeInv, TypeOK, DurableTypes, durable
<1>2. MainTypes' /\ BarInHand'
  BY BootstrapType, CursorFacts DEF MainTypes, BarInHand, ProcessEnds
<1>3. QueueTypes' /\ FeedTypes'
  BY ItemTypes, CursorFacts DEF QueueTypes, FeedTypes, ProcessEnds
<1>4. WatchTypes'
  BY CursorFacts DEF WatchTypes, ProcessEnds
<1>5. QED
  BY <1>1, <1>2, <1>3, <1>4 DEF TypeInv, TypeOK

\* Every step of the main thread keeps the types.
LEMMA TypeMain ==
  ASSUME TypeInv, MainNext \/ SaveFails \/ EngineFails \/ Restore
  PROVE  TypeInv'
<1> USE CursorFacts DEF TypeInv, TypeOK, DurableTypes, MainTypes, QueueTypes, FeedTypes, WatchTypes, BarInHand, feedVars, watchVars, mainVars, durable
<1>1. CASE Restore
  BY <1>1, LoadableType, SMTT(30) DEF Restore, AfterRestore, RestoredImage
<1>2. CASE Reconcile
  <2>1. CASE AcknowledgeOne /\ UNCHANGED main
    BY <1>2, <2>1, MinEligible, ZenonT(40) DEF Reconcile, AcknowledgeOne, Eligible
  <2>2. CASE main' = "subscribe" /\ UNCHANGED committed
    BY <1>2, <2>2 DEF Reconcile
  <2>3. QED
    BY <1>2, <2>1, <2>2 DEF Reconcile
<1>3. CASE SubscribeStage
  BY <1>3, MinUnstaged, ZenonT(40) DEF SubscribeStage, StageOne, Unstaged
<1>4. CASE Subscribe
  BY <1>4 DEF Subscribe
<1>5. CASE SubscribeFails
  BY <1>5, TypeProcessEnds DEF SubscribeFails
<1>6. CASE Get
  <2>1. Head(queue) \in Items /\ queue' \in Seq(Items) /\ Len(queue') <= QueueSize
    BY <1>6 DEF Get
  <2>2. Head(queue).kind = "bar" => Head(queue).minute \in Bars
    BY <2>1 DEF Items, BarItem, Exception, Sentinel
  <2>3. QED
    BY <1>6, <2>1, <2>2, ZenonT(40) DEF Get
<1>7. CASE RefuseBar
  BY <1>7 DEF RefuseBar
<1>8. CASE ProcessBar
  <2>1. NextBar \in Bars /\ Placeable
    BY <1>8, NextBarAdvances DEF ProcessBar
  <2>2. engine' \in EngineImages
    BY <1>8, <2>1, AbsorbType DEF ProcessBar
  <2>3. QED
    BY <1>8, <2>1, <2>2, BudgetType DEF ProcessBar, Placeable
<1>9. CASE EngineRejects
  <2>1. NextBar \in Bars /\ Placeable
    BY <1>9, NextBarAdvances DEF EngineRejects
  <2>2. engine' \in EngineImages
    BY <1>9, <2>1, AbsorbType DEF EngineRejects
  <2>3. QED
    BY <1>9, <2>1, <2>2, BudgetType DEF EngineRejects, Placeable
<1>10. CASE EngineFails
  <2>1. NextBar \in Bars /\ Placeable
    BY <1>10, NextBarAdvances DEF EngineFails
  <2>2. engine' \in EngineImages
    BY <1>10, <2>1, AbsorbType DEF EngineFails
  <2>3. budget' \in Budgets
    BY <1>10, BudgetType DEF EngineFails
  <2>4. QED
    BY <1>10, <2>1, <2>2, <2>3 DEF EngineFails, Placeable
<1>11. CASE Rotate
  BY <1>11, NoFileType DEF Rotate, RotatedBackup
<1>12. CASE Publish
  BY <1>12, SavedType DEF Publish
<1>13. CASE SaveFails
  <2>1. budget' \in Budgets
    BY <1>13, BudgetType DEF SaveFails
  <2>2. CASE closing
    BY <1>13, <2>1, <2>2, TypeProcessEnds DEF SaveFails
  <2>3. CASE ~closing
    BY <1>13, <2>1, <2>3 DEF SaveFails
  <2>4. QED
    BY <2>2, <2>3
<1>14. CASE Acknowledge
  BY <1>14, MinEligible, ZenonT(40) DEF Acknowledge, AcknowledgeOne, Eligible
<1>15. CASE Acknowledged
  <2>1. CASE closing
    BY <1>15, <2>1, TypeProcessEnds DEF Acknowledged
  <2>2. CASE ~closing /\ last = bar
    BY <1>15, <2>2 DEF Acknowledged
  <2>3. CASE ~closing /\ last # bar
    BY <1>15, <2>3 DEF Acknowledged
  <2>4. QED
    BY <2>1, <2>2, <2>3
<1>16. CASE Close
  <2>1. CASE last > 0
    BY <1>16, <2>1 DEF Close
  <2>2. CASE ~(last > 0)
    BY <1>16, <2>2, TypeProcessEnds DEF Close
  <2>3. QED
    BY <2>1, <2>2
<1>17. QED
  BY <1>1, <1>2, <1>3, <1>4, <1>5, <1>6, <1>7, <1>8, <1>9, <1>10, <1>11, <1>12,
     <1>13, <1>14, <1>15, <1>16 DEF MainNext

\* Every step of the feed thread keeps the types.
LEMMA TypeFeed ==
  ASSUME TypeInv, FeedNext
  PROVE  TypeInv'
<1> USE CursorFacts, ItemTypes
    DEF TypeInv, TypeOK, DurableTypes, MainTypes, QueueTypes, FeedTypes, WatchTypes,
        BarInHand, feedVars, watchVars, mainVars, durable, Unchanged
<1>1. CASE FeedStops
  BY <1>1 DEF FeedStops
<1>2. CASE FeedStage
  BY <1>2, MinUnstaged, ZenonT(40) DEF FeedStage, StageOne, Unstaged
<1>3. CASE FeedReadCursor
  BY <1>3, CommittedCursorType, SMTT(30) DEF FeedReadCursor
<1>4. CASE FeedGapCheck
  BY <1>4 DEF FeedGapCheck
<1>5. CASE FeedList
  <2>1. Plan \subseteq Bars
    BY DEF Plan, PendingAfter
  <2>2. QED
    BY <1>5, <2>1 DEF FeedList
<1>6. ASSUME FeedRaises PROVE TypeInv'
  BY <1>6 DEF FeedRaises
<1>7. CASE FeedRefuses
  BY <1>6, <1>7 DEF FeedRefuses
<1>8. CASE FeedEmit
  <2>1. Min(plan) \in plan
    BY <1>8, MinOfNaturals DEF FeedEmit
  <2>2. Min(plan) \in Bars /\ BarItem(Min(plan)) \in Items
    BY <2>1, BarItemType
  <2>3. QED
    BY <1>8, <2>2 DEF FeedEmit
<1>9. CASE FeedEmitted
  BY <1>9 DEF FeedEmitted
<1>10. ASSUME QueueHasSpace, NEW i \in Items, queue' = Append(queue, i)
       PROVE  QueueTypes'
  BY <1>10 DEF QueueHasSpace
<1>11. CASE FeedPut
  <2>1. QueueTypes'
    BY <1>10, <1>11 DEF FeedPut
  <2>2. QED
    BY <1>11, <2>1, ZenonT(40) DEF FeedPut
<1>12. CASE FeedHealth
  <2>1. QueueTypes'
    BY <1>10, <1>12 DEF FeedHealth
  <2>2. QED
    BY <1>12, <2>1, ZenonT(40) DEF FeedHealth
<1>13. CASE FeedSentinel
  <2>1. QueueTypes'
    BY <1>10, <1>13 DEF FeedSentinel
  <2>2. QED
    BY <1>13, <2>1 DEF FeedSentinel
<1>14. CASE RefreshFinalizes
  BY <1>14 DEF RefreshFinalizes, NextFinal
<1>15. CASE RefreshReturns
  BY <1>15 DEF RefreshReturns
<1>16. CASE RefreshRaises
  BY <1>6, <1>16 DEF RefreshRaises
<1>17. QED
  BY <1>1, <1>2, <1>3, <1>4, <1>5, <1>7, <1>8, <1>9, <1>11, <1>12, <1>13, <1>14,
     <1>15, <1>16 DEF FeedNext

\* Every step of the watchdog and of the environment keeps the types.
LEMMA TypeRest ==
  ASSUME TypeInv, WatchNext \/ Crash \/ CorruptPrimary \/ RequestStop
  PROVE  TypeInv'
<1> USE CursorFacts
    DEF TypeInv, TypeOK, DurableTypes, MainTypes, QueueTypes, FeedTypes, WatchTypes,
        BarInHand, feedVars, watchVars, mainVars, durable, OnlyWatch
<1>1. CASE WatchNext
  <2>1. CASE WatchEnds
    BY <2>1 DEF WatchEnds
  <2>2. CASE WatchStopFile
    BY <2>2 DEF WatchStopFile
  <2>3. CASE WatchReadCursor
    BY <2>3, CommittedCursorType, SMTT(30) DEF WatchReadCursor
  <2>4. CASE WatchCheck
    BY <2>4 DEF WatchCheck
  <2>5. QED
    BY <1>1, <2>1, <2>2, <2>3, <2>4 DEF WatchNext
<1>2. CASE Crash
  BY <1>2, TypeProcessEnds, BudgetType DEF Crash
<1>3. CASE CorruptPrimary
  BY <1>3, CorruptedType, BudgetType DEF CorruptPrimary
<1>4. CASE RequestStop
  <2>1. budget' \in Budgets
    BY <1>4, BudgetType DEF RequestStop
  <2>2. stopFile' \in BOOLEAN /\ stop' \in BOOLEAN
    BY <1>4 DEF RequestStop
  <2>3. QED
    BY <1>4, <2>1, <2>2 DEF RequestStop
<1>5. QED
  BY <1>1, <1>2, <1>3, <1>4

LEMMA TypeStep == TypeInv /\ [Next]_vars => TypeInv'
<1>1. ASSUME TypeInv, UNCHANGED vars PROVE TypeInv'
  BY <1>1 DEF vars, durable, mainVars, feedVars, watchVars, TypeInv, TypeOK,
     DurableTypes, MainTypes, QueueTypes, FeedTypes, WatchTypes, BarInHand
<1>2. QED
  BY <1>1, TypeMain, TypeFeed, TypeRest DEF Next

\* TypeOK is an invariant: no thread ever leaves its states, no cursor names a
\* minute that does not exist, and the feed queue never exceeds its bound.
THEOREM TypeCorrect == Spec => []TypeOK
<1>1. TypeInv => TypeOK
  BY DEF TypeInv
<1>2. QED
  BY TypeInit, TypeStep, <1>1, PTL DEF Spec

-----------------------------------------------------------------------------
(* Acknowledgments and the checkpoint frontier, when no checkpoint file is *)
(* ever corrupted.  Crashes, failed saves and engine failures stay.        *)

\* Without corruption every checkpoint file that exists is readable.
FilesReadable ==
  /\ budget.corruptions = 0
  /\ primary.valid = primary.exists
  /\ backup.valid = backup.exists

\* The engine is never behind the checkpoint a restart would load.
EngineAhead == main # "down" => Loadable.last <= last

\* While minutes are being acknowledged, that checkpoint is the engine's.
AckedFromCheckpoint == main \in {"reconcile", "acknowledge"} => Loadable.last = last

FrontierInv == FilesReadable /\ EngineAhead /\ AckedFromCheckpoint /\ AcksCovered

\* The initial state satisfies the invariant.
LEMMA FrontierInit == Init => FrontierInv
BY DEF Init, NoInterference, NoFile, Loadable, FrontierInv, FilesReadable, EngineAhead,
       AckedFromCheckpoint, AcksCovered

\* A step that touches neither the files nor the acknowledgments, and keeps the
\* engine at or beyond its last bar, keeps the invariant and the frontier.
LEMMA FrontierQuiet ==
  ASSUME TypeInv, FrontierInv,
         primary' = primary, backup' = backup, committed' = committed,
         budget'.corruptions = budget.corruptions,
         main' # "down" => main # "down" /\ last' \in Nat /\ last <= last',
         main' \in {"reconcile", "acknowledge"} => main' = main /\ last' = last
  PROVE  FrontierInv' /\ Loadable'.last = Loadable.last
<1>1. Loadable' = Loadable
  BY DEF Loadable
<1>2. Loadable.last \in Nat /\ last \in Nat
  BY LoadableType, CursorFacts DEF TypeInv, TypeOK, MainTypes
<1>3. FilesReadable' /\ AcksCovered'
  BY <1>1 DEF FrontierInv, FilesReadable, AcksCovered
<1>4. EngineAhead' /\ AckedFromCheckpoint'
  BY <1>1, <1>2 DEF FrontierInv, EngineAhead, AckedFromCheckpoint
<1>5. QED
  BY <1>1, <1>3, <1>4 DEF FrontierInv

\* The process ending touches no file.
LEMMA FrontierProcessEnds ==
  ASSUME TypeInv, FrontierInv, ProcessEnds, UNCHANGED durable,
         budget'.corruptions = budget.corruptions
  PROVE  FrontierInv' /\ Loadable'.last = Loadable.last
BY FrontierQuiet DEF ProcessEnds, durable

\* Counting another kind of interference leaves the corruptions alone.
LEMMA OtherBudgets ==
  ASSUME NEW b \in Budgets
  PROVE  /\ [b EXCEPT !.crashes = @ + 1].corruptions = b.corruptions
         /\ [b EXCEPT !.saves = @ + 1].corruptions = b.corruptions
         /\ [b EXCEPT !.failures = @ + 1].corruptions = b.corruptions
         /\ [b EXCEPT !.stops = @ + 1].corruptions = b.corruptions
BY DEF Budgets

\* The steps of the main thread: only a published checkpoint moves the frontier,
\* and only what it covers is acknowledged.
LEMMA FrontierMain ==
  ASSUME TypeInv, FrontierInv, MainNext \/ SaveFails \/ EngineFails \/ Restore
  PROVE  FrontierInv' /\ Loadable'.last >= Loadable.last
<1> DEFINE Keeps == FrontierInv' /\ Loadable'.last = Loadable.last
<1>1. /\ Loadable.last \in Nat /\ last \in Nat /\ budget \in Budgets
      /\ committed \subseteq Bars /\ staged \subseteq Bars
      /\ \A b \in Bars : b \in Nat
  BY LoadableType, CursorFacts DEF TypeInv, TypeOK, MainTypes, WatchTypes, DurableTypes
<1> USE DEF mainVars, feedVars, watchVars, durable
<1>2. CASE Restore
  <2>1. Loadable' = Loadable
    BY <1>2 DEF Restore, Loadable
  <2>2. last' = Loadable.last /\ UNCHANGED <<committed, primary, backup, budget>>
    BY <1>2 DEF Restore
  <2>3. QED
    BY <1>1, <2>1, <2>2
       DEF FrontierInv, FilesReadable, EngineAhead, AckedFromCheckpoint, AcksCovered
<1>3. ASSUME AcknowledgeOne, main \in {"reconcile", "acknowledge"},
             UNCHANGED <<primary, backup, budget, main, last>>
      PROVE  Keeps
  <2>1. Min(Eligible(last)) \in Bars /\ Min(Eligible(last)) <= last
    BY <1>1, <1>3, MinEligible DEF TypeInv, AcknowledgeOne, Eligible
  <2>2. committed' = committed \union {Min(Eligible(last))} /\ Loadable' = Loadable
    BY <1>3 DEF AcknowledgeOne, Loadable
  <2>3. Loadable.last = last
    BY <1>3 DEF FrontierInv, AckedFromCheckpoint
  <2>4. AcksCovered'
    BY <2>1, <2>2, <2>3 DEF FrontierInv, AcksCovered
  <2>5. QED
    BY <1>3, <2>2, <2>4 DEF FrontierInv, FilesReadable, EngineAhead, AckedFromCheckpoint
<1>4. CASE Reconcile
  <2>1. CASE AcknowledgeOne /\ UNCHANGED main
    BY <1>1, <1>3, <1>4, <2>1 DEF Reconcile
  <2>2. CASE main' = "subscribe" /\ UNCHANGED committed
    BY <1>1, <1>4, <2>2, FrontierQuiet DEF Reconcile
  <2>3. QED
    BY <1>4, <2>1, <2>2 DEF Reconcile
<1>5. CASE SubscribeStage
  BY <1>1, <1>5, FrontierQuiet DEF SubscribeStage
<1>6. CASE Subscribe
  BY <1>1, <1>6, FrontierQuiet DEF Subscribe
<1>7. CASE SubscribeFails
  BY <1>1, <1>7, FrontierProcessEnds DEF SubscribeFails
<1>8. CASE Get
  BY <1>1, <1>8, FrontierQuiet DEF Get
<1>9. CASE RefuseBar
  BY <1>1, <1>9, FrontierQuiet DEF RefuseBar
<1>10. CASE ProcessBar
  <2>1. last' \in Nat /\ last <= last'
    BY <1>1, <1>10, NextBarAdvances DEF ProcessBar
  <2>2. QED
    BY <1>1, <1>10, <2>1, FrontierQuiet DEF ProcessBar, Placeable
<1>11. CASE EngineRejects
  BY <1>1, <1>11, FrontierQuiet DEF EngineRejects, Placeable
<1>12. CASE EngineFails
  BY <1>1, <1>12, OtherBudgets, FrontierQuiet DEF EngineFails, Placeable
<1>13. CASE Rotate
  <2>1. Loadable'.last = Loadable.last /\ FilesReadable'
    BY <1>13 DEF Rotate, RotatedBackup, Loadable, NoFile, FrontierInv, FilesReadable
  <2>2. QED
    BY <1>1, <1>13, <2>1
       DEF Rotate, FrontierInv, EngineAhead, AckedFromCheckpoint, AcksCovered
<1>14. CASE Publish
  <2>1. Loadable'.last = last /\ FilesReadable'
    BY <1>14 DEF Publish, Saved, Loadable, FrontierInv, FilesReadable
  <2>2. Loadable.last <= last
    BY <1>14 DEF Publish, FrontierInv, EngineAhead
  <2>3. AcksCovered'
    BY <1>1, <1>14, <2>1, <2>2 DEF Publish, FrontierInv, AcksCovered
  <2>4. QED
    BY <1>1, <1>14, <2>1, <2>2, <2>3
       DEF Publish, FrontierInv, EngineAhead, AckedFromCheckpoint
<1>15. CASE SaveFails
  <2>1. CASE closing
    BY <1>1, <1>15, <2>1, OtherBudgets, FrontierProcessEnds DEF SaveFails
  <2>2. CASE ~closing
    BY <1>1, <1>15, <2>2, OtherBudgets, FrontierQuiet DEF SaveFails
  <2>3. QED
    BY <1>1, <2>1, <2>2
<1>16. CASE Acknowledge
  BY <1>1, <1>3, <1>16 DEF Acknowledge
<1>17. CASE Acknowledged
  <2>1. CASE closing
    BY <1>1, <1>17, <2>1, FrontierProcessEnds DEF Acknowledged
  <2>2. CASE ~closing
    BY <1>1, <1>17, <2>2, FrontierQuiet DEF Acknowledged
  <2>3. QED
    BY <1>1, <2>1, <2>2
<1>18. CASE Close
  <2>1. CASE last > 0
    BY <1>1, <1>18, <2>1, FrontierQuiet DEF Close
  <2>2. CASE ~(last > 0)
    BY <1>1, <1>18, <2>2, FrontierProcessEnds DEF Close
  <2>3. QED
    BY <1>1, <2>1, <2>2
<1>19. QED
  BY <1>2, <1>4, <1>5, <1>6, <1>7, <1>8, <1>9, <1>10, <1>11, <1>12, <1>13, <1>14,
     <1>15, <1>16, <1>17, <1>18 DEF MainNext

\* Neither the feed thread, the watchdog nor a crash moves the frontier.
LEMMA FrontierOthers ==
  ASSUME MaxCorruptions = 0, TypeInv, FrontierInv,
         FeedNext \/ WatchNext \/ Crash \/ CorruptPrimary \/ RequestStop
  PROVE  FrontierInv' /\ Loadable'.last >= Loadable.last
<1>1. Loadable.last \in Nat /\ last \in Nat /\ budget \in Budgets
  BY LoadableType, CursorFacts DEF TypeInv, TypeOK, MainTypes, WatchTypes
<1> USE DEF mainVars, feedVars, watchVars, durable
<1>2. CASE FeedNext
  <2>1. UNCHANGED <<main, last, primary, backup, committed, budget>>
    BY <1>2 DEF FeedNext, FeedStops, FeedStage, FeedReadCursor, FeedGapCheck, FeedList,
       FeedRefuses, FeedEmit, FeedEmitted, FeedPut, FeedHealth, FeedSentinel,
       RefreshFinalizes, RefreshReturns, RefreshRaises, FeedRaises, Unchanged
  <2>2. QED
    BY <1>1, <2>1, FrontierQuiet
<1>3. CASE WatchNext
  <2>1. UNCHANGED <<main, last, primary, backup, committed, budget>>
    BY <1>3 DEF WatchNext, WatchEnds, WatchStopFile, WatchReadCursor, WatchCheck, OnlyWatch
  <2>2. QED
    BY <1>1, <2>1, FrontierQuiet
<1>4. CASE Crash
  BY <1>1, <1>4, OtherBudgets, FrontierProcessEnds DEF Crash
<1>5. CASE CorruptPrimary
  BY <1>1, <1>5 DEF CorruptPrimary, FrontierInv, FilesReadable
<1>6. CASE RequestStop
  BY <1>1, <1>6, OtherBudgets, FrontierQuiet DEF RequestStop
<1>7. QED
  BY <1>2, <1>3, <1>4, <1>5, <1>6

\* Every step keeps the invariant and never moves the frontier back.
LEMMA FrontierStep ==
  ASSUME MaxCorruptions = 0, TypeInv, FrontierInv, [Next]_vars
  PROVE  FrontierInv' /\ [Loadable'.last >= Loadable.last]_vars
<1>1. CASE UNCHANGED vars
  <2>1. UNCHANGED <<main, last, primary, backup, committed, budget>>
    BY <1>1 DEF vars, durable, mainVars
  <2>2. Loadable' = Loadable
    BY <2>1 DEF Loadable
  <2>3. QED
    BY <1>1, <2>1, <2>2
       DEF FrontierInv, FilesReadable, EngineAhead, AckedFromCheckpoint, AcksCovered
<1>2. CASE Next
  BY <1>2, FrontierMain, FrontierOthers DEF Next
<1>3. QED
  BY <1>1, <1>2

\* Whenever the process dies, the checkpoint a restart loads covers everything the
\* ledger has acknowledged: no acknowledged minute can be lost by a crash, a save
\* that fails half way, or an exception in the engine.
THEOREM AcksCoveredCorrect ==
  ASSUME MaxCorruptions = 0
  PROVE  Spec => []AcksCovered
<1>1. FrontierInv => AcksCovered
  BY DEF FrontierInv
<1>2. TypeInv /\ FrontierInv /\ [Next]_vars => FrontierInv'
  BY FrontierStep
<1>3. QED
  BY TypeInit, TypeStep, FrontierInit, <1>1, <1>2, PTL DEF Spec

\* The two replacements of a save never expose an older checkpoint than the one
\* that was loadable before.
THEOREM FrontierCorrect ==
  ASSUME MaxCorruptions = 0
  PROVE  Spec => FrontierNeverRegresses
<1>1. TypeInv /\ FrontierInv /\ [Next]_vars
        => FrontierInv' /\ [Loadable'.last >= Loadable.last]_vars
  BY FrontierStep
<1>2. QED
  BY TypeInit, TypeStep, FrontierInit, <1>1, PTL DEF Spec, FrontierNeverRegresses

=============================================================================

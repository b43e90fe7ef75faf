--------------------------- MODULE ExactlyOnceProofs ---------------------------
(***************************************************************************)
(* PaperDelivery delivers each minute exactly once and in order, for every *)
(* number of minutes, every queue size and every number of crashes, failed *)
(* saves and stops.  Engine failures and corrupted checkpoints stay in,    *)
(* except where a theorem says that there are none.                        *)
(***************************************************************************)
EXTENDS PaperDeliveryProofs

USE MinutesAssumption, QueueAssumption, GapsAssumption, BoundsAssumption

-----------------------------------------------------------------------------
(* The invariant.                                                          *)

\* The checkpoint that was loaded is older than an acknowledgment.
Behind == \E c \in committed : last < c

\* Minutes on their way to the engine: in the queue, about to be enqueued, still
\* to be emitted, or in the hands of the main thread.
InFlight ==
  {b \in Bars : \/ \E i \in 1..Len(queue) : queue[i] = BarItem(b)
                \/ feed \in {"put", "putcheck"} /\ item = BarItem(b)
                \/ b \in plan
                \/ main = "process" /\ bar = b}

\* A bar was processed and its checkpoint is being written.
Saving == main \in {"rotate", "publish", "acknowledge"} /\ ~closing

\* A readable checkpoint names a processed minute, and there is a checkpoint,
\* readable or not, once anything was acknowledged.
Filed ==
  /\ primary.valid => primary.exists /\ primary.last > 0
  /\ backup.valid => backup.exists /\ backup.last > 0
  /\ committed # {} \/ main \in {"reconcile", "acknowledge"} =>
       primary.exists \/ backup.exists

\* Only a processed bar is saved or reconciled; outside the consumer loop nothing
\* has been emitted yet; the subscription resumed at or before the last bar.
Startup ==
  /\ main \in {"reconcile", "rotate", "publish", "acknowledge"} => last > 0
  /\ main \in {"down", "reconcile", "subscribe"} =>
       queue = <<>> /\ feed = "off" /\ cursor = last /\ plan = {}
  /\ after <= last

\* What is on its way to the engine was staged, and so was what the engine and
\* the checkpoints cover.
StagedFirst ==
  /\ staged \subseteq finalized /\ committed \subseteq staged
  /\ InFlight \subseteq staged
  /\ 1..last \subseteq staged
  /\ 1..primary.last \subseteq staged /\ 1..backup.last \subseteq staged

\* Acknowledgments are a prefix of the minutes.
AckedPrefix == \A b \in committed : 1..b \subseteq committed

\* A process that restored a checkpoint older than an acknowledgment only ever
\* receives minutes later than every acknowledgment, and saves none of them.
Refusal ==
  main # "down" /\ Behind =>
    /\ last > 0
    /\ ~Saving
    /\ \A c \in committed : \A b \in InFlight : c < b

\* The feed thread still has something to say but an error.
Emitting ==
  /\ feed \notin {"off", "sentinel"}
  /\ feed \in {"put", "putcheck"} => item.kind = "bar"
Offering == feed \in {"put", "putcheck"} /\ item.kind = "bar"

\* The last minute that left the queue.
Reached == IF main = "process" THEN last + 1 ELSE last

\* The queue continues the minute the main thread reached, the minute offered to
\* the queue continues the queue, and the rest of the snapshot continues that one.
InOrder ==
  /\ \A i \in 1..Len(queue) : \A b \in Bars : queue[i] = BarItem(b) => b = Reached + i
  /\ feed \in {"put", "putcheck"} => item # Sentinel
  /\ Offering => item = BarItem(cursor)
  /\ Emitting => cursor = Reached + Len(queue) + (IF Offering THEN 1 ELSE 0)
  /\ \A b \in plan : cursor < b /\ (cursor + 1)..b \subseteq plan
  /\ feed \in {"list", "listcheck"} => \A b \in staged : 1..b \subseteq staged
  /\ feed \in {"gapcheck", "listcheck"} => cutoff <= last

\* Otherwise minutes follow each other from the engine to the feed thread.
Consecutive ==
  (main \in {"get", "process"} \/ Saving) /\ ~Behind =>
    /\ main = "process" => bar = last + 1
    /\ Saving => bar = last
    /\ InOrder

Delivery == Filed /\ Startup /\ StagedFirst /\ AckedPrefix /\ Refusal /\ Consecutive

DeliveryInv == TypeInv /\ Delivery

-----------------------------------------------------------------------------
(* Lemmas.                                                                 *)

\* Facts about the types that most steps need.
LEMMA TypeFacts ==
  ASSUME TypeInv
  PROVE  /\ last \in Nat /\ last \in Cursors /\ Loadable.last \in Nat
         /\ primary.last \in Nat /\ backup.last \in Nat
         /\ after \in Nat /\ cursor \in Nat /\ cutoff \in Nat
         /\ budget.failures \in Nat /\ budget.corruptions \in Nat
         /\ finalized \subseteq Bars /\ staged \subseteq Bars /\ committed \subseteq Bars
         /\ plan \subseteq Bars /\ queue \in Seq(Items) /\ item \in Items
         /\ \A b \in Bars : b \in Nat /\ 0 < b
<1>1. Bars \subseteq Nat /\ \A b \in Bars : 0 < b
  BY DEF Bars
<1>2. primary.last \in Cursors /\ backup.last \in Cursors
  BY DEF TypeInv, TypeOK, DurableTypes, CheckpointFiles
<1>3. QED
  BY <1>1, <1>2, LoadableType, CursorFacts
     DEF TypeInv, TypeOK, DurableTypes, MainTypes, QueueTypes, FeedTypes, WatchTypes, Budgets

\* Bars are told apart from each other and from the other items.
LEMMA BarItemFacts ==
  /\ \A b, c \in Bars : BarItem(b) = BarItem(c) => b = c
  /\ \A b \in Bars : BarItem(b).kind = "bar" /\ BarItem(b).minute = b
                     /\ BarItem(b) # Exception /\ BarItem(b) # Sentinel
  /\ Exception.kind # "bar" /\ Sentinel.kind # "bar"
  /\ \A i \in Items : i.kind = "bar" => i.minute \in Bars /\ i = BarItem(i.minute)
<1>1. \A b \in Bars : BarItem(b).kind = "bar" /\ BarItem(b).minute = b
  BY DEF BarItem
<1>2. Exception.kind # "bar" /\ Sentinel.kind # "bar"
  BY DEF Exception, Sentinel
<1>3. QED
  BY <1>1, <1>2 DEF Items

\* The main thread only places a bar when nothing was lost, and then it is the
\* next one.
LEMMA NextIsNext ==
  ASSUME DeliveryInv, Placeable
  PROVE  ~Behind /\ bar = last + 1 /\ NextBar = last + 1 /\ last + 1 \in staged \cap Bars
<1>1. /\ main = "process" /\ bar \in Bars /\ last \in Nat /\ committed \subseteq Bars
      /\ \A b \in Bars : b \in Nat /\ 0 < b
  BY TypeFacts DEF DeliveryInv, TypeInv, BarInHand, Placeable
<1>2. bar \in InFlight
  BY <1>1 DEF InFlight
<1>3. ASSUME Behind PROVE FALSE
  <2>1. PICK c \in committed : last < c
    BY <1>3 DEF Behind
  <2>2. 0 < last /\ c < bar
    BY <1>1, <1>2, <1>3, <2>1 DEF DeliveryInv, Delivery, Refusal
  <2>3. c \in Expected(bar) /\ c \notin PendingAfter(last)
    BY <1>1, <2>1, <2>2 DEF Expected, PendingAfter
  <2>4. QED
    BY <2>3 DEF Placeable, Refused, BackfillOk
<1>4. bar = last + 1
  BY <1>1, <1>3 DEF DeliveryInv, Delivery, Consecutive
<1>5. Expected(bar) = {}
  <2>1. ASSUME NEW m \in Bars PROVE ~(last < m /\ m < last + 1)
    BY <1>1
  <2>2. QED
    BY <1>4, <2>1 DEF Expected
<1>6. QED
  BY <1>1, <1>2, <1>3, <1>4, <1>5 DEF NextBar, DeliveryInv, Delivery, StagedFirst

\* The minute that is acknowledged is covered and continues the prefix.
LEMMA AcknowledgeContinues ==
  ASSUME DeliveryInv, Eligible(last) # {}, NEW m, m = Min(Eligible(last))
  PROVE  m \in staged \ committed /\ m \in 1..last /\ 1..(m - 1) \subseteq committed
<1>1. m \in staged \ committed /\ m <= last
  BY MinEligible DEF DeliveryInv, TypeInv, Eligible
<1>2. m \in Nat /\ 0 < m /\ last \in Nat
  BY <1>1, TypeFacts DEF DeliveryInv
<1>3. ASSUME NEW k \in 1..(m - 1), k \notin committed PROVE FALSE
  <2>1. k \in staged /\ k <= last /\ k < m
    BY <1>1, <1>2, <1>3 DEF DeliveryInv, Delivery, StagedFirst
  <2>2. k \in Eligible(last)
    BY <1>3, <2>1 DEF Eligible
  <2>3. \A b \in Eligible(last) : b \in Nat
    BY TypeFacts DEF DeliveryInv, Eligible
  <2>4. m <= k
    BY <2>2, <2>3, MinOfNaturals
  <2>5. QED
    BY <1>2, <2>1, <2>4
<1>4. QED
  BY <1>1, <1>2, <1>3

\* The cursor of the ledger does not exceed what the main thread has processed,
\* unless it is behind.
LEMMA CommittedCursorBound ==
  ASSUME DeliveryInv, ~Behind
  PROVE  CommittedCursor <= last
<1>1. /\ committed \union {after} \in SUBSET (0..Minutes)
      /\ committed \subseteq Nat /\ last \in Nat /\ after <= last
  BY TypeFacts DEF DeliveryInv, Delivery, Startup, TypeInv, TypeOK, FeedTypes, Bars, Cursors
<1>2. CommittedCursor \in committed \union {after}
  BY <1>1, MaxOfInterval DEF CommittedCursor
<1>3. QED
  BY <1>1, <1>2 DEF Behind

-----------------------------------------------------------------------------
(* The invariant is inductive.                                             *)

LEMMA DeliveryInit == Init => Delivery
<1> SUFFICES ASSUME Init PROVE Delivery
  OBVIOUS
<1>1. InFlight = {}
  <2>1. Len(<<>>) = 0
    OBVIOUS
  <2>2. QED
    BY <2>1 DEF Init, InFlight, Sentinel, BarItem
<1>2. Filed /\ Startup /\ AckedPrefix /\ Refusal /\ Consecutive
  BY DEF Init, NoFile, Behind, Filed, Startup, AckedPrefix, Refusal, Saving, Consecutive
<1>3. StagedFirst
  BY <1>1 DEF Init, NoFile, StagedFirst
<1>4. QED
  BY <1>2, <1>3 DEF Delivery

\* When the process ends only the files and the ledger remain.
LEMMA DeliveryProcessEnds ==
  ASSUME DeliveryInv, ProcessEnds, UNCHANGED durable
  PROVE  Delivery'
<1> USE DEF ProcessEnds, durable
<1>1. InFlight' = {}
  BY DEF InFlight
<1>2. Filed' /\ Startup' /\ Refusal' /\ Consecutive' /\ AckedPrefix'
  BY DEF DeliveryInv, Delivery, Filed, Startup, Refusal, Consecutive, Saving, AckedPrefix
<1>3. StagedFirst'
  BY <1>1 DEF DeliveryInv, Delivery, StagedFirst
<1>4. QED
  BY <1>2, <1>3 DEF Delivery

\* A step of the main thread between two of its states, or of a thread that moves
\* nothing the invariant speaks of.
LEMMA DeliveryMoves ==
  ASSUME DeliveryInv,
         UNCHANGED <<finalized, staged, committed, primary, backup, last, queue,
                     feedVars>>,
         \/ UNCHANGED <<main, bar, closing>>
         \/ main' = "close" /\ main \notin {"down", "reconcile", "subscribe"}
         \/ main' = "get" /\ main = "process" /\ Behind
         \/ main' = "get" /\ Saving /\ last = bar
         \/ main' = "rotate" /\ main = "close" /\ closing' = TRUE /\ last > 0
         \/ main' = "subscribe" /\ main = "reconcile"
  PROVE  Delivery'
<1> USE DEF feedVars
<1>1. Behind' = Behind
  BY DEF Behind
<1>2. InFlight' \subseteq InFlight
  BY DEF InFlight
<1>3. Filed' /\ Startup'
  BY DEF DeliveryInv, Delivery, Filed, Startup, Saving
<1>4. StagedFirst' /\ AckedPrefix'
  BY <1>2 DEF DeliveryInv, Delivery, StagedFirst, AckedPrefix
<1>5. Refusal'
  BY <1>1, <1>2 DEF DeliveryInv, Delivery, Refusal, Saving
<1>6. Offering' = Offering /\ Emitting' = Emitting
  BY DEF Offering, Emitting
<1>7. Consecutive'
  BY <1>1, <1>6 DEF DeliveryInv, Delivery, Consecutive, Saving, Reached, InOrder
<1>8. QED
  BY <1>3, <1>4, <1>5, <1>7 DEF Delivery

\* Acknowledging one covered minute.
LEMMA DeliveryAcknowledge ==
  ASSUME DeliveryInv, AcknowledgeOne, main \in {"reconcile", "acknowledge"},
         UNCHANGED <<finalized, staged, primary, backup, mainVars, queue, feedVars>>
  PROVE  Delivery'
<1> DEFINE m == Min(Eligible(last))
<1> USE DEF feedVars, mainVars
<1>1. /\ m \in staged \ committed /\ m \in 1..last /\ 1..(m - 1) \subseteq committed
      /\ committed' = committed \union {m}
  BY AcknowledgeContinues DEF AcknowledgeOne
<1>2. /\ m \in Nat /\ last \in Nat /\ committed \subseteq Nat /\ Bars \subseteq Nat
  BY <1>1, TypeFacts DEF DeliveryInv
<1> HIDE DEF m
<1>3. Behind' = Behind
  BY <1>1, <1>2 DEF Behind
<1>4. InFlight' = InFlight
  BY DEF InFlight
<1>5. Filed' /\ Startup'
  BY DEF DeliveryInv, Delivery, Filed, Startup
<1>6. StagedFirst'
  BY <1>1, <1>4 DEF DeliveryInv, Delivery, StagedFirst
<1>7. AckedPrefix'
  <2>1. ASSUME NEW b \in committed' PROVE 1..b \subseteq committed'
    <3>1. CASE b \in committed
      BY <1>1, <3>1 DEF DeliveryInv, Delivery, AckedPrefix
    <3>2. CASE b = m
      BY <1>1, <1>2, <3>2
    <3>3. QED
      BY <1>1, <3>1, <3>2
  <2>2. QED
    BY <2>1 DEF AckedPrefix
<1>8. Refusal'
  <2>1. ASSUME Behind, NEW b \in InFlight PROVE m < b
    <3>1. PICK c \in committed : last < c
      BY <2>1 DEF Behind
    <3>2. c < b
      BY <2>1, <3>1 DEF DeliveryInv, Delivery, Refusal
    <3>3. b \in Nat /\ c \in Nat
      BY <1>2, <3>1 DEF InFlight
    <3>4. QED
      BY <1>1, <1>2, <3>1, <3>2, <3>3
  <2>2. QED
    BY <1>1, <1>3, <1>4, <2>1 DEF DeliveryInv, Delivery, Refusal, Saving
<1>9. Consecutive'
  BY <1>3 DEF DeliveryInv, Delivery, Consecutive, Saving, Reached, Offering,
     Emitting, InOrder
<1>10. QED
  BY <1>5, <1>6, <1>7, <1>8, <1>9 DEF Delivery

\* Staging one finalized minute, on either thread.
LEMMA DeliveryStage ==
  ASSUME DeliveryInv, StageOne, feed \in {"off", "stage"},
         UNCHANGED <<finalized, committed, primary, backup, mainVars, queue, feedVars>>
  PROVE  Delivery'
<1> USE DEF feedVars, mainVars
<1>1. staged \subseteq staged' /\ staged' \subseteq finalized
  BY MinUnstaged DEF DeliveryInv, Delivery, TypeInv, StagedFirst, StageOne, Unstaged
<1>2. Behind' = Behind /\ InFlight' = InFlight
  BY DEF Behind, InFlight
<1>3. Filed' /\ Startup' /\ AckedPrefix'
  BY DEF DeliveryInv, Delivery, Filed, Startup, AckedPrefix
<1>4. StagedFirst'
  BY <1>1, <1>2 DEF DeliveryInv, Delivery, StagedFirst
<1>5. Refusal'
  BY <1>2 DEF DeliveryInv, Delivery, Refusal, Saving
<1>6. Consecutive'
  BY <1>2 DEF DeliveryInv, Delivery, Consecutive, Saving, Reached, Offering,
     Emitting, InOrder
<1>7. QED
  BY <1>3, <1>4, <1>5, <1>6 DEF Delivery

\* What taking an item from the queue, or adding one, does to its positions.
LEMMA QueueTail ==
  ASSUME queue \in Seq(Items), queue # <<>>
  PROVE  /\ Tail(queue) \in Seq(Items) /\ Len(Tail(queue)) = Len(queue) - 1
         /\ \A i \in 1..Len(Tail(queue)) :
              Tail(queue)[i] = queue[i + 1] /\ i + 1 \in 1..Len(queue)
         /\ Head(queue) = queue[1] /\ 1 \in 1..Len(queue) /\ Head(queue) \in Items
         /\ Len(queue) \in Nat
OBVIOUS

LEMMA QueueAppend ==
  ASSUME queue \in Seq(Items), NEW x \in Items
  PROVE  /\ Len(Append(queue, x)) = Len(queue) + 1 /\ Len(queue) \in Nat
         /\ \A i \in 1..(Len(queue) + 1) :
              Append(queue, x)[i] = IF i = Len(queue) + 1 THEN x ELSE queue[i]
OBVIOUS

\* Start-up: a checkpoint is restored, and the threads are started.
LEMMA DeliveryStartup ==
  ASSUME DeliveryInv, Restore \/ Reconcile \/ SubscribeStage \/ Subscribe \/ SubscribeFails
  PROVE  Delivery'
<1> USE DEF Delivery, durable
<1>1. last \in Nat /\ Loadable.last \in Nat /\ cursor \in Nat
  BY TypeFacts DEF DeliveryInv
<1>2. CASE Restore
  <2>1. /\ main = "down" /\ last' = Loadable.last /\ cursor' = last' /\ after' = last'
        /\ main' = IF Loadable.last > 0 THEN "reconcile" ELSE "subscribe"
        /\ UNCHANGED <<finalized, staged, committed, primary, backup, queue, feed, plan>>
    BY <1>2 DEF Restore, AfterRestore
  <2>2. Loadable \in {primary, backup, NoFile}
    BY DEF Loadable
  <2>3. InFlight' = {}
    <3>1. Len(<<>>) = 0
      OBVIOUS
    <3>2. queue = <<>> /\ feed = "off" /\ plan = {}
      BY <2>1 DEF DeliveryInv, Startup
    <3>3. QED
      BY <2>1, <3>1, <3>2 DEF InFlight
  <2>4. Loadable.last > 0 => primary.exists \/ backup.exists
    BY DEF Loadable, NoFile, DeliveryInv, Filed
  <2>5. committed # {} => Loadable.last > 0
    BY <1>2 DEF Restore, CanLoad, Loadable, DeliveryInv, Filed
  <2>6. Filed' /\ Startup' /\ AckedPrefix'
    BY <1>1, <2>1, <2>4 DEF DeliveryInv, Filed, Startup, AckedPrefix
  <2>7. StagedFirst'
    <3>1. 1..Loadable.last \subseteq staged
      <4>1. 1..0 \subseteq staged
        OBVIOUS
      <4>2. QED
        BY <2>2, <4>1 DEF NoFile, DeliveryInv, StagedFirst
    <3>2. QED
      BY <2>1, <2>3, <3>1 DEF DeliveryInv, StagedFirst
  <2>8. Refusal' /\ Consecutive'
    BY <2>1, <2>3, <2>5 DEF Refusal, Consecutive, Saving, Behind
  <2>9. QED
    BY <2>6, <2>7, <2>8
<1>3. CASE Reconcile
  <2>1. CASE AcknowledgeOne /\ UNCHANGED main
    BY <1>3, <2>1, DeliveryAcknowledge DEF Reconcile, mainVars
  <2>2. CASE main' = "subscribe" /\ UNCHANGED committed
    BY <1>3, <2>2, DeliveryMoves DEF Reconcile
  <2>3. QED
    BY <1>3, <2>1, <2>2 DEF Reconcile
<1>4. CASE SubscribeStage
  <2>1. feed = "off"
    BY <1>4 DEF SubscribeStage, DeliveryInv, Startup
  <2>2. QED
    BY <1>4, <2>1, DeliveryStage DEF SubscribeStage
<1>5. CASE Subscribe
  <2>1. /\ queue = <<>> /\ plan = {} /\ cursor = last /\ feed' = "stage" /\ main' = "get"
        /\ UNCHANGED <<finalized, staged, committed, primary, backup, last, queue, plan,
                       cursor, after>>
    BY <1>5 DEF Subscribe, DeliveryInv, Startup
  <2>2. InFlight' = {} /\ Behind' = Behind /\ Len(queue) = 0
    <3>1. Len(<<>>) = 0
      OBVIOUS
    <3>2. QED
      BY <2>1, <3>1 DEF InFlight, Behind
  <2>3. Filed' /\ Startup' /\ AckedPrefix' /\ StagedFirst'
    BY <1>5, <2>1, <2>2
       DEF Subscribe, DeliveryInv, Filed, Startup, AckedPrefix, StagedFirst
  <2>4. Refusal'
    BY <1>5, <2>1, <2>2 DEF Subscribe, DeliveryInv, Refusal, Saving
  <2>5. Consecutive'
    BY <1>1, <2>1, <2>2
       DEF Consecutive, InOrder, Saving, Reached, Offering, Emitting
  <2>6. QED
    BY <2>3, <2>4, <2>5
<1>6. CASE SubscribeFails
  BY <1>6, DeliveryProcessEnds DEF SubscribeFails
<1>7. QED
  BY <1>2, <1>3, <1>4, <1>5, <1>6

\* The consumer loop: a bar is taken from the queue, placed, or refused.
LEMMA DeliveryLoop ==
  ASSUME DeliveryInv, Get \/ RefuseBar \/ ProcessBar \/ EngineRejects \/ EngineFails
  PROVE  Delivery'
<1> USE DEF Delivery, durable, feedVars
<1>1. /\ last \in Nat /\ cursor \in Nat /\ after \in Nat /\ queue \in Seq(Items)
      /\ \A b \in Bars : b \in Nat /\ 0 < b
  BY TypeFacts DEF DeliveryInv
<1>2. CASE Get
  <2>1. /\ main = "get" /\ queue # <<>> /\ queue' = Tail(queue)
        /\ UNCHANGED <<finalized, staged, committed, primary, backup, last, closing,
                       feed, after, cursor, plan, item, cutoff>>
        /\ \/ main' = "close"
           \/ main' = "process" /\ bar' \in Bars /\ queue[1] = BarItem(bar')
    BY <1>1, <1>2, QueueTail, BarItemFacts DEF Get
  <2>2. /\ Len(queue') = Len(queue) - 1 /\ Len(queue) \in Nat
        /\ 1 \in 1..Len(queue)
        /\ \A i \in 1..Len(queue') : queue'[i] = queue[i + 1] /\ i + 1 \in 1..Len(queue)
    BY <1>1, <2>1, QueueTail
  <2>3. InFlight' \subseteq InFlight
    BY <2>1, <2>2, BarItemFacts DEF InFlight
  <2>4. Behind' = Behind
    BY <2>1 DEF Behind
  <2>5. Filed' /\ Startup' /\ AckedPrefix' /\ StagedFirst'
    BY <2>1, <2>3 DEF DeliveryInv, Filed, Startup, AckedPrefix, StagedFirst
  <2>6. Refusal'
    BY <2>1, <2>3, <2>4 DEF DeliveryInv, Refusal, Saving
  <2>7. Consecutive'
    <3>1. SUFFICES ASSUME main' = "process", ~Behind
                   PROVE  bar' = last + 1 /\ InOrder'
      BY <2>1, <2>4 DEF Consecutive, Saving
    <3>2. Reached = last /\ Reached' = last + 1 /\ InOrder
      BY <2>1, <3>1 DEF Reached, DeliveryInv, Consecutive
    <3>3. bar' = last + 1
      BY <2>1, <2>2, <3>1, <3>2 DEF InOrder
    <3>4. Offering' = Offering /\ Emitting' = Emitting
      BY <2>1 DEF Offering, Emitting
    <3>5. ASSUME NEW i \in 1..Len(queue'), NEW b \in Bars, queue'[i] = BarItem(b)
          PROVE  b = Reached' + i
      <4>1. b = Reached + (i + 1)
        BY <2>2, <3>2, <3>5 DEF InOrder
      <4>2. QED
        BY <1>1, <3>2, <4>1
    <3>6. Emitting' => cursor' = Reached' + Len(queue') + (IF Offering' THEN 1 ELSE 0)
      BY <1>1, <2>1, <2>2, <3>2, <3>4 DEF InOrder
    <3>7. QED
      BY <2>1, <3>2, <3>3, <3>4, <3>5, <3>6 DEF InOrder
  <2>8. QED
    BY <2>5, <2>6, <2>7
<1>3. CASE RefuseBar
  <2>1. main = "process" /\ main' \in {"get", "close"}
    BY <1>3 DEF RefuseBar
  <2>2. main' = "get" => Behind
    <3>1. main' = "get" => bar = last
      BY <1>3 DEF RefuseBar, IsDuplicate
    <3>2. QED
      BY <1>1, <2>1, <3>1 DEF DeliveryInv, Consecutive
  <2>3. QED
    BY <1>3, <2>1, <2>2, DeliveryMoves DEF RefuseBar
<1>4. CASE ProcessBar
  <2>1. /\ main = "process" /\ main' = "rotate" /\ last' = last + 1 /\ bar = last + 1
        /\ ~Behind /\ last + 1 \in staged
        /\ UNCHANGED <<finalized, staged, committed, primary, backup, bar, closing, queue,
                       feed, after, cursor, plan, item, cutoff>>
    BY <1>4, NextIsNext DEF ProcessBar, Placeable
  <2>2. ~Behind'
    BY <1>1, <2>1, TypeFacts DEF Behind, DeliveryInv
  <2>3. InFlight' \subseteq InFlight
    BY <2>1 DEF InFlight
  <2>4. 1..(last + 1) \subseteq staged
    BY <1>1, <2>1 DEF DeliveryInv, StagedFirst
  <2>5. Filed' /\ Startup' /\ AckedPrefix' /\ StagedFirst' /\ Refusal'
    BY <1>1, <2>1, <2>2, <2>3, <2>4
       DEF DeliveryInv, Filed, Startup, AckedPrefix, StagedFirst, Refusal
  <2>6. Consecutive'
    <3>1. Reached' = Reached /\ Offering' = Offering /\ Emitting' = Emitting /\ InOrder
      BY <2>1 DEF Reached, Offering, Emitting, DeliveryInv, Consecutive
    <3>2. cutoff <= last => cutoff <= last + 1
      BY <1>1, TypeFacts DEF DeliveryInv
    <3>3. InOrder'
      BY <2>1, <3>1, <3>2 DEF InOrder
    <3>4. QED
      BY <2>1, <3>3 DEF Consecutive
  <2>7. QED
    BY <2>5, <2>6
<1>5. CASE EngineRejects \/ EngineFails
  BY <1>5, DeliveryMoves DEF EngineRejects, EngineFails, Placeable
<1>6. QED
  BY <1>2, <1>3, <1>4, <1>5

\* Saving a checkpoint and acknowledging what it covers; a checkpoint that becomes
\* unreadable.
LEMMA DeliverySave ==
  ASSUME DeliveryInv,
         \/ Rotate \/ Publish \/ SaveFails \/ Acknowledge \/ Acknowledged \/ Close
         \/ CorruptPrimary
  PROVE  Delivery'
<1> USE DEF Delivery, durable
<1>1. ASSUME UNCHANGED <<finalized, staged, committed, last, bar, closing, queue, feedVars>>,
             \/ UNCHANGED main /\ main = "down"
             \/ {main, main'} \subseteq {"rotate", "publish", "acknowledge"},
             Filed',
             {primary'.last, backup'.last} \subseteq {0, last, primary.last, backup.last}
      PROVE  Delivery'
  <2> USE DEF feedVars
  <2>1. InFlight' = InFlight /\ Behind' = Behind /\ Saving' = Saving
    BY <1>1 DEF InFlight, Behind, Saving
  <2>2. Startup' /\ AckedPrefix' /\ Refusal'
    BY <1>1, <2>1 DEF DeliveryInv, Startup, AckedPrefix, Refusal
  <2>3. StagedFirst'
    <3>1. 1..0 \subseteq staged
      OBVIOUS
    <3>2. QED
      BY <1>1, <2>1, <3>1 DEF DeliveryInv, StagedFirst
  <2>4. Consecutive'
    BY <1>1, <2>1 DEF DeliveryInv, Consecutive, InOrder, Reached, Offering, Emitting
  <2>5. QED
    BY <1>1, <2>2, <2>3, <2>4
<1>2. CASE Rotate
  <2>1. Filed'
    BY <1>2 DEF Rotate, RotatedBackup, NoFile, DeliveryInv, Filed
  <2>2. {primary'.last, backup'.last} \subseteq {0, last, primary.last, backup.last}
    BY <1>2 DEF Rotate, RotatedBackup, NoFile
  <2>3. QED
    BY <1>1, <1>2, <2>1, <2>2 DEF Rotate
<1>3. CASE Publish
  <2>1. Filed'
    BY <1>3 DEF Publish, Saved, DeliveryInv, Filed, Startup
  <2>2. {primary'.last, backup'.last} \subseteq {0, last, primary.last, backup.last}
    BY <1>3 DEF Publish, Saved
  <2>3. QED
    BY <1>1, <1>3, <2>1, <2>2 DEF Publish
<1>4. CASE CorruptPrimary
  <2>1. /\ primary'.exists = primary.exists /\ primary'.last = primary.last
        /\ primary'.valid = FALSE /\ backup' = backup
    BY <1>4 DEF CorruptPrimary, DeliveryInv, TypeInv, TypeOK, DurableTypes, CheckpointFiles
  <2>2. Filed'
    BY <1>4, <2>1 DEF CorruptPrimary, DeliveryInv, Filed
  <2>3. UNCHANGED main /\ main = "down"
    BY <1>4 DEF CorruptPrimary, mainVars
  <2>4. QED
    BY <1>1, <1>4, <2>1, <2>2, <2>3 DEF CorruptPrimary, mainVars
<1>5. CASE SaveFails
  <2>1. CASE closing
    BY <1>5, <2>1, DeliveryProcessEnds DEF SaveFails
  <2>2. CASE ~closing
    BY <1>5, <2>2, DeliveryMoves DEF SaveFails
  <2>3. QED
    BY <2>1, <2>2
<1>6. CASE Acknowledge
  BY <1>6, DeliveryAcknowledge DEF Acknowledge, mainVars
<1>7. CASE Acknowledged
  <2>1. CASE closing
    BY <1>7, <2>1, DeliveryProcessEnds DEF Acknowledged
  <2>2. CASE ~closing
    <3>1. Saving /\ last = bar
      BY <1>7, <2>2 DEF Acknowledged, DeliveryInv, Saving, Refusal, Consecutive
    <3>2. QED
      BY <1>7, <2>2, <3>1, DeliveryMoves DEF Acknowledged
  <2>3. QED
    BY <2>1, <2>2
<1>8. CASE Close
  <2>1. CASE last > 0
    BY <1>8, <2>1, DeliveryMoves DEF Close
  <2>2. CASE ~(last > 0)
    BY <1>8, <2>2, DeliveryProcessEnds DEF Close
  <2>3. QED
    BY <2>1, <2>2
<1>9. QED
  BY <1>2, <1>3, <1>4, <1>5, <1>6, <1>7, <1>8

\* The snapshot only lists staged minutes later than every acknowledgment; the
\* other steps of the feed thread put nothing on its way to the engine.
LEMMA FeedFlight ==
  ASSUME DeliveryInv, FeedNext
  PROVE  \A b \in InFlight' :
           b \in InFlight \/ (b \in staged /\ \A c \in committed : c < b)
<1>1. /\ queue \in Seq(Items) /\ item \in Items /\ plan \subseteq Bars
      /\ \A c \in committed : c \in Nat /\ \A b \in Bars : b \in Nat
      /\ cutoff \in Nat
  BY TypeFacts DEF DeliveryInv
<1>2. UNCHANGED <<main, bar>>
  BY DEF FeedNext, FeedStops, FeedStage, FeedReadCursor, FeedGapCheck, FeedList, FeedRefuses,
         FeedEmit, FeedEmitted, FeedPut, FeedHealth, FeedSentinel, RefreshFinalizes,
         RefreshReturns, RefreshRaises, FeedRaises, Unchanged, mainVars
<1>3. /\ \A i \in 1..Len(queue) : \A b \in Bars : queue[i] = BarItem(b) => b \in InFlight
      /\ feed \in {"put", "putcheck"} => \A b \in Bars : item = BarItem(b) => b \in InFlight
      /\ plan \subseteq InFlight
      /\ main = "process" /\ bar \in Bars => bar \in InFlight
  BY <1>1 DEF InFlight
<1>4. ASSUME NEW b \in InFlight'
      PROVE  /\ b \in Bars
             /\ \/ \E i \in 1..Len(queue') : queue'[i] = BarItem(b)
                \/ feed' \in {"put", "putcheck"} /\ item' = BarItem(b)
                \/ b \in plan'
                \/ main = "process" /\ bar = b
  BY <1>2, <1>4 DEF InFlight
<1>5. ASSUME queue' = queue \/ queue' = Append(queue, Exception)
               \/ queue' = Append(queue, Sentinel)
               \/ (feed = "put" /\ queue' = Append(queue, item)),
             NEW i \in 1..Len(queue'), NEW b \in Bars, queue'[i] = BarItem(b)
      PROVE  b \in InFlight
  <2>1. CASE queue' = queue
    BY <1>3, <1>5, <2>1
  <2>2. ASSUME NEW x \in Items, queue' = Append(queue, x)
        PROVE  x = BarItem(b) \/ b \in InFlight
    BY <1>1, <1>3, <1>5, <2>2, QueueAppend
  <2>3. Exception # BarItem(b) /\ Sentinel # BarItem(b)
    BY BarItemFacts
  <2>4. QED
    BY <1>1, <1>3, <1>5, <2>1, <2>2, <2>3, ItemTypes
<1>6. ASSUME queue' = queue \/ queue' = Append(queue, Exception)
               \/ queue' = Append(queue, Sentinel)
               \/ (feed = "put" /\ queue' = Append(queue, item)),
             feed' \in {"put", "putcheck"} /\ item' # Exception =>
               feed \in {"put", "putcheck"} /\ item' = item,
             plan' \subseteq plan
      PROVE  InFlight' \subseteq InFlight
  BY <1>3, <1>4, <1>5, <1>6, BarItemFacts
<1>7. CASE FeedStops \/ FeedStage \/ FeedReadCursor \/ FeedGapCheck \/ FeedEmitted
           \/ FeedRefuses \/ RefreshRaises \/ RefreshFinalizes \/ RefreshReturns
           \/ FeedPut \/ FeedHealth \/ FeedSentinel
  <2>1. queue' = queue \/ queue' = Append(queue, Exception)
          \/ queue' = Append(queue, Sentinel)
          \/ (feed = "put" /\ queue' = Append(queue, item))
    BY <1>7 DEF FeedStops, FeedStage, FeedReadCursor, FeedGapCheck, FeedEmitted, FeedRefuses,
       FeedPut, FeedHealth, FeedSentinel, RefreshFinalizes, RefreshReturns, RefreshRaises,
       FeedRaises, Unchanged
  <2>2. /\ feed' \in {"put", "putcheck"} /\ item' # Exception =>
             feed \in {"put", "putcheck"} /\ item' = item
        /\ plan' \subseteq plan
    BY <1>7 DEF FeedStops, FeedStage, FeedReadCursor, FeedGapCheck, FeedEmitted, FeedRefuses,
       FeedPut, FeedHealth, FeedSentinel, RefreshFinalizes, RefreshReturns, RefreshRaises,
       FeedRaises, Unchanged, feedVars
  <2>3. QED
    BY <1>6, <2>1, <2>2
<1>8. CASE FeedList
  <2>1. ASSUME NEW b \in plan' PROVE b \in staged /\ \A c \in committed : c < b
    <3>1. b \in staged /\ cutoff < b /\ b \in Bars
      BY <1>1, <1>8, <2>1, TypeFacts DEF DeliveryInv, FeedList, Plan, PendingAfter
    <3>2. \A c \in committed : ~(c > cutoff)
      BY <1>8 DEF FeedList, RefusesRollback
    <3>3. QED
      BY <1>1, <3>1, <3>2
  <2>2. queue' = queue /\ feed' = "emit"
    BY <1>8 DEF FeedList, Unchanged
  <2>3. QED
    BY <1>3, <1>4, <2>1, <2>2
<1>9. CASE FeedEmit
  <2>1. Min(plan) \in plan
    BY <1>1, <1>9, MinOfNaturals, CursorFacts DEF FeedEmit
  <2>2. queue' = queue /\ item' = BarItem(Min(plan)) /\ plan' \subseteq plan
    BY <1>9 DEF FeedEmit, Unchanged
  <2>3. \A b \in Bars : item' = BarItem(b) => b \in InFlight
    BY <1>1, <1>3, <2>1, <2>2, BarItemFacts
  <2>4. QED
    BY <1>3, <1>4, <2>2, <2>3
<1>10. QED
  BY <1>7, <1>8, <1>9 DEF FeedNext

\* Without a rollback to refuse, the feed thread continues the stream.
LEMMA FeedInOrder ==
  ASSUME DeliveryInv, FeedNext, ~Behind, InOrder, last <= Reached, Reached \in Nat
  PROVE  InOrder'
<1>1. /\ queue \in Seq(Items) /\ item \in Items /\ plan \subseteq Bars
      /\ last \in Nat /\ cursor \in Nat /\ cutoff \in Nat /\ Len(queue) \in Nat
      /\ \A b \in Bars : b \in Nat
      /\ staged \subseteq Bars /\ committed \subseteq Bars
  BY TypeFacts DEF DeliveryInv
<1>2. UNCHANGED <<main, last, bar, committed>> /\ Reached' = Reached
  BY DEF FeedNext, FeedStops, FeedStage, FeedReadCursor, FeedGapCheck, FeedList, FeedRefuses,
         FeedEmit, FeedEmitted, FeedPut, FeedHealth, FeedSentinel, RefreshFinalizes,
         RefreshReturns, RefreshRaises, FeedRaises, Unchanged, mainVars, durable, Reached
<1>3. \A c \in committed : ~(c > last)
  BY <1>1 DEF Behind
<1> DEFINE Queued == \A i \in 1..Len(queue) : \A b \in Bars :
                       queue[i] = BarItem(b) => b = Reached + i
<1>4. Queued /\ \A b \in plan : cursor < b /\ (cursor + 1)..b \subseteq plan
  BY DEF InOrder
<1> USE <1>1, <1>2, BarItemFacts DEF InOrder, Offering, Emitting
<1>5. CASE FeedStops \/ FeedStage \/ FeedEmitted \/ RefreshFinalizes \/ RefreshReturns
  <2>1. CASE FeedStops \/ FeedEmitted
    BY <2>1, SMTT(30) DEF FeedStops, FeedEmitted, Unchanged, durable
  <2>2. CASE FeedStage
    BY <2>2 DEF FeedStage, Unchanged, feedVars
  <2>3. CASE RefreshFinalizes
    BY <2>3 DEF RefreshFinalizes, Unchanged, feedVars
  <2>4. CASE RefreshReturns
    BY <2>4 DEF RefreshReturns, Unchanged, durable
  <2>5. QED
    BY <1>5, <2>1, <2>2, <2>3, <2>4
<1>6. CASE FeedReadCursor
  BY <1>6, CommittedCursorBound DEF FeedReadCursor, Unchanged, feedVars, durable
<1>7. CASE FeedGapCheck
  <2>1. cutoff <= last /\ feed = "gapcheck" /\ ~HasGap(cutoff) /\ ~RefusesRollback(cutoff)
    BY <1>7 DEF FeedGapCheck
  <2>2. ASSUME NEW b \in staged, NEW m \in 1..b PROVE m \in staged
    <3>1. CASE m <= last
      BY <3>1 DEF DeliveryInv, Delivery, StagedFirst
    <3>2. CASE last < m
      <4>1. m \in Bars /\ cutoff < m /\ (m < b \/ m = b)
        BY <2>1, <2>2, <3>2 DEF Bars
      <4>2. b \in PendingAfter(cutoff)
        BY <2>1, <2>2, <4>1 DEF PendingAfter, RefusesRollback
      <4>3. m < b => m \in PendingAfter(cutoff)
        BY <2>1, <4>1, <4>2 DEF HasGap
      <4>4. QED
        BY <2>2, <4>1, <4>3 DEF PendingAfter
    <3>3. QED
      BY <3>1, <3>2
  <2>3. QED
    BY <1>7, <2>2 DEF FeedGapCheck, Unchanged, durable
<1>8. CASE FeedList
  <2>1. /\ feed = "listcheck" /\ feed' = "emit" /\ cutoff <= last
        /\ \A b \in staged : 1..b \subseteq staged
        /\ cursor = Reached + Len(queue)
        /\ UNCHANGED <<queue, item, cursor, cutoff, staged>>
        /\ plan' = Plan
    BY <1>8 DEF FeedList, Unchanged, durable
  <2>2. plan' = {b \in staged : cursor < b}
    <3>1. last <= cursor /\ cutoff <= cursor
      BY <2>1
    <3>2. \A b \in staged : cursor < b => cutoff < b /\ b \notin committed
      BY <1>3, <3>1
    <3>3. QED
      BY <2>1, <3>2 DEF Plan, PendingAfter
  <2>3. ASSUME NEW b \in plan' PROVE cursor < b /\ (cursor + 1)..b \subseteq plan'
    BY <2>1, <2>2, <2>3
  <2>4. QED
    BY <2>1, <2>3
<1>9. CASE FeedRefuses \/ RefreshRaises
  <2>1. plan' = {} /\ UNCHANGED <<queue, cursor, cutoff>>
    BY <1>9 DEF FeedRefuses, RefreshRaises, FeedRaises, Unchanged
  <2>2. (feed' = "put" /\ item' = Exception) \/ feed' = "sentinel"
    BY <1>9 DEF FeedRefuses, RefreshRaises, FeedRaises
  <2>3. Exception # Sentinel
    BY DEF Exception, Sentinel
  <2>4. QED
    BY <2>1, <2>2, <2>3
<1>10. CASE FeedEmit
  <2>1. feed = "emit" /\ plan # {} /\ plan \subseteq Nat /\ cursor = Reached + Len(queue)
    BY <1>10 DEF FeedEmit
  <2>2. PICK b \in plan : TRUE
    BY <2>1
  <2>3. cursor + 1 \in plan
    BY <2>1, <2>2
  <2>4. Min(plan) \in plan /\ Min(plan) <= cursor + 1
    BY <2>1, <2>3, MinOfNaturals
  <2>5. Min(plan) = cursor + 1
    <3>1. Min(plan) \in Nat /\ cursor < Min(plan)
      BY <1>4, <2>1, <2>4
    <3>2. QED
      BY <2>4, <3>1
  <2>6. /\ cursor' = cursor + 1 /\ plan' = plan \ {cursor + 1} /\ feed' = "put"
        /\ item' = BarItem(cursor') /\ cursor' \in Bars
        /\ UNCHANGED <<queue, cutoff, staged>>
    BY <1>10, <2>3, <2>5 DEF FeedEmit, Unchanged, durable
  <2>7. ASSUME NEW c \in plan' PROVE cursor' < c /\ (cursor' + 1)..c \subseteq plan'
    <3>1. c \in plan /\ c # cursor + 1 /\ cursor < c /\ (cursor + 1)..c \subseteq plan
      BY <2>6, <2>7
    <3>2. c \in Nat
      BY <2>1, <3>1
    <3>3. QED
      BY <2>6, <3>1, <3>2
  <2>8. item'.kind = "bar" /\ item' # Sentinel
    BY <2>6
  <2>9. Offering' /\ Emitting'
    BY <2>6, <2>8
  <2>10. cursor' = Reached' + Len(queue') + (IF Offering' THEN 1 ELSE 0)
    BY <2>1, <2>6, <2>9
  <2>11. Queued'
    BY <2>6
  <2>12. QED
    BY <2>6, <2>7, <2>8, <2>10, <2>11
<1>11. ASSUME NEW x \in Items, queue' = Append(queue, x),
              \A b \in Bars : x = BarItem(b) => b = Reached + Len(queue) + 1
       PROVE  Queued' /\ Len(queue') = Len(queue) + 1
  <2>1. Len(queue') = Len(queue) + 1
    BY <1>11, QueueAppend
  <2>2. ASSUME NEW i \in 1..(Len(queue) + 1), NEW b \in Bars, queue'[i] = BarItem(b)
        PROVE  b = Reached + i
    <3>1. CASE i = Len(queue) + 1
      BY <1>11, <2>2, <3>1, QueueAppend
    <3>2. CASE i # Len(queue) + 1
      <4>1. i \in 1..Len(queue)
        BY <3>2
      <4>2. queue'[i] = queue[i]
        BY <1>11, <3>2, QueueAppend
      <4>3. queue[i] = BarItem(b)
        BY <2>2, <4>2
      <4>4. QED
        BY <1>4, <4>1, <4>3, ZenonT(40)
    <3>3. QED
      BY <3>1, <3>2
  <2>3. QED
    BY <2>1, <2>2
<1>12. CASE FeedPut
  <2>1. /\ feed = "put" /\ item # Sentinel /\ item' = Sentinel /\ plan' \subseteq plan
        /\ UNCHANGED <<cursor, cutoff, staged>>
        /\ plan' = plan \/ plan' = {}
    BY <1>12 DEF FeedPut, Unchanged, durable
  <2>2. CASE queue' = queue /\ feed' = "sentinel"
    BY <2>1, <2>2
  <2>3. CASE queue' = Append(queue, item) /\ item = Exception /\ feed' = "sentinel"
    <3>1. Queued'
      BY <1>11, <2>3
    <3>2. QED
      BY <2>1, <2>3, <3>1
  <2>4. CASE queue' = Append(queue, item) /\ item # Exception /\ feed' = "emit"
    <3>1. item.kind = "bar"
      BY <2>1, <2>4 DEF Items
    <3>2. item = BarItem(cursor) /\ cursor = Reached + Len(queue) + 1
      BY <2>1, <3>1
    <3>3. cursor \in Bars
      BY <3>1, <3>2 DEF BarItem
    <3>4. Queued' /\ Len(queue') = Len(queue) + 1
      BY <1>11, <2>4, <3>2, <3>3
    <3>5. ~Offering'
      BY <2>4
    <3>6. cursor' = Reached' + Len(queue') + (IF Offering' THEN 1 ELSE 0)
      BY <2>1, <3>2, <3>4, <3>5
    <3>7. QED
      BY <2>1, <2>4, <3>4, <3>6
  <2>5. QED
    BY <1>12, <2>2, <2>3, <2>4 DEF FeedPut
<1>13. CASE FeedHealth
  <2>1. feed = "putcheck" /\ UNCHANGED <<cursor, cutoff, staged>>
    BY <1>13 DEF FeedHealth, Unchanged, durable
  <2>2. CASE feed' = "put" /\ UNCHANGED <<queue, plan, item>>
    BY <2>1, <2>2
  <2>3. CASE feed' = "sentinel" /\ plan' = {} /\ queue' \in {queue, Append(queue, Exception)}
    <3>1. Queued'
      BY <1>11, <2>3, ItemTypes
    <3>2. QED
      BY <2>1, <2>3, <3>1
  <2>4. QED
    BY <1>13, <2>2, <2>3 DEF FeedHealth
<1>14. CASE FeedSentinel
  <2>1. queue' = Append(queue, Sentinel) /\ feed' = "off"
        /\ UNCHANGED <<cursor, plan, item, cutoff, staged>>
    BY <1>14 DEF FeedSentinel, Unchanged, durable
  <2>2. Queued'
    BY <1>11, <2>1, ItemTypes
  <2>3. QED
    BY <2>1, <2>2
<1>15. QED
  BY <1>5, <1>6, <1>7, <1>8, <1>9, <1>10, <1>12, <1>13, <1>14 DEF FeedNext

\* Every step of the feed thread.
LEMMA DeliveryFeed ==
  ASSUME DeliveryInv, FeedNext
  PROVE  Delivery'
<1>1. CASE FeedStage
  BY <1>1, DeliveryStage DEF FeedStage, Unchanged, feedVars
<1>2. CASE ~FeedStage
  <2>1. UNCHANGED <<staged, committed, primary, backup, mainVars, after>>
    BY <1>2 DEF FeedNext, FeedStops, FeedReadCursor, FeedGapCheck, FeedList, FeedRefuses,
       FeedEmit, FeedEmitted, FeedPut, FeedHealth, FeedSentinel, RefreshFinalizes,
       RefreshReturns, RefreshRaises, FeedRaises, Unchanged, feedVars, durable
  <2>2. feed # "off" /\ finalized \subseteq finalized'
    BY <1>2 DEF FeedNext, FeedStops, FeedReadCursor, FeedGapCheck, FeedList, FeedRefuses,
       FeedEmit, FeedEmitted, FeedPut, FeedHealth, FeedSentinel, RefreshFinalizes,
       RefreshReturns, RefreshRaises, FeedRaises, Unchanged, durable
  <2>3. Behind' = Behind /\ Saving' = Saving
    BY <2>1 DEF Behind, Saving, mainVars
  <2>4. Filed' /\ Startup' /\ AckedPrefix'
    BY <2>1, <2>2 DEF DeliveryInv, Delivery, Filed, Startup, AckedPrefix, mainVars
  <2>5. StagedFirst'
    BY <2>1, <2>2, FeedFlight DEF DeliveryInv, Delivery, StagedFirst, mainVars
  <2>6. Refusal'
    BY <2>1, <2>3, FeedFlight DEF DeliveryInv, Delivery, Refusal, mainVars
  <2>7. Consecutive'
    <3>1. last <= Reached /\ Reached \in Nat
      BY TypeFacts DEF DeliveryInv, Reached
    <3>2. QED
      BY <2>1, <2>3, <3>1, FeedInOrder DEF DeliveryInv, Delivery, Consecutive, mainVars
  <2>8. QED
    BY <2>4, <2>5, <2>6, <2>7 DEF Delivery
<1>3. QED
  BY <1>1, <1>2

\* Every step keeps the invariant, engine failures and corruptions included.
LEMMA DeliveryStep ==
  ASSUME DeliveryInv, [Next]_vars
  PROVE  DeliveryInv'
<1>1. TypeInv'
  BY TypeStep DEF DeliveryInv
<1> SUFFICES Delivery'
  BY <1>1 DEF DeliveryInv
<1>2. CASE UNCHANGED vars
  BY <1>2, DeliveryMoves DEF vars, durable, mainVars
<1>3. CASE WatchNext \/ RequestStop
  BY <1>3, DeliveryMoves
     DEF WatchNext, WatchEnds, WatchStopFile, WatchReadCursor, WatchCheck, OnlyWatch,
         RequestStop, mainVars
<1>4. CASE Crash
  BY <1>4, DeliveryProcessEnds DEF Crash
<1>5. QED
  BY <1>2, <1>3, <1>4, DeliveryStartup, DeliveryLoop, DeliverySave, DeliveryFeed
     DEF Next, MainNext

LEMMA DeliveryInvariant == Spec => []DeliveryInv
<1>1. Init => DeliveryInv
  BY TypeInit, DeliveryInit DEF DeliveryInv
<1>2. DeliveryInv /\ [Next]_vars => DeliveryInv'
  BY DeliveryStep
<1>3. QED
  BY <1>1, <1>2, PTL DEF Spec

-----------------------------------------------------------------------------
(* What follows for every number of crashes, failed saves, engine failures *)
(* and corrupted checkpoints.                                              *)

\* The ledger acknowledges finalized minutes in order and skips none, also when
\* minutes are missing from the data or an older checkpoint had to be loaded.
THEOREM CommitsArePrefixCorrect == Spec => []CommitsArePrefix
<1>1. DeliveryInv => CommitsArePrefix
  BY DEF DeliveryInv, Delivery, StagedFirst, AckedPrefix, CommitsArePrefix
<1>2. QED
  BY DeliveryInvariant, <1>1, PTL

\* An acknowledged minute is never processed again: a process that loaded an
\* older checkpoint refuses the first bar it receives.
THEOREM AcknowledgedNeverReprocessedCorrect == Spec => AcknowledgedNeverReprocessed
<1>1. ASSUME DeliveryInv, [Next]_vars
      PROVE  [main = "process" /\ main' = "rotate" => last' \notin committed]_vars
  <2>1. ASSUME main = "process", main' = "rotate", Next PROVE ProcessBar
    BY <2>1 DEF Next, Restore, MainNext, Reconcile, SubscribeStage, Subscribe, SubscribeFails,
       Get, RefuseBar, EngineRejects, Rotate, Publish, Acknowledge, Acknowledged, Close,
       SaveFails, EngineFails, ProcessEnds, FeedNext, FeedStops, FeedStage, FeedReadCursor,
       FeedGapCheck, FeedList, FeedRefuses, FeedEmit, FeedEmitted, FeedPut, FeedHealth,
       FeedSentinel, RefreshFinalizes, RefreshReturns, RefreshRaises, FeedRaises, Unchanged,
       WatchNext, WatchEnds, WatchStopFile, WatchReadCursor, WatchCheck, OnlyWatch,
       Crash, CorruptPrimary, RequestStop, mainVars
  <2>2. ASSUME ProcessBar PROVE last' \notin committed
    <3>1. last' = last + 1 /\ ~Behind
      BY <1>1, <2>2, NextIsNext DEF ProcessBar
    <3>2. last \in Nat
      BY <1>1, TypeFacts DEF DeliveryInv
    <3>3. QED
      BY <3>1, <3>2 DEF Behind
  <2>3. QED
    BY <1>1, <2>1, <2>2
<1>2. QED
  BY DeliveryInvariant, <1>1, PTL DEF Spec, AcknowledgedNeverReprocessed

\* The main thread only ever dequeues the minute right after the last one it
\* processed, as long as no checkpoint is corrupted.
THEOREM StreamContiguousCorrect ==
  ASSUME MaxCorruptions = 0
  PROVE  Spec => []StreamContiguous
<1>1. TypeInv /\ FrontierInv /\ [Next]_vars => FrontierInv'
  BY FrontierStep
<1>2. ASSUME DeliveryInv, FrontierInv PROVE StreamContiguous
  <2>1. SUFFICES ASSUME main = "process" PROVE bar = last + 1
    BY DEF StreamContiguous
  <2>2. ASSUME NEW c \in committed PROVE c <= last
    <3>1. c <= Loadable.last /\ Loadable.last <= last
      BY <1>2, <2>1, <2>2 DEF FrontierInv, AcksCovered, EngineAhead
    <3>2. c \in Nat /\ last \in Nat /\ Loadable.last \in Nat
      BY <1>2, <2>2, TypeFacts DEF DeliveryInv
    <3>3. QED
      BY <3>1, <3>2
  <2>3. ~Behind
    BY <1>2, <2>2, TypeFacts DEF Behind, DeliveryInv
  <2>4. QED
    BY <1>2, <2>1, <2>3 DEF DeliveryInv, Delivery, Consecutive
<1>3. DeliveryInv => TypeInv
  BY DEF DeliveryInv
<1>4. QED
  BY DeliveryInvariant, FrontierInit, <1>1, <1>2, <1>3, PTL DEF Spec

-----------------------------------------------------------------------------
(* The engine, when it raises on no minute it accepts.                     *)

\* An image that absorbed the first `minute` minutes, each once and completely.
Whole(image, minute) ==
  /\ image.context = [i \in 1..minute |-> i]
  /\ image.hmm = minute /\ image.clock = minute

\* The engine and both files hold whole images of the minute they name.
Wholeness ==
  /\ Whole(engine, last)
  /\ Whole(primary.engine, primary.last) /\ Whole(backup.engine, backup.last)

\* The freshly built engine is the whole image of no minute.
LEMMA BootstrapWhole == Whole(Bootstrap, 0)
<1>1. <<>> = [i \in 1..0 |-> i]
  OBVIOUS
<1>2. QED
  BY <1>1 DEF Whole, Bootstrap

\* Absorbing the next minute completely keeps a whole image whole.
LEMMA AbsorbWhole ==
  ASSUME NEW n \in Nat, last = n, Whole(engine, n)
  PROVE  Whole(Absorb(n + 1, "all"), n + 1)
<1>1. Append([i \in 1..n |-> i], n + 1) = [i \in 1..(n + 1) |-> i]
  OBVIOUS
<1>2. QED
  BY <1>1 DEF Whole, Absorb

\* What a restart would load is whole.
LEMMA LoadableWhole ==
  ASSUME Wholeness
  PROVE  Whole(Loadable.engine, Loadable.last)
BY BootstrapWhole DEF Wholeness, Loadable, NoFile

\* The engine accepts every placeable bar, and nothing else makes it raise.
LEMMA NeverRejected ==
  ASSUME MaxEngineFailures = 0, DeliveryInv, Wholeness
  PROVE  ~EngineRejects /\ ~EngineFails
<1>1. ASSUME Placeable PROVE EngineAccepts(NextBar)
  BY <1>1, NextIsNext, TypeFacts DEF DeliveryInv, Wholeness, Whole, EngineAccepts
<1>2. ~(budget.failures < 0)
  BY TypeFacts DEF DeliveryInv
<1>3. QED
  BY <1>1, <1>2 DEF EngineRejects, EngineFails

\* Images stay whole: only complete minutes are absorbed, saved and restored.
LEMMA WholenessStep ==
  ASSUME MaxEngineFailures = 0, DeliveryInv, Wholeness, [Next]_vars
  PROVE  Wholeness'
<1> USE DEF Wholeness
<1>1. CASE UNCHANGED <<primary, backup>>
           /\ (UNCHANGED <<engine, last>> \/ ProcessEnds \/ ProcessBar \/ Restore)
  <2>1. CASE ProcessBar
    <3>1. last \in Nat /\ last' = last + 1 /\ engine' = Absorb(last + 1, "all")
      BY <2>1, NextIsNext, TypeFacts DEF ProcessBar, DeliveryInv
    <3>2. QED
      BY <1>1, <3>1, AbsorbWhole
  <2>2. QED
    BY <1>1, <2>1, BootstrapWhole, LoadableWhole DEF ProcessEnds, Restore, RestoredImage
<1>2. CASE Rotate
  BY <1>2, BootstrapWhole DEF Rotate, RotatedBackup, NoFile
<1>3. CASE Publish
  BY <1>3 DEF Publish, Saved
<1>4. CASE CorruptPrimary
  <2>1. primary'.engine = primary.engine /\ primary'.last = primary.last
    BY <1>4 DEF CorruptPrimary, DeliveryInv, TypeInv, TypeOK, DurableTypes, CheckpointFiles
  <2>2. QED
    BY <1>4, <2>1 DEF CorruptPrimary, mainVars
<1>5. CASE FeedNext \/ WatchNext \/ RequestStop \/ UNCHANGED vars
  BY <1>1, <1>5
     DEF FeedNext, FeedStops, FeedStage, FeedReadCursor, FeedGapCheck, FeedList, FeedRefuses,
         FeedEmit, FeedEmitted, FeedPut, FeedHealth, FeedSentinel, RefreshFinalizes,
         RefreshReturns, RefreshRaises, FeedRaises, Unchanged, WatchNext, WatchEnds,
         WatchStopFile, WatchReadCursor, WatchCheck, OnlyWatch, RequestStop, vars, mainVars,
         durable
<1>6. CASE ProcessBar \/ Restore
  BY <1>1, <1>6 DEF ProcessBar, Restore, durable
<1>7. CASE \/ Reconcile \/ SubscribeStage \/ Subscribe \/ SubscribeFails \/ Get \/ RefuseBar
           \/ Acknowledge \/ Acknowledged \/ Close \/ SaveFails \/ Crash
  BY <1>1, <1>7
     DEF Reconcile, SubscribeStage, Subscribe, SubscribeFails, Get, RefuseBar, Acknowledge,
         Acknowledged, Close, SaveFails, Crash, durable, mainVars
<1>8. QED
  BY <1>2, <1>3, <1>4, <1>5, <1>6, <1>7, NeverRejected DEF Next, MainNext

LEMMA WholenessInvariant ==
  ASSUME MaxEngineFailures = 0
  PROVE  Spec => []Wholeness
<1>1. Init => Wholeness
  BY BootstrapWhole DEF Init, NoFile, Wholeness
<1>2. DeliveryInv /\ Wholeness /\ [Next]_vars => Wholeness'
  BY WholenessStep
<1>3. QED
  BY DeliveryInvariant, <1>1, <1>2, PTL DEF Spec

\* However the threads interleave, whatever is killed, whichever save fails and
\* whichever checkpoint is corrupted, the checkpoint a restart loads contains
\* minutes 1..last, each exactly once.
THEOREM ExactlyOnceCorrect ==
  ASSUME MaxEngineFailures = 0
  PROVE  Spec => []ExactlyOnce
<1>1. Wholeness => ExactlyOnce
  BY LoadableWhole DEF ExactlyOnce, Whole
<1>2. QED
  BY WholenessInvariant, <1>1, PTL

-----------------------------------------------------------------------------
(* The delivery implements the promise, when no checkpoint is corrupted.   *)

\* The engine is at most one bar ahead of the checkpoint, and only while that bar
\* is being saved.
OneAhead ==
  /\ main \in {"rotate", "publish", "close"} => last <= Loadable.last + 1
  /\ main \in {"reconcile", "subscribe", "get", "process"} => last = Loadable.last

LEMMA OneAheadStep ==
  ASSUME MaxCorruptions = 0, DeliveryInv, FrontierInv, OneAhead, [Next]_vars
  PROVE  OneAhead'
<1>1. last \in Nat /\ Loadable.last \in Nat
  BY TypeFacts DEF DeliveryInv
<1> USE <1>1 DEF OneAhead, durable, mainVars
<1>2. ASSUME UNCHANGED <<primary, backup>> PROVE Loadable' = Loadable
  BY <1>2 DEF Loadable
<1>3. CASE UNCHANGED <<primary, backup, main, last>>
  BY <1>2, <1>3
<1>4. CASE FeedNext \/ WatchNext \/ RequestStop \/ UNCHANGED vars \/ SubscribeStage
           \/ Acknowledge \/ (Reconcile /\ UNCHANGED main)
  BY <1>3, <1>4
     DEF FeedNext, FeedStops, FeedStage, FeedReadCursor, FeedGapCheck, FeedList, FeedRefuses,
         FeedEmit, FeedEmitted, FeedPut, FeedHealth, FeedSentinel, RefreshFinalizes,
         RefreshReturns, RefreshRaises, FeedRaises, Unchanged, WatchNext, WatchEnds,
         WatchStopFile, WatchReadCursor, WatchCheck, OnlyWatch, RequestStop, vars,
         SubscribeStage, Acknowledge, Reconcile
<1>5. ASSUME ProcessEnds, UNCHANGED durable PROVE OneAhead'
  BY <1>5 DEF ProcessEnds
<1>6. CASE Crash \/ SubscribeFails \/ (closing /\ (SaveFails \/ Acknowledged))
           \/ (~(last > 0) /\ Close)
  BY <1>5, <1>6 DEF Crash, SubscribeFails, SaveFails, Acknowledged, Close
<1>7. CASE Restore
  BY <1>2, <1>7 DEF Restore, AfterRestore
<1>8. CASE Subscribe \/ (Reconcile /\ main' = "subscribe")
  BY <1>2, <1>8 DEF Subscribe, Reconcile
<1>9. CASE Get \/ RefuseBar \/ EngineRejects \/ EngineFails
  BY <1>2, <1>9 DEF Get, RefuseBar, EngineRejects, EngineFails, Placeable
<1>10. CASE ProcessBar
  BY <1>2, <1>10, NextIsNext DEF ProcessBar, Placeable
<1>11. CASE Rotate
  <2>1. Loadable'.last = Loadable.last
    BY <1>11 DEF Rotate, RotatedBackup, Loadable, NoFile, FrontierInv, FilesReadable
  <2>2. QED
    BY <1>11, <2>1 DEF Rotate
<1>12. CASE Publish
  BY <1>12 DEF Publish
<1>13. CASE ~closing /\ (SaveFails \/ Acknowledged)
  BY <1>2, <1>13 DEF SaveFails, Acknowledged, FrontierInv, AckedFromCheckpoint
<1>14. CASE last > 0 /\ Close
  BY <1>2, <1>14 DEF Close
<1>15. Reconcile => UNCHANGED main \/ main' = "subscribe"
  BY DEF Reconcile
<1>16. ~CorruptPrimary
  BY TypeFacts DEF DeliveryInv, CorruptPrimary
<1>17. QED
  BY <1>4, <1>6, <1>7, <1>8, <1>9, <1>10, <1>11, <1>12, <1>13, <1>14, <1>15, <1>16
     DEF Next, MainNext

\* The initial state of the delivery is that of the promise.
LEMMA PromiseInit == Init => Promise!Init
BY DEF Init, Promise!Init, Loadable, NoFile, Bootstrap

\* Every step of the delivery is a step of the promise or changes nothing of it.
LEMMA PromiseStep ==
  ASSUME MaxCorruptions = 0, MaxEngineFailures = 0, ReviewedGaps = {},
         DeliveryInv, FrontierInv, Wholeness, OneAhead, [Next]_vars
  PROVE  [Promise!Next]_<<finalized, Loadable.engine.context, committed>>
<1> DEFINE applied == Loadable.engine.context
<1>1. /\ last \in Nat /\ Loadable.last \in Nat
      /\ applied = [i \in 1..Loadable.last |-> i] /\ Len(applied) = Loadable.last
  BY LoadableWhole, TypeFacts DEF DeliveryInv, Whole
<1>2. CASE RefreshFinalizes
  <2>1. PICK b \in NextFinal : finalized' = finalized \union {b}
    BY <1>2 DEF RefreshFinalizes
  <2>2. b \in 1..Minutes \ finalized /\ 1..(b - 1) \subseteq finalized
    BY <2>1 DEF NextFinal, Bars
  <2>3. Loadable' = Loadable /\ committed' = committed
    BY <1>2 DEF RefreshFinalizes, Unchanged, Loadable
  <2>4. Promise!Finalize
    BY <2>1, <2>2, <2>3 DEF Promise!Finalize
  <2>5. QED
    BY <2>4 DEF Promise!Next
<1>3. CASE Publish
  <2>1. /\ Loadable'.engine.context = [i \in 1..last |-> i]
        /\ UNCHANGED <<finalized, committed>>
    BY <1>3 DEF Publish, Saved, Loadable, Wholeness, Whole
  <2>2. Loadable.last <= last /\ last <= Loadable.last + 1
    BY <1>3 DEF Publish, FrontierInv, EngineAhead, OneAhead
  <2>3. CASE last = Loadable.last
    BY <1>1, <2>1, <2>3
  <2>4. CASE last = Loadable.last + 1
    <3>1. Len(applied) + 1 \in finalized
      BY <1>1, <2>4 DEF DeliveryInv, Delivery, StagedFirst
    <3>2. Append(applied, Len(applied) + 1) = [i \in 1..last |-> i]
      BY <1>1, <2>4
    <3>3. Promise!Apply
      BY <2>1, <3>1, <3>2 DEF Promise!Apply
    <3>4. QED
      BY <3>3 DEF Promise!Next
  <2>5. QED
    BY <1>1, <2>2, <2>3, <2>4
<1>4. CASE AcknowledgeOne /\ (Acknowledge \/ Reconcile)
  <2>1. last = Loadable.last /\ Loadable' = Loadable /\ finalized' = finalized
    BY <1>4 DEF Acknowledge, Reconcile, Loadable, FrontierInv, AckedFromCheckpoint,
                mainVars
  <2>2. PICK m : m = Min(Eligible(last))
    OBVIOUS
  <2>3. /\ m \in 1..last \ committed /\ 1..(m - 1) \subseteq committed
        /\ committed' = committed \union {m}
    BY <1>4, <2>2, AcknowledgeContinues DEF AcknowledgeOne
  <2>4. Promise!Acknowledge
    BY <1>1, <2>1, <2>3 DEF Promise!Acknowledge
  <2>5. QED
    BY <2>4 DEF Promise!Next
<1>5. CASE Rotate
  <2>1. Loadable' = Loadable
    BY <1>5 DEF Rotate, RotatedBackup, NoFile, Loadable, FrontierInv, FilesReadable
  <2>2. QED
    BY <1>5, <2>1 DEF Rotate
<1>6. ASSUME UNCHANGED <<finalized, primary, backup, committed>>
      PROVE  UNCHANGED <<finalized, Loadable.engine.context, committed>>
  BY <1>6 DEF Loadable
<1>7. CASE FeedNext /\ ~RefreshFinalizes
  BY <1>6, <1>7
     DEF FeedNext, FeedStops, FeedStage, FeedReadCursor, FeedGapCheck, FeedList,
         FeedRefuses, FeedEmit, FeedEmitted, FeedPut, FeedHealth, FeedSentinel,
         RefreshReturns, RefreshRaises, FeedRaises, Unchanged, durable
<1>8. CASE WatchNext \/ RequestStop \/ UNCHANGED vars
  BY <1>6, <1>8
     DEF WatchNext, WatchEnds, WatchStopFile, WatchReadCursor, WatchCheck, OnlyWatch,
         RequestStop, vars, durable
<1>9. CASE Crash \/ Restore \/ SubscribeStage \/ Subscribe \/ SubscribeFails \/ Get
           \/ RefuseBar \/ ProcessBar \/ SaveFails \/ Acknowledged \/ Close
  BY <1>6, <1>9
     DEF Crash, Restore, SubscribeStage, Subscribe, SubscribeFails, Get, RefuseBar,
         ProcessBar, SaveFails, Acknowledged, Close, durable
<1>10. CASE Reconcile /\ UNCHANGED committed
  BY <1>6, <1>10 DEF Reconcile
<1>11. Reconcile => UNCHANGED committed \/ AcknowledgeOne
  BY DEF Reconcile
<1>12. Acknowledge => AcknowledgeOne
  BY DEF Acknowledge
<1>13. ~CorruptPrimary
  BY TypeFacts DEF DeliveryInv, CorruptPrimary
<1>14. QED
  BY <1>2, <1>3, <1>4, <1>5, <1>7, <1>8, <1>9, <1>10, <1>11, <1>12, <1>13, NeverRejected
     DEF Next, MainNext

\* Threads, bounded queue, crashes, failed saves and redeliveries implement
\* exactly-once delivery.
THEOREM ImplementsExactlyOnceCorrect ==
  ASSUME MaxCorruptions = 0, MaxEngineFailures = 0, ReviewedGaps = {}
  PROVE  Spec => ImplementsExactlyOnce
<1>1. TypeInv /\ FrontierInv /\ [Next]_vars => FrontierInv'
  BY FrontierStep
<1>2. DeliveryInv /\ FrontierInv /\ OneAhead /\ [Next]_vars => OneAhead'
  BY OneAheadStep
<1>3. DeliveryInv /\ FrontierInv /\ Wholeness /\ OneAhead /\ [Next]_vars
        => [Promise!Next]_<<finalized, Loadable.engine.context, committed>>
  BY PromiseStep
<1>4. Init => OneAhead
  BY DEF Init, OneAhead, Loadable, NoFile
<1>5. DeliveryInv => TypeInv
  BY DEF DeliveryInv
<1>6. QED
  BY PromiseInit, FrontierInit, DeliveryInvariant, WholenessInvariant,
     <1>1, <1>2, <1>3, <1>4, <1>5, PTL
     DEF Spec, ImplementsExactlyOnce, Promise!Spec

=============================================================================

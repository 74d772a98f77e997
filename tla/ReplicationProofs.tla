------------------------- MODULE ReplicationProofs --------------------------
(***************************************************************************)
(* Proofs about Replication, for any number of items, configs, rows, tries *)
(* and turns: the types, that a row that says success is on its target for *)
(* good, that the brake and a shutdown are obeyed, and that the ledger is  *)
(* a durable queue (Outbox).                                               *)
(*                                                                         *)
(* The invariant is about the row the one worker has in hand.  Until its   *)
(* outcome is written its status is one that a worker may still change,    *)
(* and what the pc says of the target (free before the PUT, the row's own  *)
(* content after it) stays true because nobody else pushes.                *)
(***************************************************************************)
EXTENDS Replication, TLAPS

\* The steps of processTask before and after its claim is written.
Unclaimed == {"top", "claim"}
Claimed == {"head", "put", "props", "done", "refused", "failed", "cut"}
InHand == Unclaimed \cup Claimed
Open == {"pending", "in_progress", "failed", "gone"}

\* Rows are numbered from 1 and exist from their creation on (Enqueue, TriggerFullSync).
RowsAreMade ==
    \A t \in Ids :
        /\ t <= made <=> status[t] # "none"
        /\ t <= made => what[t] \in Items \X Configs

\* processTask has a row exactly while it runs, and drain hands each listed row out once.
HandIsARow ==
    /\ IF pc \in InHand THEN cur \in 1..made ELSE cur = NoTask
    /\ list \subseteq 1..made
    /\ cur \notin list
    /\ phase = "down" => pc = "off"

\* What the worker holds or has listed is not finished: a row is in_progress, or gone with its
\* config, from its claim to the write of its outcome.
HandIsOpen ==
    /\ \A t \in list : status[t] \in Open
    /\ pc \in Unclaimed => status[cur] \in Open
    /\ pc \in Claimed => status[cur] \in {"in_progress", "gone"}

\* What the answers of the target told the worker still holds.
PushIsTrue ==
    /\ pc = "put" => Held = None
    /\ pc \in {"props", "done"} => Held = ItemOf(cur)
    /\ pc = "done" => cur \in arrived

\* The claims since the brake: one, by a worker whose check had passed before.
BrakeCounts ==
    /\ ~brake => late = 0
    /\ late <= 1
    /\ pc = "claim" => late = 0

\* A row this process left in_progress is in its hand, or a write failed.
ClaimsAreHeld ==
    (phase # "down" /\ faults = 0) =>
        \A t \in mine : status[t] = "in_progress" => pc \in InHand /\ t = cur

RowInv == TypeOK /\ RowsAreMade /\ HandIsARow /\ HandIsOpen

AllInv == RowInv /\ PushIsTrue /\ SuccessIsOnTarget /\ BrakeCounts /\ ClaimsAreHeld

-----------------------------------------------------------------------------
(* The invariant. *)

LEMMA RowInit == Init => AllInv
<1> USE ReplicationConstants DEF Init, Ids, NoTask, Open, Unclaimed, Claimed, InHand
<1> SUFFICES ASSUME Init PROVE AllInv
  OBVIOUS
<1>1. TypeOK
  <2>1. target \in [Configs -> [Paths -> Items \cup {None}]]
    OBVIOUS
  <2>2. what \in [Ids -> (Items \X Configs) \cup {<<>>}]
    OBVIOUS
  <2>3. status \in [Ids -> Statuses] /\ pc \in Pcs
    BY DEF Statuses, Pcs
  <2>4. cfg \in [Configs -> {"on", "off", "gone"}] /\ attempts \in [Ids -> Nat]
    OBVIOUS
  <2>5. brake \in BOOLEAN /\ brakeRow \in BOOLEAN /\ halted \in BOOLEAN
    OBVIOUS
  <2>6. /\ made \in 0..MaxTasks /\ cur \in Ids \cup {NoTask}
        /\ base \in Nat /\ att \in Nat /\ late \in Nat /\ turns \in Nat /\ faults \in Nat
        /\ phase \in {"up", "stopping", "down"}
    OBVIOUS
  <2>7. /\ marked \subseteq Ids /\ aged \subseteq Ids /\ list \subseteq Ids
        /\ arrived \subseteq Ids /\ mine \subseteq Ids
        /\ uploaded \subseteq Items /\ todo \subseteq Configs
        /\ feed \subseteq Items \X Configs \X {"event", "sync"}
    OBVIOUS
  <2> QED
    BY <2>1, <2>2, <2>3, <2>4, <2>5, <2>6, <2>7 DEF TypeOK
<1>2. RowsAreMade /\ HandIsARow /\ HandIsOpen
  BY DEF RowsAreMade, HandIsARow, HandIsOpen
<1>3. PushIsTrue /\ SuccessIsOnTarget /\ BrakeCounts /\ ClaimsAreHeld
  BY DEF PushIsTrue, SuccessIsOnTarget, BrakeCounts, ClaimsAreHeld
<1> QED
  BY <1>1, <1>2, <1>3 DEF AllInv, RowInv

\* What a write of the row in hand leaves of the ledger.
LEMMA WritesEffect ==
  ASSUME TypeOK, cur \in Ids, NEW st \in Statuses, NEW n \in Nat, Writes(st, n)
  PROVE  /\ status' \in [Ids -> Statuses]
         /\ attempts' \in [Ids -> Nat]
         /\ \A t \in Ids : t # cur => status'[t] = status[t]
         /\ status'[cur] = IF status[cur] = "gone" THEN "gone" ELSE st
  BY DEF TypeOK, Writes, Statuses

\* A push puts the content of the row at its place on the target, and nothing elsewhere.
LEMMA StoresEffect ==
  ASSUME TypeOK, cur \in Ids, what[cur] \in Items \X Configs, Stores
  PROVE  /\ target' \in [Configs -> [Paths -> Items \cup {None}]]
         /\ \A c \in Configs, p \in Paths :
                target'[c][p] = IF c = CfgOf(cur) /\ p = Path[ItemOf(cur)] THEN ItemOf(cur)
                                ELSE target[c][p]
<1> USE DEF TypeOK, CfgOf, ItemOf, Paths
<1>1. CfgOf(cur) \in Configs /\ ItemOf(cur) \in Items /\ Path[ItemOf(cur)] \in Paths
  OBVIOUS
<1>2. target' = [target EXCEPT ![CfgOf(cur)] = [@ EXCEPT ![Path[ItemOf(cur)]] = ItemOf(cur)]]
  BY DEF Stores
<1> HIDE DEF CfgOf, ItemOf, Paths
<1> QED
  BY <1>1, <1>2

LEMMA TypeNext == ASSUME RowInv, [Next]_vars PROVE TypeOK'
<1> USE ReplicationConstants
        DEF RowInv, TypeOK, RowsAreMade, HandIsARow, Ids, NoTask, Unclaimed, Claimed, InHand,
            rowVars, gateVars, feedVars, loopVars, handVars, histVars, Turn
<1>1. ASSUME NEW c \in Configs, UpdateConfig(c) \/ DeleteConfig(c) \/ TriggerFullSync(c)
      PROVE TypeOK'
  <2>1. CASE UpdateConfig(c)
    BY <2>1 DEF UpdateConfig
  <2>2. CASE DeleteConfig(c)
    BY <2>2 DEF DeleteConfig, Statuses
  <2>3. CASE TriggerFullSync(c)
    BY <2>3 DEF TriggerFullSync
  <2> QED
    BY <1>1, <2>1, <2>2, <2>3
<1>2. CASE BlockPersist \/ BlockSwap
  <2>1. CASE BlockPersist
    BY <2>1 DEF BlockPersist
  <2>2. CASE BlockSwap
    <3>1. halted' \in BOOLEAN
      BY <2>2 DEF BlockSwap
    <3> QED
      BY <2>2, <3>1 DEF BlockSwap
  <2> QED
    BY <1>2, <2>1, <2>2
<1>3. ASSUME NEW i \in Items, Enqueue(i) PROVE TypeOK'
  BY <1>3 DEF Enqueue
<1>4. ASSUME NEW f \in feed, CreateTask(f) PROVE TypeOK'
  BY <1>4 DEF CreateTask, Statuses
<1>5. ASSUME NEW f \in feed, CreateTaskFails(f) PROVE TypeOK'
  BY <1>5 DEF CreateTaskFails
<1>6. CASE DrainStart \/ ListConfigs \/ DrainEnds \/ RunReturns
  <2>1. CASE ListConfigs
    <3>1. turns' \in Nat
      BY <2>1 DEF ListConfigs
    <3> QED
      BY <2>1, <3>1 DEF ListConfigs, Pcs
  <2>2. CASE DrainStart \/ DrainEnds \/ RunReturns
    BY <2>2 DEF DrainStart, DrainEnds, RunReturns, Pcs
  <2> QED
    BY <1>6, <2>1, <2>2
<1>7. CASE ListTasks
  <2>1. turns' \in Nat
    BY <1>7 DEF ListTasks
  <2>2. list' \subseteq Ids
    <3>1. PICK c \in todo : list' \subseteq Window(c)
      BY <1>7 DEF ListTasks
    <3>2. Window(c) \subseteq 1..made
      BY DEF Window
    <3> QED
      BY <3>1, <3>2
  <2>3. todo' \subseteq Configs
    BY <1>7 DEF ListTasks
  <2> QED
    BY <1>7, <2>1, <2>2, <2>3 DEF ListTasks
<1>8. CASE ProcessTask
  BY <1>8 DEF ProcessTask, Pcs
<1>9. CASE TopReverts
  BY <1>9, WritesEffect DEF TopReverts, Revert, Writes, Back, NothingInHand, Statuses, Pcs
<1>10. CASE TopProceeds
  BY <1>10 DEF TopProceeds, Pcs
<1>11. CASE Claim
  <2>1. status' \in [Ids -> Statuses] /\ attempts' \in [Ids -> Nat] /\ UNCHANGED <<made, what>>
    <3>1. /\ cur \in Ids /\ att + 1 \in Nat /\ "in_progress" \in Statuses
          /\ Writes("in_progress", att + 1)
      BY <1>11 DEF Claim, Statuses
    <3>2. UNCHANGED <<made, what>>
      BY <3>1 DEF Writes
    <3> QED
      BY <3>1, <3>2, WritesEffect
  <2>2. CASE status[cur] = "gone"
    <3>1. UNCHANGED <<late, mine>> /\ Back
      BY <1>11, <2>2 DEF Claim
    <3> QED
      BY <1>11, <2>1, <3>1 DEF Claim, Back, NothingInHand, Pcs
  <2>3. CASE status[cur] # "gone"
    <3>1. /\ pc' = "head" /\ UNCHANGED <<cur, base>>
          /\ att' = att + 1
          /\ late' \in {late, late + 1}
          /\ mine' = mine \cup {cur}
      BY <1>11, <2>3 DEF Claim
    <3>2. /\ marked' \subseteq Ids /\ aged' \subseteq Ids /\ mine' \subseteq Ids
          /\ att' \in Nat /\ late' \in Nat
      BY <1>11, <3>1 DEF Claim
    <3>3. pc' \in Pcs /\ UNCHANGED <<cur, base>>
      BY <3>1 DEF Pcs
    <3>4. UNCHANGED <<cfg, gateVars, feedVars, loopVars, phase, turns, faults, target, arrived, halted>>
      BY <1>11 DEF Claim
    <3> QED
      BY <2>1, <3>2, <3>3, <3>4
  <2> QED
    BY <2>2, <2>3
<1>12. CASE PushHead \/ Sleep
  BY <1>12 DEF PushHead, Sleep, Goes, Pcs
<1>13. CASE PushPut
  <2>1. target' \in [Configs -> [Paths -> Items \cup {None}]]
    BY <1>13, StoresEffect DEF PushPut
  <2> QED
    BY <1>13, <2>1 DEF PushPut, Goes, Pcs
<1>14. CASE PushFails
  <2>1. target' \in [Configs -> [Paths -> Items \cup {None}]]
    BY <1>14, StoresEffect DEF PushFails
  <2> QED
    BY <1>14, <2>1 DEF PushFails, Goes, Pcs
<1>15. CASE PushProps
  BY <1>15 DEF PushProps, Pcs
<1>16. CASE Success \/ Refused \/ Exhausted
  <2>1. status' \in [Ids -> Statuses] /\ attempts' \in [Ids -> Nat] /\ UNCHANGED <<made, what>>
    <3>1. PICK st \in {"success", "failed"}, n \in Nat : Writes(st, n)
      BY <1>16 DEF Success, Refused, Exhausted
    <3>2. cur \in Ids
      BY <1>16 DEF Success, Refused, Exhausted
    <3> QED
      BY <3>1, <3>2, WritesEffect DEF Writes, Statuses
  <2>2. Back /\ marked' \in SUBSET Ids
    <3>1. CASE Success
      BY <3>1 DEF Success
    <3>2. CASE Refused
      BY <3>2 DEF Refused
    <3>3. CASE Exhausted
      BY <3>3 DEF Exhausted
    <3> QED
      BY <1>16, <3>1, <3>2, <3>3
  <2> QED
    BY <1>16, <2>1, <2>2 DEF Success, Refused, Exhausted, Back, NothingInHand, Pcs
<1>17. CASE Cut
  BY <1>17, WritesEffect DEF Cut, Revert, Writes, Back, NothingInHand, Statuses, Pcs
<1>18. CASE WriteFails
  BY <1>18 DEF WriteFails, Back, NothingInHand, Pcs
<1>19. ASSUME NEW t \in Ids, Ages(t) PROVE TypeOK'
  BY <1>19 DEF Ages
<1>20. CASE Stop \/ ProcessEnds \/ Boot
  <2>1. CASE Stop
    BY <2>1 DEF Stop
  <2>2. CASE ProcessEnds
    BY <2>2 DEF ProcessEnds, NothingInHand, Pcs
  <2>3. CASE Boot
    BY <2>3 DEF Boot, Pcs
  <2> QED
    BY <1>20, <2>1, <2>2, <2>3
<1>21. CASE UNCHANGED vars
  BY <1>21 DEF vars
<1> QED
  BY <1>1, <1>2, <1>3, <1>4, <1>5, <1>6, <1>7, <1>8, <1>9, <1>10, <1>11, <1>12, <1>13, <1>14,
     <1>15, <1>16, <1>17, <1>18, <1>19, <1>20, <1>21 DEF Next, Create, Worker, Drain, Push

LEMMA RowNext == ASSUME RowInv, [Next]_vars PROVE (RowsAreMade /\ HandIsARow /\ HandIsOpen)'
<1> USE ReplicationConstants
        DEF RowInv, TypeOK, RowsAreMade, HandIsARow, HandIsOpen, Ids, NoTask, Open, Unclaimed,
            Claimed, InHand, rowVars, gateVars, feedVars, loopVars, handVars, histVars, Turn
<1> DEFINE G == (RowsAreMade /\ HandIsARow /\ HandIsOpen)'
<1>1. ASSUME NEW c \in Configs, UpdateConfig(c) \/ DeleteConfig(c) \/ TriggerFullSync(c) PROVE G
  <2>1. CASE UpdateConfig(c)
    BY <2>1 DEF UpdateConfig
  <2>2. CASE DeleteConfig(c)
    BY <2>2 DEF DeleteConfig, Statuses
  <2>3. CASE TriggerFullSync(c)
    BY <2>3 DEF TriggerFullSync
  <2> QED
    BY <1>1, <2>1, <2>2, <2>3
<1>2. CASE BlockPersist \/ BlockSwap
  BY <1>2 DEF BlockPersist, BlockSwap
<1>3. ASSUME NEW i \in Items, Enqueue(i) PROVE G
  BY <1>3 DEF Enqueue
<1>4. ASSUME NEW f \in feed, CreateTask(f) PROVE G
  BY <1>4 DEF CreateTask, Statuses
<1>5. ASSUME NEW f \in feed, CreateTaskFails(f) PROVE G
  BY <1>5 DEF CreateTaskFails
<1>6. CASE DrainStart \/ ListConfigs \/ DrainEnds \/ RunReturns
  BY <1>6 DEF DrainStart, ListConfigs, DrainEnds, RunReturns
<1>7. CASE ListTasks
  <2>1. \A t \in list' : t \in 1..made /\ Runnable(t)
    BY <1>7 DEF ListTasks, Window
  <2> QED
    BY <1>7, <2>1 DEF ListTasks, Runnable
<1>8. CASE ProcessTask
  BY <1>8 DEF ProcessTask
<1>9. CASE TopReverts
  BY <1>9 DEF TopReverts, Revert, Writes, Back, NothingInHand, Statuses
<1>10. CASE TopProceeds
  BY <1>10 DEF TopProceeds
<1>11. CASE Claim
  BY <1>11 DEF Claim, Writes, Back, NothingInHand, Statuses
<1>12. CASE PushHead \/ Sleep
  BY <1>12 DEF PushHead, Sleep, Goes
<1>13. CASE PushPut
  BY <1>13 DEF PushPut, Goes
<1>14. CASE PushFails
  BY <1>14 DEF PushFails, Goes
<1>15. CASE PushProps
  BY <1>15 DEF PushProps
<1>16. CASE Success \/ Refused \/ Exhausted
  <2>1. PICK st \in {"success", "failed"}, n \in Nat : Writes(st, n)
    BY <1>16 DEF Success, Refused, Exhausted
  <2>2. pc \in Claimed /\ Back /\ UNCHANGED <<loopVars, phase>>
    BY <1>16 DEF Success, Refused, Exhausted
  <2> QED
    BY <2>1, <2>2 DEF Writes, Back, NothingInHand, Statuses
<1>17. CASE Cut
  BY <1>17 DEF Cut, Revert, Writes, Back, NothingInHand, Statuses
<1>18. CASE WriteFails
  BY <1>18 DEF WriteFails, Back, NothingInHand
<1>19. ASSUME NEW t \in Ids, Ages(t) PROVE G
  BY <1>19 DEF Ages
<1>20. CASE Stop \/ ProcessEnds \/ Boot
  <2>1. CASE Stop
    BY <2>1 DEF Stop
  <2>2. CASE ProcessEnds
    BY <2>2 DEF ProcessEnds, NothingInHand
  <2>3. CASE Boot
    BY <2>3 DEF Boot
  <2> QED
    BY <1>20, <2>1, <2>2, <2>3
<1>21. CASE UNCHANGED vars
  BY <1>21 DEF vars
<1> QED
  BY <1>1, <1>2, <1>3, <1>4, <1>5, <1>6, <1>7, <1>8, <1>9, <1>10, <1>11, <1>12, <1>13, <1>14,
     <1>15, <1>16, <1>17, <1>18, <1>19, <1>20, <1>21 DEF Next, Create, Worker, Drain, Push

LEMMA RowInvNext == ASSUME RowInv, [Next]_vars PROVE RowInv'
  BY TypeNext, RowNext DEF RowInv

-----------------------------------------------------------------------------
(* Success is on the target. *)

\* Storing a row's content where the target had nothing leaves every success true.
LEMMA StoreKeeps ==
  ASSUME RowInv, SuccessIsOnTarget, pc = "put", Held = None, Stores,
         UNCHANGED <<what, status, made, cur>>
  PROVE  SuccessIsOnTarget' /\ Held' = ItemOf(cur)'
<1>1. /\ cur \in 1..made
      /\ \A t \in 1..made :
            /\ what[t] \in Items \X Configs
            /\ CfgOf(t)' = CfgOf(t) /\ ItemOf(t)' = ItemOf(t)
            /\ CfgOf(t) \in Configs /\ ItemOf(t) \in Items /\ Path[ItemOf(t)] \in Paths
  <2>1. cur \in 1..made /\ \A t \in 1..made : t \in Ids /\ what[t] \in Items \X Configs
    BY ReplicationConstants
       DEF RowInv, TypeOK, RowsAreMade, HandIsARow, InHand, Unclaimed, Claimed, Ids
  <2> QED
    BY <2>1 DEF CfgOf, ItemOf, Paths
<1>2. /\ CfgOf(cur)' = CfgOf(cur) /\ ItemOf(cur)' = ItemOf(cur)
      /\ cur \in Ids
  BY <1>1, ReplicationConstants DEF CfgOf, ItemOf, RowInv, TypeOK, Ids
<1>3. \A c \in Configs, p \in Paths :
         target'[c][p] = IF c = CfgOf(cur) /\ p = Path[ItemOf(cur)] THEN ItemOf(cur)
                         ELSE target[c][p]
  BY <1>1, <1>2, StoresEffect DEF RowInv
<1>4. Held' = ItemOf(cur)'
  BY <1>1, <1>2, <1>3 DEF Held
<1>5. ASSUME NEW t \in 1..made, status[t] = "success"
      PROVE target'[CfgOf(t)][Path[ItemOf(t)]] = ItemOf(t)
  <2>1. target[CfgOf(t)][Path[ItemOf(t)]] = ItemOf(t) /\ ItemOf(t) # None
    BY <1>1, <1>5, ReplicationConstants DEF SuccessIsOnTarget
  <2>2. ~(CfgOf(t) = CfgOf(cur) /\ Path[ItemOf(t)] = Path[ItemOf(cur)])
    BY <2>1 DEF Held
  <2> QED
    BY <1>1, <1>3, <2>1, <2>2
<1> QED
  BY <1>1, <1>4, <1>5 DEF SuccessIsOnTarget

\* A push never replaces what a target holds, so what the worker knows of the target and what
\* the successful rows say stays true.
LEMMA PushNext ==
  ASSUME RowInv, PushIsTrue, SuccessIsOnTarget, [Next]_vars
  PROVE  (PushIsTrue /\ SuccessIsOnTarget)'
<1> USE ReplicationConstants
        DEF RowInv, TypeOK, RowsAreMade, HandIsARow, HandIsOpen, PushIsTrue, SuccessIsOnTarget,
            Ids, NoTask, Open, Unclaimed, Claimed, InHand, CfgOf, ItemOf, Held,
            rowVars, gateVars, feedVars, loopVars, handVars, histVars, Turn
<1> DEFINE G == (PushIsTrue /\ SuccessIsOnTarget)'
<1>1. ASSUME NEW c \in Configs, UpdateConfig(c) \/ DeleteConfig(c) \/ TriggerFullSync(c) PROVE G
  <2>1. CASE UpdateConfig(c)
    BY <2>1 DEF UpdateConfig
  <2>2. CASE DeleteConfig(c)
    BY <2>2 DEF DeleteConfig
  <2>3. CASE TriggerFullSync(c)
    BY <2>3 DEF TriggerFullSync
  <2> QED
    BY <1>1, <2>1, <2>2, <2>3
<1>2. CASE BlockPersist \/ BlockSwap
  BY <1>2 DEF BlockPersist, BlockSwap
<1>3. ASSUME NEW i \in Items, Enqueue(i) PROVE G
  BY <1>3 DEF Enqueue
<1>4. ASSUME NEW f \in feed, CreateTask(f) PROVE G
  BY <1>4 DEF CreateTask
<1>5. ASSUME NEW f \in feed, CreateTaskFails(f) PROVE G
  BY <1>5 DEF CreateTaskFails
<1>6. CASE DrainStart \/ ListConfigs \/ DrainEnds \/ RunReturns
  BY <1>6 DEF DrainStart, ListConfigs, DrainEnds, RunReturns
<1>7. CASE ListTasks
  BY <1>7 DEF ListTasks
<1>8. CASE ProcessTask
  BY <1>8 DEF ProcessTask
<1>9. CASE TopReverts
  BY <1>9 DEF TopReverts, Revert, Writes, Back, NothingInHand
<1>10. CASE TopProceeds
  BY <1>10 DEF TopProceeds
<1>11. CASE Claim
  BY <1>11 DEF Claim, Writes, Back, NothingInHand
<1>12. CASE PushHead \/ Sleep
  BY <1>12 DEF PushHead, Sleep, Goes
<1>13. CASE PushPut
  <2>1. SuccessIsOnTarget' /\ Held' = ItemOf(cur)' /\ pc' = "props"
    BY <1>13, StoreKeeps DEF PushPut, Goes
  <2> QED
    BY <2>1
<1>14. CASE PushFails
  <2>1. pc' \in {"refused", "failed", "cut"}
    BY <1>14 DEF PushFails, Goes
  <2>2. UNCHANGED <<what, status, made, cur>>
    BY <1>14 DEF PushFails, Goes
  <2>3. CASE pc = "put" /\ Stores
    BY <2>1, <2>2, <2>3, StoreKeeps
  <2>4. CASE UNCHANGED target
    BY <2>1, <2>2, <2>4
  <2> QED
    BY <1>14, <2>3, <2>4 DEF PushFails
<1>15. CASE PushProps
  BY <1>15 DEF PushProps
<1>16. CASE Success \/ Refused \/ Exhausted
  BY <1>16 DEF Success, Refused, Exhausted, Writes, Back, NothingInHand
<1>17. CASE Cut
  BY <1>17 DEF Cut, Revert, Writes, Back, NothingInHand
<1>18. CASE WriteFails
  BY <1>18 DEF WriteFails, Back, NothingInHand
<1>19. ASSUME NEW t \in Ids, Ages(t) PROVE G
  BY <1>19 DEF Ages
<1>20. CASE Stop \/ ProcessEnds \/ Boot
  BY <1>20 DEF Stop, ProcessEnds, Boot, NothingInHand
<1>21. CASE UNCHANGED vars
  BY <1>21 DEF vars
<1> QED
  BY <1>1, <1>2, <1>3, <1>4, <1>5, <1>6, <1>7, <1>8, <1>9, <1>10, <1>11, <1>12, <1>13, <1>14,
     <1>15, <1>16, <1>17, <1>18, <1>19, <1>20, <1>21 DEF Next, Create, Worker, Drain, Push

-----------------------------------------------------------------------------
(* The brake and a shutdown are obeyed. *)

LEMMA HaltNext ==
  ASSUME RowInv, BrakeCounts, ClaimsAreHeld, [Next]_vars
  PROVE  (BrakeCounts /\ ClaimsAreHeld)'
<1> USE ReplicationConstants
        DEF RowInv, TypeOK, RowsAreMade, HandIsARow, HandIsOpen, BrakeCounts, ClaimsAreHeld,
            Ids, NoTask, Open, Unclaimed, Claimed, InHand,
            rowVars, gateVars, feedVars, loopVars, handVars, histVars, Turn
<1> DEFINE G == (BrakeCounts /\ ClaimsAreHeld)'
<1>1. ASSUME NEW c \in Configs, UpdateConfig(c) \/ DeleteConfig(c) \/ TriggerFullSync(c) PROVE G
  BY <1>1 DEF UpdateConfig, DeleteConfig, TriggerFullSync
<1>2. CASE BlockPersist \/ BlockSwap
  <2>1. CASE BlockPersist
    BY <2>1 DEF BlockPersist
  <2>2. CASE BlockSwap
    <3>1. late' = 0 /\ UNCHANGED <<pc, phase, faults, mine, status, cur>>
      BY <2>2 DEF BlockSwap
    <3> QED
      BY <3>1
  <2> QED
    BY <1>2, <2>1, <2>2
<1>3. ASSUME NEW i \in Items, Enqueue(i) PROVE G
  BY <1>3 DEF Enqueue
<1>4. ASSUME NEW f \in feed, CreateTask(f) PROVE G
  BY <1>4 DEF CreateTask
<1>5. ASSUME NEW f \in feed, CreateTaskFails(f) PROVE G
  BY <1>5 DEF CreateTaskFails
<1>6. CASE DrainStart \/ ListConfigs \/ DrainEnds \/ RunReturns
  BY <1>6 DEF DrainStart, ListConfigs, DrainEnds, RunReturns
<1>7. CASE ListTasks
  BY <1>7 DEF ListTasks
<1>8. CASE ProcessTask
  BY <1>8 DEF ProcessTask
<1>9. CASE TopReverts
  BY <1>9 DEF TopReverts, Revert, Writes, Back, NothingInHand
<1>10. CASE TopProceeds
  BY <1>10 DEF TopProceeds
<1>11. CASE Claim
  <2>1. /\ pc = "claim" /\ cur \in Ids
        /\ \A t \in Ids : t # cur => status'[t] = status[t]
        /\ UNCHANGED <<brake, phase, faults>>
    BY <1>11 DEF Claim, Writes
  <2>2. CASE status[cur] = "gone"
    <3>1. pc' = "tasks" /\ UNCHANGED <<late, mine>> /\ status'[cur] = "gone"
      BY <1>11, <2>2 DEF Claim, Writes, Back
    <3> QED
      BY <2>1, <3>1
  <2>3. CASE status[cur] # "gone"
    <3>1. /\ pc' = "head" /\ mine' = mine \cup {cur} /\ UNCHANGED cur
          /\ late' = IF brake THEN late + 1 ELSE late
      BY <1>11, <2>3 DEF Claim
    <3> QED
      BY <2>1, <3>1
  <2> QED
    BY <2>2, <2>3
<1>12. CASE PushHead \/ Sleep
  BY <1>12 DEF PushHead, Sleep, Goes
<1>13. CASE PushPut \/ PushFails
  BY <1>13 DEF PushPut, PushFails, Goes
<1>15. CASE PushProps
  BY <1>15 DEF PushProps
<1>16. CASE Success \/ Refused \/ Exhausted
  <2>1. PICK st \in {"success", "failed"}, n \in Nat : Writes(st, n)
    BY <1>16 DEF Success, Refused, Exhausted
  <2>2. pc \in Claimed /\ pc' = "tasks" /\ UNCHANGED <<brake, phase, faults, late, mine>>
    BY <1>16 DEF Success, Refused, Exhausted, Back
  <2>3. \A t \in Ids : t # cur => status'[t] = status[t]
    BY <2>1 DEF Writes
  <2>4. status'[cur] # "in_progress"
    BY <2>1, <2>2 DEF Writes
  <2> QED
    BY <2>2, <2>3, <2>4
<1>17. CASE Cut
  BY <1>17 DEF Cut, Revert, Writes, Back, NothingInHand
<1>18. CASE WriteFails
  BY <1>18 DEF WriteFails, Back, NothingInHand
<1>19. ASSUME NEW t \in Ids, Ages(t) PROVE G
  BY <1>19 DEF Ages
<1>20. CASE Stop \/ ProcessEnds \/ Boot
  <2>1. CASE Stop
    BY <2>1 DEF Stop
  <2>2. CASE ProcessEnds
    BY <2>2 DEF ProcessEnds, NothingInHand
  <2>3. CASE Boot
    BY <2>3 DEF Boot
  <2> QED
    BY <1>20, <2>1, <2>2, <2>3
<1>21. CASE UNCHANGED vars
  BY <1>21 DEF vars
<1> QED
  BY <1>1, <1>2, <1>3, <1>4, <1>5, <1>6, <1>7, <1>8, <1>9, <1>10, <1>11, <1>12, <1>13,
     <1>15, <1>16, <1>17, <1>18, <1>19, <1>20, <1>21 DEF Next, Create, Worker, Drain, Push

LEMMA AllInvNext == AllInv /\ [Next]_vars => AllInv'
  BY RowInvNext, PushNext, HaltNext DEF AllInv

LEMMA Always == Spec => []AllInv
  BY RowInit, AllInvNext, PTL DEF Spec

\* Every reachable state has the types of ReplicationTask, ReplicationConfig and GlobalBlock.
THEOREM TypeCorrect == Spec => []TypeOK
<1>1. AllInv => TypeOK
  BY DEF AllInv, RowInv
<1> QED
  BY <1>1, Always, PTL

\* engine.go, pushGeneric: a row that says success is on its target, and no later push has put
\* another content there, whatever crashes, lost answers, revivals and config edits came between.
THEOREM SuccessStaysOnTarget == Spec => []SuccessIsOnTarget
<1>1. AllInv => SuccessIsOnTarget
  BY DEF AllInv
<1> QED
  BY <1>1, Always, PTL

\* engine.go, processTask and Run: after the brake at most one claim is written, and a worker
\* that returned from a shutdown leaves no claim of its own behind unless a write failed.
THEOREM HaltsAreObeyed == Spec => []HaltIsObeyed
<1>1. AllInv => HaltIsObeyed
  BY DEF AllInv, BrakeCounts, ClaimsAreHeld, HaltIsObeyed, InHand, Unclaimed, Claimed
<1> QED
  BY <1>1, Always, PTL

-----------------------------------------------------------------------------
(* The ledger is a durable queue. *)

LEMMA BoxOf ==
  /\ Box = [t \in Ids |-> Box[t]]
  /\ \A t \in Ids :
      /\ status[t] \in {"pending", "in_progress"} => Box[t] = "queued"
      /\ status[t] = "success" => Box[t] = "done"
      /\ status[t] = "failed" => Box[t] = "dead"
      /\ status[t] \in {"none", "gone"} => Box[t] = status[t]
  BY DEF Box

\* BoxOf of the next state.
LEMMA BoxNext ==
  /\ Box' = [t \in Ids |-> Box'[t]]
  /\ \A t \in Ids :
      /\ status'[t] \in {"pending", "in_progress"} => Box'[t] = "queued"
      /\ status'[t] = "success" => Box'[t] = "done"
      /\ status'[t] = "failed" => Box'[t] = "dead"
      /\ status'[t] \in {"none", "gone"} => Box'[t] = status'[t]
  BY DEF Box

LEMMA QueueInit == Init => Queue!Init
  BY DEF Init, Queue!Init, Box

\* A write of the row in hand moves at most its own entry.
LEMMA WritesMove ==
  ASSUME TypeOK, cur \in Ids, NEW st \in Statuses, NEW n \in Nat, Writes(st, n)
  PROVE  /\ \A t \in Ids : t # cur => Box'[t] = Box[t]
         /\ status[cur] = "gone" => Box'[cur] = Box[cur]
         /\ (status[cur] # "gone" /\ st \in {"pending", "in_progress"}) => Box'[cur] = "queued"
         /\ (status[cur] # "gone" /\ st = "success") => Box'[cur] = "done"
         /\ (status[cur] # "gone" /\ st = "failed") => Box'[cur] = "dead"
<1>1. /\ \A t \in Ids : t # cur => status'[t] = status[t]
      /\ status'[cur] = IF status[cur] = "gone" THEN "gone" ELSE st
  BY WritesEffect
<1>2. \A t \in Ids : status[t] \in Statuses
  BY DEF TypeOK
<1> QED
  BY <1>1, <1>2, BoxOf, BoxNext DEF Statuses

\* A row that a claim or a revert writes was waiting, in progress, or failed and is taken up again.
LEMMA Reopens ==
  ASSUME RowInv, pc \in InHand, UNCHANGED arrived,
         NEW st \in {"pending", "in_progress"}, NEW n \in Nat, Writes(st, n)
  PROVE  Queue!Next \/ UNCHANGED Queue!vars
<1>1. TypeOK /\ cur \in Ids /\ status[cur] \in Open
  BY ReplicationConstants
     DEF RowInv, TypeOK, HandIsARow, HandIsOpen, Ids, Open, InHand, Unclaimed, Claimed
<1>2. /\ \A t \in Ids : t # cur => Box'[t] = Box[t]
      /\ status[cur] = "gone" => Box'[cur] = Box[cur]
      /\ status[cur] # "gone" => Box'[cur] = "queued"
  BY <1>1, WritesMove DEF Statuses
<1>3. CASE status[cur] = "failed"
  <2>1. Box[cur] = "dead" /\ Box'[cur] = "queued"
    BY <1>1, <1>2, <1>3, BoxOf
  <2> QED
    BY <1>1, <1>2, <2>1, BoxOf, BoxNext DEF Queue!Next, Queue!Requeue, Queue!Moves
<1>4. CASE status[cur] # "failed"
  <2>1. Box'[cur] = Box[cur]
    BY <1>1, <1>2, <1>4, BoxOf DEF Open
  <2> QED
    BY <1>2, <2>1, BoxOf, BoxNext DEF Queue!vars
<1> QED
  BY <1>3, <1>4

LEMMA QueueNext ==
  ASSUME AllInv, Next
  PROVE  Queue!Next \/ UNCHANGED Queue!vars
<1> USE DEF AllInv, Queue!vars
<1>1. CASE UNCHANGED <<status, arrived>>
  BY <1>1 DEF Box
<1>2. ASSUME NEW c \in Configs, DeleteConfig(c) PROVE Queue!Next
  <2> DEFINE S == {t \in Ids : t <= made /\ CfgOf(t) = c}
  <2>1. \A t \in S : Box[t] # "none"
    BY BoxOf DEF RowInv, RowsAreMade, TypeOK, Statuses
  <2>2. \A t \in Ids : Box'[t] = IF t \in S THEN "gone" ELSE Box[t]
    <3>1. \A t \in Ids : status[t] \in Statuses
      BY DEF RowInv, TypeOK
    <3>2. \A t \in Ids : status'[t] = IF t \in S THEN "gone" ELSE status[t]
      BY <1>2 DEF DeleteConfig
    <3> HIDE DEF S
    <3> QED
      BY <3>1, <3>2, BoxOf, BoxNext DEF Statuses
  <2>3. Queue!Forget(S)
    <3> HIDE DEF S
    <3> QED
      BY <1>2, <2>1, <2>2, BoxNext DEF DeleteConfig, histVars, Queue!Forget, Queue!Moves
  <2>4. S \in SUBSET Ids
    OBVIOUS
  <2> QED
    BY <2>3, <2>4 DEF Queue!Next
<1>3. ASSUME NEW f \in feed, CreateTask(f) PROVE Queue!Next
  <2> DEFINE n == made + 1
  <2>1. n \in Ids /\ status[n] = "none" /\ status' = [status EXCEPT ![n] = "pending"]
    BY <1>3, ReplicationConstants DEF CreateTask, RowInv, TypeOK, RowsAreMade, Ids
  <2> HIDE DEF n
  <2>2. Box[n] = "none" /\ \A t \in Ids : Box'[t] = IF t \in {n} THEN "queued" ELSE Box[t]
    <3>1. Box[n] = "none" /\ Box'[n] = "queued"
      BY <2>1, BoxOf, BoxNext DEF RowInv, TypeOK
    <3>2. \A t \in Ids : t # n => status'[t] = status[t] /\ status[t] \in Statuses
      BY <2>1 DEF RowInv, TypeOK
    <3>3. \A t \in Ids : t # n => Box'[t] = Box[t]
      BY <3>2, BoxOf, BoxNext DEF Statuses
    <3> QED
      BY <3>1, <3>3
  <2>3. Queue!Put({n})
    BY <1>3, <2>2, BoxNext DEF CreateTask, histVars, Queue!Put, Queue!Moves
  <2> QED
    BY <2>1, <2>3 DEF Queue!Next
<1>4. CASE TopReverts \/ Claim \/ Cut
  <2>1. \E st \in {"pending", "in_progress"}, n \in Nat : Writes(st, n)
    BY <1>4 DEF TopReverts, Claim, Cut, Revert, RowInv, TypeOK
  <2>2. pc \in InHand /\ UNCHANGED arrived
    BY <1>4 DEF TopReverts, Claim, Cut, histVars, InHand, Unclaimed, Claimed
  <2> QED
    BY <2>1, <2>2, Reopens
<1>5. CASE PushProps
  <2>1. cur \in Ids /\ status[cur] \in {"in_progress", "gone"}
    BY <1>5, ReplicationConstants
       DEF PushProps, RowInv, TypeOK, HandIsARow, HandIsOpen, Ids, InHand, Claimed
  <2>2. Box[cur] \in {"queued", "gone"}
    BY <2>1, BoxOf
  <2>3. UNCHANGED Box
    BY <1>5 DEF PushProps, rowVars, Box
  <2>4. arrived' = arrived \cup {cur}
    BY <1>5 DEF PushProps
  <2> QED
    BY <2>1, <2>2, <2>3, <2>4 DEF Queue!Next, Queue!Reach
<1>6. CASE Success \/ Refused \/ Exhausted
  <2>1. pc \in Claimed /\ UNCHANGED arrived
    BY <1>6 DEF Success, Refused, Exhausted, Claimed, histVars
  <2>2. cur \in Ids /\ status[cur] \in {"in_progress", "gone"}
    BY <2>1, ReplicationConstants DEF RowInv, TypeOK, HandIsARow, HandIsOpen, Ids, InHand
  <2>3. PICK st \in {"success", "failed"}, n \in Nat : Writes(st, n) /\ (st = "success" => pc = "done")
    BY <1>6, ReplicationConstants DEF Success, Refused, Exhausted, RowInv, TypeOK
  <2>4. /\ \A t \in Ids : t # cur => Box'[t] = Box[t]
        /\ status[cur] = "gone" => Box'[cur] = Box[cur]
        /\ (status[cur] # "gone" /\ st = "success") => Box'[cur] = "done"
        /\ (status[cur] # "gone" /\ st = "failed") => Box'[cur] = "dead"
    BY <2>2, <2>3, WritesMove DEF RowInv, Statuses
  <2>5. CASE status[cur] = "gone"
    BY <2>1, <2>4, <2>5, BoxOf, BoxNext
  <2>6. CASE status[cur] # "gone" /\ st = "success"
    <3>1. cur \in arrived
      BY <2>3, <2>6 DEF PushIsTrue
    <3>2. Box[cur] = "queued" /\ Box'[cur] = "done"
      BY <2>2, <2>4, <2>6, BoxOf
    <3> QED
      BY <2>1, <2>2, <2>4, <3>1, <3>2, BoxOf, BoxNext DEF Queue!Next, Queue!Finish, Queue!Moves
  <2>7. CASE status[cur] # "gone" /\ st = "failed"
    <3>1. Box[cur] = "queued" /\ Box'[cur] = "dead"
      BY <2>2, <2>4, <2>7, BoxOf
    <3> QED
      BY <2>1, <2>2, <2>4, <3>1, BoxOf, BoxNext DEF Queue!Next, Queue!GiveUp, Queue!Moves
  <2> QED
    BY <2>5, <2>6, <2>7
<1> QED
  BY <1>1, <1>2, <1>3, <1>4, <1>5, <1>6
     DEF Next, Create, Worker, Drain, Push, UpdateConfig, TriggerFullSync, BlockPersist, BlockSwap,
         Enqueue, CreateTaskFails, DrainStart, ListConfigs, ListTasks, DrainEnds, ProcessTask,
         RunReturns, TopProceeds, PushHead, PushPut, PushFails, Sleep, Goes, WriteFails, Ages,
         Stop,
         ProcessEnds, Boot, rowVars, histVars

\* Every behaviour of the ledger is one of the queue: success is written only for a row whose push
\* the target confirmed, nothing is sent for a settled row, and only a failed row comes back.
THEOREM QueueIsImplemented == Spec => ImplementsOutbox
<1>1. AllInv /\ [Next]_vars => [Queue!Next]_(Queue!vars)
  <2>1. AllInv /\ UNCHANGED vars => UNCHANGED Queue!vars
    BY DEF vars, rowVars, histVars, Queue!vars, Box
  <2> QED
    BY <2>1, QueueNext
<1> QED
  BY <1>1, QueueInit, Always, PTL DEF Spec, ImplementsOutbox, Queue!Spec
=============================================================================

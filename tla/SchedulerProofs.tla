-------------------------- MODULE SchedulerProofs ---------------------------
(***************************************************************************)
(* Proofs about Scheduler, for any keys, expressions, requests, clocks,    *)
(* restarts and kick queues: the types, that an enabled schedule with a    *)
(* trigger to come is armed, and that a fire of a row the scheduler armed  *)
(* has a trigger of its own.                                               *)
(*                                                                         *)
(* Both invariants are about copies: the loop and each request compute the *)
(* next run from an instant and a row they read before, and write it after *)
(* others wrote.  What makes the copies safe is that no instant in hand is *)
(* later than the clock ever was, and that only the loop, which has one    *)
(* row at a time, moves a last run forward.                                *)
(***************************************************************************)
EXTENDS Scheduler, WellFoundedInduction, TLAPS

Rearming == {"rearm", "rearmWrite"}

\* A request has its key while it runs, and a next run once it passed the second validation
\* (writeScheduleCron); a kick fires only when no sweep is under way, and the row in hand
\* is off the list.
HandsAreFilled ==
    /\ \A w \in Writers :
        /\ wpc[w] # "idle" => req[w].key \in Keys
        /\ wpc[w] \in {"armRead", "armPut"} => wnext[w] # Unset
    /\ kicked => Pending = {} /\ cur # NoKey
    /\ cur \notin Pending

\* The instants from which the loop re-arms are not later than the clock ever was.
InstantsAreShown == now <= top /\ ran <= top

TypeInv == TypeOK /\ HandsAreFilled

\* The same, by who owns the variables: the loop, the requests, and the rest.
LoopTyped ==
    /\ loop \in {"boot", "select", "due", "carrier", "tombstone", "export", "read", "write",
                 "rearm", "rearmWrite", "off"}
    /\ now \in Times \cup {Unset} /\ ran \in Times \cup {Unset}
    /\ batch \in [Keys -> Rows] /\ hand \in Rows
    /\ cur \in Keys \cup {NoKey}
    /\ kicked \in BOOLEAN /\ fault \in BOOLEAN
    /\ loop \in {"boot", "select", "due", "off"} <=> cur = NoKey
    /\ loop = "due" <=> (Pending # {} /\ cur = NoKey)
    /\ kicked => Pending = {} /\ cur # NoKey
    /\ cur \notin Pending

RequestsTyped ==
    /\ wpc \in [Writers -> {"idle", "payload", "arm", "armRead", "armPut", "deleteRow"}]
    /\ req \in [Writers -> Reqs]
    /\ wnext \in [Writers -> Times \cup {Unset}] /\ wlast \in [Writers -> Times \cup {Unset}]
    /\ \A w \in Writers :
        /\ wpc[w] # "idle" => req[w].key \in Keys
        /\ wpc[w] \in {"armRead", "armPut"} => wnext[w] # Unset

RestTyped ==
    /\ clock \in Times /\ top \in Times /\ clock <= top
    /\ rollbacks \in 0 .. MaxRollbacks
    /\ payload \in [Keys -> {"none", "on", "off"}]
    /\ rows \in [Keys -> Rows]
    /\ stopping \in BOOLEAN
    /\ restarts \in 0 .. MaxRestarts
    /\ kicks \in Seq(Keys) /\ Len(kicks) <= KickQueue

ArmInv == TypeInv /\ InstantsAreShown /\ EnabledIsArmed

\* A clock that only moves forward is not behind any last run, recorded, listed or in hand.
LastIsPast ==
    /\ now <= clock /\ ran <= clock /\ hand.last <= clock
    /\ \A k \in Keys : rows[k].last <= clock /\ batch[k].last <= clock
    /\ \A w \in Writers : wlast[w] <= clock

\* Neither is the instant of the sweep behind the last run of a row it has still to fire or to
\* re-arm: nobody but the loop moves it forward.
InSweep(k) == k \in Pending \/ (loop \in Rearming /\ cur = k)

SweepIsLater ==
    /\ \A k \in Keys : InSweep(k) =>
        /\ rows[k].last <= now
        /\ \A w \in Writers : (wpc[w] = "armPut" /\ req[w].key = k) => wlast[w] <= now
    /\ \A k \in Keys : batch[k].last <= now \/ batch[k] = NoRow
    /\ loop \in Rearming => hand.last <= now

\* A row the scheduler armed waits for a trigger after its last run.
Triggered(r) == (r.by = "scheduler" /\ r.next # Unset) => (r.next \in r.cron /\ r.last < r.next)

\* Each row, listed or not, and the one about to fire, which is due.
RowsAreTriggered ==
    /\ \A k \in Keys : Triggered(rows[k]) /\ Triggered(batch[k])
    /\ \A k \in Pending : Due(batch[k], now)
    /\ (loop = "carrier" /\ ~kicked) => Triggered(hand) /\ Due(hand, now)

FireInv == rollbacks = 0 => (LastIsPast /\ SweepIsLater /\ RowsAreTriggered)

-----------------------------------------------------------------------------
(* The next run. *)

\* Numbers are well ordered: the first trigger after an instant exists.
LEMMA HasLeast ==
  ASSUME NEW T \in SUBSET Nat, T # {}
  PROVE  \E x \in T : \A y \in T : x <= y
<1> DEFINE R == OpToRel(<, Nat)
<1>1. IsWellFoundedOn(R, Nat)
  BY NatLessThanWellFounded
<1>2. R = {ss \in Nat \X Nat : ss[1] < ss[2]}
  BY DEF OpToRel
<1> HIDE DEF R
<1>3. PICK x \in T : \A y \in T : ~ (<<y, x>> \in R)
  BY <1>1, WFMin
<1>4. ASSUME NEW y \in T PROVE x <= y
  <2>1. x \in Nat /\ y \in Nat
    OBVIOUS
  <2>2. y < x => <<y, x>> \in R
    BY <1>2, <2>1
  <2> QED
    BY <1>3, <2>1, <2>2
<1> QED
  BY <1>4

\* NextRun is a trigger after t, or Unset when there is none.
LEMMA NextRunIs ==
  ASSUME NEW cron \in Exprs \cup {{}}, NEW t \in Nat
  PROVE  /\ NextRun(cron, t) \in Times \cup {Unset}
         /\ NextRun(cron, t) # Unset => NextRun(cron, t) \in cron /\ t < NextRun(cron, t)
         /\ NextRun(cron, t) = Unset => \A x \in cron : x <= t
<1> DEFINE after == {x \in cron : x > t}
<1>1. cron \subseteq Times /\ Times \subseteq Nat /\ Unset \notin Times
  BY SchedulerConstants DEF Times, Unset
<1>2. CASE after = {}
  BY <1>1, <1>2 DEF NextRun
<1>3. CASE after # {}
  <2> DEFINE first == CHOOSE x \in after : \A y \in after : x <= y
  <2>1. after \in SUBSET Nat
    BY <1>1
  <2>2. \E x \in after : \A y \in after : x <= y
    BY <1>3, <2>1, HasLeast
  <2>3. first \in after
    BY <2>2
  <2>4. NextRun(cron, t) = first
    BY <1>3 DEF NextRun
  <2> QED
    BY <1>1, <2>3, <2>4
<1> QED
  BY <1>2, <1>3

\* A trigger after a later instant is one after an earlier one.
LEMMA NextRunEarlier ==
  ASSUME NEW cron \in Exprs \cup {{}}, NEW t \in Nat, NEW u \in Nat, t <= u,
         NextRun(cron, u) # Unset
  PROVE  NextRun(cron, t) # Unset
<1>1. NextRun(cron, u) \in cron /\ u < NextRun(cron, u)
  BY NextRunIs
<1>2. NextRun(cron, u) \in Nat
  BY NextRunIs DEF Times, Unset
<1>3. NextRun(cron, t) = Unset => NextRun(cron, u) <= t
  BY <1>1, NextRunIs
<1> QED
  BY <1>1, <1>2, <1>3

-----------------------------------------------------------------------------
(* Types. *)

LEMMA TimesAreNat == Times \subseteq Nat /\ Unset \in Nat /\ Unset \notin Times /\ NoKey \notin Keys
  BY SchedulerConstants DEF Times, Unset

\* The fields of a row and of a request, and the empty ones.
LEMMA RowFields ==
  /\ \A r \in Rows : /\ r.cron \in Exprs \cup {{}} /\ r.enabled \in BOOLEAN
                     /\ r.next \in Times \cup {Unset} /\ r.last \in Times \cup {Unset}
  /\ NoRow \in Rows /\ ~NoRow.enabled /\ NoRow.last = Unset /\ NoRow.next = Unset
  /\ NoRow.by = "admin"
  BY DEF Rows, NoRow

LEMMA ReqFields ==
  /\ \A q \in Reqs : /\ q.key \in Keys \cup {NoKey} /\ q.cron \in Exprs \cup {{}}
                     /\ q.enabled \in BOOLEAN /\ q.explicit \in Times \cup {Unset}
  /\ NoReq \in Reqs
  /\ \A k \in Keys : [NoReq EXCEPT !.key = k] \in Reqs /\ [NoReq EXCEPT !.key = k].key = k
  BY DEF Reqs, NoReq

LEMMA PendingSame == ASSUME UNCHANGED batch PROVE Pending' = Pending
  BY DEF Pending

\* A copy of a row with its run state set is a row.
LEMMA RowOf ==
  ASSUME NEW r \in Rows, NEW n \in Times \cup {Unset}, NEW l \in Times \cup {Unset}
  PROVE  /\ [r EXCEPT !.last = l, !.by = "scheduler", !.next = n] \in Rows
         /\ [r EXCEPT !.next = n, !.by = "scheduler"] \in Rows
         /\ [cron |-> r.cron, enabled |-> r.enabled, last |-> l, by |-> "admin", next |-> n] \in Rows
  BY DEF Rows

LEMMA RowInit == Init => ArmInv /\ FireInv
<1> SUFFICES ASSUME Init PROVE ArmInv /\ FireInv
  OBVIOUS
<1> USE SchedulerConstants, TimesAreNat DEF Init
<1>1. NoRow \in Rows
  BY DEF Rows, NoRow
<1>2. Pending = {} /\ 1 \in Times
  BY DEF Pending, Times
<1>3. TypeOK
  <2>1. kicks \in Seq(Keys) /\ Len(kicks) <= KickQueue
    OBVIOUS
  <2>2. req \in [Writers -> Reqs]
    BY ReqFields
  <2>3. stopping \in BOOLEAN /\ kicked \in BOOLEAN /\ fault \in BOOLEAN
    OBVIOUS
  <2>4. rows \in [Keys -> Rows] /\ batch \in [Keys -> Rows] /\ hand \in Rows
    BY <1>1
  <2>5. /\ payload \in [Keys -> {"none", "on", "off"}]
        /\ wpc \in [Writers -> {"idle", "payload", "arm", "armRead", "armPut", "deleteRow"}]
        /\ wnext \in [Writers -> Times \cup {Unset}]
        /\ wlast \in [Writers -> Times \cup {Unset}]
    OBVIOUS
  <2>6. rollbacks \in 0 .. MaxRollbacks /\ restarts \in 0 .. MaxRestarts
    OBVIOUS
  <2>7. clock \in Times /\ top \in Times /\ clock <= top
    BY <1>2
  <2> QED
    BY <1>2, <2>1, <2>2, <2>3, <2>4, <2>5, <2>6, <2>7 DEF TypeOK
<1>4. HandsAreFilled /\ InstantsAreShown
  BY <1>2 DEF HandsAreFilled, InstantsAreShown, Unset
<1>5. EnabledIsArmed
  BY DEF EnabledIsArmed, NoRow
<1>6. FireInv
  BY <1>2 DEF FireInv, LastIsPast, SweepIsLater, InSweep, Rearming, RowsAreTriggered, Triggered,
     Due,
              NoRow, Unset
<1> QED
  BY <1>3, <1>4, <1>5, <1>6 DEF ArmInv, TypeInv

LEMMA TypeParts == TypeInv <=> LoopTyped /\ RequestsTyped /\ RestTyped
  BY DEF TypeInv, TypeOK, HandsAreFilled, LoopTyped, RequestsTyped, RestTyped

LEMMA LoopSame == ASSUME LoopTyped, UNCHANGED loopVars PROVE LoopTyped'
  BY DEF LoopTyped, loopVars, Pending

LEMMA RequestsSame == ASSUME RequestsTyped, UNCHANGED writerVars PROVE RequestsTyped'
  BY DEF RequestsTyped, writerVars

\* Proceed puts the row in hand down.
LEMMA ProceedTyped ==
  ASSUME LoopTyped, NEW f \in BOOLEAN, Proceed(f), UNCHANGED batch
  PROVE  LoopTyped'
<1>1. Pending' = Pending /\ NoRow \in Rows /\ NoKey \notin Pending
  BY PendingSame, RowFields, TimesAreNat DEF Pending
<1>2. CASE Pending = {}
  BY <1>1, <1>2 DEF LoopTyped, Proceed
<1>3. CASE Pending # {}
  BY <1>1, <1>3 DEF LoopTyped, Proceed
<1> QED
  BY <1>2, <1>3

\* RequestEnds leaves the request idle.
LEMMA RequestEndsTyped ==
  ASSUME RequestsTyped, NEW w \in Writers, RequestEnds(w)
  PROVE  RequestsTyped'
  BY ReqFields DEF RequestsTyped, RequestEnds

LEMMA LoopNext == ASSUME TypeInv, Next PROVE LoopTyped'
<1>0. LoopTyped /\ RequestsTyped /\ RestTyped
  BY TypeParts
<1>1. CASE UNCHANGED loopVars
  BY <1>0, <1>1, LoopSame
<1>2. CASE Sweep
  <2>1. \A k \in Keys : batch'[k] # NoRow <=> Due(rows[k], clock)
    BY <1>2, RowFields DEF Sweep, Due
  <2>2. Pending' = {k \in Keys : Due(rows[k], clock)}
    BY <2>1 DEF Pending
  <2>3. batch' \in [Keys -> Rows]
    BY <1>0, <1>2, RowFields DEF Sweep, RestTyped
  <2>4. cur = NoKey /\ UNCHANGED <<cur, kicked, hand, ran>> /\ fault' = FALSE
    BY <1>0, <1>2 DEF Sweep, LoopTyped
  <2>5. ~kicked /\ NoKey \notin Pending'
    BY <1>0, <2>2, <2>4, TimesAreNat DEF LoopTyped
  <2>6. CASE Pending' = {}
    <3>1. loop' = "select" /\ now' = Unset
      BY <1>2, <2>2, <2>6 DEF Sweep
    <3> QED
      BY <1>0, <2>3, <2>4, <2>5, <2>6, <3>1 DEF LoopTyped
  <2>7. CASE Pending' # {}
    <3>1. loop' = "due" /\ now' \in Times
      BY <1>0, <1>2, <2>2, <2>7 DEF Sweep, RestTyped
    <3> QED
      BY <1>0, <2>3, <2>4, <2>5, <2>7, <3>1 DEF LoopTyped
  <2> QED
    BY <2>6, <2>7
<1>3. CASE SweepFails \/ LoopReturns
  BY <1>0, <1>3, PendingSame DEF SweepFails, LoopReturns, LoopTyped
<1>4. CASE TakeKick
  <2>1. Pending' = {} /\ Head(kicks) \in Keys
    BY <1>0, <1>4, PendingSame DEF TakeKick, LoopTyped, RestTyped
  <2> QED
    BY <1>0, <1>4, <2>1, TimesAreNat DEF TakeKick, LoopTyped
<1>5. ASSUME NEW k \in Keys, Dispatch(k) PROVE LoopTyped'
  <2>1. Pending' = Pending \ {k} /\ batch[k] \in Rows
    BY <1>0, <1>5 DEF Dispatch, Pending, LoopTyped
  <2>2. batch' \in [Keys -> Rows]
    BY <1>0, <1>5, RowFields DEF Dispatch, LoopTyped
  <2> QED
    BY <1>0, <1>5, <2>1, <2>2, TimesAreNat DEF Dispatch, LoopTyped
<1>6. CASE CarrierReads
  BY <1>0, <1>6, PendingSame DEF CarrierReads, LoopTyped, RestTyped
<1>7. CASE CarrierFails \/ TombstoneFails \/ ExportEnds \/ Tombstone
  BY <1>0, <1>7, PendingSame
     DEF CarrierFails, TombstoneFails, ExportEnds, Tombstone, LoopTyped, RestTyped
<1>8. CASE CarrierAborted \/ WriteBack \/ RearmWrite \/ LedgerFails
  BY <1>0, <1>8, ProceedTyped DEF CarrierAborted, WriteBack, RearmWrite, LedgerFails
<1>9. CASE ReadBack
  <2>1. CASE Proceed(FALSE)
    BY <1>0, <1>9, <2>1, ProceedTyped DEF ReadBack
  <2>2. CASE hand' = rows[cur] /\ loop' = "write" /\ UNCHANGED <<cur, kicked, ran, now, fault>>
    BY <1>0, <1>9, <2>2, PendingSame DEF ReadBack, LoopTyped, RestTyped
  <2> QED
    BY <1>9, <2>1, <2>2 DEF ReadBack
<1>10. CASE RearmRead
  BY <1>0, <1>10, PendingSame DEF RearmRead, LoopTyped, RestTyped
<1>11. CASE ProcessEnds
  <2>1. Pending' = {}
    BY <1>11 DEF ProcessEnds, Pending
  <2> QED
    BY <1>0, <1>11, <2>1, RowFields DEF ProcessEnds, LoopTyped
<1> QED
  BY <1>1, <1>2, <1>3, <1>4, <1>5, <1>6, <1>7, <1>8, <1>9, <1>10, <1>11
     DEF Next, LoopStep, RunStep, LedgerStep, RequestStep, Request, SavePayload, ArmClears, ArmNext,
         ArmRead, ArmPut, DeleteRow, RequestFails, DeletePayload, Save, Kick, Tick, Rollback, Stop

LEMMA RequestsNext == ASSUME TypeInv, Next PROVE RequestsTyped'
<1>0. LoopTyped /\ RequestsTyped /\ RestTyped
  BY TypeParts
<1>1. CASE UNCHANGED writerVars
  BY <1>0, <1>1, RequestsSame
<1>2. ASSUME NEW w \in Writers,
             ArmClears(w) \/ ArmPut(w) \/ DeleteRow(w) \/ RequestFails(w)
      PROVE RequestsTyped'
  BY <1>0, <1>2, RequestEndsTyped DEF ArmClears, ArmPut, DeleteRow, RequestFails
<1>3. ASSUME NEW w \in Writers, SavePayload(w) PROVE RequestsTyped'
  BY <1>0, <1>3 DEF SavePayload, RequestsTyped
<1>4. ASSUME NEW w \in Writers, ArmRead(w) PROVE RequestsTyped'
  <2>1. rows[req[w].key].last \in Times \cup {Unset}
    BY <1>0, <1>4, RowFields DEF ArmRead, RequestsTyped, RestTyped
  <2> QED
    BY <1>0, <1>4, <2>1 DEF ArmRead, RequestsTyped
<1>5. ASSUME NEW w \in Writers, ArmNext(w) PROVE RequestsTyped'
  <2> DEFINE n == IF req[w].explicit # Unset THEN req[w].explicit ELSE NextRun(req[w].cron, clock)
  <2>1. req[w] \in Reqs /\ clock \in Nat
    BY <1>0, TimesAreNat DEF RequestsTyped, RestTyped
  <2>2. n \in Times \cup {Unset} /\ n # Unset
    BY <1>5, <2>1, ReqFields, NextRunIs DEF ArmNext, Storable
  <2>3. wnext' = [wnext EXCEPT ![w] = n]
    BY <1>5 DEF ArmNext
  <2> HIDE DEF n
  <2> QED
    BY <1>0, <1>5, <2>2, <2>3 DEF ArmNext, RequestsTyped
<1>6. ASSUME NEW w \in Writers, NEW k \in Keys, DeletePayload(w, k) PROVE RequestsTyped'
  <2>1. [NoReq EXCEPT !.key = k] \in Reqs /\ [NoReq EXCEPT !.key = k].key = k
    BY ReqFields
  <2> DEFINE q == [NoReq EXCEPT !.key = k]
  <2>2. req' = [req EXCEPT ![w] = q] /\ q \in Reqs /\ q.key \in Keys
    BY <1>6, <2>1 DEF DeletePayload
  <2> HIDE DEF q
  <2> QED
    BY <1>0, <1>6, <2>2 DEF DeletePayload, RequestsTyped
<1>7. ASSUME NEW w \in Writers, NEW k \in Keys, NEW cron \in Exprs \cup {{}},
             NEW enabled \in BOOLEAN, NEW explicit \in Explicits \cup {Unset},
             Save(w, k, cron, enabled, explicit)
      PROVE RequestsTyped'
  <2> DEFINE q == [key |-> k, cron |-> cron, enabled |-> enabled, explicit |-> explicit]
  <2>1. q \in Reqs /\ q.key \in Keys
    BY SchedulerConstants DEF Reqs
  <2>2. req' = [req EXCEPT ![w] = q]
    BY <1>7 DEF Save
  <2> HIDE DEF q
  <2> QED
    BY <1>0, <1>7, <2>1, <2>2 DEF Save, RequestsTyped
<1>8. CASE ProcessEnds
  BY <1>8, ReqFields DEF ProcessEnds, RequestsTyped
<1> QED
  BY <1>1, <1>2, <1>3, <1>4, <1>5, <1>6, <1>7, <1>8
     DEF Next, LoopStep, RunStep, LedgerStep, RequestStep, Request, Sweep, SweepFails, TakeKick,
         LoopReturns, Dispatch, CarrierReads, CarrierFails, CarrierAborted, Tombstone,
         TombstoneFails, ExportEnds, ReadBack, WriteBack, RearmRead, RearmWrite, LedgerFails,
         Kick,
         Tick, Rollback, Stop

LEMMA RestNext == ASSUME TypeInv, Next PROVE RestTyped'
<1>0. LoopTyped /\ RequestsTyped /\ RestTyped
  BY TypeParts
<1>1. CASE UNCHANGED <<clockVars, storeVars, procVars, kicks>>
  BY <1>0, <1>1 DEF RestTyped, clockVars, storeVars, procVars
<1>2. CASE TakeKick
  <2>1. kicks' \in Seq(Keys) /\ Len(kicks') <= KickQueue
    BY <1>0, <1>2, SchedulerConstants DEF TakeKick, RestTyped
  <2> QED
    BY <1>0, <1>2, <2>1 DEF TakeKick, RestTyped, clockVars, storeVars, procVars
<1>3. ASSUME NEW k \in Keys, Kick(k) PROVE RestTyped'
  <2>1. kicks' \in Seq(Keys) /\ Len(kicks') <= KickQueue
    BY <1>0, <1>3, SchedulerConstants DEF Kick, RestTyped
  <2> QED
    BY <1>0, <1>3, <2>1 DEF Kick, RestTyped, clockVars, storeVars, procVars
<1>4. CASE Tombstone
  BY <1>0, <1>4, RowFields DEF Tombstone, RestTyped, clockVars, procVars
<1>5. CASE WriteBack
  <2>1. rows' \in [Keys -> Rows]
    <3> DEFINE n == IF hand.enabled THEN NextRun(hand.cron, ran) ELSE Unset
    <3>1. hand \in Rows /\ ran \in Nat /\ ran \in Times \cup {Unset}
      BY <1>0, TimesAreNat DEF LoopTyped
    <3>2. n \in Times \cup {Unset}
      BY <3>1, RowFields, NextRunIs
    <3>3. rows' = [rows EXCEPT ![cur] = [hand EXCEPT !.last = ran, !.by = "scheduler", !.next = n]]
      BY <1>5 DEF WriteBack
    <3> HIDE DEF n
    <3>4. [hand EXCEPT !.last = ran, !.by = "scheduler", !.next = n] \in Rows
      BY <3>1, <3>2, RowOf
    <3> QED
      BY <1>0, <3>3, <3>4 DEF RestTyped
  <2> QED
    BY <1>0, <1>5, <2>1 DEF WriteBack, RestTyped, clockVars, procVars
<1>6. CASE RearmWrite
  <2>1. rows' \in [Keys -> Rows]
    <3> DEFINE n == NextRun(hand.cron, now)
    <3>1. hand \in Rows /\ now \in Nat
      BY <1>0, TimesAreNat DEF LoopTyped
    <3>2. n \in Times \cup {Unset}
      BY <3>1, RowFields, NextRunIs
    <3>3. rows' = [rows EXCEPT ![cur] = [hand EXCEPT !.next = n, !.by = "scheduler"]]
      BY <1>6 DEF RearmWrite
    <3> HIDE DEF n
    <3>4. [hand EXCEPT !.next = n, !.by = "scheduler"] \in Rows
      BY <3>1, <3>2, RowOf
    <3> QED
      BY <1>0, <3>3, <3>4 DEF RestTyped
  <2> QED
    BY <1>0, <1>6, <2>1 DEF RearmWrite, RestTyped, clockVars, procVars
<1>7. ASSUME NEW w \in Writers, ArmClears(w) \/ DeleteRow(w) PROVE RestTyped'
  BY <1>0, <1>7, RowFields DEF ArmClears, DeleteRow, RestTyped, clockVars, procVars
<1>8. ASSUME NEW w \in Writers, ArmPut(w) PROVE RestTyped'
  <2>1. rows' \in [Keys -> Rows]
    BY <1>0, <1>8, ReqFields DEF ArmPut, Rows, RestTyped, RequestsTyped
  <2> QED
    BY <1>0, <1>8, <2>1 DEF ArmPut, RestTyped, clockVars, procVars
<1>9. ASSUME NEW w \in Writers, SavePayload(w) PROVE RestTyped'
  BY <1>0, <1>9 DEF SavePayload, RestTyped, clockVars, procVars
<1>10. ASSUME NEW w \in Writers, NEW k \in Keys, DeletePayload(w, k) PROVE RestTyped'
  BY <1>0, <1>10 DEF DeletePayload, RestTyped, clockVars, procVars
<1>11. CASE Tick
  BY <1>0, <1>11, SchedulerConstants DEF Tick, RestTyped, Times, storeVars, procVars
<1>12. CASE Rollback
  BY <1>0, <1>12, SchedulerConstants DEF Rollback, RestTyped, Times, storeVars, procVars
<1>13. CASE Stop
  BY <1>0, <1>13 DEF Stop, RestTyped, clockVars, storeVars
<1>14. CASE ProcessEnds
  <2>1. restarts' \in 0 .. MaxRestarts
    BY <1>0, <1>14, SchedulerConstants DEF ProcessEnds, RestTyped
  <2>2. kicks' \in Seq(Keys) /\ Len(kicks') <= KickQueue
    BY <1>14, SchedulerConstants DEF ProcessEnds
  <2> QED
    BY <1>0, <1>14, <2>1, <2>2 DEF ProcessEnds, RestTyped, clockVars, storeVars
<1> QED
  BY <1>1, <1>2, <1>3, <1>4, <1>5, <1>6, <1>7, <1>8, <1>9, <1>10, <1>11, <1>12, <1>13, <1>14
     DEF Next, LoopStep, RunStep, LedgerStep, RequestStep, Request, Sweep, SweepFails,
         LoopReturns, Dispatch, CarrierReads, CarrierFails, CarrierAborted,
         TombstoneFails, ExportEnds, ReadBack, RearmRead, LedgerFails, ArmNext, ArmRead,
         RequestFails, Save, storeVars

LEMMA TypeNext == ASSUME TypeInv, [Next]_vars PROVE TypeInv'
<1>1. CASE Next
  BY <1>1, LoopNext, RequestsNext, RestNext, TypeParts
     DEF TypeInv, TypeOK, HandsAreFilled, LoopTyped, RequestsTyped, RestTyped
<1>2. CASE UNCHANGED vars
  BY <1>2 DEF vars, TypeInv, TypeOK, HandsAreFilled, Pending
<1> QED
  BY <1>1, <1>2

-----------------------------------------------------------------------------
(* An enabled schedule is armed. *)

\* Every writer of a row arms it from an instant the clock has shown.
LEMMA ArmedNext == ASSUME ArmInv, [Next]_vars PROVE (InstantsAreShown /\ EnabledIsArmed)'
<1>0. LoopTyped /\ RequestsTyped /\ RestTyped
  BY TypeParts DEF ArmInv
<1>1. /\ clock \in Nat /\ top \in Nat /\ now \in Nat /\ ran \in Nat /\ clock <= top
      /\ now <= top /\ ran <= top
  BY <1>0, TimesAreNat DEF LoopTyped, RestTyped, ArmInv, InstantsAreShown
<1>2. top' \in Nat /\ top <= top'
  <2>1. CASE UNCHANGED top
    BY <1>1, <2>1
  <2>2. CASE Tick
    BY <1>1, <2>2 DEF Tick
  <2> QED
    BY <2>1, <2>2 DEF Next, LoopStep, RunStep, LedgerStep, RequestStep, Request, Sweep,
       SweepFails,
         TakeKick, LoopReturns, Dispatch, CarrierReads, CarrierFails, CarrierAborted, Tombstone,
         TombstoneFails, ExportEnds, ReadBack, WriteBack, RearmRead, RearmWrite, LedgerFails,
         Kick,
         Rollback, Stop, ProcessEnds, SavePayload, ArmClears, ArmNext, ArmRead, ArmPut, DeleteRow,
         RequestFails, DeletePayload, Save, clockVars, vars
<1>3. InstantsAreShown'
  <2>1. now' \in {now, clock, Unset} /\ ran' \in {ran, clock, Unset}
    BY DEF Next, LoopStep, RunStep, LedgerStep, RequestStep, Request, Sweep, SweepFails,
         TakeKick, LoopReturns, Dispatch, CarrierReads, CarrierFails, CarrierAborted, Tombstone,
         TombstoneFails, ExportEnds, ReadBack, WriteBack, RearmRead, RearmWrite, LedgerFails,
         Kick,
         Rollback, Stop, ProcessEnds, SavePayload, ArmClears, ArmNext, ArmRead, ArmPut, DeleteRow,
         RequestFails, DeletePayload, Save, Tick, Proceed, loopVars, vars
  <2> QED
    BY <1>1, <1>2, <2>1, TimesAreNat DEF InstantsAreShown, Unset
<1>4. ASSUME NEW k \in Keys,
             rows'[k] = rows[k] \/ ~rows'[k].enabled \/ rows'[k].next # Unset
               \/ \E t \in Nat : t <= top /\ rows'[k].next = NextRun(rows'[k].cron, t)
      PROVE (rows'[k].enabled /\ NextRun(rows'[k].cron, top') # Unset) => rows'[k].next # Unset
  <2>1. rows'[k].cron \in Exprs \cup {{}} /\ rows[k].cron \in Exprs \cup {{}}
    BY <1>0, TypeNext, TypeParts, RowFields DEF RestTyped, ArmInv, TypeInv, TypeOK
  <2>2. CASE rows'[k] = rows[k]
    BY <1>1, <1>2, <2>1, <2>2, NextRunEarlier DEF ArmInv, EnabledIsArmed
  <2>3. CASE \E t \in Nat : t <= top /\ rows'[k].next = NextRun(rows'[k].cron, t)
    BY <1>1, <1>2, <2>1, <2>3, NextRunEarlier
  <2> QED
    BY <1>4, <2>2, <2>3
<1>5. CASE WriteBack
  <2>1. hand \in Rows
    BY <1>0 DEF LoopTyped
  <2>2. \A k \in Keys : k # cur => rows'[k] = rows[k]
    BY <1>0, <1>5 DEF WriteBack, RestTyped
  <2>3. cur \in Keys => /\ rows'[cur].enabled = hand.enabled /\ rows'[cur].cron = hand.cron
                        /\ rows'[cur].next = IF hand.enabled THEN NextRun(hand.cron, ran) ELSE Unset
    BY <1>0, <1>5, <2>1 DEF WriteBack, RestTyped, Rows
  <2> QED
    BY <1>1, <1>3, <1>4, <2>2, <2>3 DEF EnabledIsArmed
<1>6. CASE RearmWrite
  <2>1. hand \in Rows
    BY <1>0 DEF LoopTyped
  <2>2. \A k \in Keys : k # cur => rows'[k] = rows[k]
    BY <1>0, <1>6 DEF RearmWrite, RestTyped
  <2>3. cur \in Keys => /\ rows'[cur].cron = hand.cron
                        /\ rows'[cur].next = NextRun(hand.cron, now)
    BY <1>0, <1>6, <2>1 DEF RearmWrite, RestTyped, Rows
  <2> QED
    BY <1>1, <1>3, <1>4, <2>2, <2>3 DEF EnabledIsArmed
<1>7. ASSUME NEW w \in Writers, ArmPut(w) PROVE (InstantsAreShown /\ EnabledIsArmed)'
  <2>1. wnext[w] # Unset
    BY <1>0, <1>7 DEF ArmPut, RequestsTyped
  <2>2. \A k \in Keys : rows'[k] = rows[k] \/ ~rows'[k].enabled \/ rows'[k].next # Unset
    BY <1>0, <1>7, <2>1 DEF ArmPut, RestTyped
  <2> QED
    BY <1>3, <1>4, <2>2 DEF EnabledIsArmed
<1>8. CASE \A k \in Keys : rows'[k] = rows[k] \/ ~rows'[k].enabled
  BY <1>3, <1>4, <1>8 DEF EnabledIsArmed
<1>9. CASE Tombstone
  BY <1>0, <1>8, <1>9, RowFields DEF Tombstone, RestTyped
<1>10. ASSUME NEW w \in Writers, ArmClears(w) \/ DeleteRow(w) PROVE (InstantsAreShown /\ EnabledIsArmed)'
  BY <1>0, <1>8, <1>10, RowFields DEF ArmClears, DeleteRow, RestTyped
<1> QED
  BY <1>5, <1>6, <1>7, <1>8, <1>9, <1>10
     DEF Next, LoopStep, RunStep, LedgerStep, RequestStep, Request, Sweep, SweepFails,
         TakeKick, LoopReturns, Dispatch, CarrierReads, CarrierFails, CarrierAborted,
         TombstoneFails, ExportEnds, ReadBack, RearmRead, LedgerFails, Kick,
         Rollback, Stop, ProcessEnds, SavePayload, ArmNext, ArmRead,
         RequestFails, DeletePayload, Save, Tick, storeVars, vars

-----------------------------------------------------------------------------
(* A fire has a trigger. *)

\* The parts of FireInv in the numbers they compare.
LEMMA FireNumbers ==
  ASSUME TypeInv
  PROVE  /\ clock \in Nat /\ now \in Nat /\ ran \in Nat /\ hand.last \in Nat /\ hand.next \in Nat
         /\ \A k \in Keys : /\ rows[k].last \in Nat /\ rows[k].next \in Nat
                            /\ batch[k].last \in Nat /\ batch[k].next \in Nat
         /\ \A w \in Writers : wlast[w] \in Nat
<1>1. LoopTyped /\ RequestsTyped /\ RestTyped
  BY TypeParts
<1> QED
  BY <1>1, RowFields, TimesAreNat DEF LoopTyped, RequestsTyped, RestTyped

\* The row in hand is put down and at most its own row was written.
LEMMA FireProceeds ==
  ASSUME TypeInv, LastIsPast, SweepIsLater, RowsAreTriggered,
         NEW f, Proceed(f), UNCHANGED <<clock, batch, wpc, req, wlast>>,
         \A k \in Keys : k # cur => rows'[k] = rows[k],
         \A k \in Keys : rows'[k].last <= clock /\ Triggered(rows'[k])
  PROVE  (LastIsPast /\ SweepIsLater /\ RowsAreTriggered)'
<1>1. LoopTyped
  BY TypeParts
<1>2. /\ loop' \in {"select", "due"} /\ hand' = NoRow /\ ran' = Unset /\ Pending' = Pending
      /\ now' = IF Pending = {} THEN Unset ELSE now
  BY PendingSame DEF Proceed
<1>3. LastIsPast'
  BY <1>2, FireNumbers, RowFields DEF LastIsPast, Unset
<1>4. \A k \in Keys : k \in Pending => rows'[k] = rows[k] /\ now' = now
  BY <1>1, <1>2 DEF LoopTyped
<1>5. \A k \in Keys : InSweep(k)' => k \in Pending
  BY <1>2 DEF InSweep, Rearming
<1>6. \A k \in Keys : batch[k] # NoRow => k \in Pending
  BY DEF Pending
<1>7. SweepIsLater'
  BY <1>2, <1>4, <1>5, <1>6 DEF SweepIsLater, InSweep, Rearming
<1>8. RowsAreTriggered'
  BY <1>2, <1>4 DEF RowsAreTriggered, Triggered, Due, Pending
<1> QED
  BY <1>3, <1>7, <1>8

\* A request that ends forgets what it read.
LEMMA RequestEndsEffect ==
  ASSUME RequestsTyped, NEW w \in Writers, RequestEnds(w)
  PROVE  \A v \in Writers : \/ wpc'[v] = "idle" /\ wlast'[v] = Unset
                            \/ wpc'[v] = wpc[v] /\ req'[v] = req[v] /\ wlast'[v] = wlast[v]
<1> SUFFICES ASSUME NEW v \in Writers
             PROVE  \/ wpc'[v] = "idle" /\ wlast'[v] = Unset
                    \/ wpc'[v] = wpc[v] /\ req'[v] = req[v] /\ wlast'[v] = wlast[v]
  OBVIOUS
<1>1. CASE v = w
  BY <1>1 DEF RequestsTyped, RequestEnds
<1>2. CASE v # w
  BY <1>2 DEF RequestsTyped, RequestEnds
<1> QED
  BY <1>1, <1>2

\* A step of a request, which may write a row whose last run it read before.
LEMMA FireRequested ==
  ASSUME TypeInv, LastIsPast, SweepIsLater, RowsAreTriggered, UNCHANGED <<clock, loopVars>>,
         \A k \in Keys : /\ rows'[k].last <= clock /\ Triggered(rows'[k])
                         /\ InSweep(k) => rows'[k].last <= now,
         \A w \in Writers :
            /\ wlast'[w] <= clock
            /\ \A k \in Keys :
                (wpc'[w] = "armPut" /\ req'[w].key = k /\ InSweep(k)) => wlast'[w] <= now
  PROVE  (LastIsPast /\ SweepIsLater /\ RowsAreTriggered)'
<1>1. UNCHANGED <<Pending, now, ran, hand, batch, loop, cur, kicked>>
  BY PendingSame DEF loopVars
<1>2. \A k \in Keys : InSweep(k)' = InSweep(k)
  BY <1>1 DEF InSweep
<1>3. LastIsPast'
  BY <1>1 DEF LastIsPast
<1>4. SweepIsLater'
  BY <1>1, <1>2 DEF SweepIsLater
<1>5. RowsAreTriggered'
  BY <1>1 DEF RowsAreTriggered, Triggered, Due
<1> QED
  BY <1>3, <1>4, <1>5

LEMMA FireNext == ASSUME TypeInv, FireInv, [Next]_vars PROVE FireInv'
<1> SUFFICES ASSUME rollbacks' = 0 PROVE (LastIsPast /\ SweepIsLater /\ RowsAreTriggered)'
  BY DEF FireInv
<1> DEFINE G == (LastIsPast /\ SweepIsLater /\ RowsAreTriggered)'
<1>0. TypeOK /\ TypeInv' /\ LoopTyped /\ RequestsTyped /\ RestTyped
  BY TypeParts, TypeNext DEF TypeInv
<1>a. ~Rollback
  BY <1>0 DEF Rollback, RestTyped
<1>b. rollbacks = 0
  BY <1>0, <1>a DEF Next, LoopStep, RunStep, LedgerStep, RequestStep, Request, Sweep, SweepFails,
         TakeKick, LoopReturns, Dispatch, CarrierReads, CarrierFails, CarrierAborted, Tombstone,
         TombstoneFails, ExportEnds, ReadBack, WriteBack, RearmRead, RearmWrite, LedgerFails,
         Kick,
         Stop, ProcessEnds, SavePayload, ArmClears, ArmNext, ArmRead, ArmPut, DeleteRow,
         RequestFails, DeletePayload, Save, Tick, clockVars, vars
<1>c. LastIsPast /\ SweepIsLater /\ RowsAreTriggered
  BY <1>b DEF FireInv
<1> USE <1>0, <1>c, FireNumbers, RowFields, PendingSame
    DEF LastIsPast, SweepIsLater, RowsAreTriggered, InSweep, Rearming, Triggered, Due,
        clockVars, storeVars, loopVars, procVars, writerVars
<1>1. CASE Sweep
  <2>1. /\ UNCHANGED <<clock, rows, ran, hand, cur, wpc, req, wlast>>
        /\ \A k \in Keys : batch'[k] = IF Due(rows[k], clock) THEN rows[k] ELSE NoRow
        /\ now' = IF Pending' # {} THEN clock ELSE Unset
        /\ loop' \in {"select", "due"}
    BY <1>1 DEF Sweep, Pending
  <2>2. \A k \in Keys : k \in Pending' <=> Due(rows[k], clock)
    BY <2>1 DEF Pending
  <2> HIDE DEF Due
  <2>3. LastIsPast'
    BY <2>1 DEF Unset
  <2>4. \A k \in Keys : batch'[k] = NoRow \/ (batch'[k] = rows[k] /\ now' = clock)
    BY <2>1, <2>2
  <2>5. SweepIsLater'
    BY <2>1, <2>4 DEF Pending
  <2>6. RowsAreTriggered'
    <3>1. \A k \in Keys : Triggered(rows'[k]) /\ Triggered(batch'[k])
      BY <2>1, <2>4
    <3>2. \A k \in Pending' : Due(batch'[k], now')
      BY <2>1, <2>2 DEF Pending
    <3> QED
      BY <2>1, <3>1, <3>2
  <2> QED
    BY <2>3, <2>5, <2>6
<1>2. CASE SweepFails \/ LoopReturns
  BY <1>2 DEF SweepFails, LoopReturns
<1>3. CASE TakeKick
  BY <1>3 DEF TakeKick
<1>4. ASSUME NEW k \in Keys, Dispatch(k) PROVE G
  <2>1. /\ UNCHANGED <<clock, rows, ran, now, wpc, req, wlast>>
        /\ cur' = k /\ hand' = batch[k] /\ k \in Pending /\ batch[k] # NoRow
        /\ \A j \in Keys : batch'[j] = IF j = k THEN NoRow ELSE batch[j]
    BY <1>4 DEF Dispatch, Pending, LoopTyped
  <2>2. Pending' = Pending \ {k}
    BY <2>1 DEF Pending
  <2>3. LastIsPast'
    BY <2>1 DEF Unset
  <2>4. SweepIsLater'
    BY <2>1, <2>2
  <2>5. RowsAreTriggered'
    <3>1. \A j \in Keys : Triggered(rows'[j]) /\ Triggered(batch'[j])
      BY <2>1
    <3>2. \A j \in Pending' : j \in Keys /\ j \in Pending /\ batch'[j] = batch[j]
      BY <2>1, <2>2 DEF Pending
    <3>3. Triggered(hand') /\ Due(hand', now') /\ \A j \in Pending' : Due(batch'[j], now')
      BY <2>1, <3>2
    <3> QED
      BY <3>1, <3>3
  <2> QED
    BY <2>3, <2>4, <2>5
<1>5. CASE CarrierReads \/ CarrierFails \/ TombstoneFails \/ ExportEnds
  <2>1. /\ UNCHANGED <<clock, rows, now, batch, hand, cur, wpc, req, wlast>>
        /\ ran' \in {ran, clock}
        /\ loop' \in {"tombstone", "read", "export"}
    BY <1>5 DEF CarrierReads, CarrierFails, TombstoneFails, ExportEnds, RestTyped, LoopTyped
  <2>2. Pending' = Pending
    BY <2>1
  <2>3. LastIsPast'
    BY <2>1
  <2>4. SweepIsLater'
    BY <2>1, <2>2
  <2>5. RowsAreTriggered'
    BY <2>1, <2>2
  <2> QED
    BY <2>3, <2>4, <2>5
<1>6. CASE CarrierAborted
  BY <1>6, FireProceeds DEF CarrierAborted
<1>7. CASE Tombstone
  <2>1. /\ UNCHANGED <<clock, now, batch, hand, cur, wpc, req, wlast>>
        /\ ran' = clock /\ loop' = "read"
        /\ \A k \in Keys : rows'[k] \in {rows[k], NoRow}
    BY <1>7 DEF Tombstone, RestTyped
  <2> QED
    BY <2>1 DEF Unset
<1>8. CASE ReadBack
  <2>1. CASE Proceed(FALSE)
    BY <1>8, <2>1, FireProceeds DEF ReadBack
  <2>2. CASE hand' = rows[cur] /\ loop' = "write" /\ UNCHANGED <<cur, kicked, ran, now, fault>>
    <3>1. UNCHANGED <<clock, rows, batch, wpc, req, wlast>> /\ cur \in Keys
      BY <1>8 DEF ReadBack, LoopTyped
    <3> QED
      BY <2>2, <3>1
  <2> QED
    BY <1>8, <2>1, <2>2 DEF ReadBack
<1>9. CASE WriteBack
  <2>1. UNCHANGED <<clock, batch, wpc, req, wlast>> /\ Proceed(FALSE)
    BY <1>9 DEF WriteBack
  <2>2. \A k \in Keys : k # cur => rows'[k] = rows[k]
    BY <1>9 DEF WriteBack, RestTyped
  <2>3. hand \in Rows /\ cur \in Keys
    BY <1>9 DEF WriteBack, LoopTyped
  <2>4. /\ rows'[cur].last = ran /\ rows'[cur].cron = hand.cron
        /\ rows'[cur].next = Unset \/ rows'[cur].next = NextRun(hand.cron, ran)
    BY <1>9, <2>3 DEF WriteBack, RestTyped, Rows
  <2>5. rows'[cur].last <= clock /\ Triggered(rows'[cur])
    BY <2>3, <2>4, NextRunIs
  <2> QED
    BY <2>1, <2>2, <2>5, FireProceeds
<1>10. CASE RearmRead
  <2>1. /\ UNCHANGED <<clock, rows, now, batch, cur, ran, wpc, req, wlast>>
        /\ loop = "rearm" /\ loop' = "rearmWrite" /\ hand' \in {hand, rows[cur]} /\ cur \in Keys
    BY <1>10 DEF RearmRead, LoopTyped
  <2>2. Pending' = Pending
    BY <2>1
  <2>3. LastIsPast'
    BY <2>1
  <2>4. SweepIsLater'
    BY <2>1, <2>2
  <2>5. RowsAreTriggered'
    BY <2>1, <2>2
  <2> QED
    BY <2>3, <2>4, <2>5
<1>11. CASE RearmWrite
  <2>1. UNCHANGED <<clock, batch, wpc, req, wlast>> /\ Proceed(FALSE)
    BY <1>11 DEF RearmWrite
  <2>2. \A k \in Keys : k # cur => rows'[k] = rows[k]
    BY <1>11 DEF RearmWrite, RestTyped
  <2>3. hand \in Rows /\ cur \in Keys /\ hand.last <= now
    BY <1>11 DEF RearmWrite, LoopTyped
  <2>4. /\ rows'[cur].last = hand.last /\ rows'[cur].cron = hand.cron
        /\ rows'[cur].next = NextRun(hand.cron, now)
    BY <1>11, <2>3 DEF RearmWrite, RestTyped, Rows
  <2>5. rows'[cur].next # Unset => /\ rows'[cur].next \in rows'[cur].cron
                                   /\ now < rows'[cur].next /\ rows'[cur].next \in Nat
    <3>1. hand.cron \in Exprs \cup {{}} /\ now \in Nat
      BY <2>3
    <3>2. /\ NextRun(hand.cron, now) \in Times \cup {Unset}
          /\ NextRun(hand.cron, now) # Unset => /\ NextRun(hand.cron, now) \in hand.cron
                                                /\ now < NextRun(hand.cron, now)
      BY <3>1, NextRunIs
    <3>3. NextRun(hand.cron, now) \in Nat
      BY <3>2, TimesAreNat
    <3> QED
      BY <2>4, <3>2, <3>3
  <2>6. rows'[cur].last <= clock /\ Triggered(rows'[cur])
    BY <2>3, <2>4, <2>5
  <2> QED
    BY <2>1, <2>2, <2>6, FireProceeds
<1>12. CASE LedgerFails
  BY <1>12, FireProceeds DEF LedgerFails
<1>13. ASSUME NEW w \in Writers, SavePayload(w) PROVE G
  BY <1>13 DEF SavePayload, RequestsTyped
<1>14. ASSUME NEW w \in Writers, ArmNext(w) PROVE G
  BY <1>14 DEF ArmNext, RequestsTyped
<1>15. ASSUME NEW w \in Writers, ArmRead(w) PROVE G
  BY <1>15 DEF ArmRead, RequestsTyped
<1>16. ASSUME NEW w \in Writers, ArmClears(w) \/ DeleteRow(w) PROVE G
  <2>1. UNCHANGED <<clock, loopVars>> /\ \A k \in Keys : rows'[k] \in {rows[k], NoRow}
    BY <1>16 DEF ArmClears, DeleteRow, RestTyped
  <2>2. \A v \in Writers : \/ wpc'[v] = "idle" /\ wlast'[v] = Unset
                           \/ wpc'[v] = wpc[v] /\ req'[v] = req[v] /\ wlast'[v] = wlast[v]
    BY <1>16, RequestEndsEffect DEF ArmClears, DeleteRow
  <2> HIDE DEF loopVars
  <2> QED
    BY <2>1, <2>2, FireRequested DEF Unset
<1>17. ASSUME NEW w \in Writers, ArmPut(w) PROVE G
  <2>1. /\ UNCHANGED <<clock, loopVars>> /\ wpc[w] = "armPut" /\ req[w].key \in Keys
        /\ \A k \in Keys : k # req[w].key => rows'[k] = rows[k]
        /\ rows'[req[w].key].last = wlast[w] /\ rows'[req[w].key].by = "admin"
    BY <1>17 DEF ArmPut, RestTyped, RequestsTyped
  <2>2. \A v \in Writers : \/ wpc'[v] = "idle" /\ wlast'[v] = Unset
                           \/ wpc'[v] = wpc[v] /\ req'[v] = req[v] /\ wlast'[v] = wlast[v]
    BY <1>17, RequestEndsEffect DEF ArmPut
  <2> HIDE DEF loopVars
  <2> QED
    BY <2>1, <2>2, FireRequested DEF Unset
<1>18. ASSUME NEW w \in Writers, RequestFails(w) PROVE G
  <2>1. UNCHANGED <<clock, loopVars, rows>>
    BY <1>18 DEF RequestFails
  <2>2. \A v \in Writers : \/ wpc'[v] = "idle" /\ wlast'[v] = Unset
                           \/ wpc'[v] = wpc[v] /\ req'[v] = req[v] /\ wlast'[v] = wlast[v]
    BY <1>18, RequestEndsEffect DEF RequestFails
  <2> HIDE DEF loopVars
  <2> QED
    BY <2>1, <2>2, FireRequested DEF Unset
<1>19. ASSUME NEW w \in Writers, NEW k \in Keys, DeletePayload(w, k) PROVE G
  BY <1>19 DEF DeletePayload, RequestsTyped
<1>20. ASSUME NEW w \in Writers, NEW k \in Keys, Request(w, k) PROVE G
  <2>1. CASE \E cron \in Exprs \cup {{}}, enabled \in BOOLEAN, explicit \in Explicits \cup {Unset} :
               Save(w, k, cron, enabled, explicit)
    BY <2>1 DEF Save, RequestsTyped
  <2> QED
    BY <1>19, <1>20, <2>1 DEF Request
<1>21. ASSUME NEW k \in Keys, Kick(k) PROVE G
  BY <1>21 DEF Kick
<1>22. CASE Tick \/ Stop
  BY <1>22 DEF Tick, Stop
<1>23. CASE ProcessEnds
  BY <1>23 DEF ProcessEnds, Pending, Unset
<1>24. CASE UNCHANGED vars
  BY <1>24 DEF vars
<1> HIDE DEF LastIsPast, SweepIsLater, RowsAreTriggered
<1> QED
  BY <1>a, <1>1, <1>2, <1>3, <1>4, <1>5, <1>6, <1>7, <1>8, <1>9, <1>10, <1>11, <1>12, <1>13,
     <1>14,
     <1>15, <1>16, <1>17, <1>18, <1>21, <1>22, <1>23, <1>24, <1>20
     DEF Next, LoopStep, RunStep, LedgerStep, RequestStep

-----------------------------------------------------------------------------
LEMMA Always == Spec => [](ArmInv /\ FireInv)
<1>1. ArmInv /\ FireInv /\ [Next]_vars => (ArmInv /\ FireInv)'
  BY TypeNext, ArmedNext, FireNext DEF ArmInv
<1> QED
  BY <1>1, RowInit, PTL DEF Spec

\* Every reachable state of the loop, the ledger and the requests has its types.
THEOREM TypeCorrect == Spec => []TypeOK
<1>1. ArmInv => TypeOK
  BY DEF ArmInv, TypeInv
<1> QED
  BY <1>1, Always, PTL

\* runOne, rearm and writeScheduleCron, however their reads and writes of a row interleave, never
\* leave an enabled schedule that has a trigger to come without a next run.
THEOREM EnabledStaysArmed == Spec => []EnabledIsArmed
<1>1. ArmInv => EnabledIsArmed
  BY DEF ArmInv
<1> QED
  BY <1>1, Always, PTL

\* sweep and runOne: without a clock set back, a row that the scheduler armed fires for a trigger
\* after its last run, so many missed windows are one fire.
THEOREM FiresAreTriggered == Spec => []FireHasItsTrigger
<1>1. ArmInv /\ FireInv => FireHasItsTrigger
  BY TypeParts, RowFields, TimesAreNat
     DEF ArmInv, FireInv, RowsAreTriggered, Triggered, Due, FireHasItsTrigger, LoopTyped
<1> QED
  BY <1>1, Always, PTL
=============================================================================

------------------------- MODULE RemoteCacheProofs --------------------------
(***************************************************************************)
(* The guarantees of the pull-through cache, proved for any number of      *)
(* requests, versions and restarts and for every choice of the TTLs and of *)
(* the offline window: one contact per path, no contact that a row or the  *)
(* window already answers, and no copy that is fresh beyond the TTL of     *)
(* what the upstream last said of it.                                      *)
(***************************************************************************)
EXTENDS RemoteCache, TLAPS

-----------------------------------------------------------------------------
(* The inductive invariants. *)

\* Between AcquireFlight and its return a request owns the path's slot.
FlyingOwns == \A r \in Requests : pc[r] \in Flying => flight = r

\* Nobody carries an instant from the future, and no version was confirmed in it.
NoFuture ==
    /\ \A r \in Requests : hand[r].now <= clock
    /\ \A v \in Versions : vouched[v] <= clock

\* The validators in the row are the copy's, or there are none.
Matching(tag) == tag \in {NoTag, node}

\* While the upstream has only moved on, the rows never run ahead of it, nor the validators ahead
\* of the copy.
RowsFollowUpstream ==
    /\ upstream \in Versions
    /\ ~returned => /\ node <= upstream
                    /\ entry.tag <= upstream
                    /\ node # NoCopy => entry.tag <= node

\* The row's expiry counts from an instant the upstream vouched for the copy, and from no
\* instant that is yet to come.
ExpiryIsVouched ==
    entry.kind = class =>
        /\ entry.exp <= clock + TTLFor(class)
        /\ (node # NoCopy /\ (returned => Matching(entry.tag))) =>
              entry.exp <= vouched[node] + TTLFor(class)

\* From the winner's double check on, the copy in hand is the node row's, unless the row is gone.
HandIsCurrent ==
    \A r \in Requests : pc[r] \in {"recheck", "contact", "sent"} => node \in {NoCopy, hand[r].copy}

\* What goes out as a validator is the row's, if anything, and only for a metadata path.
SentIsOwn(r) ==
    /\ ~returned => hand[r].tag <= upstream /\ (node # NoCopy => hand[r].tag <= node)
    /\ class = "content" => hand[r].tag = NoTag
    /\ entry.kind = class => hand[r].tag \in {NoTag, entry.tag}

LandingIsVouched(r) ==
    /\ hand[r].got \in Versions
    /\ vouched[hand[r].got] = hand[r].now
    /\ ~returned => hand[r].got <= upstream /\ entry.tag <= hand[r].got
    /\ entry.kind = class => entry.exp <= hand[r].now + TTLFor(class)

\* The confirmed version is the copy's when its validators were the ones confirmed, or when the
\* upstream never went back and a lower number cannot have been confirmed.
SlideIsVouched(r) ==
    /\ ~returned => /\ hand[r].kept.tag <= upstream
                    /\ node # NoCopy => hand[r].kept.tag <= node /\ vouched[node] = hand[r].now
    /\ (/\ node # NoCopy /\ Matching(hand[r].kept.tag)
        /\ class = "content" \/ hand[r].kept.kind = class) => vouched[node] = hand[r].now

\* An answer that is about to land was vouched for at the instant it carries.
AnswerIsVouched ==
    \A r \in Requests :
        /\ pc[r] = "sent" => SentIsOwn(r)
        /\ pc[r] \in {"land", "state"} => LandingIsVouched(r)
        /\ pc[r] = "state" => node \in {NoCopy, hand[r].got}
        /\ pc[r] = "slide" => SlideIsVouched(r)

\* What the double check found still holds when the contact is made.
CheckStillHolds ==
    \A r \in Requests :
        /\ pc[r] \in {"recheck", "contact"} => ~NegativeFresh
        /\ pc[r] = "contact" => ~(node # NoCopy /\ EntryFresh(clock))

\* Whoever was past the window check when the window opened is in `past`.
PastIsKnown ==
    \A r \in Requests :
        (pc[r] \in {"flight", "double", "recheck", "contact"} /\ ~hand[r].ext /\ offline # 0) =>
            r \in past

RowInv ==
    /\ NoFuture /\ RowsFollowUpstream /\ ExpiryIsVouched /\ HandIsCurrent /\ AnswerIsVouched
    /\ CheckStillHolds

AllInv == TypeOK /\ FlyingOwns /\ RowInv /\ PastIsKnown

LEMMA TTLNat == \A kind : TTLFor(kind) \in Nat
  BY RemoteCacheConstants DEF TTLFor

-----------------------------------------------------------------------------
(* Type correctness. *)

\* What the breaker's bookkeeping leaves has its type.
LEMMA BreakerType ==
  ASSUME TypeOK, NEW r \in Requests,
         \/ UNCHANGED breakerVars
         \/ Reached(r)
         \/ \E n \in {real, real + 1} : NoteFault(r, n, faults + 1)
         \/ faults' = 0 /\ real' = 0 /\ MarkOffline
  PROVE  /\ offline' \in Nat /\ faults' \in Nat /\ real' \in Nat
         /\ past' \subseteq Requests
<1> USE RemoteCacheConstants DEF TypeOK, breakerVars
<1>1. CASE UNCHANGED breakerVars
  BY <1>1
<1>2. CASE Reached(r)
  BY <1>2 DEF Reached
<1>3. ASSUME NEW n \in {real, real + 1}, NoteFault(r, n, faults + 1)
      PROVE  /\ offline' \in Nat /\ faults' \in Nat /\ real' \in Nat
             /\ past' \subseteq Requests
  BY <1>3 DEF NoteFault, Count, MarkOffline
<1>4. CASE faults' = 0 /\ real' = 0 /\ MarkOffline
  BY <1>4 DEF MarkOffline
<1>5. QED
  BY <1>1, <1>2, <1>3, <1>4

\* A request that returns leaves its hand empty and wakes its waiters.
LEMMA EndsType ==
  ASSUME TypeOK, NEW r \in Requests, Ends(r)
  PROVE  /\ hand' \in [Requests -> Hands]
         /\ flight' \in Requests \cup {NoReq}
         /\ pc' \in [Requests -> Pcs]
<1>1. Empty \in Hands
  BY RemoteCacheConstants DEF Empty, Hands, NoEntry, Entries, NoCopy, NoTag
<1>2. QED
  BY <1>1 DEF TypeOK, Ends, Pcs

\* What a request keeps of an answer has its type.
LEMMA AnsweredType ==
  ASSUME TypeOK, NEW r \in Requests, NEW got \in 0..MaxVersions, NEW kept \in Entries,
         Answered(r, got, kept)
  PROVE  /\ hand' \in [Requests -> Hands]
         /\ hand'[r].now = clock /\ hand'[r].got = got /\ hand'[r].kept = kept
         /\ hand'[r].copy = NoCopy /\ hand'[r].tag = NoTag /\ hand'[r].ext = hand[r].ext
         /\ \A q \in Requests : q # r => hand'[q] = hand[q]
<1>1. Empty \in Hands /\ hand[r].ext \in BOOLEAN
  BY RemoteCacheConstants DEF Empty, Hands, NoEntry, Entries, NoCopy, NoTag, TypeOK
<1>2. [Empty EXCEPT !.ext = hand[r].ext, !.now = clock, !.got = got, !.kept = kept] \in Hands
  BY <1>1 DEF Hands, TypeOK
<1>3. QED
  BY <1>2 DEF Answered, TypeOK, Empty

LEMMA NoEntryType == NoEntry \in Entries /\ NoCopy \in 0..MaxVersions
  BY RemoteCacheConstants DEF NoEntry, Entries, NoCopy, NoTag

LEMMA TypeRequest ==
  ASSUME TypeOK, RowsFollowUpstream, NEW r \in Requests,
         Fetch(r) \/ Serve(r) \/ WaitTimeout(r) \/ WaitCanceled(r)
  PROVE  TypeOK'
<1> USE RemoteCacheConstants, TTLNat DEF TypeOK, Pcs, worldVars, cacheVars, breakerVars, Goes
<1>1. CASE NegativeHit(r)
  BY <1>1, EndsType, BreakerType DEF NegativeHit
<1>2. CASE ServeHit(r)
  BY <1>2, EndsType, BreakerType DEF ServeHit
<1>3. CASE GateCloses(r)
  BY <1>3, EndsType, BreakerType DEF GateCloses
<1>4. CASE WaitTimeout(r)
  BY <1>4, EndsType, BreakerType DEF WaitTimeout
<1>5. CASE WaitCanceled(r)
  BY <1>5, EndsType, BreakerType DEF WaitCanceled
<1>6. CASE DoubleNegative(r)
  BY <1>6, EndsType, BreakerType DEF DoubleNegative
<1>7. CASE DoubleHit(r)
  BY <1>7, EndsType, BreakerType DEF DoubleHit
<1>8. CASE Respond4xx(r)
  BY <1>8, EndsType, BreakerType DEF Respond4xx
<1>9. CASE Respond5xx(r)
  BY <1>9, EndsType, BreakerType DEF Respond5xx
<1>10. CASE Respond304Bare(r)
  BY <1>10, EndsType, BreakerType DEF Respond304Bare
<1>11. CASE TransportFault(r)
  BY <1>11, EndsType, BreakerType DEF TransportFault
<1>12. CASE CallerGone(r)
  BY <1>12, EndsType, BreakerType DEF CallerGone
<1>13. CASE Rejected(r)
  BY <1>13, EndsType, BreakerType DEF Rejected
<1>14. CASE BodyFault(r)
  BY <1>14, EndsType, BreakerType DEF BodyFault
<1>15. CASE WriteFails(r)
  BY <1>15, EndsType, BreakerType DEF WriteFails
<1>16. CASE Fetch(r)
  <2>1. hand' \in [Requests -> Hands]
    BY <1>16 DEF Fetch, Hands
  <2>2. QED
    BY <1>16, <2>1 DEF Fetch
<1>17. CASE Attempt(r)
  <2>1. hand' \in [Requests -> Hands] /\ past' \subseteq Requests
    BY <1>17 DEF Attempt, Hands
  <2>2. QED
    BY <1>17, <2>1 DEF Attempt
<1>18. CASE ReadNode(r)
  <2>1. hand' \in [Requests -> Hands]
    BY <1>18 DEF ReadNode, Hands
  <2>2. QED
    BY <1>18, <2>1 DEF ReadNode
<1>19. CASE NotFresh(r)
  BY <1>19 DEF NotFresh
<1>20. CASE GateOpens(r)
  <2>1. offline' \in Nat /\ faults' \in Nat /\ real' \in Nat /\ past' \subseteq Requests
    BY <1>20 DEF GateOpens
  <2>2. QED
    BY <1>20, <2>1 DEF GateOpens
<1>21. CASE AcquireFlight(r)
  BY <1>21 DEF AcquireFlight
<1>22. CASE JoinFlight(r)
  BY <1>22 DEF JoinFlight
<1>23. CASE WaitDone(r)
  <2>1. hand' \in [Requests -> Hands]
    BY <1>23 DEF WaitDone, Hands, Empty, NoEntry, Entries, NoCopy, NoTag
  <2>2. QED
    BY <1>23, <2>1 DEF WaitDone
<1>24. CASE DoubleRead(r)
  <2>1. hand' \in [Requests -> Hands]
    BY <1>24 DEF DoubleRead, Hands
  <2>2. QED
    BY <1>24, <2>1 DEF DoubleRead
<1>25. CASE DoubleMiss(r)
  BY <1>25 DEF DoubleMiss
<1>26. CASE Contact(r)
  <2>1. hand' \in [Requests -> Hands]
    BY <1>26 DEF Contact, Hands, Entries, NoTag
  <2>2. QED
    BY <1>26, <2>1 DEF Contact
<1>27. CASE Respond200(r)
  <2>1. hand' \in [Requests -> Hands]
    <3>1. upstream \in 0..MaxVersions
      BY DEF RowsFollowUpstream, Versions
    <3>2. QED
      BY <1>27, <3>1, AnsweredType, NoEntryType DEF Respond200
  <2>2. vouched' \in [Versions -> Nat]
    BY <1>27 DEF Respond200
  <2>3. QED
    BY <1>27, <2>1, <2>2, BreakerType DEF Respond200
<1>28. CASE Respond404(r)
  <2>1. hand' \in [Requests -> Hands]
    BY <1>28, AnsweredType, NoEntryType DEF Respond404
  <2>2. QED
    BY <1>28, <2>1, BreakerType DEF Respond404
<1>29. CASE Respond304(r)
  <2>1. hand' \in [Requests -> Hands]
    BY <1>29, AnsweredType, NoEntryType DEF Respond304
  <2>2. vouched' \in [Versions -> Nat]
    BY <1>29 DEF Respond304
  <2>3. QED
    BY <1>29, <2>1, <2>2, BreakerType DEF Respond304
<1>30. CASE PutNegative(r)
  <2>1. entry' \in Entries
    BY <1>30 DEF PutNegative, Expiry, Entries, Hands, NoTag
  <2>2. QED
    BY <1>30, <2>1, EndsType DEF PutNegative
<1>31. CASE Slide(r)
  <2>1. entry' \in Entries
    BY <1>31 DEF Slide, Expiry, Entries, Hands, NoTag
  <2>2. QED
    BY <1>31, <2>1, EndsType DEF Slide
<1>32. CASE LandNode(r)
  <2>1. node' \in 0..MaxVersions
    BY <1>32 DEF LandNode, Hands
  <2>2. QED
    BY <1>32, <2>1 DEF LandNode
<1>33. CASE LandState(r)
  <2>1. entry' \in Entries
    BY <1>33 DEF LandState, Expiry, Entries, Hands, NoTag
  <2>2. QED
    BY <1>33, <2>1, EndsType DEF LandState
<1>34. QED
  BY <1>1, <1>2, <1>3, <1>4, <1>5, <1>6, <1>7, <1>8, <1>9, <1>10, <1>11, <1>12, <1>13, <1>14,
     <1>15, <1>16, <1>17, <1>18, <1>19, <1>20, <1>21, <1>22, <1>23, <1>24, <1>25, <1>26, <1>27,
     <1>28, <1>29, <1>30, <1>31, <1>32, <1>33 DEF Serve, Lookup, Answer, Land

LEMMA TypeNext ==
  ASSUME TypeOK, RowsFollowUpstream, Next
  PROVE  TypeOK'
<1> USE RemoteCacheConstants DEF TypeOK, Pcs, worldVars, cacheVars, breakerVars
<1>1. CASE InvalidateNode
  <2>1. inv' \in BOOLEAN
    BY <1>1 DEF InvalidateNode
  <2>2. turns' \in Nat /\ node' \in 0..MaxVersions
    BY <1>1 DEF InvalidateNode, Turn, NoCopy
  <2>3. QED
    BY <1>1, <2>1, <2>2 DEF InvalidateNode
<1>2. CASE InvalidateEntry
  <2>1. entry' \in Entries
    BY <1>2 DEF InvalidateEntry, Entries, NoEntry, NoTag
  <2>2. inv' \in BOOLEAN
    BY <1>2 DEF InvalidateEntry
  <2>3. QED
    BY <1>2, <2>1, <2>2 DEF InvalidateEntry
<1>3. CASE BlockPull
  <2>1. brake' \in BOOLEAN
    BY <1>3 DEF BlockPull
  <2>2. turns' \in Nat
    BY <1>3 DEF BlockPull, Turn
  <2>3. QED
    BY <1>3, <2>1, <2>2 DEF BlockPull
<1>4. CASE Publish
  <2>1. returned' \in BOOLEAN
    BY <1>4 DEF Publish
  <2>2. turns' \in Nat /\ upstream' \in Nat
    BY <1>4 DEF Publish, Turn, Versions
  <2>3. QED
    BY <1>4, <2>1, <2>2 DEF Publish
<1>5. CASE Tick
  BY <1>5 DEF Tick
<1>8. CASE OtherPath
  <2>1. turns' \in Nat
    BY <1>8 DEF OtherPath, Turn
  <2>2. offline' \in Nat /\ faults' \in Nat /\ real' \in Nat /\ past' \subseteq Requests
    BY <1>8 DEF OtherPath, Count, MarkOffline
  <2>3. QED
    BY <1>8, <2>1, <2>2 DEF OtherPath
<1>6. CASE Restart
  <2>1. Empty \in Hands
    BY DEF Empty, Hands, NoEntry, Entries, NoCopy, NoTag
  <2>2. hand' \in [Requests -> Hands] /\ pc' \in [Requests -> Pcs] /\ turns' \in Nat
    BY <1>6, <2>1 DEF Restart, Turn
  <2>3. QED
    BY <1>6, <2>2 DEF Restart
<1>7. QED
  BY <1>1, <1>2, <1>3, <1>4, <1>5, <1>6, <1>8, TypeRequest DEF Next

-----------------------------------------------------------------------------
(* One contact per path. *)

LEMMA FlyRequest ==
  ASSUME TypeOK, FlyingOwns, NEW r \in Requests,
         Fetch(r) \/ Serve(r) \/ WaitTimeout(r) \/ WaitCanceled(r)
  PROVE  FlyingOwns'
<1> USE RemoteCacheConstants DEF TypeOK, FlyingOwns, Flying, Pcs, worldVars, cacheVars,
    breakerVars, Goes
<1>1. CASE Ends(r)
  BY <1>1 DEF Ends
<1>2. CASE Fetch(r)
  BY <1>2 DEF Fetch
<1>3. CASE Attempt(r)
  BY <1>3 DEF Attempt
<1>4. CASE ReadNode(r)
  BY <1>4 DEF ReadNode
<1>5. CASE NotFresh(r)
  BY <1>5 DEF NotFresh
<1>6. CASE GateOpens(r)
  BY <1>6 DEF GateOpens
<1>7. CASE AcquireFlight(r)
  BY <1>7 DEF AcquireFlight
<1>8. CASE JoinFlight(r)
  BY <1>8 DEF JoinFlight
<1>9. CASE WaitDone(r)
  BY <1>9 DEF WaitDone
<1>10. CASE DoubleRead(r)
  BY <1>10 DEF DoubleRead
<1>11. CASE DoubleMiss(r)
  BY <1>11 DEF DoubleMiss
<1>12. CASE Contact(r)
  BY <1>12 DEF Contact
<1>13. CASE Respond200(r)
  BY <1>13 DEF Respond200, Reached
<1>14. CASE Respond404(r)
  BY <1>14 DEF Respond404, Reached
<1>15. CASE Respond304(r)
  BY <1>15 DEF Respond304, Reached, Asked
<1>16. CASE PutNegative(r)
  BY <1>16 DEF PutNegative, Ends, Expiry
<1>17. CASE Slide(r)
  BY <1>17 DEF Slide, Ends, Expiry
<1>18. CASE LandNode(r)
  BY <1>18 DEF LandNode
<1>19. CASE LandState(r)
  BY <1>19 DEF LandState, Ends, Expiry
<1>20. QED
  BY <1>1, <1>2, <1>3, <1>4, <1>5, <1>6, <1>7, <1>8, <1>9, <1>10, <1>11, <1>12, <1>13, <1>14,
     <1>15, <1>16, <1>17, <1>18, <1>19 DEF Serve, Lookup, Answer, Land,
     NegativeHit, ServeHit, GateCloses, WaitTimeout, WaitCanceled, DoubleNegative, DoubleHit,
     Respond4xx, Respond5xx, Respond304Bare, TransportFault, CallerGone, Rejected, BodyFault,
     WriteFails

LEMMA FlyNext ==
  ASSUME TypeOK, FlyingOwns, Next
  PROVE  FlyingOwns'
<1> USE RemoteCacheConstants DEF TypeOK, FlyingOwns, Flying, Pcs, worldVars, cacheVars,
    breakerVars
<1>1. CASE InvalidateNode
  BY <1>1 DEF InvalidateNode, Turn
<1>2. CASE InvalidateEntry
  BY <1>2 DEF InvalidateEntry
<1>3. CASE BlockPull
  BY <1>3 DEF BlockPull, Turn
<1>4. CASE Publish
  BY <1>4 DEF Publish, Turn
<1>5. CASE Tick
  BY <1>5 DEF Tick
<1>6. CASE Restart
  BY <1>6 DEF Restart, Turn
<1>7. CASE OtherPath
  BY <1>7 DEF OtherPath, Turn
<1>8. QED
  BY <1>1, <1>2, <1>3, <1>4, <1>5, <1>6, <1>7, FlyRequest DEF Next

-----------------------------------------------------------------------------
(* The rows and the answers in flight. *)

LEMMA Fields ==
  ASSUME TypeOK
  PROVE  /\ clock \in Nat /\ upstream \in Nat /\ node \in Nat
         /\ entry.tag \in Nat /\ entry.exp \in Nat
         /\ vouched \in [Versions -> Nat]
         /\ \A q \in Requests : /\ hand[q].now \in Nat /\ hand[q].copy \in Nat
                                /\ hand[q].tag \in Nat /\ hand[q].got \in Nat
                                /\ hand[q].kept.tag \in Nat
         /\ node # NoCopy => node \in Versions
         /\ \A q \in Requests : hand[q].copy # NoCopy => hand[q].copy \in Versions
         /\ \A q \in Requests : hand[q].tag # NoTag => hand[q].tag \in Versions
<1> USE RemoteCacheConstants DEF TypeOK
<1>1. entry.tag \in Nat /\ entry.exp \in Nat
  BY DEF Entries
<1>2. \A q \in Requests : hand[q] \in Hands
  OBVIOUS
<1>3. \A q \in Requests : /\ hand[q].now \in Nat /\ hand[q].copy \in 0..MaxVersions
                          /\ hand[q].tag \in 0..MaxVersions /\ hand[q].got \in 0..MaxVersions
                          /\ hand[q].kept \in Entries
  BY <1>2 DEF Hands
<1>4. \A q \in Requests : hand[q].kept.tag \in Nat
  BY <1>3 DEF Entries
<1>5. QED
  BY <1>1, <1>3, <1>4 DEF Versions, NoCopy, NoTag

\* The owner of the flight is the only request beyond AcquireFlight.
LEMMA OwnerIsAlone ==
  ASSUME FlyingOwns, NEW r \in Requests, pc[r] \in Flying, NEW q \in Requests, q # r
  PROVE  pc[q] \notin Flying
  BY DEF FlyingOwns

\* A step that touches neither the rows nor the world and leaves its request outside the flight.
LEMMA RowQuiet ==
  ASSUME TypeOK, RowInv, NEW r \in Requests,
         UNCHANGED <<clock, class, upstream, node, entry, vouched, returned>>,
         pc'[r] \notin Flying, hand'[r].now <= clock,
         \A q \in Requests : q # r => hand'[q] = hand[q] /\ pc'[q] \in {pc[q], "woken"}
  PROVE  RowInv'
<1>1. \A q \in Requests : pc'[q] \in Flying => q # r /\ hand'[q] = hand[q] /\ pc'[q] = pc[q]
  BY DEF Flying
<1>2. NoFuture' /\ RowsFollowUpstream' /\ ExpiryIsVouched'
  BY DEF RowInv, NoFuture, RowsFollowUpstream, ExpiryIsVouched, Matching, TTLFor
<1>3. HandIsCurrent'
  BY <1>1 DEF RowInv, HandIsCurrent, Flying
<1>4. AnswerIsVouched'
  BY <1>1 DEF RowInv, AnswerIsVouched, SentIsOwn, LandingIsVouched, SlideIsVouched, Matching,
     Flying, TTLFor
<1>5. CheckStillHolds'
  BY <1>1 DEF RowInv, CheckStillHolds, Flying, NegativeFresh, EntryFresh
<1>6. QED
  BY <1>2, <1>3, <1>4, <1>5 DEF RowInv

LEMMA RowEnds ==
  ASSUME TypeOK, RowInv, NEW r \in Requests, Ends(r), UNCHANGED <<worldVars, cacheVars>>
  PROVE  RowInv'
<1>1. /\ pc'[r] = "idle" /\ hand'[r] = Empty
      /\ \A q \in Requests : q # r => hand'[q] = hand[q] /\ pc'[q] \in {pc[q], "woken"}
  BY DEF TypeOK, Ends
<1>2. UNCHANGED <<clock, class, upstream, node, entry, vouched, returned>>
  BY DEF worldVars, cacheVars
<1>3. pc'[r] \notin Flying /\ hand'[r].now <= clock
  BY <1>1 DEF Flying, Empty, TypeOK
<1>4. QED
  BY <1>1, <1>2, <1>3, RowQuiet

\* A step of the lookup before the flight.
LEMMA RowLookup ==
  ASSUME TypeOK, RowInv, NEW r \in Requests,
         \/ Fetch(r) \/ Attempt(r) \/ ReadNode(r) \/ NotFresh(r) \/ GateOpens(r)
         \/ JoinFlight(r) \/ WaitDone(r)
  PROVE  RowInv'
<1> USE DEF worldVars, cacheVars
<1>1. UNCHANGED <<clock, class, upstream, node, entry, vouched, returned>>
  BY DEF Fetch, Attempt, ReadNode, NotFresh, GateOpens, JoinFlight, WaitDone
<1>2. \E to \in {"neg", "node", "cache", "gate", "flight", "wait"} : Goes(r, to)
  BY DEF Fetch, Attempt, ReadNode, NotFresh, GateOpens, JoinFlight, WaitDone
<1>3. /\ pc'[r] \notin Flying
      /\ \A q \in Requests : q # r => pc'[q] = pc[q]
  BY <1>2 DEF TypeOK, Goes, Flying
<1>4. hand[r].now <= clock
  BY DEF RowInv, NoFuture
<1>5. /\ hand'[r].now <= clock
      /\ \A q \in Requests : q # r => hand'[q] = hand[q]
  <2>1. CASE Fetch(r)
    BY <1>4, <2>1 DEF Fetch, TypeOK, Hands
  <2>2. CASE Attempt(r)
    BY <2>2 DEF Attempt, TypeOK, Hands
  <2>3. CASE ReadNode(r)
    BY <1>4, <2>3 DEF ReadNode, TypeOK, Hands
  <2>4. CASE UNCHANGED hand
    BY <1>4, <2>4
  <2>5. CASE WaitDone(r)
    BY <2>5 DEF WaitDone, TypeOK, Empty
  <2>6. QED
    BY <2>1, <2>2, <2>3, <2>4, <2>5 DEF NotFresh, GateOpens, JoinFlight
<1>6. QED
  BY <1>1, <1>3, <1>5, RowQuiet

\* A step of the owner that leaves no other request in the flight: what is left to show is
\* about the rows and the owner alone.
LEMMA RowOwner ==
  ASSUME TypeOK, FlyingOwns, NEW r \in Requests,
         \A q \in Requests : q # r => pc'[q] \notin Flying,
         (NoFuture /\ RowsFollowUpstream /\ ExpiryIsVouched)',
         pc'[r] \in {"recheck", "contact", "sent"} => (node \in {NoCopy, hand[r].copy})',
         pc'[r] = "sent" => SentIsOwn(r)',
         pc'[r] \in {"land", "state"} => LandingIsVouched(r)',
         pc'[r] = "state" => (node \in {NoCopy, hand[r].got})',
         pc'[r] = "slide" => SlideIsVouched(r)',
         pc'[r] \in {"recheck", "contact"} => ~NegativeFresh',
         pc'[r] = "contact" => ~(node # NoCopy /\ EntryFresh(clock))'
  PROVE  RowInv'
<1>1. HandIsCurrent'
  BY DEF HandIsCurrent, Flying
<1>2. AnswerIsVouched'
  BY DEF AnswerIsVouched, Flying
<1>3. CheckStillHolds'
  BY DEF CheckStillHolds, Flying
<1>4. QED
  BY <1>1, <1>2, <1>3 DEF RowInv

\* The request that holds the flight, after a step that moves it alone.
LEMMA OwnerGoes ==
  ASSUME TypeOK, FlyingOwns, NEW r \in Requests, pc[r] \in Flying, NEW to \in Pcs, Goes(r, to)
  PROVE  /\ pc'[r] = to
         /\ \A q \in Requests : q # r => pc'[q] \notin Flying
  BY OwnerIsAlone DEF TypeOK, Goes

LEMMA OwnerEnds ==
  ASSUME TypeOK, FlyingOwns, NEW r \in Requests, pc[r] \in Flying, Ends(r)
  PROVE  /\ pc'[r] = "idle"
         /\ \A q \in Requests : q # r => pc'[q] \notin Flying
         /\ hand'[r].now = 0
         /\ \A q \in Requests : q # r => hand'[q] = hand[q]
  BY OwnerIsAlone DEF TypeOK, Ends, Empty, Flying

LEMMA RowFlight ==
  ASSUME TypeOK, FlyingOwns, RowInv, NEW r \in Requests,
         AcquireFlight(r) \/ DoubleRead(r) \/ DoubleMiss(r) \/ Contact(r)
  PROVE  RowInv'
<1> USE DEF worldVars, cacheVars
<1>1. UNCHANGED <<clock, class, upstream, node, entry, vouched, returned>>
  BY DEF AcquireFlight, DoubleRead, DoubleMiss, Contact
<1>2. RowsFollowUpstream' /\ ExpiryIsVouched'
  BY <1>1 DEF RowInv, RowsFollowUpstream, ExpiryIsVouched, Matching, TTLFor
<1>3. /\ UNCHANGED <<NegativeFresh, EntryFresh(clock)>>
      /\ hand[r].now <= clock
  BY <1>1 DEF NegativeFresh, EntryFresh, RowInv, NoFuture
<1>4. CASE AcquireFlight(r)
  <2>1. pc'[r] = "double" /\ \A q \in Requests : q # r => pc'[q] \notin Flying
    BY <1>4, RemoteCacheConstants DEF AcquireFlight, TypeOK, Goes, FlyingOwns
  <2>2. NoFuture'
    BY <1>1, <1>4 DEF AcquireFlight, RowInv, NoFuture
  <2>3. QED
    BY <1>2, <2>1, <2>2, RowOwner
<1>5. CASE DoubleRead(r)
  <2>1. /\ pc'[r] \in {"recheck", "contact"}
        /\ \A q \in Requests : q # r => pc'[q] \notin Flying
    BY <1>5, OwnerGoes DEF DoubleRead, Flying, Pcs
  <2>2. /\ hand'[r].now = hand[r].now
        /\ \A q \in Requests : q # r => hand'[q] = hand[q]
        /\ pc'[r] = "recheck" => hand'[r].copy = node
        /\ pc'[r] = "contact" => node = NoCopy
    BY <1>5 DEF DoubleRead, TypeOK, Goes, Hands
  <2>3. NoFuture'
    BY <1>1, <2>2 DEF RowInv, NoFuture
  <2>4. ~NegativeFresh
    BY <1>5 DEF DoubleRead
  <2>5. QED
    BY <1>1, <1>2, <1>3, <2>1, <2>2, <2>3, <2>4, RowOwner
<1>6. CASE DoubleMiss(r)
  <2>1. /\ pc'[r] = "contact" /\ pc[r] = "recheck" /\ UNCHANGED hand
        /\ \A q \in Requests : q # r => pc'[q] \notin Flying
    BY <1>6, OwnerGoes DEF DoubleMiss, Flying, Pcs
  <2>2. node \in {NoCopy, hand[r].copy} /\ ~NegativeFresh
    BY <2>1 DEF RowInv, HandIsCurrent, CheckStillHolds
  <2>3. ~(node # NoCopy /\ EntryFresh(clock))
    BY <1>3, <1>6, <2>2, Fields DEF DoubleMiss, Usable, EntryFresh
  <2>4. NoFuture'
    BY <1>1, <2>1 DEF RowInv, NoFuture
  <2>5. QED
    BY <1>1, <1>2, <1>3, <2>1, <2>2, <2>3, <2>4, RowOwner
<1>7. CASE Contact(r)
  <2>1. /\ pc'[r] = "sent" /\ pc[r] = "contact"
        /\ \A q \in Requests : q # r => pc'[q] \notin Flying
    BY <1>7, OwnerGoes DEF Contact, Flying, Pcs
  <2>2. /\ hand'[r].now = hand[r].now /\ hand'[r].copy = hand[r].copy
        /\ hand'[r].tag \in {entry.tag, NoTag} /\ (class = "content" => hand'[r].tag = NoTag)
        /\ \A q \in Requests : q # r => hand'[q] = hand[q]
    BY <1>7 DEF Contact, TypeOK, Hands
  <2>3. NoFuture'
    BY <1>1, <2>2 DEF RowInv, NoFuture
  <2>4. node \in {NoCopy, hand[r].copy}
    BY <2>1 DEF RowInv, HandIsCurrent
  <2>5. SentIsOwn(r)'
    BY <1>1, <2>2, Fields DEF RowInv, RowsFollowUpstream, SentIsOwn, NoTag
  <2>6. QED
    BY <1>1, <1>2, <2>1, <2>2, <2>3, <2>4, <2>5, RowOwner
<1>8. QED
  BY <1>4, <1>5, <1>6, <1>7

LEMMA UpstreamType ==
  ASSUME RowsFollowUpstream
  PROVE  upstream \in 0..MaxVersions
  BY RemoteCacheConstants DEF RowsFollowUpstream, Versions

LEMMA RowAnswer ==
  ASSUME TypeOK, FlyingOwns, RowInv, NEW r \in Requests,
         Respond200(r) \/ Respond404(r) \/ Respond304(r)
  PROVE  RowInv'
<1> USE DEF worldVars, cacheVars
<1>1. UNCHANGED <<clock, class, upstream, node, entry, returned>> /\ pc[r] = "sent"
  BY DEF Respond200, Respond404, Respond304
<1>2. RowsFollowUpstream'
  BY <1>1 DEF RowInv, RowsFollowUpstream
<1>3. CASE Respond200(r)
  <2>1. /\ pc'[r] = "land"
        /\ \A q \in Requests : q # r => pc'[q] \notin Flying
    BY <1>3, OwnerGoes DEF Respond200, Flying, Pcs
  <2>2. /\ hand'[r].now = clock /\ hand'[r].got = upstream
        /\ \A q \in Requests : q # r => hand'[q] = hand[q]
    BY <1>3, UpstreamType, AnsweredType, NoEntryType DEF Respond200, RowInv
  <2>3. /\ upstream \in Versions
        /\ vouched'[upstream] = clock
        /\ \A v \in Versions : v # upstream => vouched'[v] = vouched[v]
    BY <1>3 DEF Respond200, TypeOK, RowInv, RowsFollowUpstream
  <2>4. NoFuture'
    BY <1>1, <2>2, <2>3, Fields DEF RowInv, NoFuture
  <2>5. ExpiryIsVouched'
    BY <1>1, <2>3, Fields, TTLNat DEF RowInv, NoFuture, ExpiryIsVouched, Matching, TTLFor
  <2>6. QED
    <3>1. LandingIsVouched(r)'
      BY <1>1, <2>2, <2>3, Fields, TTLNat
         DEF RowInv, RowsFollowUpstream, ExpiryIsVouched, LandingIsVouched, TTLFor
    <3>2. QED
      BY <1>2, <2>1, <2>4, <2>5, <3>1, RowOwner
<1>4. CASE Respond404(r)
  <2>1. /\ pc'[r] = "miss"
        /\ \A q \in Requests : q # r => pc'[q] \notin Flying
    BY <1>4, OwnerGoes DEF Respond404, Flying, Pcs
  <2>2. /\ hand'[r].now = clock /\ UNCHANGED vouched
        /\ \A q \in Requests : q # r => hand'[q] = hand[q]
    BY <1>4, AnsweredType, NoEntryType DEF Respond404
  <2>3. NoFuture'
    BY <1>1, <2>2, Fields DEF RowInv, NoFuture
  <2>4. ExpiryIsVouched'
    BY <1>1, <2>2 DEF RowInv, ExpiryIsVouched, Matching, TTLFor
  <2>5. QED
    BY <1>2, <2>1, <2>3, <2>4, RowOwner
<1>5. CASE Respond304(r)
  <2>1. /\ pc'[r] = "slide"
        /\ \A q \in Requests : q # r => pc'[q] \notin Flying
    BY <1>5, OwnerGoes DEF Respond304, Flying, Pcs
  <2>2. /\ hand'[r].now = clock /\ hand'[r].kept = entry
        /\ \A q \in Requests : q # r => hand'[q] = hand[q]
    BY <1>5, AnsweredType, NoEntryType DEF Respond304, TypeOK
  <2>3. /\ Asked(r) \in Versions
        /\ (node # NoCopy /\ (hand[r].tag = NoTag \/ ~returned)) => node = Asked(r)
        /\ hand[r].tag # NoTag => Asked(r) = hand[r].tag
    BY <1>1, <1>5, Fields DEF Respond304, Asked, RowInv, HandIsCurrent, AnswerIsVouched, SentIsOwn,
       RowsFollowUpstream, NoTag
  <2>4. /\ vouched'[Asked(r)] = clock
        /\ \A v \in Versions : v # Asked(r) => vouched'[v] = vouched[v]
    BY <1>5, <2>3 DEF Respond304, TypeOK
  <2>5. NoFuture'
    BY <1>1, <2>2, <2>3, <2>4, Fields DEF RowInv, NoFuture
  <2>6. ExpiryIsVouched'
    BY <1>1, <2>3, <2>4, Fields, TTLNat DEF RowInv, NoFuture, ExpiryIsVouched, Matching, TTLFor
  <2>7. SlideIsVouched(r)'
    <3>1. ~returned => /\ entry.tag <= upstream
                       /\ node # NoCopy => entry.tag <= node /\ vouched'[node] = clock
      BY <2>3, <2>4 DEF RowInv, RowsFollowUpstream
    <3>2. ASSUME node # NoCopy, Matching(entry.tag), class = "content" \/ entry.kind = class
          PROVE  vouched'[node] = clock
      <4>1. hand[r].tag \in {NoTag, node}
        BY <1>1, <3>2 DEF RowInv, AnswerIsVouched, SentIsOwn, Matching
      <4>2. QED
        BY <2>3, <2>4, <3>2, <4>1
    <3>3. QED
      BY <1>1, <2>2, <3>1, <3>2 DEF SlideIsVouched, Matching
  <2>8. QED
    BY <1>2, <2>1, <2>5, <2>6, <2>7, RowOwner
<1>6. QED
  BY <1>3, <1>4, <1>5

LEMMA RowLand ==
  ASSUME TypeOK, FlyingOwns, RowInv, NEW r \in Requests,
         PutNegative(r) \/ Slide(r) \/ LandNode(r) \/ LandState(r)
  PROVE  RowInv'
<1> USE DEF worldVars, cacheVars
<1>1. UNCHANGED <<clock, class, upstream, vouched, returned>>
  BY DEF PutNegative, Slide, LandNode, LandState
<1>2. CASE PutNegative(r)
  <2>1. UNCHANGED node /\ entry'.kind = "negative" /\ entry'.tag = 0
    BY <1>2 DEF PutNegative, NoTag
  <2>2. NoFuture'
    BY <1>1, <1>2, OwnerEnds, Fields DEF PutNegative, Flying, RowInv, NoFuture
  <2>3. RowsFollowUpstream' /\ ExpiryIsVouched'
    BY <1>1, <2>1, Fields DEF RowInv, RowsFollowUpstream, ExpiryIsVouched, TypeOK, NoCopy
  <2>4. QED
    BY <1>2, <2>2, <2>3, OwnerEnds, RowOwner DEF PutNegative, Flying
<1>3. CASE Slide(r)
  <2> DEFINE kind == IF hand[r].kept.kind = "none" THEN "content" ELSE hand[r].kept.kind
  <2>1. /\ UNCHANGED node /\ pc[r] = "slide"
        /\ entry'.kind = kind /\ entry'.tag = hand[r].kept.tag
        /\ entry'.exp = hand[r].now + TTLFor(kind)
    BY <1>3 DEF Slide, Expiry
  <2>2. NoFuture'
    BY <1>1, <1>3, OwnerEnds, Fields DEF Slide, Flying, RowInv, NoFuture
  <2>3. RowsFollowUpstream'
    BY <1>1, <2>1 DEF RowInv, RowsFollowUpstream, AnswerIsVouched, SlideIsVouched
  <2>4. ExpiryIsVouched'
    <3>1. SlideIsVouched(r) /\ hand[r].now <= clock
      BY <2>1 DEF RowInv, AnswerIsVouched, NoFuture
    <3>2. kind = class => class = "content" \/ hand[r].kept.kind = class
      OBVIOUS
    <3> HIDE DEF kind
    <3>3. ASSUME kind = class, node # NoCopy, returned => Matching(hand[r].kept.tag)
          PROVE  vouched[node] = hand[r].now
      BY <3>1, <3>2, <3>3 DEF SlideIsVouched
    <3>4. ASSUME kind = class
          PROVE  /\ entry'.exp <= clock + TTLFor(class)
                 /\ (node # NoCopy /\ (returned => Matching(hand[r].kept.tag))) =>
                       entry'.exp <= vouched[node] + TTLFor(class)
      BY <2>1, <3>1, <3>3, <3>4, Fields, TTLNat
    <3>5. Matching(entry.tag)' <=> Matching(hand[r].kept.tag)
      BY <2>1 DEF Matching
    <3>6. QED
      BY <1>1, <2>1, <3>4, <3>5 DEF ExpiryIsVouched, TTLFor
  <2>5. QED
    BY <1>3, <2>2, <2>3, <2>4, OwnerEnds, RowOwner DEF Slide, Flying
<1>4. CASE LandNode(r)
  <2>1. /\ pc'[r] = "state" /\ pc[r] = "land" /\ node' = hand[r].got /\ UNCHANGED <<entry, hand>>
        /\ \A q \in Requests : q # r => pc'[q] \notin Flying
    BY <1>4, OwnerGoes DEF LandNode, Flying, Pcs
  <2>2. /\ hand[r].got \in Versions
        /\ vouched[hand[r].got] = hand[r].now
        /\ ~returned => hand[r].got <= upstream /\ entry.tag <= hand[r].got
        /\ entry.kind = class => entry.exp <= hand[r].now + TTLFor(class)
    BY <2>1 DEF RowInv, AnswerIsVouched, LandingIsVouched
  <2>3. NoFuture'
    BY <1>1, <2>1 DEF RowInv, NoFuture
  <2>4. RowsFollowUpstream'
    BY <1>1, <2>1, <2>2 DEF RowInv, RowsFollowUpstream
  <2>5. ExpiryIsVouched'
    BY <1>1, <2>1, <2>2 DEF RowInv, ExpiryIsVouched, TTLFor
  <2>6. LandingIsVouched(r)'
    BY <1>1, <2>1, <2>2 DEF LandingIsVouched, TTLFor
  <2>7. QED
    BY <2>1, <2>3, <2>4, <2>5, <2>6, RowOwner
<1>5. CASE LandState(r)
  <2>1. /\ UNCHANGED node /\ pc[r] = "state"
        /\ entry'.kind = class /\ entry'.tag = hand[r].got
        /\ entry'.exp = hand[r].now + TTLFor(class)
    BY <1>5 DEF LandState, Expiry
  <2>2. /\ hand[r].got \in Versions /\ (~returned => hand[r].got <= upstream)
        /\ vouched[hand[r].got] = hand[r].now
        /\ node \in {NoCopy, hand[r].got}
    BY <2>1 DEF RowInv, AnswerIsVouched, LandingIsVouched
  <2>3. NoFuture'
    BY <1>1, <1>5, OwnerEnds, Fields DEF LandState, Flying, RowInv, NoFuture
  <2>4. RowsFollowUpstream'
    BY <1>1, <2>1, <2>2, Fields DEF RowInv, RowsFollowUpstream
  <2>5. ExpiryIsVouched'
    BY <1>1, <2>1, <2>2, Fields, TTLNat DEF RowInv, ExpiryIsVouched, NoFuture
  <2>6. QED
    BY <1>5, <2>3, <2>4, <2>5, OwnerEnds, RowOwner DEF LandState, Flying
<1>6. QED
  BY <1>2, <1>3, <1>4, <1>5

\* Time, the upstream, the administrator and the process.
LEMMA RowWorld ==
  ASSUME TypeOK, RowInv,
         InvalidateNode \/ InvalidateEntry \/ BlockPull \/ Publish \/ OtherPath \/ Tick \/ Restart
  PROVE  RowInv'
<1> USE RemoteCacheConstants DEF worldVars, cacheVars
<1>1. CASE Restart
  <2>1. /\ UNCHANGED <<clock, class, upstream, node, entry, vouched, returned>>
        /\ \A q \in Requests : pc'[q] = "idle" /\ hand'[q].now = 0
    BY <1>1 DEF Restart, Empty
  <2>2. NoFuture' /\ RowsFollowUpstream' /\ ExpiryIsVouched'
    BY <2>1, Fields DEF RowInv, NoFuture, RowsFollowUpstream, ExpiryIsVouched, Matching, TTLFor
  <2>3. HandIsCurrent' /\ AnswerIsVouched' /\ CheckStillHolds'
    BY <2>1 DEF HandIsCurrent, AnswerIsVouched, CheckStillHolds
  <2>4. QED
    BY <2>2, <2>3 DEF RowInv
<1>2. CASE InvalidateNode
  <2>1. /\ UNCHANGED <<clock, class, upstream, entry, vouched, returned, pc, hand>>
        /\ node' = NoCopy
    BY <1>2 DEF InvalidateNode
  <2>2. NoFuture' /\ RowsFollowUpstream' /\ ExpiryIsVouched'
    BY <2>1, Fields DEF RowInv, NoFuture, RowsFollowUpstream, ExpiryIsVouched, Matching, TTLFor, NoCopy
  <2>3. HandIsCurrent' /\ AnswerIsVouched'
    BY <2>1 DEF RowInv, HandIsCurrent, AnswerIsVouched, SentIsOwn, LandingIsVouched,
       SlideIsVouched, Matching, TTLFor
  <2>4. CheckStillHolds'
    BY <2>1 DEF RowInv, CheckStillHolds, NegativeFresh, EntryFresh
  <2>5. QED
    BY <2>2, <2>3, <2>4 DEF RowInv
<1>3. CASE InvalidateEntry
  <2>1. /\ UNCHANGED <<clock, class, upstream, node, vouched, returned, pc, hand>>
        /\ \/ UNCHANGED entry
           \/ entry'.kind = "none" /\ entry'.tag = 0
    BY <1>3 DEF InvalidateEntry, NoEntry, NoTag
  <2>2. NoFuture' /\ RowsFollowUpstream' /\ ExpiryIsVouched'
    BY <2>1, Fields DEF RowInv, NoFuture, RowsFollowUpstream, ExpiryIsVouched, Matching, TTLFor, TypeOK
  <2>3. HandIsCurrent' /\ AnswerIsVouched'
    BY <2>1, Fields DEF RowInv, HandIsCurrent, AnswerIsVouched, SentIsOwn, LandingIsVouched,
       SlideIsVouched, Matching, TTLFor, TypeOK
  <2>4. CheckStillHolds'
    BY <2>1 DEF RowInv, CheckStillHolds, NegativeFresh, EntryFresh
  <2>5. QED
    BY <2>2, <2>3, <2>4 DEF RowInv
<1>4. CASE BlockPull \/ OtherPath
  <2>1. UNCHANGED <<clock, class, upstream, node, entry, vouched, returned, pc, hand>>
    BY <1>4 DEF BlockPull, OtherPath
  <2>2. QED
    BY <2>1 DEF RowInv, NoFuture, RowsFollowUpstream, ExpiryIsVouched, HandIsCurrent,
       AnswerIsVouched, SentIsOwn, LandingIsVouched, SlideIsVouched, Matching, CheckStillHolds,
       NegativeFresh, EntryFresh, TTLFor
<1>5. CASE Publish
  <2>1. PICK v \in Versions \ {upstream} :
            /\ UNCHANGED <<clock, class, node, entry, vouched, pc, hand>>
            /\ upstream' = v /\ returned' = (returned \/ v < upstream)
    BY <1>5 DEF Publish
  <2>2. /\ upstream' \in Versions /\ upstream' \in Nat
        /\ (returned => returned') /\ (v < upstream => returned')
    <3>1. upstream' \in Versions /\ upstream' \in Nat
      BY <2>1 DEF Versions
    <3>2. (returned => returned') /\ (v < upstream => returned')
      BY <2>1, Zenon
    <3>3. QED
      BY <3>1, <3>2
  <2>3. ~returned' => ~returned /\ upstream <= upstream'
    BY <2>1, <2>2, Fields
  <2>4. NoFuture' /\ RowsFollowUpstream'
    BY <2>1, <2>2, <2>3, Fields DEF RowInv, NoFuture, RowsFollowUpstream
  <2>5. ExpiryIsVouched'
    BY <2>1, <2>2 DEF RowInv, ExpiryIsVouched, Matching, TTLFor
  <2>6. ASSUME NEW r \in Requests
        PROVE  /\ SentIsOwn(r) => SentIsOwn(r)'
               /\ LandingIsVouched(r) => LandingIsVouched(r)'
               /\ SlideIsVouched(r) => SlideIsVouched(r)'
    <3>1. SentIsOwn(r) => SentIsOwn(r)'
      BY <2>1, <2>2, <2>3, Fields DEF SentIsOwn
    <3>2. LandingIsVouched(r) => LandingIsVouched(r)'
      BY <2>1, <2>2, <2>3, Fields DEF LandingIsVouched, TTLFor
    <3>3. SlideIsVouched(r) => SlideIsVouched(r)'
      BY <2>1, <2>2, <2>3, Fields DEF SlideIsVouched, Matching
    <3>4. QED
      BY <3>1, <3>2, <3>3
  <2>7. HandIsCurrent' /\ AnswerIsVouched'
    BY <2>1, <2>6 DEF RowInv, HandIsCurrent, AnswerIsVouched
  <2>8. CheckStillHolds'
    BY <2>1 DEF RowInv, CheckStillHolds, NegativeFresh, EntryFresh
  <2>9. QED
    BY <2>4, <2>5, <2>7, <2>8 DEF RowInv
<1>6. CASE Tick
  <2>1. /\ UNCHANGED <<class, upstream, node, entry, vouched, returned, pc, hand>>
        /\ clock' = clock + 1
    BY <1>6 DEF Tick
  <2>2. NoFuture' /\ RowsFollowUpstream'
    BY <2>1, Fields DEF RowInv, NoFuture, RowsFollowUpstream
  <2>3. ExpiryIsVouched'
    BY <2>1, Fields, TTLNat DEF RowInv, ExpiryIsVouched, Matching, TTLFor
  <2>4. HandIsCurrent' /\ AnswerIsVouched'
    BY <2>1 DEF RowInv, HandIsCurrent, AnswerIsVouched, SentIsOwn, LandingIsVouched,
       SlideIsVouched, Matching, TTLFor
  <2>5. CheckStillHolds'
    BY <2>1, Fields DEF RowInv, CheckStillHolds, NegativeFresh, EntryFresh
  <2>6. QED
    BY <2>2, <2>3, <2>4, <2>5 DEF RowInv
<1>7. QED
  BY <1>1, <1>2, <1>3, <1>4, <1>5, <1>6

LEMMA RowNext ==
  ASSUME TypeOK, FlyingOwns, RowInv, Next
  PROVE  RowInv'
<1>1. ASSUME NEW r \in Requests, Fetch(r) \/ Serve(r) \/ WaitTimeout(r) \/ WaitCanceled(r)
      PROVE  RowInv'
  BY <1>1, RowEnds, RowLookup, RowFlight, RowAnswer, RowLand DEF Serve, Lookup, Answer, Land,
     NegativeHit, ServeHit, GateCloses, WaitTimeout, WaitCanceled, DoubleNegative, DoubleHit,
     Respond4xx, Respond5xx, Respond304Bare, TransportFault, CallerGone, Rejected, BodyFault,
     WriteFails
<1>2. QED
  BY <1>1, RowWorld DEF Next

-----------------------------------------------------------------------------
(* The offline window. *)

\* The pcs between the window check and the contact.
PastCheck == {"flight", "double", "recheck", "contact"}

\* A step that leaves the window alone lets nobody pass its check.
LEMMA PastQuiet ==
  ASSUME PastIsKnown, UNCHANGED offline, NEW r \in Requests,
         UNCHANGED past \/ (past' = past \ {r} /\ pc'[r] \notin PastCheck),
         \A q \in Requests : pc'[q] \in PastCheck => pc[q] \in PastCheck /\ hand'[q].ext = hand[q].ext
  PROVE  PastIsKnown'
  BY DEF PastIsKnown, PastCheck

\* A request that returns, whatever it reports to the breaker.
LEMMA PastEnds ==
  ASSUME TypeOK, PastIsKnown, NEW r \in Requests, Ends(r),
         \/ UNCHANGED <<offline, past>>
         \/ MarkOffline
  PROVE  PastIsKnown'
<1>1. /\ pc'[r] = "idle"
      /\ \A q \in Requests : q # r => hand'[q] = hand[q] /\ pc'[q] \in {pc[q], "woken"}
  BY DEF TypeOK, Ends
<1>2. CASE UNCHANGED <<offline, past>>
  BY <1>1, <1>2, PastQuiet DEF PastCheck
<1>3. CASE MarkOffline
  BY <1>1, <1>3 DEF MarkOffline, PastIsKnown
<1>4. QED
  BY <1>2, <1>3

LEMMA PastRequest ==
  ASSUME TypeOK, PastIsKnown, NEW r \in Requests,
         Fetch(r) \/ Serve(r) \/ WaitTimeout(r) \/ WaitCanceled(r)
  PROVE  PastIsKnown'
<1> USE DEF breakerVars, worldVars
<1>1. CASE Ends(r)
  <2>1. \/ UNCHANGED <<offline, past>>
        \/ MarkOffline
    <3>2. ASSUME NEW n, NoteFault(r, n, faults + 1)
          PROVE  UNCHANGED <<offline, past>> \/ MarkOffline
      BY <3>2 DEF NoteFault, Count
    <3>3. CASE Reached(r)
      BY <3>3 DEF Reached
    <3>4. pc'[r] = "idle"
      BY <1>1 DEF Ends, TypeOK
    <3>5. CASE UNCHANGED breakerVars
      BY <3>5
    <3>6. CASE Respond5xx(r)
      BY <3>6 DEF Respond5xx
    <3>7. CASE TransportFault(r) \/ CallerGone(r) \/ BodyFault(r)
      BY <3>2, <3>7 DEF TransportFault, CallerGone, BodyFault
    <3>8. CASE Fetch(r) \/ Attempt(r) \/ GateOpens(r)
      BY <3>4, <3>8 DEF Fetch, Attempt, GateOpens, Goes, TypeOK
    <3>9. QED
      BY <3>3, <3>5, <3>6, <3>7, <3>8 DEF Serve, Lookup, Answer, Land, NegativeHit, ReadNode,
         ServeHit, NotFresh, GateCloses, AcquireFlight, JoinFlight, WaitDone, WaitTimeout,
         WaitCanceled, DoubleNegative, DoubleRead, DoubleHit, DoubleMiss, Contact, Respond200,
         Respond404, Respond4xx, Respond304, Respond304Bare, Rejected, PutNegative, Slide,
         LandNode, LandState, WriteFails
  <2>2. QED
    BY <1>1, <2>1, PastEnds
<1>2. CASE GateOpens(r)
  <2>1. /\ UNCHANGED hand /\ pc'[r] = "flight"
        /\ \A q \in Requests : q # r => pc'[q] = pc[q]
        /\ offline' \in {0, offline} /\ (offline' # 0 => UNCHANGED past)
        /\ ~hand[r].ext => offline' = 0
    BY <1>2 DEF GateOpens, Goes, TypeOK
  <2>2. QED
    BY <2>1 DEF PastIsKnown
<1>3. CASE /\ UNCHANGED <<offline, past>>
           /\ \E to \in Pcs \ PastCheck : Goes(r, to)
           /\ \A q \in Requests : q # r => hand'[q] = hand[q]
  BY <1>3, PastQuiet DEF Goes, TypeOK, PastCheck
<1>4. CASE AcquireFlight(r) \/ DoubleRead(r) \/ DoubleMiss(r)
  <2>1. UNCHANGED <<offline, past>>
    BY <1>4 DEF AcquireFlight, DoubleRead, DoubleMiss
  <2>2. pc[r] \in PastCheck /\ \A q \in Requests : q # r => pc'[q] = pc[q]
    BY <1>4 DEF AcquireFlight, DoubleRead, DoubleMiss, Goes, TypeOK, PastCheck
  <2>3. hand'[r].ext = hand[r].ext /\ \A q \in Requests : q # r => hand'[q] = hand[q]
    BY <1>4 DEF AcquireFlight, DoubleRead, DoubleMiss, TypeOK, Hands
  <2>4. QED
    BY <2>1, <2>2, <2>3, PastQuiet
<1>5. QED
  <2>1. CASE Fetch(r) \/ ReadNode(r) \/ NotFresh(r) \/ JoinFlight(r) \/ WaitDone(r)
    BY <1>3, <2>1 DEF Fetch, ReadNode, NotFresh, JoinFlight, WaitDone, TypeOK, Pcs,
       PastCheck
  <2>2. CASE Contact(r) \/ Respond200(r) \/ Respond404(r) \/ Respond304(r) \/ LandNode(r)
    BY <1>3, <2>2 DEF Contact, Respond200, Respond404, Respond304, LandNode, Reached, Answered,
       TypeOK, Pcs, PastCheck
  <2>4. CASE Attempt(r)
    BY <2>4, PastQuiet DEF Attempt, Goes, TypeOK, PastCheck
  <2>3. QED
    BY <1>1, <1>2, <1>4, <2>1, <2>2, <2>4 DEF Serve, Lookup, Answer, Land, PutNegative, Slide,
       LandState,
       NegativeHit, ServeHit, GateCloses, WaitTimeout, WaitCanceled, DoubleNegative, DoubleHit,
       Respond4xx, Respond5xx, Respond304Bare, TransportFault, CallerGone, Rejected, BodyFault,
       WriteFails

LEMMA PastNext ==
  ASSUME TypeOK, PastIsKnown, Next
  PROVE  PastIsKnown'
<1>1. CASE Restart
  BY <1>1 DEF Restart, PastIsKnown
<1>2. CASE InvalidateNode \/ InvalidateEntry \/ BlockPull \/ Publish \/ Tick
  BY <1>2 DEF InvalidateNode, InvalidateEntry, BlockPull, Publish, Tick, breakerVars, PastIsKnown
<1>3. CASE OtherPath
  <2>1. /\ UNCHANGED <<pc, hand>>
        /\ UNCHANGED <<offline, past>> \/ MarkOffline \/ offline' = 0
    BY <1>3 DEF OtherPath, Count
  <2>2. QED
    BY <2>1 DEF MarkOffline, PastIsKnown
<1>4. QED
  BY <1>1, <1>2, <1>3, PastRequest DEF Next

-----------------------------------------------------------------------------
(* The theorems. *)

LEMMA AllInit == Init => AllInv
<1> SUFFICES ASSUME Init PROVE AllInv
  OBVIOUS
<1> USE RemoteCacheConstants DEF Init
<1>1. brake \in BOOLEAN /\ inv \in BOOLEAN /\ returned \in BOOLEAN
  OBVIOUS
<1>2. Empty \in Hands /\ NoEntry \in Entries
  BY DEF Empty, Hands, NoEntry, Entries, NoCopy, NoTag
<1>3. TypeOK
  BY <1>1, <1>2 DEF TypeOK, Pcs, NoCopy
<1>4. FlyingOwns /\ PastIsKnown
  BY DEF FlyingOwns, Flying, PastIsKnown
<1>5. NoFuture
  BY DEF NoFuture, Empty
<1>6. RowsFollowUpstream /\ ExpiryIsVouched
  BY DEF RowsFollowUpstream, ExpiryIsVouched, Versions, NoCopy, NoEntry, NoTag
<1>7. HandIsCurrent /\ AnswerIsVouched /\ CheckStillHolds
  BY DEF HandIsCurrent, AnswerIsVouched, CheckStillHolds
<1>8. QED
  BY <1>3, <1>4, <1>5, <1>6, <1>7 DEF AllInv, RowInv

LEMMA AllStutter == AllInv /\ UNCHANGED vars => AllInv'
  BY DEF AllInv, TypeOK, FlyingOwns, RowInv, NoFuture, RowsFollowUpstream, ExpiryIsVouched,
         HandIsCurrent, AnswerIsVouched, SentIsOwn, LandingIsVouched, SlideIsVouched, Matching,
         CheckStillHolds, PastIsKnown, NegativeFresh, EntryFresh, TTLFor, vars, worldVars, cacheVars, breakerVars

LEMMA AllAlways == Spec => []AllInv
<1>1. AllInv /\ Next => AllInv'
  BY TypeNext, FlyNext, RowNext, PastNext DEF AllInv, RowInv
<1>2. QED
  BY <1>1, AllInit, AllStutter, PTL DEF Spec

\* Every reachable state is well typed.
THEOREM TypeCorrect == Spec => []TypeOK
<1>1. AllInv => TypeOK
  BY DEF AllInv
<1>2. QED
  BY <1>1, AllAlways, PTL

\* acquireFlight lets one request at a time contact the upstream for a path, through every early
\* return, timeout, cancellation and restart.
THEOREM OneContact == Spec => []OneContactPerPath
<1>1. AllInv => OneContactPerPath
  BY DEF AllInv, FlyingOwns, OneContactPerPath
<1>2. QED
  BY <1>1, AllAlways, PTL

\* The rows at any instant: a copy whose row is fresh was vouched for by the upstream within the
\* TTL of its class, whatever write failed and whatever was invalidated, landed or confirmed in
\* between; where the upstream went back to an earlier version, if the row's validators are the
\* copy's.  What a lookup serves from two reads of these rows is another matter.
THEOREM FreshIsVouched == Spec => []FreshCopyIsVouched
<1>1. AllInv => FreshCopyIsVouched
  BY Fields, TTLNat DEF AllInv, RowInv, ExpiryIsVouched, Matching, FreshCopyIsVouched, EntryFresh
<1>2. QED
  BY <1>1, AllAlways, PTL

\* A contact is made only when no recorded miss and no fresh copy answers, and inside an offline
\* window only by those who had passed its check before it was opened.
THEOREM ContactsAreNeeded == Spec => ContactIsNeeded
<1> DEFINE Needed ==
      \A r \in Requests :
        (pc[r] = "contact" /\ pc'[r] = "sent") =>
            /\ ~NegativeFresh
            /\ ~(node # NoCopy /\ EntryFresh(clock))
            /\ (~hand[r].ext /\ clock < offline) => r \in past
<1>1. AllInv => Needed
  <2> SUFFICES ASSUME AllInv, NEW r \in Requests, pc[r] = "contact"
               PROVE  /\ ~NegativeFresh
                      /\ ~(node # NoCopy /\ EntryFresh(clock))
                      /\ (~hand[r].ext /\ clock < offline) => r \in past
    OBVIOUS
  <2>1. ~NegativeFresh /\ ~(node # NoCopy /\ EntryFresh(clock))
    BY DEF AllInv, RowInv, CheckStillHolds
  <2>2. clock < offline => offline # 0
    BY DEF AllInv, TypeOK
  <2>3. QED
    BY <2>1, <2>2 DEF AllInv, PastIsKnown
<1>2. QED
  BY <1>1, AllAlways, PTL DEF Spec, ContactIsNeeded
=============================================================================

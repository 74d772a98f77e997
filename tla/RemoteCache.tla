---------------------------- MODULE RemoteCache -----------------------------
(***************************************************************************)
(* The pull-through cache of a remote repository (internal/remote): one    *)
(* path, its node row and its remote_cache row, the requests that look it  *)
(* up, wait for each other, contact the upstream and land the answer, the  *)
(* assumed-offline window of the repository, to which requests of its      *)
(* other paths report as well, and invalidation.                           *)
(*                                                                         *)
(* Every row access is a step of its own.  Reads of the store do not fail, *)
(* writes may.  A copy is the number of the upstream version it was        *)
(* fetched from, its validators (ETag, Last-Modified) are the same number, *)
(* also when the upstream returns to an earlier version.  Times are        *)
(* seconds of a common clock.                                              *)
(***************************************************************************)
EXTENDS Integers, FiniteSets

CONSTANTS
    Requests,     \* request slots
    NoReq,        \* nobody
    ContentTTL,   \* contentTTLSeconds
    MetadataTTL,  \* metadataTTLSeconds
    MissTTL,      \* missedRetrievalCachePeriodSecs
    Window,       \* assumedOfflinePeriodSecs
    FirstVersion, \* what the upstream holds at the start
    MaxVersions,  \* bound on the versions of the upstream
    MaxRequests,  \* bound on requests
    MaxTurns,     \* bound on invalidations, brakes, crashes, changes upstream and other paths' reports
    MaxTime       \* bound on the clock

ASSUME RemoteCacheConstants ==
    /\ NoReq \notin Requests
    /\ {ContentTTL, MetadataTTL, MissTTL, MaxRequests, MaxTurns, MaxTime} \subseteq Nat
    /\ {Window, MaxVersions} \subseteq Nat \ {0}
    /\ FirstVersion \in 1..MaxVersions

Versions == 1..MaxVersions
NoCopy == 0
NoTag == 0
NoEntry == [kind |-> "none", tag |-> NoTag, exp |-> 0]
Entries == [kind : {"none", "content", "metadata", "negative"}, tag : 0..MaxVersions, exp : Nat]
Pcs == {"idle", "neg", "node", "cache", "gate", "flight", "wait", "woken", "double", "recheck",
        "contact", "sent", "miss", "land", "state", "slide"}

\* What a request carries: whether it is a FetchAbsolute, the instant its pass goes by, the copy
\* it found, the validator it sent, the version it was answered, the row a 304 keeps.
Empty == [ext |-> FALSE, now |-> 0, copy |-> NoCopy, tag |-> NoTag, got |-> NoCopy, kept |-> NoEntry]
Hands == [ext : BOOLEAN, now : Nat, copy : 0..MaxVersions, tag : 0..MaxVersions,
          got : 0..MaxVersions, kept : Entries]

\* offlineWindowFaultThreshold
Threshold == 2

VARIABLES
    clock,
    class,    \* classifyPath of the path
    upstream, \* the version the upstream holds
    node,     \* the node row: the cached copy
    entry,    \* the remote_cache row
    flight,   \* the owner of the path's slot in e.flights
    offline,  \* e.offline: the end of the window, 0 when there is none
    faults,   \* e.faults
    brake,    \* the global pull block
    inv,      \* Invalidate between its two deletions
    pc,       \* per request
    hand,     \* what it carries from step to step
    requests, \* requests so far
    turns,    \* bounded events so far
    returned, \* history: the upstream has gone back to an earlier version
    vouched,  \* history: when the upstream last answered with a version or confirmed it
    real,     \* history: upstream faults since it last answered
    past      \* history: the requests already beyond the window check when it was opened

cacheVars == <<node, entry>>
breakerVars == <<offline, faults, real, past>>
worldVars == <<clock, class, upstream, brake, inv, requests, turns, vouched, returned>>
vars == <<worldVars, cacheVars, flight, breakerVars, pc, hand>>

Init ==
    /\ clock = 0
    /\ class \in {"content", "metadata"}
    /\ upstream = FirstVersion
    /\ node = NoCopy
    /\ entry = NoEntry
    /\ flight = NoReq
    /\ offline = 0
    /\ faults = 0
    /\ brake = FALSE
    /\ inv = FALSE
    /\ pc = [r \in Requests |-> "idle"]
    /\ hand = [r \in Requests |-> Empty]
    /\ requests = 0
    /\ turns = 0
    /\ vouched = [v \in Versions |-> 0]
    /\ returned = FALSE
    /\ real = 0
    /\ past = {}

TTLFor(kind) ==
    CASE kind = "metadata" -> MetadataTTL
      [] kind = "negative" -> MissTTL
      [] OTHER -> ContentTTL

\* Slip: the sign of the TTL.
ExpiryBackwards(at, kind) == at - TTLFor(kind)

Expiry(at, kind) == at + TTLFor(kind)

EntryFresh(at) == entry.kind # "none" /\ at < entry.exp

NegativeFresh == entry.kind = "negative" /\ EntryFresh(clock)

Goes(r, to) == pc' = [pc EXCEPT ![r] = to]

\* Slip: the release is deferred before the flight is acquired, so a waiter that gives up
\* releases the owner's flight.
EndsDeferredEarly(r) ==
    /\ hand' = [hand EXCEPT ![r] = Empty]
    /\ flight' = NoReq
    /\ pc' = [q \in Requests |-> IF q = r THEN "idle" ELSE IF pc[q] = "wait" THEN "woken" ELSE pc[q]]

\* Slip: the slot is cleared, the channel is not closed.
EndsUnannounced(r) ==
    /\ hand' = [hand EXCEPT ![r] = Empty]
    /\ flight' = IF flight = r THEN NoReq ELSE flight
    /\ pc' = [pc EXCEPT ![r] = "idle"]

\* The request returns with its answer: the copy it found, the one it landed, or a status.
\* When it owns the flight, releaseFlight clears the slot and closes the channel its waiters
\* wait on.
Ends(r) ==
    /\ hand' = [hand EXCEPT ![r] = Empty]
    /\ flight' = IF flight = r THEN NoReq ELSE flight
    /\ pc' = [q \in Requests |-> IF q = r THEN "idle"
                                 ELSE IF flight = r /\ pc[q] = "wait" THEN "woken" ELSE pc[q]]

-----------------------------------------------------------------------------
(* The lookup: steps 3, 4 and 5a. *)

Fetch(r) ==
    /\ pc[r] = "idle"
    /\ requests < MaxRequests
    /\ requests' = requests + 1
    /\ \E x \in BOOLEAN : hand' = [hand EXCEPT ![r].ext = x]
    /\ Goes(r, "neg")
    /\ UNCHANGED <<clock, class, upstream, brake, inv, turns, vouched, returned, cacheVars, flight,
                   breakerVars>>

NegativeHit(r) ==
    /\ pc[r] = "neg"
    /\ NegativeFresh
    /\ Ends(r)
    /\ UNCHANGED <<worldVars, cacheVars, breakerVars>>

\* Not a known miss: a pass of the lookup begins, with its own instant and checks of its own.
Attempt(r) ==
    /\ pc[r] = "neg"
    /\ ~NegativeFresh
    /\ hand' = [hand EXCEPT ![r].now = clock]
    /\ past' = past \ {r}
    /\ Goes(r, "node")
    /\ UNCHANGED <<worldVars, cacheVars, flight, offline, faults, real>>

ReadNode(r) ==
    /\ pc[r] = "node"
    /\ hand' = [hand EXCEPT ![r].copy = node]
    /\ Goes(r, "cache")
    /\ UNCHANGED <<worldVars, cacheVars, flight, breakerVars>>

\* A fresh row serves the copy, whatever the row's kind.
Usable(r) == hand[r].copy # NoCopy /\ EntryFresh(hand[r].now)

ServeHit(r) ==
    /\ pc[r] = "cache"
    /\ Usable(r)
    /\ Ends(r)
    /\ UNCHANGED <<worldVars, cacheVars, breakerVars>>

NotFresh(r) ==
    /\ pc[r] = "cache"
    /\ ~Usable(r)
    /\ Goes(r, "gate")
    /\ UNCHANGED <<worldVars, cacheVars, flight, breakerVars, hand>>

\* An absolute fetch does not consult the window.
InWindow(r) == ~hand[r].ext /\ offline # 0 /\ hand[r].now < offline

\* The brake or the window answers.
GateCloses(r) ==
    /\ pc[r] = "gate"
    /\ brake \/ InWindow(r)
    /\ Ends(r)
    /\ UNCHANGED <<worldVars, cacheVars, breakerVars>>

\* A window that is over is removed, with the count.
GateOpens(r) ==
    /\ pc[r] = "gate"
    /\ ~brake /\ ~InWindow(r)
    /\ IF ~hand[r].ext /\ offline # 0
       THEN offline' = 0 /\ faults' = 0 /\ real' = 0 /\ past' = {}
       ELSE UNCHANGED <<offline, faults, real, past>>
    /\ Goes(r, "flight")
    /\ UNCHANGED <<worldVars, cacheVars, flight, hand>>

-----------------------------------------------------------------------------
(* Singleflight: step 5b. *)

AcquireFlight(r) ==
    /\ pc[r] = "flight"
    /\ flight = NoReq
    /\ flight' = r
    /\ Goes(r, "double")
    /\ UNCHANGED <<worldVars, cacheVars, breakerVars, hand>>

JoinFlight(r) ==
    /\ pc[r] = "flight"
    /\ flight # NoReq
    /\ Goes(r, "wait")
    /\ UNCHANGED <<worldVars, cacheVars, flight, breakerVars, hand>>

\* The pass is over, what it found is dropped.
WaitDone(r) ==
    /\ pc[r] = "woken"
    /\ hand' = [hand EXCEPT ![r] = [Empty EXCEPT !.ext = hand[r].ext]]
    /\ Goes(r, "neg")
    /\ UNCHANGED <<worldVars, cacheVars, flight, breakerVars>>

\* metadataRetrievalTimeoutSecs; a content path waits without a limit.
WaitTimeout(r) ==
    /\ pc[r] \in {"wait", "woken"}
    /\ class = "metadata"
    /\ Ends(r)
    /\ UNCHANGED <<worldVars, cacheVars, breakerVars>>

WaitCanceled(r) ==
    /\ pc[r] \in {"wait", "woken"}
    /\ Ends(r)
    /\ UNCHANGED <<worldVars, cacheVars, breakerVars>>

\* The winner looks again.
DoubleNegative(r) ==
    /\ pc[r] = "double"
    /\ NegativeFresh
    /\ Ends(r)
    /\ UNCHANGED <<worldVars, cacheVars, breakerVars>>

\* Slip: the winner does not look for a recorded miss (before BIN-113).
DoubleReadOnly(r) ==
    /\ pc[r] = "double"
    /\ IF node # NoCopy
       THEN hand' = [hand EXCEPT ![r].copy = node] /\ Goes(r, "recheck")
       ELSE UNCHANGED hand /\ Goes(r, "contact")
    /\ UNCHANGED <<worldVars, cacheVars, flight, breakerVars>>

\* A copy that is gone since does not replace the one the lookup found.
DoubleRead(r) ==
    /\ pc[r] = "double"
    /\ ~NegativeFresh
    /\ IF node # NoCopy
       THEN hand' = [hand EXCEPT ![r].copy = node] /\ Goes(r, "recheck")
       ELSE UNCHANGED hand /\ Goes(r, "contact")
    /\ UNCHANGED <<worldVars, cacheVars, flight, breakerVars>>

DoubleHit(r) ==
    /\ pc[r] = "recheck"
    /\ Usable(r)
    /\ Ends(r)
    /\ UNCHANGED <<worldVars, cacheVars, breakerVars>>

DoubleMiss(r) ==
    /\ pc[r] = "recheck"
    /\ ~Usable(r)
    /\ Goes(r, "contact")
    /\ UNCHANGED <<worldVars, cacheVars, flight, breakerVars, hand>>

-----------------------------------------------------------------------------
(* The upstream contact. *)

\* An expired copy of a metadata path goes out with the validators of its row.
Contact(r) ==
    /\ pc[r] = "contact"
    /\ hand' = [hand EXCEPT ![r].tag =
                    IF class = "metadata" /\ hand[r].copy # NoCopy THEN entry.tag ELSE NoTag]
    /\ Goes(r, "sent")
    /\ UNCHANGED <<worldVars, cacheVars, flight, breakerVars>>

\* upstreamReached: the configured upstream gave an answer.
Reached(r) ==
    /\ IF hand[r].ext THEN UNCHANGED <<faults, real>> ELSE faults' = 0 /\ real' = 0
    /\ UNCHANGED <<offline, past>>

\* markOffline.  The requests between the window check and the contact will not see it.
MarkOffline ==
    /\ offline' = clock + Window
    /\ past' = {q \in Requests : pc[q] \in {"flight", "double", "recheck", "contact"}}

\* An answer to be written, with the instant it came.
Answered(r, got, kept) ==
    hand' = [hand EXCEPT ![r] = [Empty EXCEPT !.ext = hand[r].ext, !.now = clock, !.got = got,
                                              !.kept = kept]]

Respond200(r) ==
    /\ pc[r] = "sent"
    /\ Reached(r)
    /\ Answered(r, upstream, NoEntry)
    /\ vouched' = [vouched EXCEPT ![upstream] = clock]
    /\ Goes(r, "land")
    /\ UNCHANGED <<clock, class, upstream, brake, inv, requests, turns, returned, cacheVars, flight>>

Respond404(r) ==
    /\ pc[r] = "sent"
    /\ Reached(r)
    /\ Answered(r, NoCopy, NoEntry)
    /\ Goes(r, "miss")
    /\ UNCHANGED <<worldVars, cacheVars, flight>>

\* 401, 403 and any other 4xx.
Respond4xx(r) ==
    /\ pc[r] = "sent"
    /\ Reached(r)
    /\ Ends(r)
    /\ UNCHANGED <<worldVars, cacheVars>>

Respond5xx(r) ==
    /\ pc[r] = "sent"
    /\ IF hand[r].ext THEN UNCHANGED breakerVars
       ELSE faults' = 0 /\ real' = 0 /\ MarkOffline
    /\ Ends(r)
    /\ UNCHANGED <<worldVars, cacheVars>>

\* A 304 confirms the version it was asked about; one that was not asked for confirms the copy.
Asked(r) == IF hand[r].tag = NoTag THEN hand[r].copy ELSE hand[r].tag

\* The row as it stands is read for the refresh.
Respond304(r) ==
    /\ pc[r] = "sent"
    /\ hand[r].tag \in {NoTag, upstream}
    /\ hand[r].copy # NoCopy
    /\ Reached(r)
    /\ Answered(r, NoCopy, entry)
    /\ vouched' = [vouched EXCEPT ![Asked(r)] = clock]
    /\ Goes(r, "slide")
    /\ UNCHANGED <<clock, class, upstream, brake, inv, requests, turns, returned, cacheVars, flight>>

\* A 304 without a copy is a 502.
Respond304Bare(r) ==
    /\ pc[r] = "sent"
    /\ hand[r].copy = NoCopy
    /\ Reached(r)
    /\ Ends(r)
    /\ UNCHANGED <<worldVars, cacheVars>>

\* noteTransportFault: the count is c now; n is the part of it the upstream caused.
Count(n, c) ==
    /\ faults' = c
    /\ real' = n
    /\ IF c >= Threshold THEN MarkOffline ELSE UNCHANGED <<offline, past>>

\* mapTransportFault: an absolute fetch reports nothing.
NoteFault(r, n, c) == IF hand[r].ext THEN UNCHANGED breakerVars ELSE Count(n, c)

TransportFault(r) ==
    /\ pc[r] = "sent"
    /\ NoteFault(r, real + 1, faults + 1)
    /\ Ends(r)
    /\ UNCHANGED <<worldVars, cacheVars>>

\* The caller's context ended: the client's error takes the same arm.
CallerGone(r) ==
    /\ pc[r] = "sent"
    /\ NoteFault(r, real, faults + 1)
    /\ Ends(r)
    /\ UNCHANGED <<worldVars, cacheVars>>

\* A refused target or a document above the cap.
Rejected(r) ==
    /\ pc[r] = "sent"
    /\ Ends(r)
    /\ UNCHANGED <<worldVars, cacheVars, breakerVars>>

\* The body of an artifact breaks off; the answer had restarted the count.
BodyFault(r) ==
    /\ pc[r] = "land"
    /\ class = "content"
    /\ NoteFault(r, real + 1, faults + 1)
    /\ Ends(r)
    /\ UNCHANGED <<worldVars, cacheVars>>

-----------------------------------------------------------------------------
(* The rows an answer leaves. *)

\* Slip: the miss is recorded by moving the expiry of the row that is there.
PutNegativeMoves(r) ==
    /\ pc[r] = "miss"
    /\ entry' = [entry EXCEPT !.exp = Expiry(hand[r].now, "negative")]
    /\ Ends(r)
    /\ UNCHANGED <<worldVars, node, breakerVars>>

PutNegative(r) ==
    /\ pc[r] = "miss"
    /\ entry' = [kind |-> "negative", tag |-> NoTag, exp |-> Expiry(hand[r].now, "negative")]
    /\ Ends(r)
    /\ UNCHANGED <<worldVars, node, breakerVars>>

\* The refresh keeps kind and validators of the row that was read.
Slide(r) ==
    LET kind == IF hand[r].kept.kind = "none" THEN "content" ELSE hand[r].kept.kind IN
    /\ pc[r] = "slide"
    /\ entry' = [kind |-> kind, tag |-> hand[r].kept.tag, exp |-> Expiry(hand[r].now, kind)]
    /\ Ends(r)
    /\ UNCHANGED <<worldVars, node, breakerVars>>

\* The session, the blob row and the node row, in this order.
LandNode(r) ==
    /\ pc[r] = "land"
    /\ node' = hand[r].got
    /\ Goes(r, "state")
    /\ UNCHANGED <<worldVars, entry, flight, breakerVars, hand>>

LandState(r) ==
    /\ pc[r] = "state"
    /\ entry' = [kind |-> class, tag |-> hand[r].got, exp |-> Expiry(hand[r].now, class)]
    /\ Ends(r)
    /\ UNCHANGED <<worldVars, node, breakerVars>>

\* A write fails: what was written before it stays.
WriteFails(r) ==
    /\ pc[r] \in {"miss", "slide", "land", "state"}
    /\ Ends(r)
    /\ UNCHANGED <<worldVars, cacheVars, breakerVars>>

-----------------------------------------------------------------------------
(* Everything else. *)

Turn ==
    /\ turns < MaxTurns
    /\ turns' = turns + 1

\* Invalidate deletes the node,
InvalidateNode ==
    /\ ~inv
    /\ Turn
    /\ node' = NoCopy
    /\ inv' = TRUE
    /\ UNCHANGED <<clock, class, upstream, brake, requests, vouched, returned, entry, flight,
                   breakerVars, pc, hand>>

\* and then its cache row.
InvalidateEntry ==
    /\ inv
    /\ inv' = FALSE
    /\ entry' \in {entry, NoEntry}
    /\ UNCHANGED <<clock, class, upstream, brake, requests, turns, vouched, returned, node, flight,
                   breakerVars, pc, hand>>

BlockPull ==
    /\ Turn
    /\ brake' = ~brake
    /\ UNCHANGED <<clock, class, upstream, inv, requests, vouched, returned, cacheVars, flight,
                   breakerVars, pc, hand>>

\* The upstream replaces its version, also by one it had before (a tag or an index rolled back).
Publish ==
    /\ Turn
    /\ \E v \in Versions \ {upstream} :
        /\ upstream' = v
        /\ returned' = (returned \/ v < upstream)
    /\ UNCHANGED <<clock, class, brake, inv, requests, vouched, cacheVars, flight,
                   breakerVars, pc, hand>>

\* The count and the window are the repository's: requests of its other paths are answered, meet
\* a 5xx, a transport fault or the end of their caller's patience, or remove a window that is over.
OtherPath ==
    /\ Turn
    /\ \/ faults' = 0 /\ real' = 0 /\ UNCHANGED <<offline, past>>
       \/ faults' = 0 /\ real' = 0 /\ MarkOffline
       \/ \E n \in {real, real + 1} : Count(n, faults + 1)
       \/ /\ offline # 0 /\ clock >= offline
          /\ offline' = 0 /\ faults' = 0 /\ real' = 0 /\ past' = {}
    /\ UNCHANGED <<clock, class, upstream, brake, inv, requests, vouched, returned, cacheVars,
                   flight, pc, hand>>

Tick ==
    /\ clock < MaxTime
    /\ clock' = clock + 1
    /\ UNCHANGED <<class, upstream, brake, inv, requests, turns, vouched, returned, cacheVars, flight,
                   breakerVars, pc, hand>>

\* The process ends and starts again: the rows stay, the maps are gone.
Restart ==
    /\ Turn
    /\ flight' = NoReq
    /\ offline' = 0
    /\ faults' = 0
    /\ real' = 0
    /\ past' = {}
    /\ inv' = FALSE
    /\ pc' = [r \in Requests |-> "idle"]
    /\ hand' = [r \in Requests |-> Empty]
    /\ UNCHANGED <<clock, class, upstream, brake, requests, vouched, returned, cacheVars>>

-----------------------------------------------------------------------------
Lookup(r) ==
    \/ NegativeHit(r) \/ Attempt(r) \/ ReadNode(r) \/ ServeHit(r) \/ NotFresh(r)
    \/ GateCloses(r) \/ GateOpens(r)
    \/ AcquireFlight(r) \/ JoinFlight(r) \/ WaitDone(r)
    \/ DoubleNegative(r) \/ DoubleRead(r) \/ DoubleHit(r) \/ DoubleMiss(r) \/ Contact(r)

Answer(r) ==
    \/ Respond200(r) \/ Respond404(r) \/ Respond4xx(r) \/ Respond5xx(r)
    \/ Respond304(r) \/ Respond304Bare(r)
    \/ TransportFault(r) \/ CallerGone(r) \/ Rejected(r)

Land(r) == PutNegative(r) \/ Slide(r) \/ LandNode(r) \/ LandState(r) \/ BodyFault(r) \/ WriteFails(r)

Serve(r) == Lookup(r) \/ Answer(r) \/ Land(r)

Next ==
    \/ \E r \in Requests : Fetch(r) \/ Serve(r) \/ WaitTimeout(r) \/ WaitCanceled(r)
    \/ InvalidateNode \/ InvalidateEntry \/ BlockPull \/ Publish \/ OtherPath \/ Tick \/ Restart

Spec == Init /\ [][Next]_vars

\* A request runs on, and the client's socket timeout ends a contact the upstream leaves open.
\* Nothing makes a waiter time out or its caller leave.
FairSpec == Spec /\ \A r \in Requests : WF_vars(Serve(r))

-----------------------------------------------------------------------------
(* Properties. *)

\* Every variable has its type (remote_cache, Engine.offline, faults and flights).
TypeOK ==
    /\ clock \in Nat
    /\ class \in {"content", "metadata"}
    /\ upstream \in Nat
    /\ node \in 0..MaxVersions
    /\ entry \in Entries
    /\ flight \in Requests \cup {NoReq}
    /\ offline \in Nat
    /\ faults \in Nat
    /\ brake \in BOOLEAN
    /\ inv \in BOOLEAN
    /\ pc \in [Requests -> Pcs]
    /\ hand \in [Requests -> Hands]
    /\ requests \in Nat
    /\ turns \in Nat
    /\ vouched \in [Versions -> Nat]
    /\ returned \in BOOLEAN
    /\ real \in Nat
    /\ past \subseteq Requests

Flying == {"double", "recheck", "contact", "sent", "miss", "land", "state", "slide"}

\* acquireFlight, releaseFlight: "one in-flight fetch per (repo, path)", across every early
\* return, timeout, cancellation and restart.
OneContactPerPath ==
    \A r, q \in Requests : (pc[r] \in Flying /\ pc[q] \in Flying) => r = q

\* "The upstream is contacted ONLY with the flight held" and, with the winner's double check,
\* never for what a recorded miss or a fresh copy already answers (BIN-113).  The offline window
\* silences every request that was not already past its check when it was opened; a waiter
\* checks again when it is released.
ContactIsNeeded ==
    [][\A r \in Requests :
        (pc[r] = "contact" /\ pc'[r] = "sent") =>
            /\ ~NegativeFresh
            /\ ~(node # NoCopy /\ EntryFresh(clock))
            /\ (~hand[r].ext /\ clock < offline) => r \in past]_vars

\* At rest or in the middle of a landing, a copy whose row is fresh is a version the upstream
\* answered with, or confirmed, within the TTL of its class: a failed or lost write leaves no
\* old copy under a new clock.  Where the upstream has gone back to an earlier version this is
\* said only of a row without validators or with those of the copy itself: CopyIsVouched is
\* what fails for the others.
FreshCopyIsVouched ==
    (/\ node # NoCopy /\ entry.kind = class /\ EntryFresh(clock)
     /\ returned => entry.tag \in {NoTag, node}) =>
        clock < vouched[node] + TTLFor(class)

\* cachestate.go:32: "the upstream confirmed the expired copy still stands".  Then a fresh copy
\* would be a vouched one whatever the upstream published before.
CopyIsVouched ==
    (node # NoCopy /\ entry.kind = class /\ EntryFresh(clock)) =>
        clock < vouched[node] + TTLFor(class)

\* Every request is answered: no waiter is left behind by the flight it joined.
EveryRequestReturns == \A r \in Requests : pc[r] # "idle" ~> pc[r] = "idle"

\* "CacheHit: a local copy within its TTL window served the request" (cachestate.go).
HitIsInsideTTL ==
    [][\A r \in Requests :
        (ServeHit(r) \/ DoubleHit(r)) =>
            hand[r].now < vouched[hand[r].copy] + TTLFor(class)]_vars

\* "offlineWindowFaultThreshold is how many CONSECUTIVE configured-upstream transport faults
\* open the assumed-offline window": the count that opens it is the upstream's.
OnlyUpstreamOpensWindow == faults >= Threshold => real >= Threshold
=============================================================================

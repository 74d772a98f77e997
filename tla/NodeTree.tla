----------------------------- MODULE NodeTree ------------------------------
(***************************************************************************)
(* The node tree of the repository service (internal/repo): deploys with   *)
(* their quota check and their ancestor folder rows, deletes with the      *)
(* trash capture and the pruning of empty parents, the copy/move pipeline, *)
(* restore and purge of the trash can and its retention cron, over the     *)
(* nodes, node_props and repo_usage tables.                                *)
(*                                                                         *)
(* Every statement that writes is a step of its own; a row and the usage   *)
(* counter change in one transaction.  Reads that follow each other with   *)
(* no write between them and only decide one early return are one step.    *)
(* A path is the same in every repository: a capture, a restore, a copy    *)
(* and a move address the same path elsewhere.  In the can every path lies *)
(* under the folder Key, the repository's key.  A file's content stands    *)
(* for its digest.                                                         *)
(***************************************************************************)
EXTENDS Integers, Sequences, FiniteSets, FiniteSetsExt, SequencesExt

CONSTANTS
    Clients,     \* request slots, numbered
    Cron,        \* the retention engine
    Files,       \* file paths
    Folders,     \* folder paths, Key among them
    Key,         \* the can's top folder
    Over,        \* the ancestor folders of a path, by its prefixes
    Order,       \* all paths in path order: a folder stands before what it holds
    Contents,    \* what a file may hold
    Size,        \* its size
    Nothing,     \* the content of a row that is not there
    Marker,      \* the content of a folder row
    Quota,       \* quotaBytes of a repository, 0 when it has none
    Jobs,        \* the requests that may arrive
    Seed,        \* the files deployed at the start
    MaxRequests, \* bound on requests
    MaxBusy,     \* bound on requests and retention passes at once
    MaxMishaps   \* bound on crashes and failing statements together

Lib == "libs"
Stage == "stage"
Can == "auto-trashcan"
Repos == {Lib, Stage, Can}
Paths == Files \cup Folders
Workers == Clients \cup {Cron}
Marks == {"none", "new", "old"}
Ops == {"put", "delete", "move", "copy", "restore", "purge"}

ASSUME NodeTreeConstants ==
    /\ Clients \subseteq Nat /\ Cron \notin Clients
    /\ Key \in Folders /\ Files \cap Folders = {}
    /\ Over \in [Paths -> SUBSET Folders] /\ Over[Key] = {}
    /\ \A p \in Paths : \A d \in Over[p] : Over[d] \subseteq Over[p]
    /\ Order \in Seq(Paths) /\ ToSet(Order) = Paths
    /\ Size \in [Contents -> Nat]
    /\ Nothing \notin Contents /\ Marker \notin Contents \cup {Nothing}
    /\ Quota \in [Repos -> Nat] /\ Quota[Can] = 0
    /\ Jobs \subseteq [op : Ops, p : Paths, c : Contents \cup {Nothing}, flag : BOOLEAN]
    /\ Seed \in [Files -> Contents \cup {Nothing}]
    /\ MaxRequests \in Nat /\ MaxBusy \in Nat /\ MaxMishaps \in Nat

\* A row: its content, whether its updated_at is before the retention cutoff, and whether its
\* trash.time is absent, within the retention or before the cutoff.
Row == [c : Contents \cup {Nothing, Marker}, old : BOOLEAN, mark : Marks]
NoRow == [c |-> Nothing, old |-> FALSE, mark |-> "none"]
FolderRow == [NoRow EXCEPT !.c = Marker]

Weight(c) == IF c \in Contents THEN Size[c] ELSE 0

\* What the files of a repository weigh together.
Sizes(table) == MapThenSumSet(LAMBDA p : Weight(table[p].c), Paths)

\* ancestorDirs and the paths a prefix query matches.
Above(r, p) == Over[p] \cup (IF r = Can /\ p # Key THEN {Key} ELSE {})
Within(r, p) == {q \in Paths : q = p \/ p \in Above(r, q)}
\* The rows of S in path order, as every listing returns them.
Listing(S) ==
    LET upTo[n \in 0 .. Len(Order)] ==
            IF n = 0 THEN <<>>
            ELSE IF Order[n] \in S THEN Append(upTo[n - 1], Order[n]) ELSE upTo[n - 1]
    IN  upTo[Len(Order)]
Chain(r, p) == Listing(Above(r, p))

VARIABLES
    rows,     \* the nodes table with the trash.time of its rows
    usage,    \* repo_usage
    hand,     \* per request: where it is and what it carries
    requests, \* requests so far
    mishaps,  \* crashes and failures so far
    torn      \* history: folder rows taken from under a file by two requests at once, or by a folder delete

vars == <<rows, usage, hand, requests, mishaps, torn>>

Pcs == {"idle", "auth", "quota", "dirs", "land", "probe", "walk", "item", "props", "merge", "drop",
        "empty", "prune", "unfold", "sweep", "unmake", "marks", "mark", "doom", "row", "purge",
        "purging", "retain", "expire", "fold"}

\* What a request carries: the job, its flag the active trash can of a delete or the failFast of a
\* copy or move; the rows still to do and the rows its walk listed; the
\* ancestors still to write or to prune; the size it replaces; what its probe of a target found,
\* the properties it copies; the items that failed, the folders it created, the folders it pruned,
\* whether it removed anything.  History: what it copied, whether it ran alone.
Idle == [pc |-> "idle", op |-> "put", p |-> Key, c |-> Nothing, flag |-> FALSE, todo |-> <<>>,
         saw |-> [q \in Paths |-> NoRow], dirs |-> <<>>, had |-> 0, over |-> FALSE, props |-> "none",
         kept |-> {}, made |-> {}, gone |-> {}, did |-> FALSE, copied |-> {}, alone |-> TRUE]

\* The rows a listing returns, without the properties, which are another table.
Seen(r, listed) == [q \in Paths |-> IF q \in listed THEN [rows[r][q] EXCEPT !.mark = "none"] ELSE NoRow]

Present(r) == {p \in Paths : rows[r][p].c # Nothing}

Init ==
    /\ rows = [r \in Repos |-> [p \in Paths |->
                  IF r # Lib THEN NoRow
                  ELSE IF p \in Files THEN [NoRow EXCEPT !.c = Seed[p]]
                  ELSE IF \E f \in Files : Seed[f] # Nothing /\ p \in Over[f] THEN FolderRow ELSE NoRow]]
    /\ usage = [r \in Repos |-> Sizes(rows[r])]
    /\ hand = [s \in Workers |-> Idle]
    /\ requests = 0
    /\ mishaps = 0
    /\ torn = {}

-----------------------------------------------------------------------------
(* The statements. *)

Becomes(s, h) == hand' = [hand EXCEPT ![s] = h]
Ends(s) == Becomes(s, Idle)

\* Slip: the counter moves by the whole size, also on an overwrite.
PutChargesWhole(r, p, row) ==
    /\ rows' = [rows EXCEPT ![r][p] = row]
    /\ usage' = [usage EXCEPT ![r] = @ + Weight(row.c)]

\* PutNodeWithUsage: the counter moves by the difference to the row the upsert replaces, read in
\* the same transaction.
PutNodeWithUsage(r, p, row) ==
    /\ rows' = [rows EXCEPT ![r][p] = row]
    /\ usage' = [usage EXCEPT ![r] = @ + Weight(row.c) - Weight(rows[r][p].c)]

\* Slip: the row is deleted by a caller that took its size from an older listing.
DeleteRefundsMost(r, p) ==
    /\ rows' = [rows EXCEPT ![r][p] = NoRow]
    /\ usage' = [usage EXCEPT ![r] = @ - Max({Size[c] : c \in Contents})]

\* DeleteNodeWithUsage; the row's properties go with it.
DeleteNodeWithUsage(r, p) ==
    /\ rows' = [rows EXCEPT ![r][p] = NoRow]
    /\ usage' = [usage EXCEPT ![r] = @ - Weight(rows[r][p].c)]

\* A folder row has no size: the metered and the plain statement do the same.
PutFolderRow(r, d) ==
    /\ rows' = [rows EXCEPT ![r][d] = FolderRow]
    /\ torn' = torn \ {<<r, d>>}
    /\ UNCHANGED usage

DropFolderRow(r, d, excused) ==
    /\ rows' = [rows EXCEPT ![r][d] = NoRow]
    /\ torn' = IF excused THEN torn \cup {<<r, d>>} ELSE torn
    /\ UNCHANGED usage

MarkRow(r, p, m) == rows' = [rows EXCEPT ![r][p].mark = m]

\* Slip: the check leaves out what is being written.
QuotaRefusesLate(r, c, had) ==
    /\ Quota[r] > 0
    /\ Weight(c) > had
    /\ usage[r] > Quota[r]

\* checkQuota: a pre-check on the counter as it is now, not a reservation.
QuotaRefuses(r, c, had) ==
    /\ Quota[r] > 0
    /\ Weight(c) > had
    /\ usage[r] + Weight(c) - had > Quota[r]

bookVars == <<requests, mishaps>>
tableVars == <<rows, usage, torn>>

-----------------------------------------------------------------------------
(* A request arrives. *)

\* The repositories a copy/move run reads from and writes to.
Src(h) == IF h.op = "restore" THEN Can ELSE Lib
Tgt(h) ==
    CASE h.op = "delete" -> Can
      [] h.op \in {"restore", "put"} -> Lib
      [] OTHER -> Stage

ToDirs(h, p) ==
    LET above == Chain(Tgt(h), p)
    IN  [h EXCEPT !.dirs = above, !.pc = IF above = <<>> THEN "land" ELSE "dirs"]

First(h) ==
    CASE h.op = "put" /\ h.p \in Files -> [h EXCEPT !.pc = "auth"]
      [] h.op = "put" /\ h.p \in Folders -> ToDirs(h, h.p)
      [] h.op = "delete" -> [h EXCEPT !.pc = IF h.flag THEN "probe" ELSE "doom"]
      [] h.op = "purge" -> [h EXCEPT !.pc = "purge"]
      [] OTHER -> [h EXCEPT !.pc = "walk"]

\* The history of company: a request that overlaps another no longer runs alone.
Starts(s, h) ==
    LET others == {q \in Workers \ {s} : hand[q].pc # "idle"} IN
    /\ Cardinality(others) < MaxBusy
    /\ hand' = [q \in Workers |->
                   IF q = s THEN [h EXCEPT !.alone = others = {}]
                   ELSE IF q \in others THEN [hand[q] EXCEPT !.alone = FALSE]
                   ELSE hand[q]]

\* It takes the first free slot: slots stand for nothing.
Arrives(s) ==
    /\ hand[s].pc = "idle"
    /\ \A q \in Clients : q < s => hand[q].pc # "idle"
    /\ requests < MaxRequests
    /\ requests' = requests + 1
    /\ \E j \in Jobs :
          Starts(s, First([Idle EXCEPT !.op = j.op, !.p = j.p, !.c = j.c, !.flag = j.flag]))
    /\ UNCHANGED <<tableVars, mishaps>>

-----------------------------------------------------------------------------
(* Deploy: PutWithOptions. *)

\* authorizeContentPut reads the row the deploy will replace; the body follows.
AuthorizeContentPut(s) ==
    LET h == hand[s] IN
    /\ h.pc = "auth"
    /\ Becomes(s, [h EXCEPT !.had = Weight(rows[Lib][h.p].c), !.pc = "quota"])
    /\ UNCHANGED <<tableVars, bookVars>>

\* The blob is committed, its size is known.
CheckQuota(s) ==
    LET h == hand[s] IN
    /\ h.pc = "quota"
    /\ IF QuotaRefuses(Lib, h.c, h.had) THEN Ends(s) ELSE Becomes(s, ToDirs(h, h.p))
    /\ UNCHANGED <<tableVars, bookVars>>

\* One ancestor folder row, outermost first.
MaterializeAncestors(s) ==
    LET h == hand[s] IN
    /\ h.pc = "dirs"
    /\ PutFolderRow(Tgt(h), Head(h.dirs))
    /\ Becomes(s, [h EXCEPT !.dirs = Tail(@), !.pc = IF Len(h.dirs) = 1 THEN "land" ELSE "dirs"])
    /\ UNCHANGED bookVars

\* putNode's last statement.  An upsert leaves the properties of the row alone.
PutNode(s) ==
    LET h == hand[s] IN
    /\ h.pc = "land"
    /\ h.op = "put"
    /\ IF h.p \in Folders
       THEN PutFolderRow(Lib, h.p)
       ELSE PutNodeWithUsage(Lib, h.p, [c |-> h.c, old |-> FALSE, mark |-> rows[Lib][h.p].mark]) /\ UNCHANGED torn
    /\ Ends(s)
    /\ UNCHANGED bookVars

-----------------------------------------------------------------------------
(* The copy/move pipeline. *)

\* The item in hand is done.
NextItem(h) == [h EXCEPT !.todo = Tail(@), !.over = FALSE, !.props = "none", !.pc = "item"]

\* An item that failed is kept; failFast gives up there, with no clean-up after the walk.
ItemError(h) ==
    IF h.op \in {"move", "copy"} /\ h.flag
    THEN Idle
    ELSE [NextItem(h) EXCEPT !.dirs = <<>>, !.kept = @ \cup {Head(h.todo)}]

\* captureIntoTrash: with nothing there the delete goes on and answers for itself.
CaptureProbe(s) ==
    LET h == hand[s]
        there == Present(Lib) \cap (IF h.p \in Files THEN {h.p} ELSE Within(Lib, h.p)) IN
    /\ h.pc = "probe"
    /\ Becomes(s, [h EXCEPT !.pc = IF there = {} THEN "doom" ELSE "walk"])
    /\ UNCHANGED <<tableVars, bookVars>>

\* resolveSource wants the row of the root itself, file or folder; then the walk's listing.
Walk(s) ==
    LET h == hand[s]
        listed == Present(Src(h)) \cap Within(Src(h), h.p) IN
    /\ h.pc = "walk"
    /\ IF h.p \notin Present(Src(h))
       THEN Ends(s)
       ELSE Becomes(s, [h EXCEPT !.todo = Listing(listed), !.pc = "item",
                                 !.saw = Seen(Src(h), listed)])
    /\ UNCHANGED <<tableVars, bookVars>>

\* What follows the probe of the target, which said whether the path is taken and what it weighs.
Probed(h, taken, had) ==
    LET p == Head(h.todo) IN
    IF p \in Folders THEN [ToDirs(h, p) EXCEPT !.over = taken]
    ELSE IF QuotaRefuses(Tgt(h), h.saw[p].c, had) THEN ItemError(h)
    ELSE [h EXCEPT !.over = taken, !.pc = "props"]

\* processItem up to the transfer: the probe of the target and the quota.
ProcessItem(s) ==
    LET h == hand[s]
        target == rows[Tgt(h)][Head(h.todo)] IN
    /\ h.pc = "item" /\ h.todo # <<>>
    /\ Becomes(s, Probed(h, target.c # Nothing, Weight(target.c)))
    /\ UNCHANGED <<tableVars, bookVars>>

\* cmHasFileRow and cmHasFolderRow take a failing read for an absent row, and the size that is
\* replaced for 0.
BlindItem(s) ==
    LET h == hand[s] IN
    /\ h.pc = "item" /\ h.todo # <<>>
    /\ mishaps < MaxMishaps
    /\ mishaps' = mishaps + 1
    /\ \E taken \in {FALSE, rows[Tgt(h)][Head(h.todo)].c # Nothing} : Becomes(s, Probed(h, taken, 0))
    /\ UNCHANGED <<tableVars, requests>>

\* An item fails a pattern of the target, or a permission of the user; a restore acts for the
\* system and meets the patterns alone.  The can has none.
RefuseItem(s) ==
    LET h == hand[s] IN
    /\ h.pc = "item" /\ h.todo # <<>>
    /\ h.op \in {"move", "copy", "restore"}
    /\ Becomes(s, ItemError(h))
    /\ UNCHANGED <<tableVars, bookVars>>

\* transfer: the source's properties are read, those of an overridden target dropped.
CarryProps(s) ==
    LET h == hand[s]
        p == Head(h.todo) IN
    /\ h.pc = "props"
    /\ IF h.over THEN MarkRow(Tgt(h), p, "none") ELSE UNCHANGED rows
    /\ Becomes(s, [ToDirs(h, p) EXCEPT !.props = rows[Src(h)][p].mark])
    /\ UNCHANGED <<usage, torn, bookVars>>

\* After the row of a file: a move drops the source, a copy goes on.
Landed(h) == IF h.op \in {"move", "restore"} THEN [h EXCEPT !.pc = "drop"] ELSE NextItem(h)

\* writeFile: the target row carries the source's content and stamps as the walk listed them.
WriteFile(s) ==
    LET h == hand[s]
        p == Head(h.todo)
        g == [h EXCEPT !.copied = @ \cup {p}] IN
    /\ h.pc = "land" /\ h.op # "put"
    /\ p \in Files
    /\ PutNodeWithUsage(Tgt(h), p, [c |-> h.saw[p].c, old |-> h.saw[p].old, mark |-> rows[Tgt(h)][p].mark])
    /\ Becomes(s, IF h.props = "none" THEN Landed(g) ELSE [g EXCEPT !.pc = "merge"])
    /\ UNCHANGED <<torn, bookVars>>

WriteFolder(s) ==
    LET h == hand[s]
        p == Head(h.todo) IN
    /\ h.pc = "land" /\ h.op # "put"
    /\ p \in Folders
    /\ PutFolderRow(Tgt(h), p)
    /\ Becomes(s, [NextItem(h) EXCEPT !.made = IF h.over THEN @ ELSE @ \cup {p}])
    /\ UNCHANGED bookVars

\* writeFolder ends with the folder's properties: when those are refused, by a failing statement
\* or because the row is gone again, the row was written, the item fails, and the folder does not
\* count as one this run created.
FolderPropsFail(s) ==
    LET h == hand[s] IN
    /\ h.pc = "land" /\ h.op # "put"
    /\ Head(h.todo) \in Folders
    /\ mishaps < MaxMishaps
    /\ mishaps' = mishaps + 1
    /\ PutFolderRow(Tgt(h), Head(h.todo))
    /\ Becomes(s, ItemError(h))
    /\ UNCHANGED requests

\* applyDeployProps: the foreign key refuses properties of a row that is gone.
ApplyProps(s) ==
    LET h == hand[s]
        p == Head(h.todo) IN
    /\ h.pc = "merge"
    /\ IF p \in Present(Tgt(h))
       THEN MarkRow(Tgt(h), p, h.props) /\ Becomes(s, Landed(h))
       ELSE UNCHANGED rows /\ Becomes(s, ItemError(h))
    /\ UNCHANGED <<usage, torn, bookVars>>

\* A move deletes the source row by its path, whatever it holds by now.
DropSource(s) ==
    LET h == hand[s]
        p == Head(h.todo) IN
    /\ h.pc = "drop"
    /\ IF p \in Present(Src(h))
       THEN DeleteNodeWithUsage(Src(h), p) /\ Becomes(s, NextItem(h))
       ELSE UNCHANGED <<rows, usage>> /\ Becomes(s, ItemError(h))
    /\ UNCHANGED <<torn, bookVars>>

ToPrune(h) == [h EXCEPT !.dirs = Reverse(Chain(Src(h), h.p)), !.pc = "prune",
                        !.saw = Idle.saw, !.copied = {}]
ToSweep(h) == [h EXCEPT !.todo = IF h.kept = {} THEN <<>> ELSE Reverse(Listing(h.made)), !.pc = "sweep",
                        !.made = {}, !.dirs = <<>>, !.gone = {}]

\* The end of the walk: a move clears the folders it emptied, pinned by the items it kept.
WalkEnds(s) ==
    LET h == hand[s]
        occupied == UNION {Above(Src(h), q) : q \in h.kept}
        walked == {d \in Folders : h.saw[d].c # Nothing} IN
    /\ h.pc = "item" /\ h.todo = <<>>
    /\ Becomes(s, IF h.op \notin {"move", "restore"} THEN ToSweep(h)
                  ELSE IF h.p \in Files THEN ToPrune(h)
                  ELSE [h EXCEPT !.todo = Reverse(Listing(walked \ occupied)), !.pc = "empty"])
    /\ UNCHANGED <<tableVars, bookVars>>

FinishMove(s) ==
    LET h == hand[s] IN
    /\ h.pc = "empty"
    /\ IF h.todo = <<>>
       THEN UNCHANGED tableVars /\ Becomes(s, ToPrune(h))
       ELSE DropFolderRow(Src(h), Head(h.todo), ~h.alone) /\ Becomes(s, [h EXCEPT !.todo = Tail(@)])
    /\ UNCHANGED bookVars

\* sweepEmptyTargets: a folder this run created and that holds nothing goes again.
SweepProbe(s) ==
    LET h == hand[s] IN
    /\ h.pc = "sweep" /\ h.todo # <<>>
    /\ Becomes(s, IF Present(Tgt(h)) \cap Within(Tgt(h), Head(h.todo)) \subseteq {Head(h.todo)}
                  THEN [h EXCEPT !.pc = "unmake"] ELSE [h EXCEPT !.todo = Tail(@)])
    /\ UNCHANGED <<tableVars, bookVars>>

SweepDrop(s) ==
    LET h == hand[s] IN
    /\ h.pc = "unmake"
    /\ IF Head(h.todo) \in Present(Tgt(h))
       THEN /\ DropFolderRow(Tgt(h), Head(h.todo), ~h.alone)
            /\ Becomes(s, [h EXCEPT !.todo = Tail(@), !.pc = "sweep"])
       ELSE UNCHANGED tableVars /\ Ends(s)
    /\ UNCHANGED bookVars

\* Slip: a capture with errors goes on to the delete.
PipelineEndsAnyway(s) ==
    LET h == hand[s] IN
    /\ h.pc = "sweep" /\ h.todo = <<>>
    /\ IF h.op \in {"delete", "restore"} THEN Becomes(s, [h EXCEPT !.pc = "marks"]) ELSE Ends(s)
    /\ UNCHANGED <<tableVars, bookVars>>

\* The result: a capture with an error aborts its delete, a clean one marks the can; a clean
\* restore strips its markers.
PipelineEnds(s) ==
    LET h == hand[s] IN
    /\ h.pc = "sweep" /\ h.todo = <<>>
    /\ IF h.kept = {} /\ h.op \in {"delete", "restore"}
       THEN Becomes(s, [h EXCEPT !.pc = "marks"]) ELSE Ends(s)
    /\ UNCHANGED <<tableVars, bookVars>>

\* The rows to mark or to strip are listed anew.
ListMarks(s) ==
    LET h == hand[s] IN
    /\ h.pc = "marks"
    /\ Becomes(s, [h EXCEPT !.todo = Listing(Present(Tgt(h)) \cap Within(Tgt(h), h.p)), !.pc = "mark"])
    /\ UNCHANGED <<tableVars, bookVars>>

\* A row that went meanwhile fails the mark, and with it the delete.
MarkCaptured(s) ==
    LET h == hand[s] IN
    /\ h.pc = "mark" /\ h.op = "delete"
    /\ IF h.todo = <<>> THEN UNCHANGED rows /\ Becomes(s, [h EXCEPT !.pc = "doom"])
       ELSE IF Head(h.todo) \notin Present(Can) THEN UNCHANGED rows /\ Ends(s)
       ELSE /\ IF Head(h.todo) \in Files THEN MarkRow(Can, Head(h.todo), "new") ELSE UNCHANGED rows
            /\ Becomes(s, [h EXCEPT !.todo = Tail(@)])
    /\ UNCHANGED <<usage, torn, bookVars>>

StripMarks(s) ==
    LET h == hand[s] IN
    /\ h.pc = "mark" /\ h.op = "restore"
    /\ IF h.todo = <<>> THEN UNCHANGED rows /\ Ends(s)
       ELSE MarkRow(Lib, Head(h.todo), "none") /\ Becomes(s, [h EXCEPT !.todo = Tail(@)])
    /\ UNCHANGED <<usage, torn, bookVars>>

-----------------------------------------------------------------------------
(* Delete and the pruning of empty parents. *)

\* The row, or the folder and everything under it, listed at this moment.
ListDoomed(s) ==
    LET h == hand[s]
        doomed == Listing(Present(Lib) \cap Within(Lib, h.p)) IN
    /\ h.pc = "doom"
    /\ IF doomed = <<>> THEN Ends(s) ELSE Becomes(s, [h EXCEPT !.todo = doomed, !.pc = "row"])
    /\ UNCHANGED <<tableVars, bookVars>>

\* One row, in the order of the listing: the folder goes before what it holds.
DropDoomed(s) ==
    LET h == hand[s]
        p == Head(h.todo) IN
    /\ h.pc = "row"
    /\ IF h.todo = <<>>
       THEN /\ UNCHANGED tableVars
            /\ IF h.did THEN Becomes(s, ToPrune(h)) ELSE Ends(s)
       ELSE IF p \notin Present(Lib)
       THEN /\ UNCHANGED tableVars
            /\ IF h.p \in Files THEN Ends(s) ELSE Becomes(s, [h EXCEPT !.todo = Tail(@)])
       ELSE /\ IF p \in Folders THEN DropFolderRow(Lib, p, TRUE)
               ELSE DeleteNodeWithUsage(Lib, p) /\ UNCHANGED torn
            /\ Becomes(s, [h EXCEPT !.todo = Tail(@), !.did = TRUE])
    /\ UNCHANGED bookVars

\* Slip: the prune takes the folder of the path without a look at its other children.
PruneBlind(s) ==
    LET h == hand[s] IN
    /\ h.pc = "prune"
    /\ IF h.dirs = <<>>
       THEN IF h.op = "delete" THEN Ends(s) ELSE Becomes(s, ToSweep(h))
       ELSE Becomes(s, [h EXCEPT !.pc = "unfold"])
    /\ UNCHANGED <<tableVars, bookVars>>

\* A folder with a live child ends the prune; rows under a folder this prune removed do not count.
PruneProbe(s) ==
    LET h == hand[s]
        r == Src(h)
        d == Head(h.dirs)
        live == {q \in Present(r) \cap Within(r, d) : q # d /\ ({q} \cup Above(r, q)) \cap h.gone = {}} IN
    /\ h.pc = "prune"
    /\ IF h.dirs = <<>> \/ live # {}
       THEN IF h.op = "delete" THEN Ends(s) ELSE Becomes(s, ToSweep(h))
       ELSE Becomes(s, [h EXCEPT !.pc = "unfold"])
    /\ UNCHANGED <<tableVars, bookVars>>

PruneDrop(s) ==
    LET h == hand[s]
        r == Src(h)
        d == Head(h.dirs)
        up == [h EXCEPT !.dirs = Tail(@), !.pc = "prune"] IN
    /\ h.pc = "unfold"
    /\ IF d \in Present(r)
       THEN DropFolderRow(r, d, ~h.alone) /\ Becomes(s, [up EXCEPT !.gone = @ \cup {d}])
       ELSE UNCHANGED tableVars /\ Becomes(s, up)
    /\ UNCHANGED bookVars

-----------------------------------------------------------------------------
(* The can: purge by hand, retention by cron. *)

\* trashPurge lists once: files first, then folders from the deepest up.
ListPurge(s) ==
    LET h == hand[s]
        listed == Present(Can) \cap Within(Can, h.p) IN
    /\ h.pc = "purge"
    /\ Becomes(s, [h EXCEPT !.todo = Listing(listed \cap Files) \o Reverse(Listing(listed \cap Folders)),
                            !.pc = "purging"])
    /\ UNCHANGED <<tableVars, bookVars>>

Purge(s) ==
    LET h == hand[s]
        p == Head(h.todo) IN
    /\ h.pc = "purging"
    /\ IF h.todo = <<>> THEN UNCHANGED tableVars /\ Ends(s)
       ELSE /\ IF p \in Folders THEN DropFolderRow(Can, p, ~h.alone)
               ELSE DeleteNodeWithUsage(Can, p) /\ UNCHANGED torn
            /\ Becomes(s, [h EXCEPT !.todo = Tail(@)])
    /\ UNCHANGED bookVars

\* One pass lists the can.
RetentionStarts ==
    /\ hand[Cron].pc = "idle"
    /\ Present(Can) # {}
    /\ Starts(Cron, [Idle EXCEPT !.pc = "retain", !.saw = Seen(Can, Files),
                                 !.todo = Listing(Present(Can) \cap Files),
                                 !.dirs = Listing(Present(Can) \cap Folders)])
    /\ UNCHANGED <<tableVars, bookVars>>

\* Slip: a row without a mark never expires.
ExpiredIfMarked(p) == rows[Can][p].mark = "old"

\* trashExpired: the mark as it is now, else the stamp of the row as listed.
Expired(p) ==
    IF rows[Can][p].mark = "none" THEN hand[Cron].saw[p].old ELSE rows[Can][p].mark = "old"

RetentionCheck ==
    LET h == hand[Cron] IN
    /\ h.pc = "retain" /\ h.todo # <<>>
    /\ Becomes(Cron, IF Expired(Head(h.todo)) THEN [h EXCEPT !.pc = "expire"] ELSE [h EXCEPT !.todo = Tail(@)])
    /\ UNCHANGED <<tableVars, bookVars>>

RetentionDrop ==
    LET h == hand[Cron] IN
    /\ h.pc = "expire"
    /\ DeleteNodeWithUsage(Can, Head(h.todo))
    /\ Becomes(Cron, [h EXCEPT !.todo = Tail(@), !.pc = "retain"])
    /\ UNCHANGED <<torn, bookVars>>

\* A folder with no file beneath it goes, whatever folders it still holds.
RetentionProbe ==
    LET h == hand[Cron] IN
    /\ h.pc = "retain" /\ h.todo = <<>>
    /\ IF h.dirs = <<>> THEN Ends(Cron)
       ELSE IF Present(Can) \cap Within(Can, Head(h.dirs)) \cap Files = {}
       THEN Becomes(Cron, [h EXCEPT !.pc = "fold"])
       ELSE Becomes(Cron, [h EXCEPT !.dirs = Tail(@)])
    /\ UNCHANGED <<tableVars, bookVars>>

RetentionUnfold ==
    LET h == hand[Cron] IN
    /\ h.pc = "fold"
    /\ DropFolderRow(Can, Head(h.dirs), ~h.alone)
    /\ Becomes(Cron, [h EXCEPT !.dirs = Tail(@), !.pc = "retain"])
    /\ UNCHANGED bookVars

-----------------------------------------------------------------------------
(* Failures, time, and the specification. *)

\* A statement fails: inside the transfer of an item this is an error of the item; trashExpired
\* without the properties goes by the stamp; anywhere else the request ends.
StatementFails(s) ==
    LET h == hand[s] IN
    /\ h.pc # "idle"
    /\ mishaps < MaxMishaps
    /\ mishaps' = mishaps + 1
    /\ IF h.op # "put" /\ h.todo # <<>> /\ h.pc \in {"item", "props", "dirs", "land", "merge", "drop"}
       THEN Becomes(s, ItemError(h))
       ELSE IF h.pc = "retain" /\ h.todo # <<>>
       THEN Becomes(s, IF h.saw[Head(h.todo)].old THEN [h EXCEPT !.pc = "expire"] ELSE [h EXCEPT !.todo = Tail(@)])
       ELSE Ends(s)
    /\ UNCHANGED <<tableVars, requests>>

\* The process ends and starts again: every request is gone, the tables stay.
Crash ==
    /\ mishaps < MaxMishaps
    /\ mishaps' = mishaps + 1
    /\ \E s \in Workers : hand[s].pc # "idle"
    /\ hand' = [s \in Workers |-> Idle]
    /\ UNCHANGED <<tableVars, requests>>

\* The retention period passes over everything stamped so far.
Aged(row) ==
    IF row.c \in Contents
    THEN [row EXCEPT !.old = TRUE, !.mark = IF @ = "new" THEN "old" ELSE @]
    ELSE row

TimePasses ==
    /\ rows' = [r \in Repos |-> [p \in Paths |-> Aged(rows[r][p])]]
    /\ rows' # rows
    /\ UNCHANGED <<usage, hand, torn, bookVars>>

Steps(s) ==
    \/ AuthorizeContentPut(s) \/ CheckQuota(s) \/ MaterializeAncestors(s) \/ PutNode(s)
    \/ CaptureProbe(s) \/ Walk(s) \/ ProcessItem(s) \/ CarryProps(s)
    \/ WriteFile(s) \/ WriteFolder(s) \/ ApplyProps(s) \/ DropSource(s)
    \/ WalkEnds(s) \/ FinishMove(s) \/ SweepProbe(s) \/ SweepDrop(s) \/ PipelineEnds(s)
    \/ ListMarks(s) \/ MarkCaptured(s) \/ StripMarks(s)
    \/ ListDoomed(s) \/ DropDoomed(s) \/ PruneProbe(s) \/ PruneDrop(s)
    \/ ListPurge(s) \/ Purge(s)

Retention ==
    \/ RetentionStarts \/ RetentionCheck \/ RetentionDrop \/ RetentionProbe \/ RetentionUnfold

Next ==
    \/ \E s \in Clients : Arrives(s) \/ Steps(s) \/ RefuseItem(s) \/ BlindItem(s) \/ FolderPropsFail(s)
    \/ \E s \in Workers : StatementFails(s)
    \/ Retention
    \/ Crash
    \/ TimePasses

Spec == Init /\ [][Next]_vars

\* A request that can take a step takes it, the cron keeps ticking, time passes.
Fairness ==
    /\ \A s \in Clients : WF_vars(Steps(s))
    /\ WF_vars(Retention)
    /\ WF_vars(TimePasses)

FairSpec == Spec /\ Fairness

-----------------------------------------------------------------------------
(* Properties. *)

\* Type correctness: the tables, the counters and what requests carry.
TypeOK ==
    /\ rows \in [Repos -> [Paths -> Row]]
    /\ usage \in [Repos -> Nat]
    /\ requests \in 0..MaxRequests
    /\ mishaps \in 0..MaxMishaps
    /\ torn \subseteq Repos \X Folders
    /\ \A s \in Workers :
          LET h == hand[s] IN
          /\ h.pc \in Pcs /\ h.op \in Ops /\ h.p \in Paths
          /\ ToSet(h.todo) \subseteq Paths /\ ToSet(h.dirs) \subseteq Folders
          /\ h.kept \cup h.copied \subseteq Paths /\ h.made \cup h.gone \subseteq Folders
          /\ h.saw \in [Paths -> Row] /\ h.had \in Nat
          /\ h.pc = "dirs" => h.dirs # <<>>
          /\ h.pc \in {"props", "merge", "drop", "unmake", "expire"} => h.todo # <<>>

\* The usage counter of a repository is the sum of the sizes of its files, whatever overwrites,
\* deletes, moves and purges of the same paths run into each other or are cut short: the counter
\* the quota and the usage report go by never drifts (substores_usage.go).
UsageIsExact == \A r \in Repos : usage[r] = Sizes(rows[r])

\* The quota is a check before the write and not a reservation; still only a request that
\* overlapped another takes a repository further past its quota: one at a time, through deploys,
\* overwrites, moves and restores, the ceiling is exact (checkQuota).
OnlyOverlapExceedsQuota ==
    [][\A r \in Repos :
          (Quota[r] > 0 /\ usage'[r] > usage[r] /\ usage'[r] > Quota[r])
          => \E s \in Clients : hand'[s] # hand[s] /\ ~hand[s].alone]_vars

\* A file has the rows of its folders, unless such a row was removed by a request that overlapped
\* another or by a folder delete: one request at a time, with crashes and failing statements, no
\* deploy, prune, move, restore, purge or retention pass leaves a file in a folder that is not
\* there (putNode's order, pruneEmptyParents, finishMove, trashPurge).
OrphanIsExplained ==
    \A r \in Repos : \A f \in Files \cap Present(r) : \A d \in Above(r, f) :
        d \in Present(r) \/ <<r, d>> \in torn

\* With no request under way every directory of the repository that has a file in it has its row
\* (ADR-0016, the invariant of materialised directories).
FoldersExist ==
    (\A s \in Workers : hand[s].pc = "idle")
    => \A f \in Files \cap Present(Lib) : Above(Lib, f) \subseteq Present(Lib)

\* A delete with the trash can on, a move and a restore drop a file that still is what they listed
\* only after they wrote it to its target: an item that failed is never dropped, and a capture
\* that failed stops the delete (captureIntoTrash, transfer).
DropsOnlyCopied ==
    [][\A s \in Clients :
          LET h == hand[s]
              p == Head(h.todo) IN
          ( /\ h.op \in {"move", "restore"} \/ (h.op = "delete" /\ h.flag)
            /\ h.pc \in {"drop", "row"} /\ h.todo # <<>> /\ hand'[s] # h
            /\ p \in Files \cap Present(Src(h)) /\ rows[Src(h)][p].c = h.saw[p].c
            /\ rows'[Src(h)][p].c = Nothing )
          => p \in h.copied]_vars

\* The retention empties the can: with requests at an end, whatever captures, restores and purges
\* left behind, marked or not, with or without folders, is gone for good some day (trashExpired,
\* RunOnce).
CanEmpties == <>[](Present(Can) = {})
=============================================================================

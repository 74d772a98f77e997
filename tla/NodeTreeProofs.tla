--------------------------- MODULE NodeTreeProofs ---------------------------
(***************************************************************************)
(* Proofs about NodeTree, for any files, folders, contents, quotas and     *)
(* requests: the types, that the usage counter is the sum of the sizes,    *)
(* that a file has the rows of its folders unless an overlap or a folder   *)
(* delete took one, that only an overlap passes a quota, and that nothing  *)
(* is dropped before it was copied.                                        *)
(*                                                                         *)
(* HandInv says what a request carries at each of its statements, whatever *)
(* the others do.  SoloInv says what the tables have to do with it as long *)
(* as it runs alone; Company says that no two requests under way are both  *)
(* alone, so a step of one never disturbs the SoloInv of another.          *)
(***************************************************************************)
EXTENDS NodeTree, FiniteSetTheorems, SequenceTheorems, WellFoundedInduction, TLAPS

Pipeline == {"delete", "move", "copy", "restore"}
Items == {"item", "props", "dirs", "land", "merge", "drop"}

Hand == [pc : Pcs, op : Ops, p : Paths, c : Contents \cup {Nothing}, flag : BOOLEAN,
         todo : Seq(Paths), saw : [Paths -> Row], dirs : Seq(Folders), had : Nat, over : BOOLEAN,
         props : Marks, kept : SUBSET Paths, made : SUBSET Folders, gone : SUBSET Folders,
         did : BOOLEAN, copied : SUBSET Paths, alone : BOOLEAN]

\* Each statement belongs to certain requests.
Route(h) ==
    /\ h.pc \in {"auth", "quota"} => h.op = "put" /\ h.p \in Files
    /\ h.pc \in {"dirs", "land"} => h.op # "purge"
    /\ h.pc \in {"walk", "item", "props", "merge", "sweep", "unmake"} => h.op \in Pipeline
    /\ h.pc \in {"drop", "empty"} => h.op \in {"move", "restore"}
    /\ h.pc \in {"probe", "doom", "row"} => h.op = "delete"
    /\ h.pc \in {"prune", "unfold"} => h.op \in {"delete", "move", "restore"}
    /\ h.pc \in {"marks", "mark"} => h.op \in {"delete", "restore"}
    /\ h.pc \in {"purge", "purging"} => h.op = "purge"

\* A statement has the row or the folder it is about in hand, and one of the right kind.
Loaded(h) ==
    /\ h.pc \in {"dirs", "unfold", "fold"} => h.dirs # <<>>
    /\ h.pc = "land" => h.dirs = <<>>
    /\ h.pc \in {"props", "merge", "drop", "unmake", "expire"} => h.todo # <<>>
    /\ h.pc \in {"dirs", "land"} /\ h.op # "put" => h.todo # <<>>
    /\ h.pc \in {"empty", "sweep", "unmake"} => h.todo \in Seq(Folders)
    /\ h.pc \in {"retain", "expire", "fold"} => h.todo \in Seq(Files)
    /\ h.pc \in {"props", "merge", "drop"} => Head(h.todo) \in Files
    /\ h.pc \notin {"prune", "unfold"} => h.gone = {}

\* What was listed is under the root; a purge has the files before the folders.
Listed(h) ==
    /\ h.op \in {"move", "restore"} /\ h.pc \in Items =>
          \A q \in Paths : h.saw[q].c # Nothing => q \in Within(Src(h), h.p)
    /\ h.pc = "purging" =>
          \A i \in 1 .. Len(h.todo) : h.todo[i] \in Folders =>
              /\ h.todo[i] \in Within(Can, h.p)
              /\ \A j \in i .. Len(h.todo) : h.todo[j] \in Folders

\* Every file the capture of a delete listed is copied, failed or still to do; the delete itself
\* starts when every one is copied.
Settled(h) ==
    /\ h.pc \in {"merge", "drop"} => Head(h.todo) \in h.copied
    /\ h.op = "delete" => \A f \in Files : h.saw[f].c # Nothing =>
          /\ h.pc \in Items => f \in h.copied \cup h.kept \cup ToSet(h.todo)
          /\ h.pc \in {"sweep", "unmake"} => f \in h.copied \cup h.kept
          /\ h.pc \in {"probe", "marks", "mark", "doom", "row"} => f \in h.copied

HandInv ==
    /\ hand \in [Workers -> Hand]
    /\ \A s \in Workers :
          Route(hand[s]) /\ Loaded(hand[s]) /\ Listed(hand[s]) /\ Settled(hand[s])

\* Two requests under way know of each other.
Company ==
    \A s, q \in Workers :
        s # q /\ hand[s].pc # "idle" /\ hand[q].pc # "idle" => ~hand[s].alone

TablesOK ==
    /\ rows \in [Repos -> [Paths -> Row]]
    /\ usage \in [Repos -> Int]
    /\ torn \subseteq Repos \X Folders
    /\ \A r \in Repos : \A d \in Folders : rows[r][d].c \notin Contents

\* The path a request is about to write.
Dest(h) == IF h.op = "put" THEN h.p ELSE Head(h.todo)

\* A folder above it is still to be written, is there, or was torn.
Landing(h) ==
    h.pc \in {"dirs", "land"} =>
        \A d \in Above(Tgt(h), Dest(h)) :
            \/ d \in ToSet(h.dirs)
            \/ d \in Present(Tgt(h))
            \/ <<Tgt(h), d>> \in torn

\* No file lies under d.
Bare(r, d) == \A f \in Files : rows[r][f].c # Nothing => d \notin Above(r, f)

\* The files a request alone has yet to clear are those it has in hand.
Clearing(h) ==
    /\ h.op \in {"move", "restore"} /\ h.pc \in Items =>
          \A f \in Files : rows[Src(h)][f].c # Nothing /\ f \in Within(Src(h), h.p)
                           => f \in h.kept \cup ToSet(h.todo)
    /\ h.pc = "purging" =>
          \A f \in Files : rows[Can][f].c # Nothing /\ f \in Within(Can, h.p) => f \in ToSet(h.todo)

\* The folders it is about to drop have no file.
Emptied(h) ==
    /\ h.pc = "empty" => \A d \in ToSet(h.todo) : Bare(Src(h), d)
    /\ h.pc = "unmake" => Bare(Tgt(h), Head(h.todo))
    /\ h.pc \in {"prune", "unfold"} => \A d \in h.gone : Bare(Src(h), d)
    /\ h.pc = "unfold" => Bare(Src(h), Head(h.dirs))
    /\ h.pc = "fold" => Bare(Can, Head(h.dirs))

\* What it is about to write passed the quota against the row that is there.
Priced(h) ==
    /\ h.pc = "quota" => h.had = Weight(rows[Lib][h.p].c)
    /\ h.pc \in {"dirs", "land"} /\ h.op = "put" /\ h.p \in Files =>
          ~QuotaRefuses(Lib, h.c, Weight(rows[Lib][h.p].c))
    /\ h.pc \in {"props", "dirs", "land"} /\ h.op # "put" /\ Head(h.todo) \in Files =>
          ~QuotaRefuses(Tgt(h), h.saw[Head(h.todo)].c, Weight(rows[Tgt(h)][Head(h.todo)].c))

Solo(h) == h.alone => Clearing(h) /\ Emptied(h) /\ Priced(h)

SoloInv == \A s \in Workers : Landing(hand[s]) /\ Solo(hand[s])

TreeInv ==
    /\ HandInv
    /\ Company
    /\ TablesOK
    /\ UsageIsExact
    /\ OrphanIsExplained
    /\ SoloInv

-----------------------------------------------------------------------------
(* Induction over numbers is over the least counterexample. *)

LEMMA HasLeast ==
  ASSUME NEW T \in SUBSET Nat, T # {}
  PROVE  \E x \in T : \A y \in T : x <= y
<1> DEFINE R == OpToRel(<, Nat)
<1>1. IsWellFoundedOn(R, Nat)
  BY NatLessThanWellFounded
<1>2. R = {ss \in Nat \X Nat : ss[1] < ss[2]}
  BY DEF OpToRel
<1> HIDE DEF R
<1>3. PICK x \in T : \A y \in T : ~ (<<y, x>> \in R)
  BY <1>1, WFMin
<1>4. ASSUME NEW y \in T PROVE x <= y
  <2>1. x \in Nat /\ y \in Nat
    OBVIOUS
  <2>2. y < x => <<y, x>> \in R
    BY <1>2, <2>1
  <2> QED
    BY <1>3, <2>1, <2>2
<1> QED
  BY <1>4

\* A set of numbers with 0 and with the successors of its members holds them all.
LEMMA AllNumbers ==
  ASSUME NEW T, 0 \in T, \A n \in Nat : n \in T => n + 1 \in T
  PROVE  \A n \in Nat : n \in T
<1>1. SUFFICES ASSUME NEW k \in Nat, k \notin T PROVE FALSE
  OBVIOUS
<1> DEFINE B == {n \in Nat : n \notin T}
<1>2. B \in SUBSET Nat /\ B # {}
  BY <1>1
<1>3. PICK x \in B : \A y \in B : x <= y
  BY <1>2, HasLeast
<1>4. x \in Nat /\ x # 0
  BY <1>3
<1>5. x - 1 \in Nat /\ x - 1 \notin B
  BY <1>3, <1>4
<1>6. x - 1 \in T /\ (x - 1) + 1 = x
  BY <1>4, <1>5
<1> QED
  BY <1>3, <1>5, <1>6

-----------------------------------------------------------------------------
(* Listings. *)

LEMMA OrderIs ==
  /\ Order \in Seq(Paths) /\ ToSet(Order) = Paths
  /\ Len(Order) \in Nat /\ \A i \in 1 .. Len(Order) : Order[i] \in Paths
  /\ \A p \in Paths : \E i \in 1 .. Len(Order) : Order[i] = p
<1>1. Order \in Seq(Paths) /\ ToSet(Order) = Paths
  BY NodeTreeConstants
<1>2. DOMAIN Order = 1 .. Len(Order)
  BY <1>1
<1> QED
  BY <1>1, <1>2 DEF ToSet

Extends(g, S, n) ==
    g = [m \in 0 .. n |->
            IF m = 0 THEN <<>>
            ELSE IF Order[m] \in S THEN Append(g[m - 1], Order[m]) ELSE g[m - 1]]

\* The recursion of Listing is well founded.
LEMMA ListingExists ==
  ASSUME NEW S, NEW n \in Nat
  PROVE  \E g : Extends(g, S, n)
<1> DEFINE T == {k \in Nat : \E g : Extends(g, S, k)}
<1>1. 0 \in T
  <2>1. Extends([m \in 0 .. 0 |-> <<>>], S, 0)
    BY DEF Extends
  <2> QED
    BY <2>1
<1>2. ASSUME NEW k \in Nat, k \in T PROVE k + 1 \in T
  <2>1. PICK g : Extends(g, S, k)
    BY <1>2
  <2> DEFINE g2 == [m \in 0 .. (k + 1) |->
                       IF m <= k THEN g[m]
                       ELSE IF Order[m] \in S THEN Append(g[m - 1], Order[m]) ELSE g[m - 1]]
  <2>2. ASSUME NEW m \in 0 .. (k + 1)
        PROVE  g2[m] = IF m = 0 THEN <<>>
                       ELSE IF Order[m] \in S THEN Append(g2[m - 1], Order[m]) ELSE g2[m - 1]
    <3>1. CASE m = 0
      BY <3>1, <2>1 DEF Extends
    <3>2. CASE m # 0 /\ m <= k
      <4>1. m \in 0 .. k /\ m - 1 \in 0 .. (k + 1) /\ m - 1 <= k
        BY <3>2
      <4>2. g2[m] = g[m] /\ g2[m - 1] = g[m - 1]
        BY <3>2, <4>1
      <4>3. g[m] = IF Order[m] \in S THEN Append(g[m - 1], Order[m]) ELSE g[m - 1]
        BY <2>1, <3>2, <4>1 DEF Extends
      <4> QED
        BY <3>2, <4>2, <4>3
    <3>3. CASE m = k + 1
      <4>1. m # 0 /\ ~(m <= k) /\ m - 1 \in 0 .. (k + 1) /\ m - 1 <= k
        BY <3>3
      <4> QED
        BY <4>1
    <3> QED
      BY <3>1, <3>2, <3>3
  <2>3. Extends(g2, S, k + 1)
    <3> HIDE DEF g2
    <3>1. g2 = [m \in 0 .. (k + 1) |-> g2[m]]
      BY DEF g2
    <3> QED
      BY <2>2, <3>1 DEF Extends
  <2> QED
    BY <2>3
<1>3. \A k \in Nat : k \in T
  <2> HIDE DEF T
  <2> QED
    BY <1>1, <1>2, AllNumbers
<1> QED
  BY <1>3

LEMMA ListingIs ==
  ASSUME NEW S
  PROVE  \E g : Extends(g, S, Len(Order)) /\ Listing(S) = g[Len(Order)]
<1> DEFINE f == CHOOSE g : Extends(g, S, Len(Order))
<1>1. Extends(f, S, Len(Order))
  BY ListingExists, OrderIs
<1>2. Listing(S) = f[Len(Order)]
  BY Zenon DEF Listing, Extends
<1> QED
  BY <1>1, <1>2

\* A listing has the rows of the set, all of them and no other.
LEMMA ListingOf ==
  ASSUME NEW S \in SUBSET Paths
  PROVE  /\ Listing(S) \in Seq(S)
         /\ ToSet(Listing(S)) = S
<1>1. PICK g : Extends(g, S, Len(Order)) /\ Listing(S) = g[Len(Order)]
  BY ListingIs
<1> DEFINE L == Len(Order)
<1>2. L \in Nat /\ \A i \in 1 .. L : Order[i] \in Paths
  BY OrderIs
<1>3. /\ g[0] = <<>>
      /\ \A m \in 1 .. L : g[m] = IF Order[m] \in S THEN Append(g[m - 1], Order[m]) ELSE g[m - 1]
  <2>1. 0 \in 0 .. L /\ \A m \in 1 .. L : m \in 0 .. L /\ m # 0
    BY <1>2
  <2>2. g = [m \in 0 .. L |->
               IF m = 0 THEN <<>>
               ELSE IF Order[m] \in S THEN Append(g[m - 1], Order[m]) ELSE g[m - 1]]
    BY <1>1 DEF Extends
  <2> HIDE DEF L
  <2> QED
    BY <2>1, <2>2
<1> HIDE DEF L
<1> DEFINE T == {k \in Nat : k <= L => /\ g[k] \in Seq(S)
                                       /\ ToSet(g[k]) = {q \in S : \E i \in 1 .. k : Order[i] = q}}
<1>4. 0 \in T
  <2>1. g[0] = <<>> /\ ToSet(<<>>) = {} /\ <<>> \in Seq(S)
    BY <1>3 DEF ToSet
  <2>2. {q \in S : \E i \in 1 .. 0 : Order[i] = q} = {}
    OBVIOUS
  <2> QED
    BY <2>1, <2>2
<1>5. ASSUME NEW k \in Nat, k \in T PROVE k + 1 \in T
  <2> SUFFICES ASSUME k + 1 <= L
               PROVE  /\ g[k + 1] \in Seq(S)
                      /\ ToSet(g[k + 1]) = {q \in S : \E i \in 1 .. (k + 1) : Order[i] = q}
    OBVIOUS
  <2>1. /\ g[k] \in Seq(S)
        /\ ToSet(g[k]) = {q \in S : \E i \in 1 .. k : Order[i] = q}
    BY <1>2, <1>5
  <2>2. g[k + 1] = IF Order[k + 1] \in S THEN Append(g[k], Order[k + 1]) ELSE g[k]
    <3>1. k + 1 \in 1 .. L /\ (k + 1) - 1 = k
      BY <1>2
    <3> QED
      BY <1>3, <3>1
  <2>3. {q \in S : \E i \in 1 .. (k + 1) : Order[i] = q}
            = {q \in S : (\E i \in 1 .. k : Order[i] = q) \/ q = Order[k + 1]}
    <3>1. \A i \in 1 .. (k + 1) : i \in 1 .. k \/ i = k + 1
      OBVIOUS
    <3>2. k + 1 \in 1 .. (k + 1) /\ \A i \in 1 .. k : i \in 1 .. (k + 1)
      OBVIOUS
    <3> QED
      BY <3>1, <3>2
  <2>4. CASE Order[k + 1] \in S
    <3>1. g[k + 1] = Append(g[k], Order[k + 1]) /\ g[k + 1] \in Seq(S)
      BY <2>1, <2>2, <2>4
    <3>2. ToSet(g[k + 1]) = ToSet(g[k]) \cup {Order[k + 1]}
      BY <2>1, <2>4, <3>1, AppendProperties DEF ToSet
    <3> QED
      BY <2>1, <2>3, <2>4, <3>1, <3>2
  <2>5. CASE Order[k + 1] \notin S
    BY <2>1, <2>2, <2>3, <2>5
  <2> QED
    BY <2>4, <2>5
<1>6. \A k \in Nat : k \in T
  <2> HIDE DEF T
  <2> QED
    BY <1>4, <1>5, AllNumbers
<1>7. /\ g[L] \in Seq(S)
      /\ ToSet(g[L]) = {q \in S : \E i \in 1 .. L : Order[i] = q}
  <2>1. L <= L
    BY <1>2
  <2>2. L \in T
    BY <1>2, <1>6
  <2> QED
    BY <2>1, <2>2
<1>8. \A q \in S : \E i \in 1 .. L : Order[i] = q
  BY OrderIs DEF L
<1> QED
  BY <1>1, <1>7, <1>8 DEF L

LEMMA ToSetIs ==
  ASSUME NEW S, NEW q \in Seq(S)
  PROVE  /\ ToSet(q) = {q[i] : i \in 1 .. Len(q)}
         /\ ToSet(q) \subseteq S
         /\ q # <<>> => Len(q) \in Nat \ {0} /\ Head(q) \in S /\ Head(q) = q[1] /\ Head(q) \in ToSet(q)
<1>1. DOMAIN q = 1 .. Len(q) /\ Len(q) \in Nat /\ \A i \in 1 .. Len(q) : q[i] \in S
  OBVIOUS
<1>2. q # <<>> => Len(q) # 0 /\ Head(q) = q[1]
  BY EmptySeq
<1> QED
  BY <1>1, <1>2 DEF ToSet

\* The rest of a queue has what it had, but for the head.
LEMMA TailOf ==
  ASSUME NEW S, NEW q \in Seq(S), q # <<>>
  PROVE  /\ Tail(q) \in Seq(S)
         /\ Len(Tail(q)) = Len(q) - 1 /\ \A i \in 1 .. Len(Tail(q)) : Tail(q)[i] = q[i + 1]
         /\ ToSet(q) = {Head(q)} \cup ToSet(Tail(q))
<1>1. /\ Tail(q) \in Seq(S) /\ Len(q) \in Nat \ {0}
      /\ Len(Tail(q)) = Len(q) - 1 /\ \A i \in 1 .. Len(Tail(q)) : Tail(q)[i] = q[i + 1]
  BY HeadTailProperties, ToSetIs
<1>2. ToSet(q) = {q[i] : i \in 1 .. Len(q)} /\ ToSet(Tail(q)) = {Tail(q)[i] : i \in 1 .. Len(Tail(q))}
  BY <1>1, ToSetIs
<1>3. Head(q) = q[1]
  BY ToSetIs
<1>4. \A i \in 1 .. Len(q) : i = 1 \/ (i - 1 \in 1 .. Len(Tail(q)) /\ q[i] = Tail(q)[i - 1])
  BY <1>1
<1>5. \A i \in 1 .. Len(Tail(q)) : i + 1 \in 1 .. Len(q) /\ Tail(q)[i] = q[i + 1]
  BY <1>1
<1>6. 1 \in 1 .. Len(q)
  BY <1>1
<1>7. ASSUME NEW x \in ToSet(q) PROVE x \in {Head(q)} \cup ToSet(Tail(q))
  BY <1>2, <1>3, <1>4
<1>8. ASSUME NEW x \in {Head(q)} \cup ToSet(Tail(q)) PROVE x \in ToSet(q)
  BY <1>2, <1>3, <1>5, <1>6
<1> QED
  BY <1>1, <1>7, <1>8

LEMMA ReverseOf ==
  ASSUME NEW S, NEW q \in Seq(S)
  PROVE  Reverse(q) \in Seq(S) /\ ToSet(Reverse(q)) = ToSet(q)
<1>1. Len(q) \in Nat /\ \A i \in 1 .. Len(q) : (Len(q) - i) + 1 \in 1 .. Len(q)
  OBVIOUS
<1>2. Reverse(q) = [i \in 1 .. Len(q) |-> q[(Len(q) - i) + 1]]
  BY DEF Reverse
<1>3. Reverse(q) \in Seq(S) /\ Len(Reverse(q)) = Len(q)
  BY <1>1, <1>2
<1>4. ToSet(q) = {q[i] : i \in 1 .. Len(q)} /\ ToSet(Reverse(q)) = {Reverse(q)[i] : i \in 1 .. Len(q)}
  BY <1>3, ToSetIs
<1>5. ASSUME NEW x \in ToSet(q) PROVE x \in ToSet(Reverse(q))
  <2>1. PICK i \in 1 .. Len(q) : x = q[i]
    BY <1>4
  <2>2. (Len(q) - i) + 1 \in 1 .. Len(q) /\ (Len(q) - ((Len(q) - i) + 1)) + 1 = i
    BY <1>1
  <2>3. Reverse(q)[(Len(q) - i) + 1] = x
    BY <1>2, <2>1, <2>2
  <2> QED
    BY <1>4, <2>2, <2>3
<1>6. ASSUME NEW x \in ToSet(Reverse(q)) PROVE x \in ToSet(q)
  <2>1. PICK i \in 1 .. Len(q) : x = Reverse(q)[i]
    BY <1>4
  <2> QED
    BY <1>1, <1>2, <1>4, <2>1
<1> QED
  BY <1>3, <1>5, <1>6

\* The ancestors of a path are folders, and a chain lists them.
LEMMA ChainOf ==
  ASSUME NEW r, NEW p \in Paths
  PROVE  /\ Above(r, p) \subseteq Folders
         /\ Chain(r, p) \in Seq(Folders)
         /\ ToSet(Chain(r, p)) = Above(r, p)
<1>1. Above(r, p) \subseteq Folders
  BY NodeTreeConstants DEF Above, Paths
<1>2. /\ Listing(Above(r, p)) \in Seq(Above(r, p))
      /\ ToSet(Listing(Above(r, p))) = Above(r, p)
  BY <1>1, ListingOf DEF Paths
<1> QED
  BY <1>1, <1>2 DEF Chain

\* What lies under a folder under a root lies under the root.
LEMMA UnderUnder ==
  ASSUME NEW r, NEW p \in Paths, NEW f \in Files, NEW d \in Above(r, f), d \in Within(r, p)
  PROVE  f \in Within(r, p)
<1>1. /\ Over \in [Paths -> SUBSET Folders] /\ Over[Key] = {} /\ Key \notin Files
      /\ \A q \in Paths : \A e \in Over[q] : Over[e] \subseteq Over[q]
  BY NodeTreeConstants
<1>2. f \in Paths /\ f # Key
  BY <1>1 DEF Paths
<1>3. CASE d = p
  BY <1>2, <1>3 DEF Within
<1>4. CASE p \in Above(r, d)
  <2>1. CASE p \in Over[d]
    <3>1. d # Key
      BY <1>1, <2>1
    <3>2. d \in Over[f]
      BY <3>1 DEF Above
    <3> QED
      BY <1>1, <1>2, <2>1, <3>2 DEF Within, Above
  <2>2. CASE p \notin Over[d]
    BY <1>2, <1>4, <2>2 DEF Within, Above
  <2> QED
    BY <2>1, <2>2
<1> QED
  BY <1>3, <1>4 DEF Within

-----------------------------------------------------------------------------
(* Sums of sizes. *)

LEMMA WeightIsNat == ASSUME NEW c PROVE Weight(c) \in Nat
  BY NodeTreeConstants DEF Weight

LEMMA PathsFinite ==
  /\ IsFiniteSet(Paths)
  /\ \A s \in SUBSET Paths : IsFiniteSet(s) /\ Cardinality(s) \in Nat
                             /\ Cardinality(s) <= Cardinality(Paths)
<1>1. IsFiniteSet(1 .. Len(Order))
  BY OrderIs, FS_Interval
<1>2. Order \in Surjection(1 .. Len(Order), Paths)
  BY OrderIs DEF Surjection
<1>3. IsFiniteSet(Paths)
  BY <1>1, <1>2, FS_Surjection
<1> QED
  BY <1>3, FS_Subset, FS_CardinalityType

One(s) == CHOOSE x \in s : TRUE
Upto(k) == {s \in SUBSET Paths : Cardinality(s) <= k}
Adds(g, table, D) ==
    g = [s \in D |-> IF s = {} THEN 0 ELSE Weight(table[One(s)].c) + g[s \ {One(s)}]]

LEMMA OneLess ==
  ASSUME NEW s \in SUBSET Paths, s # {}
  PROVE  /\ One(s) \in s /\ One(s) \in Paths
         /\ s \ {One(s)} \in SUBSET Paths
         /\ Cardinality(s \ {One(s)}) = Cardinality(s) - 1
<1>1. One(s) \in s
  BY DEF One
<1>2. IsFiniteSet(s)
  BY PathsFinite
<1>3. Cardinality(s \ {One(s)}) = Cardinality(s) - 1
  BY <1>1, <1>2, FS_RemoveElement
<1> QED
  BY <1>1, <1>3

\* The recursion of the sum is well founded.
LEMMA SumExists ==
  ASSUME NEW table
  PROVE  \E g : Adds(g, table, SUBSET Paths)
<1> DEFINE T == {k \in Nat : \E g : Adds(g, table, Upto(k))}
<1>1. 0 \in T
  <2>1. \A s \in Upto(0) : s = {}
    <3>1. \A s \in Upto(0) : IsFiniteSet(s) /\ Cardinality(s) = 0
      BY PathsFinite DEF Upto
    <3> QED
      BY <3>1, FS_EmptySet
  <2>2. Adds([s \in Upto(0) |-> 0], table, Upto(0))
    BY <2>1 DEF Adds
  <2> QED
    BY <2>2
<1>2. ASSUME NEW k \in Nat, k \in T PROVE k + 1 \in T
  <2>1. PICK g : Adds(g, table, Upto(k))
    BY <1>2
  <2> DEFINE g2 == [s \in Upto(k + 1) |->
                       IF Cardinality(s) <= k THEN g[s]
                       ELSE Weight(table[One(s)].c) + g[s \ {One(s)}]]
  <2>2. ASSUME NEW s \in Upto(k + 1)
        PROVE  g2[s] = IF s = {} THEN 0 ELSE Weight(table[One(s)].c) + g2[s \ {One(s)}]
    <3>1. s \in SUBSET Paths /\ Cardinality(s) \in Nat /\ Cardinality(s) <= k + 1
      BY PathsFinite DEF Upto
    <3>2. CASE s = {}
      <4>1. Cardinality(s) <= k /\ s \in Upto(k)
        BY <3>1, <3>2, FS_EmptySet DEF Upto
      <4>2. g[s] = 0
        BY <2>1, <3>2, <4>1 DEF Adds
      <4> QED
        BY <3>2, <4>1, <4>2
    <3>3. CASE s # {}
      <4> DEFINE t == s \ {One(s)}
      <4>1. t \in SUBSET Paths /\ Cardinality(t) = Cardinality(s) - 1
        BY <3>1, <3>3, OneLess
      <4>2. t \in Upto(k) /\ t \in Upto(k + 1) /\ Cardinality(t) <= k
        BY <3>1, <4>1 DEF Upto
      <4>3. g2[t] = g[t]
        BY <4>2
      <4>4. Cardinality(s) <= k => g[s] = Weight(table[One(s)].c) + g[t]
        <5> SUFFICES ASSUME Cardinality(s) <= k PROVE g[s] = Weight(table[One(s)].c) + g[t]
          OBVIOUS
        <5>1. s \in Upto(k)
          BY <3>1 DEF Upto
        <5> QED
          BY <2>1, <3>3, <5>1 DEF Adds
      <4>5. g2[s] = Weight(table[One(s)].c) + g[t]
        BY <4>4
      <4> QED
        BY <3>3, <4>3, <4>5
    <3> QED
      BY <3>2, <3>3
  <2>3. Adds(g2, table, Upto(k + 1))
    <3>1. g2 = [s \in Upto(k + 1) |-> g2[s]]
      OBVIOUS
    <3> HIDE DEF g2
    <3> QED
      BY <2>2, <3>1 DEF Adds
  <2> QED
    BY <2>3
<1>3. \A k \in Nat : k \in T
  <2> HIDE DEF T
  <2> QED
    BY <1>1, <1>2, AllNumbers
<1>4. Cardinality(Paths) \in Nat /\ Upto(Cardinality(Paths)) = SUBSET Paths
  BY PathsFinite DEF Upto
<1> QED
  BY <1>3, <1>4

LEMMA SumIs ==
  ASSUME NEW table
  PROVE  \E g : Adds(g, table, SUBSET Paths) /\ Sizes(table) = g[Paths]
<1> DEFINE f == CHOOSE g : Adds(g, table, SUBSET Paths)
<1>1. Adds(f, table, SUBSET Paths)
  BY SumExists
<1>2. Sizes(table) = f[Paths]
  BY DEF Sizes, MapThenSumSet, MapThenFoldSet, Adds, One
<1> QED
  BY <1>1, <1>2

\* A sum is a number; when the size at one path changes, the sum changes by the difference.
LEMMA SizesMove ==
  ASSUME NEW table, NEW table2, NEW p \in Paths,
         \A q \in Paths : q # p => Weight(table2[q].c) = Weight(table[q].c)
  PROVE  /\ Sizes(table) \in Nat /\ Sizes(table2) \in Nat
         /\ Sizes(table2) = (Sizes(table) + Weight(table2[p].c)) - Weight(table[p].c)
<1>1. PICK g : Adds(g, table, SUBSET Paths) /\ Sizes(table) = g[Paths]
  BY SumIs
<1>2. PICK h : Adds(h, table2, SUBSET Paths) /\ Sizes(table2) = h[Paths]
  BY SumIs
<1> DEFINE gap == Weight(table2[p].c) - Weight(table[p].c)
<1>3. gap \in Int
  BY WeightIsNat
<1> DEFINE Moves(s) == g[s] \in Nat /\ h[s] \in Nat /\ h[s] = IF p \in s THEN g[s] + gap ELSE g[s]
<1> DEFINE T == {k \in Nat : \A s \in Upto(k) : Moves(s)}
<1>4. ASSUME NEW s \in SUBSET Paths, s # {}, Moves(s \ {One(s)}) PROVE Moves(s)
  <2> DEFINE x == One(s)
  <2>1. x \in s /\ x \in Paths
    BY <1>4, OneLess
  <2>2. g[s] = Weight(table[x].c) + g[s \ {x}] /\ h[s] = Weight(table2[x].c) + h[s \ {x}]
    BY <1>1, <1>2, <1>4 DEF Adds
  <2>3. Weight(table[x].c) \in Nat /\ Weight(table2[x].c) \in Nat
    BY WeightIsNat
  <2>4. g[s \ {x}] \in Nat /\ h[s \ {x}] \in Nat
    BY <1>4
  <2>5. CASE x = p
    <3>1. h[s \ {x}] = g[s \ {x}]
      BY <1>4, <2>5
    <3> QED
      BY <1>3, <2>1, <2>2, <2>3, <2>4, <2>5, <3>1
  <2>6. CASE x # p
    <3>1. Weight(table2[x].c) = Weight(table[x].c)
      BY <2>1, <2>6
    <3>2. p \in s <=> p \in s \ {x}
      BY <2>6
    <3>3. h[s \ {x}] = IF p \in s THEN g[s \ {x}] + gap ELSE g[s \ {x}]
      BY <1>4, <3>2
    <3> HIDE DEF x, gap
    <3> QED
      BY <1>3, <2>2, <2>3, <2>4, <3>1, <3>3
  <2> QED
    BY <2>5, <2>6
<1>5. Moves({})
  <2>1. g[{}] = 0 /\ h[{}] = 0
    BY <1>1, <1>2 DEF Adds
  <2> QED
    BY <2>1
<1> HIDE DEF Moves
<1>6. 0 \in T
  <2>1. \A s \in Upto(0) : s = {}
    <3>1. \A s \in Upto(0) : IsFiniteSet(s) /\ Cardinality(s) = 0
      BY PathsFinite DEF Upto
    <3> QED
      BY <3>1, FS_EmptySet
  <2> QED
    BY <1>5, <2>1
<1>7. ASSUME NEW k \in Nat, k \in T PROVE k + 1 \in T
  <2> SUFFICES ASSUME NEW s \in Upto(k + 1) PROVE Moves(s)
    OBVIOUS
  <2>1. s \in SUBSET Paths /\ Cardinality(s) \in Nat /\ Cardinality(s) <= k + 1
    BY PathsFinite DEF Upto
  <2>2. CASE s # {}
    <3>1. s \ {One(s)} \in Upto(k)
      BY <2>1, <2>2, OneLess DEF Upto
    <3> QED
      BY <1>4, <1>7, <2>1, <2>2, <3>1
  <2> QED
    BY <1>5, <2>2
<1>8. \A k \in Nat : k \in T
  <2> HIDE DEF T
  <2> QED
    BY <1>6, <1>7, AllNumbers
<1>9. Paths \in Upto(Cardinality(Paths)) /\ Cardinality(Paths) \in Nat
  BY PathsFinite DEF Upto
<1>10. Moves(Paths)
  BY <1>8, <1>9
<1>11. g[Paths] \in Nat /\ h[Paths] \in Nat /\ h[Paths] = g[Paths] + gap
  BY <1>10 DEF Moves
<1> QED
  BY <1>1, <1>2, <1>11, WeightIsNat

-----------------------------------------------------------------------------
(* What a statement does to the tables.                                    *)

\* The content of one row changes.
Sets(r, p, c) ==
    \A t \in Repos : \A q \in Paths :
        rows'[t][q].c = IF t = r /\ q = p THEN c ELSE rows[t][q].c

\* Stamps and marks change at most.
Quiet ==
    /\ \A r \in Repos : \A q \in Paths : rows'[r][q].c = rows[r][q].c
    /\ usage' = usage /\ torn' = torn

FolderPut(r, d) ==
    /\ Sets(r, d, Marker)
    /\ usage' = usage /\ torn' = torn \ {<<r, d>>}

\* A folder row goes, torn or with no file under it.
FolderDrop(s, r, d) ==
    /\ Sets(r, d, Nothing)
    /\ usage' = usage
    /\ \/ torn' = torn \cup {<<r, d>>}
       \/ torn' = torn /\ hand[s].alone /\ Bare(r, d)

\* The folders above a path are there or torn.
Covered(r, p) == \A d \in Above(r, p) : rows[r][d].c # Nothing \/ <<r, d>> \in torn

FilePut(s, r, f, c) ==
    /\ Sets(r, f, c)
    /\ Covered(r, f)
    /\ hand[s].alone => ~QuotaRefuses(r, c, Weight(rows[r][f].c))
    /\ usage' = [usage EXCEPT ![r] = @ + Weight(c) - Weight(rows[r][f].c)]
    /\ torn' = torn

FileDrop(r, f) ==
    /\ Sets(r, f, Nothing)
    /\ usage' = [usage EXCEPT ![r] = @ - Weight(rows[r][f].c)]
    /\ torn' = torn

TableStep(s) ==
    /\ rows' \in [Repos -> [Paths -> Row]]
    /\ \/ Quiet
       \/ \E r \in Repos : \E d \in Folders : FolderPut(r, d) \/ FolderDrop(s, r, d)
       \/ \E r \in Repos : \E f \in Files :
             \/ FileDrop(r, f)
             \/ s \in Clients /\ hand'[s] # hand[s] /\ \E c : FilePut(s, r, f, c)

LEMMA Consts ==
  /\ Files \subseteq Paths /\ Folders \subseteq Paths /\ Files \cap Folders = {} /\ Key \in Folders
  /\ Nothing \notin Contents /\ Marker \notin Contents /\ Marker # Nothing
  /\ Lib \in Repos /\ Stage \in Repos /\ Can \in Repos
  /\ Lib # Stage /\ Lib # Can /\ Stage # Can
  /\ Weight(Nothing) = 0 /\ Weight(Marker) = 0
  BY NodeTreeConstants DEF Paths, Repos, Lib, Stage, Can, Weight

LEMMA RowTypes ==
  /\ NoRow \in Row /\ NoRow.c = Nothing /\ FolderRow \in Row /\ FolderRow.c = Marker
  /\ \A row \in Row : /\ row.c \in Contents \cup {Nothing, Marker}
                      /\ row.old \in BOOLEAN /\ row.mark \in Marks
  BY DEF NoRow, FolderRow, Row, Marks

\* One row is written.
LEMMA RowSet ==
  ASSUME TablesOK, NEW r \in Repos, NEW p \in Paths, NEW row \in Row,
         rows' = [rows EXCEPT ![r][p] = row]
  PROVE  /\ rows' \in [Repos -> [Paths -> Row]]
         /\ Sets(r, p, row.c)
<1>1. rows \in [Repos -> [Paths -> Row]]
  BY DEF TablesOK
<1>2. rows' = [rows EXCEPT ![r] = [rows[r] EXCEPT ![p] = row]]
  BY <1>1
<1>3. [rows[r] EXCEPT ![p] = row] \in [Paths -> Row]
  BY <1>1
<1>4. rows' \in [Repos -> [Paths -> Row]]
  BY <1>1, <1>2, <1>3
<1>5. ASSUME NEW t \in Repos, NEW q \in Paths
      PROVE  rows'[t][q] = IF t = r /\ q = p THEN row ELSE rows[t][q]
  BY <1>1, <1>2
<1> QED
  BY <1>4, <1>5 DEF Sets

LEMMA RowMarked ==
  ASSUME TablesOK, NEW r \in Repos, NEW p \in Paths, NEW m \in Marks, MarkRow(r, p, m)
  PROVE  /\ rows' \in [Repos -> [Paths -> Row]]
         /\ \A t \in Repos : \A q \in Paths : rows'[t][q].c = rows[t][q].c
<1> DEFINE row == [rows[r][p] EXCEPT !.mark = m]
<1>1. rows \in [Repos -> [Paths -> Row]] /\ rows[r][p] \in Row
  BY DEF TablesOK
<1>2. row \in Row /\ row.c = rows[r][p].c
  BY <1>1 DEF Row
<1>3. rows' = [rows EXCEPT ![r][p] = row]
  BY <1>1 DEF MarkRow
<1> HIDE DEF row
<1> QED
  BY <1>2, <1>3, RowSet DEF Sets

\* The tables stay what they are.
LEMMA TablesStay ==
  ASSUME NEW s, TreeInv, TableStep(s)
  PROVE  TablesOK' /\ UsageIsExact' /\ OrphanIsExplained'
<1> USE DEF TreeInv
<1>1. rows \in [Repos -> [Paths -> Row]] /\ rows' \in [Repos -> [Paths -> Row]]
      /\ usage \in [Repos -> Int]
  BY DEF TablesOK, TableStep
<1>2. UsageIsExact /\ TablesOK
  OBVIOUS
<1>3. \A f \in Files : \A r : Above(r, f) \subseteq Folders
  BY ChainOf, Consts
<1>4. \A r \in Repos : \A f \in Files : rows[r][f].c # Nothing => Covered(r, f)
  BY Consts, <1>3 DEF OrphanIsExplained, Covered, Present
<1>5. ASSUME Quiet PROVE TablesOK' /\ UsageIsExact' /\ OrphanIsExplained'
  <2>1. TablesOK'
    BY <1>1, <1>5, Consts DEF TablesOK, Quiet
  <2>2. ASSUME NEW r \in Repos PROVE usage'[r] = Sizes(rows'[r])
    <3>1. \A q \in Paths : Weight(rows'[r][q].c) = Weight(rows[r][q].c)
      BY <1>5 DEF Quiet
    <3>2. Sizes(rows'[r]) = (Sizes(rows[r]) + Weight(rows'[r][Key].c)) - Weight(rows[r][Key].c)
      BY <3>1, SizesMove, Consts
    <3>3. Sizes(rows[r]) = usage[r] /\ usage[r] \in Int
      BY <1>1, <1>2 DEF UsageIsExact
    <3> QED
      BY <1>5, <3>1, <3>2, <3>3, Consts, WeightIsNat DEF Quiet
  <2>3. OrphanIsExplained'
    BY <1>3, <1>4, <1>5, Consts DEF OrphanIsExplained, Covered, Present, Quiet
  <2> QED
    BY <2>1, <2>2, <2>3 DEF UsageIsExact
<1>6. ASSUME NEW r \in Repos, NEW d \in Folders, NEW c \in {Nothing, Marker}, Sets(r, d, c), usage' = usage
      PROVE  (\A t \in Repos : \A e \in Folders : rows'[t][e].c \notin Contents) /\ UsageIsExact'
  <2>1. \A t \in Repos : \A e \in Folders : rows'[t][e].c \notin Contents
    BY <1>2, <1>6, Consts DEF TablesOK, Sets
  <2>2. ASSUME NEW t \in Repos PROVE usage'[t] = Sizes(rows'[t])
    <3>1. \A q \in Paths : q # d => Weight(rows'[t][q].c) = Weight(rows[t][q].c)
      BY <1>6 DEF Sets
    <3>2. d \in Paths /\ Weight(rows[t][d].c) = 0 /\ Weight(rows'[t][d].c) = 0
      BY <1>2, <2>1, Consts DEF TablesOK, Weight
    <3>3. Sizes(rows'[t]) = (Sizes(rows[t]) + Weight(rows'[t][d].c)) - Weight(rows[t][d].c)
      BY <3>1, <3>2, SizesMove
    <3>4. Sizes(rows[t]) = usage[t] /\ usage[t] \in Int
      BY <1>1, <1>2 DEF UsageIsExact
    <3> QED
      BY <1>6, <3>2, <3>3, <3>4
  <2> QED
    BY <2>1, <2>2 DEF UsageIsExact
<1>7. ASSUME NEW r \in Repos, NEW d \in Folders, FolderPut(r, d)
      PROVE  TablesOK' /\ UsageIsExact' /\ OrphanIsExplained'
  <2>1. (\A t \in Repos : \A e \in Folders : rows'[t][e].c \notin Contents) /\ UsageIsExact'
    BY <1>6, <1>7 DEF FolderPut
  <2>2. torn' \subseteq Repos \X Folders /\ usage' \in [Repos -> Int]
    BY <1>1, <1>2, <1>7 DEF TablesOK, FolderPut
  <2>3. ASSUME NEW t \in Repos, NEW f \in Files, rows'[t][f].c # Nothing, NEW e \in Above(t, f)
        PROVE  rows'[t][e].c # Nothing \/ <<t, e>> \in torn'
    <3>1. rows[t][f].c # Nothing
      BY <1>7, <2>3, Consts DEF FolderPut, Sets
    <3>2. rows[t][e].c # Nothing \/ <<t, e>> \in torn
      BY <1>4, <3>1 DEF Covered
    <3> QED
      BY <1>3, <1>7, <3>2, Consts DEF FolderPut, Sets
  <2> QED
    BY <1>1, <1>3, <2>1, <2>2, <2>3, Consts DEF TablesOK, OrphanIsExplained, Present
<1>8. ASSUME NEW r \in Repos, NEW d \in Folders, FolderDrop(s, r, d)
      PROVE  TablesOK' /\ UsageIsExact' /\ OrphanIsExplained'
  <2>1. (\A t \in Repos : \A e \in Folders : rows'[t][e].c \notin Contents) /\ UsageIsExact'
    BY <1>6, <1>8 DEF FolderDrop
  <2>2. torn' \subseteq Repos \X Folders /\ usage' \in [Repos -> Int]
    BY <1>1, <1>2, <1>8 DEF TablesOK, FolderDrop
  <2>3. ASSUME NEW t \in Repos, NEW f \in Files, rows'[t][f].c # Nothing, NEW e \in Above(t, f)
        PROVE  rows'[t][e].c # Nothing \/ <<t, e>> \in torn'
    <3>1. rows[t][f].c # Nothing
      BY <1>8, <2>3, Consts DEF FolderDrop, Sets
    <3>2. rows[t][e].c # Nothing \/ <<t, e>> \in torn
      BY <1>4, <3>1 DEF Covered
    <3>3. CASE t = r /\ e = d
      BY <1>8, <2>3, <3>1, <3>3 DEF FolderDrop, Bare
    <3>4. CASE ~(t = r /\ e = d)
      <4>1. rows'[t][e].c = rows[t][e].c
        BY <1>3, <1>8, <3>4, Consts DEF FolderDrop, Sets
      <4> QED
        BY <1>8, <3>2, <4>1 DEF FolderDrop
    <3> QED
      BY <3>3, <3>4
  <2> QED
    BY <1>1, <1>3, <2>1, <2>2, <2>3, Consts DEF TablesOK, OrphanIsExplained, Present
<1>9. ASSUME NEW r \in Repos, NEW g \in Files, NEW c, Sets(r, g, c), torn' = torn,
             usage' = [usage EXCEPT ![r] = @ + Weight(c) - Weight(rows[r][g].c)],
             c # Nothing => Covered(r, g)
      PROVE  TablesOK' /\ UsageIsExact' /\ OrphanIsExplained'
  <2>1. \A t \in Repos : \A e \in Folders : rows'[t][e].c = rows[t][e].c
    BY <1>9, Consts DEF Sets
  <2>2. usage' \in [Repos -> Int]
    BY <1>1, <1>9, WeightIsNat
  <2>3. ASSUME NEW t \in Repos PROVE usage'[t] = Sizes(rows'[t])
    <3>1. \A q \in Paths : q # g => Weight(rows'[t][q].c) = Weight(rows[t][q].c)
      BY <1>9 DEF Sets
    <3>2. Sizes(rows'[t]) = (Sizes(rows[t]) + Weight(rows'[t][g].c)) - Weight(rows[t][g].c)
      BY <3>1, SizesMove, Consts
    <3>3. Sizes(rows[t]) = usage[t] /\ usage[t] \in Int
      BY <1>1, <1>2 DEF UsageIsExact
    <3>4. rows'[t][g].c = IF t = r THEN c ELSE rows[t][g].c
      BY <1>9, Consts DEF Sets
    <3>5. usage'[t] = IF t = r THEN usage[r] + (Weight(c) - Weight(rows[r][g].c)) ELSE usage[t]
      <4> DEFINE w == Weight(c)
      <4> DEFINE v == Weight(rows[r][g].c)
      <4>1. usage' = [usage EXCEPT ![r] = usage[r] + (w - v)]
        BY <1>9
      <4> HIDE DEF w, v
      <4>2. usage'[t] = IF t = r THEN usage[r] + (w - v) ELSE usage[t]
        BY <1>1, <4>1
      <4> QED
        BY <4>2 DEF w, v
    <3> QED
      BY <3>2, <3>3, <3>4, <3>5, WeightIsNat
  <2>4. ASSUME NEW t \in Repos, NEW f \in Files, rows'[t][f].c # Nothing, NEW e \in Above(t, f)
        PROVE  rows'[t][e].c # Nothing \/ <<t, e>> \in torn'
    <3>1. Covered(t, f)
      BY <1>4, <1>9, <2>4, Consts DEF Sets
    <3> QED
      BY <1>3, <1>9, <2>1, <2>4, <3>1 DEF Covered
  <2> QED
    BY <1>1, <1>2, <1>3, <1>9, <2>1, <2>2, <2>3, <2>4, Consts
    DEF TablesOK, UsageIsExact, OrphanIsExplained, Present
<1>10. ASSUME NEW r \in Repos, NEW f \in Files, FileDrop(r, f)
       PROVE  TablesOK' /\ UsageIsExact' /\ OrphanIsExplained'
  <2>1. usage' = [usage EXCEPT ![r] = @ + Weight(Nothing) - Weight(rows[r][f].c)]
    <3>1. Weight(Nothing) = 0 /\ Weight(rows[r][f].c) \in Nat /\ usage[r] \in Int
      BY <1>1, Consts, WeightIsNat
    <3>2. usage[r] + (Weight(Nothing) - Weight(rows[r][f].c)) = usage[r] - Weight(rows[r][f].c)
      BY <3>1
    <3>3. usage' = [usage EXCEPT ![r] = usage[r] - Weight(rows[r][f].c)]
      BY <1>10 DEF FileDrop
    <3> QED
      BY <3>2, <3>3
  <2> QED
    BY <1>9, <1>10, <2>1 DEF FileDrop
<1>11. ASSUME NEW r \in Repos, NEW f \in Files, NEW c, FilePut(s, r, f, c)
       PROVE  TablesOK' /\ UsageIsExact' /\ OrphanIsExplained'
  BY <1>9, <1>11 DEF FilePut
<1> QED
  BY <1>5, <1>7, <1>8, <1>10, <1>11 DEF TableStep

-----------------------------------------------------------------------------
(* What a statement does to the requests.                                  *)

\* What TreeInv says of one request.
Own(s) ==
    /\ Route(hand[s]) /\ Loaded(hand[s]) /\ Listed(hand[s]) /\ Settled(hand[s])
    /\ Landing(hand[s]) /\ Solo(hand[s])

LEMMA IdleIs ==
  /\ Idle \in Hand
  /\ Idle.pc = "idle" /\ Idle.op = "put" /\ Idle.todo = <<>> /\ Idle.dirs = <<>> /\ Idle.had = 0
  /\ Idle.kept = {} /\ Idle.made = {} /\ Idle.gone = {} /\ Idle.copied = {} /\ Idle.alone = TRUE
  /\ \A q \in Paths : Idle.saw[q].c = Nothing
<1>1. [q \in Paths |-> NoRow] \in [Paths -> Row] /\ Key \in Paths /\ NoRow.c = Nothing
  BY RowTypes, Consts
<1> QED
  BY <1>1 DEF Idle, Hand, Pcs, Ops, Marks

LEMMA DestIs ==
  ASSUME NEW h \in Hand, Loaded(h), h.pc \in {"dirs", "land"}
  PROVE  Dest(h) \in Paths /\ Above(Tgt(h), Dest(h)) \subseteq Folders
<1>1. h.p \in Paths /\ h.todo \in Seq(Paths)
  BY DEF Hand
<1>2. Dest(h) \in Paths
  BY <1>1, ToSetIs DEF Dest, Loaded
<1> QED
  BY <1>2, ChainOf

\* A landing survives the statements of the others.
LEMMA LandingStays ==
  ASSUME TreeInv, NEW s \in Workers, TableStep(s), hand[s].pc # "idle",
         NEW q \in Workers, q # s, hand'[q] = hand[q]
  PROVE  Landing(hand[q])'
<1> USE DEF TreeInv
<1> DEFINE h == hand[q]
<1>1. SUFFICES ASSUME h.pc \in {"dirs", "land"}, NEW d \in Above(Tgt(h), Dest(h)),
                      d \notin ToSet(h.dirs)
               PROVE  rows'[Tgt(h)][d].c # Nothing \/ <<Tgt(h), d>> \in torn'
  <2>1. CASE h.pc \notin {"dirs", "land"}
    BY <2>1 DEF Landing
  <2>2. CASE h.pc \in {"dirs", "land"}
    <3>1. Above(Tgt(h), Dest(h)) \subseteq Paths
      BY <2>2, DestIs, Consts DEF HandInv
    <3> QED
      BY <2>2, <3>1 DEF Landing, Present, Tgt, Dest, Above
  <2> QED
    BY <2>1, <2>2
<1> DEFINE r == Tgt(h)
<1>2. r \in Repos
  BY Consts DEF Tgt
<1>3. d \in Folders /\ (rows[r][d].c # Nothing \/ <<r, d>> \in torn)
  <2>1. Landing(h)
    BY DEF SoloInv
  <2>2. Above(Tgt(h), Dest(h)) \subseteq Folders
    BY <1>1, DestIs DEF HandInv
  <2> QED
    BY <1>1, <2>1, <2>2 DEF Landing, Present
<1>4. ~hand[s].alone
  BY <1>1 DEF Company
<1> HIDE DEF r, h
<1>5. CASE Quiet
  BY <1>2, <1>3, <1>5, Consts DEF Quiet, r
<1>6. ASSUME NEW t \in Repos, NEW e \in Folders, FolderPut(t, e)
      PROVE  rows'[r][d].c # Nothing \/ <<r, d>> \in torn'
  BY <1>2, <1>3, <1>6, Consts DEF FolderPut, Sets
<1>7. ASSUME NEW t \in Repos, NEW e \in Folders, FolderDrop(s, t, e)
      PROVE  rows'[r][d].c # Nothing \/ <<r, d>> \in torn'
  BY <1>2, <1>3, <1>4, <1>7, Consts DEF FolderDrop, Sets
<1>8. ASSUME NEW t \in Repos, NEW f \in Files, NEW c, Sets(t, f, c), torn' = torn
      PROVE  rows'[r][d].c # Nothing \/ <<r, d>> \in torn'
  BY <1>2, <1>3, <1>8, Consts DEF Sets
<1> QED
  BY <1>5, <1>6, <1>7, <1>8 DEF TableStep, FileDrop, FilePut, r

\* A statement of one request keeps the invariant when it keeps what is said of that request.
LEMMA StepKeeps ==
  ASSUME TreeInv, NEW s \in Workers, hand[s].pc # "idle", TableStep(s),
         NEW g \in Hand, hand' = [hand EXCEPT ![s] = g],
         g.pc = "idle" \/ g.alone = hand[s].alone, Own(s)'
  PROVE  TreeInv'
<1> USE DEF TreeInv
<1>1. hand \in [Workers -> Hand] /\ hand' \in [Workers -> Hand]
  BY DEF HandInv
<1>2. hand'[s] = g /\ \A q \in Workers : q # s => hand'[q] = hand[q]
  BY <1>1
<1>3. TablesOK' /\ UsageIsExact' /\ OrphanIsExplained'
  BY TablesStay
<1>4. ASSUME NEW q \in Workers, q # s
      PROVE  Route(hand[q])' /\ Loaded(hand[q])' /\ Listed(hand[q])' /\ Settled(hand[q])'
  <2>1. Route(hand[q]) /\ Loaded(hand[q]) /\ Listed(hand[q]) /\ Settled(hand[q])
    BY DEF HandInv
  <2>2. hand'[q] = hand[q]
    BY <1>2, <1>4
  <2> QED
    BY <2>1, <2>2 DEF Route, Loaded, Listed, Settled, Src, Within, Above
<1>5. HandInv'
  BY <1>1, <1>4 DEF HandInv, Own
<1>6. Company'
  BY <1>2 DEF Company
<1>7. ASSUME NEW q \in Workers, q # s
      PROVE  Landing(hand[q])' /\ Solo(hand[q])'
  <2>1. hand'[q] = hand[q]
    BY <1>2, <1>7
  <2>2. Landing(hand[q])'
    BY <1>7, <2>1, LandingStays
  <2>3. CASE hand[q].pc # "idle"
    <3>1. ~hand[q].alone
      BY <1>7, <2>3 DEF Company
    <3> QED
      BY <2>1, <2>2, <3>1 DEF Solo
  <2>4. CASE hand[q].pc = "idle"
    <3>1. hand'[q].pc = "idle"
      BY <2>1, <2>4
    <3>2. Clearing(hand[q])' /\ Emptied(hand[q])' /\ Priced(hand[q])'
      BY <3>1 DEF Clearing, Emptied, Priced, Items
    <3> QED
      BY <2>2, <3>2 DEF Solo
  <2> QED
    BY <2>3, <2>4
<1>8. SoloInv'
  BY <1>7 DEF SoloInv, Own
<1> QED
  BY <1>3, <1>5, <1>6, <1>8

\* A request that ends keeps it.
LEMMA EndKeeps ==
  ASSUME TreeInv, NEW s \in Workers, hand[s].pc # "idle", TableStep(s), Ends(s)
  PROVE  TreeInv'
<1>1. hand' = [hand EXCEPT ![s] = Idle]
  BY DEF Ends, Becomes
<1>2. hand'[s] = Idle
  BY <1>1 DEF TreeInv, HandInv
<1>3. hand'[s].pc = "idle" /\ hand'[s].gone = {}
  BY <1>2, IdleIs
<1>4. Own(s)'
  <2>1. Route(hand[s])' /\ Loaded(hand[s])' /\ Listed(hand[s])' /\ Settled(hand[s])'
    BY <1>3 DEF Route, Loaded, Listed, Settled, Items
  <2>2. Landing(hand[s])' /\ Solo(hand[s])'
    BY <1>3 DEF Landing, Solo, Clearing, Emptied, Priced, Items
  <2> QED
    BY <2>1, <2>2 DEF Own
<1> QED
  BY <1>1, <1>4, IdleIs, StepKeeps

-----------------------------------------------------------------------------
(* The request in hand, and the common ways it goes on.                    *)

LEMMA Facts ==
  ASSUME TreeInv, NEW s \in Workers
  PROVE  /\ hand \in [Workers -> Hand] /\ hand[s] \in Hand
         /\ Own(s) /\ TablesOK
         /\ Src(hand[s]) \in Repos /\ Tgt(hand[s]) \in Repos
         /\ hand[s].op \in {"move", "restore"} => Src(hand[s]) # Tgt(hand[s])
<1>1. hand \in [Workers -> Hand] /\ hand[s] \in Hand /\ Own(s) /\ TablesOK
  BY DEF TreeInv, HandInv, SoloInv, Own
<1> QED
  BY <1>1, Consts DEF Src, Tgt

LEMMA HandTypes ==
  ASSUME NEW h \in Hand
  PROVE  /\ h.pc \in Pcs /\ h.op \in Ops /\ h.p \in Paths /\ h.c \in Contents \cup {Nothing}
         /\ h.flag \in BOOLEAN /\ h.todo \in Seq(Paths) /\ h.saw \in [Paths -> Row]
         /\ h.dirs \in Seq(Folders) /\ h.had \in Nat /\ h.over \in BOOLEAN /\ h.props \in Marks
         /\ h.kept \in SUBSET Paths /\ h.made \in SUBSET Folders /\ h.gone \in SUBSET Folders
         /\ h.did \in BOOLEAN /\ h.copied \in SUBSET Paths /\ h.alone \in BOOLEAN
  BY DEF Hand

LEMMA UnchangedIsQuiet ==
  ASSUME TreeInv, NEW s \in Workers, UNCHANGED tableVars
  PROVE  TableStep(s)
  BY DEF TableStep, Quiet, TreeInv, TablesOK, tableVars

LEMMA ToDirsIs ==
  ASSUME NEW h \in Hand, NEW p \in Paths
  PROVE  LET g == ToDirs(h, p) IN
         /\ g = [h EXCEPT !.dirs = Chain(Tgt(h), p), !.pc = g.pc]
         /\ g \in Hand /\ g.pc \in {"dirs", "land"}
         /\ g.pc = "dirs" => g.dirs # <<>>
         /\ g.pc = "land" => g.dirs = <<>>
         /\ ToSet(g.dirs) = Above(Tgt(h), p)
<1> DEFINE above == Chain(Tgt(h), p)
<1> DEFINE at == IF above = <<>> THEN "land" ELSE "dirs"
<1>1. above \in Seq(Folders) /\ ToSet(above) = Above(Tgt(h), p)
  BY ChainOf
<1>2. ToDirs(h, p) = [h EXCEPT !.dirs = above, !.pc = at]
  BY DEF ToDirs
<1>3. at \in Pcs /\ at \in {"dirs", "land"} /\ (at = "land" <=> above = <<>>)
  BY DEF Pcs
<1> HIDE DEF above, at
<1>4. [h EXCEPT !.dirs = above, !.pc = at] \in Hand
  BY <1>1, <1>3 DEF Hand
<1>5. /\ [h EXCEPT !.dirs = above, !.pc = at].pc = at
      /\ [h EXCEPT !.dirs = above, !.pc = at].dirs = above
  BY DEF Hand
<1> QED
  BY <1>1, <1>2, <1>3, <1>4, <1>5 DEF above

\* The fields of a request whose item is done.
LEMMA NextItemIs ==
  ASSUME NEW h \in Hand, h.todo # <<>>
  PROVE  /\ NextItem(h) \in Hand
         /\ NextItem(h) = [h EXCEPT !.todo = Tail(h.todo), !.over = FALSE, !.props = "none", !.pc = "item"]
<1>1. Tail(h.todo) \in Seq(Paths)
  BY HandTypes, TailOf
<1> QED
  BY <1>1 DEF NextItem, Hand, Pcs, Marks

\* One item is done: what is said of the request holds again, provided the row of the item is
\* gone or the item is kept, and a captured file is copied or kept.
LEMMA ItemDone ==
  ASSUME TreeInv, NEW s \in Workers, NEW g \in Hand, hand'[s] = g,
         hand[s].pc \in Items, hand[s].op \in Pipeline, hand[s].todo # <<>>,
         g.pc = "item", g.todo = Tail(hand[s].todo), g.op = hand[s].op, g.p = hand[s].p,
         g.saw = hand[s].saw, g.gone = hand[s].gone, g.alone = hand[s].alone,
         hand[s].kept \subseteq g.kept, hand[s].copied \subseteq g.copied,
         hand[s].alone /\ hand[s].op \in {"move", "restore"} =>
             \A f \in Files : rows'[Src(hand[s])][f].c # Nothing =>
                 /\ rows[Src(hand[s])][f].c # Nothing
                 /\ f = Head(hand[s].todo) => f \in g.kept,
         hand[s].op = "delete" /\ Head(hand[s].todo) \in Files =>
             Head(hand[s].todo) \in g.copied \cup g.kept
  PROVE  Own(s)'
<1> DEFINE h == hand[s]
<1>1. h \in Hand /\ Own(s)
  BY Facts
<1>2. ToSet(h.todo) = {Head(h.todo)} \cup ToSet(g.todo)
  BY <1>1, HandTypes, TailOf
<1>3. Route(g) /\ Loaded(g)
  BY <1>1 DEF Route, Loaded, Own, Items
<1>4. Listed(g)
  BY <1>1 DEF Listed, Own, Src
<1>5. Settled(g)
  BY <1>1, <1>2 DEF Settled, Own, Items
<1>6. Landing(hand[s])' /\ Emptied(hand[s])' /\ Priced(hand[s])'
  BY DEF Landing, Emptied, Priced
<1>7. ASSUME g.alone PROVE Clearing(hand[s])'
  <2>1. Clearing(h)
    BY <1>1, <1>7 DEF Own, Solo
  <2>2. Src(g) = Src(h)
    BY DEF Src
  <2> QED
    BY <1>2, <1>7, <2>1, <2>2 DEF Clearing, Items, Src, Within, Above
<1> QED
  BY <1>3, <1>4, <1>5, <1>6, <1>7
  DEF Own, Solo, Route, Loaded, Listed, Settled, Src, Within, Above

-----------------------------------------------------------------------------
(* Deploys. *)

LEMMA AuthorizeContentPutKeeps ==
  ASSUME TreeInv, NEW s \in Clients, AuthorizeContentPut(s)
  PROVE  TreeInv'
<1> DEFINE h == hand[s]
<1> DEFINE g == [h EXCEPT !.had = Weight(rows[Lib][h.p].c), !.pc = "quota"]
<1>1. s \in Workers /\ h.pc = "auth" /\ hand' = [hand EXCEPT ![s] = g] /\ UNCHANGED tableVars
  BY DEF AuthorizeContentPut, Becomes, Workers
<1>2. h \in Hand /\ Own(s) /\ hand \in [Workers -> Hand]
  BY <1>1, Facts
<1>3. g \in Hand
  BY <1>2, WeightIsNat DEF Hand, Pcs
<1>4. /\ g.pc = "quota" /\ g.op = h.op /\ g.p = h.p /\ g.alone = h.alone /\ g.gone = h.gone
      /\ g.had = Weight(rows[Lib][h.p].c)
  BY <1>2 DEF Hand
<1> HIDE DEF g
<1>5. hand'[s] = g /\ rows' = rows
  BY <1>1, <1>2 DEF tableVars
<1>6. Own(s)'
  <2>1. Route(hand[s])' /\ Loaded(hand[s])' /\ Listed(hand[s])' /\ Settled(hand[s])'
    BY <1>1, <1>2, <1>4, <1>5 DEF Own, Route, Loaded, Listed, Settled, Items
  <2>2. Landing(hand[s])' /\ Solo(hand[s])'
    BY <1>4, <1>5 DEF Landing, Solo, Clearing, Emptied, Priced, Items
  <2> QED
    BY <2>1, <2>2 DEF Own
<1> QED
  BY <1>1, <1>3, <1>4, <1>6, UnchangedIsQuiet, StepKeeps

LEMMA CheckQuotaKeeps ==
  ASSUME TreeInv, NEW s \in Clients, CheckQuota(s)
  PROVE  TreeInv'
<1> DEFINE h == hand[s]
<1> DEFINE g == ToDirs(h, h.p)
<1>1. s \in Workers /\ h.pc = "quota" /\ UNCHANGED tableVars
  BY DEF CheckQuota, Workers
<1>2. h \in Hand /\ Own(s) /\ hand \in [Workers -> Hand] /\ h.p \in Paths
  BY <1>1, Facts, HandTypes
<1>3. CASE QuotaRefuses(Lib, h.c, h.had)
  BY <1>1, <1>3, UnchangedIsQuiet, EndKeeps DEF CheckQuota
<1>4. CASE ~QuotaRefuses(Lib, h.c, h.had)
  <2>1. hand' = [hand EXCEPT ![s] = g]
    BY <1>4 DEF CheckQuota, Becomes
  <2>2. /\ g = [h EXCEPT !.dirs = Chain(Tgt(h), h.p), !.pc = g.pc]
        /\ g \in Hand /\ g.pc \in {"dirs", "land"}
        /\ g.pc = "dirs" => g.dirs # <<>>
        /\ g.pc = "land" => g.dirs = <<>>
        /\ ToSet(g.dirs) = Above(Tgt(h), h.p)
    BY <1>2, ToDirsIs
  <2> HIDE DEF g
  <2>3. /\ g.op = h.op /\ g.p = h.p /\ g.alone = h.alone /\ g.gone = h.gone /\ g.c = h.c
        /\ g.had = h.had
    BY <1>2, <2>2 DEF Hand
  <2>4. h.op = "put" /\ h.p \in Files /\ h.gone = {}
    BY <1>1, <1>2 DEF Own, Route, Loaded
  <2>5. hand'[s] = g /\ rows' = rows /\ usage' = usage
    BY <1>1, <1>2, <2>1 DEF tableVars
  <2>6. Own(s)'
    <3>1. Route(hand[s])' /\ Loaded(hand[s])' /\ Listed(hand[s])' /\ Settled(hand[s])'
      BY <2>2, <2>3, <2>4, <2>5 DEF Route, Loaded, Listed, Settled
    <3>2. Landing(hand[s])'
      BY <2>2, <2>3, <2>4, <2>5 DEF Landing, Dest, Tgt, Above
    <3>3. ASSUME g.alone PROVE Priced(hand[s])'
      <4>1. h.had = Weight(rows[Lib][h.p].c)
        BY <1>1, <1>2, <2>3, <3>3 DEF Own, Solo, Priced
      <4> QED
        BY <1>4, <2>2, <2>3, <2>4, <2>5, <4>1 DEF Priced, QuotaRefuses
    <3>4. Clearing(hand[s])' /\ Emptied(hand[s])'
      BY <2>2, <2>3, <2>4, <2>5 DEF Clearing, Emptied
    <3> QED
      BY <2>5, <3>1, <3>2, <3>3, <3>4 DEF Own, Solo
  <2> QED
    BY <1>1, <2>1, <2>2, <2>3, <2>6, UnchangedIsQuiet, StepKeeps
<1> QED
  BY <1>3, <1>4

LEMMA FolderPutIs ==
  ASSUME TreeInv, NEW s, NEW r \in Repos, NEW d \in Folders, PutFolderRow(r, d)
  PROVE  TableStep(s) /\ FolderPut(r, d) /\ \A t \in Repos : \A f \in Files : rows'[t][f].c = rows[t][f].c
<1>1. TablesOK
  BY DEF TreeInv
<1>2. rows' \in [Repos -> [Paths -> Row]] /\ Sets(r, d, Marker)
  BY <1>1, RowTypes, RowSet, Consts DEF PutFolderRow
<1>3. FolderPut(r, d)
  BY <1>2 DEF FolderPut, PutFolderRow
<1> QED
  BY <1>2, <1>3, Consts DEF TableStep, Sets

LEMMA FolderDropIs ==
  ASSUME TreeInv, NEW s, NEW r \in Repos, NEW d \in Folders, NEW e \in BOOLEAN, DropFolderRow(r, d, e),
         e \/ (hand[s].alone /\ Bare(r, d))
  PROVE  TableStep(s) /\ Sets(r, d, Nothing) /\ \A t \in Repos : \A f \in Files : rows'[t][f].c = rows[t][f].c
<1>1. TablesOK
  BY DEF TreeInv
<1>2. rows' \in [Repos -> [Paths -> Row]] /\ Sets(r, d, Nothing)
  BY <1>1, RowTypes, RowSet, Consts DEF DropFolderRow
<1>3. FolderDrop(s, r, d)
  BY <1>2 DEF FolderDrop, DropFolderRow
<1> QED
  BY <1>2, <1>3, Consts DEF TableStep, Sets

LEMMA FileDropIs ==
  ASSUME TreeInv, NEW s, NEW r \in Repos, NEW f \in Files, DeleteNodeWithUsage(r, f), torn' = torn
  PROVE  TableStep(s) /\ Sets(r, f, Nothing)
<1>1. TablesOK
  BY DEF TreeInv
<1>2. rows' \in [Repos -> [Paths -> Row]] /\ Sets(r, f, Nothing)
  BY <1>1, RowTypes, RowSet, Consts DEF DeleteNodeWithUsage
<1>3. FileDrop(r, f)
  BY <1>2 DEF FileDrop, DeleteNodeWithUsage
<1> QED
  BY <1>2, <1>3 DEF TableStep

\* A file lands: its folders and its price were settled on the way.
LEMMA FilePutIs ==
  ASSUME TreeInv, NEW s \in Clients, hand[s].pc = "land", hand'[s] # hand[s],
         NEW r \in Repos, r = Tgt(hand[s]), NEW f \in Files, f = Dest(hand[s]), NEW row \in Row,
         hand[s].alone => ~QuotaRefuses(r, row.c, Weight(rows[r][f].c)),
         PutNodeWithUsage(r, f, row), torn' = torn
  PROVE  TableStep(s) /\ Sets(r, f, row.c)
<1>1. TablesOK /\ Own(s) /\ hand[s] \in Hand
  BY Facts DEF Workers
<1>2. rows' \in [Repos -> [Paths -> Row]] /\ Sets(r, f, row.c)
  BY <1>1, RowSet, Consts DEF PutNodeWithUsage
<1>3. Covered(r, f)
  <2>1. ToSet(hand[s].dirs) = {}
    BY <1>1 DEF Own, Loaded, ToSet
  <2> QED
    BY <1>1, <2>1 DEF Own, Landing, Covered, Present
<1>4. FilePut(s, r, f, row.c)
  BY <1>2, <1>3 DEF FilePut, PutNodeWithUsage
<1> QED
  BY <1>2, <1>4 DEF TableStep

LEMMA MaterializeAncestorsKeeps ==
  ASSUME TreeInv, NEW s \in Clients, MaterializeAncestors(s)
  PROVE  TreeInv'
<1> DEFINE h == hand[s]
<1> DEFINE at == IF Len(h.dirs) = 1 THEN "land" ELSE "dirs"
<1> DEFINE g == [h EXCEPT !.dirs = Tail(h.dirs), !.pc = at]
<1> DEFINE r == Tgt(h)
<1>1. s \in Workers /\ h.pc = "dirs" /\ hand' = [hand EXCEPT ![s] = g] /\ PutFolderRow(r, Head(h.dirs))
  BY DEF MaterializeAncestors, Becomes, Workers
<1>2. h \in Hand /\ Own(s) /\ hand \in [Workers -> Hand] /\ r \in Repos /\ Src(h) \in Repos
  BY <1>1, Facts
<1>3. h.dirs \in Seq(Folders) /\ h.dirs # <<>> /\ h.todo \in Seq(Paths)
  BY <1>1, <1>2, HandTypes DEF Own, Loaded
<1>4. /\ Tail(h.dirs) \in Seq(Folders) /\ Head(h.dirs) \in Folders
      /\ ToSet(h.dirs) = {Head(h.dirs)} \cup ToSet(Tail(h.dirs))
      /\ Len(Tail(h.dirs)) = Len(h.dirs) - 1 /\ Len(h.dirs) \in Nat \ {0}
  BY <1>3, TailOf, ToSetIs
<1>5. /\ at = "dirs" => Tail(h.dirs) # <<>>
      /\ at = "land" => Tail(h.dirs) = <<>>
  <2>1. Tail(h.dirs) = <<>> <=> Len(Tail(h.dirs)) = 0
    BY <1>4, EmptySeq
  <2> QED
    BY <1>4, <2>1
<1>6. g \in Hand
  BY <1>2, <1>4 DEF Hand, Pcs
<1>7. /\ g.pc = at /\ g.dirs = Tail(h.dirs) /\ g.op = h.op /\ g.p = h.p /\ g.alone = h.alone
      /\ g.gone = h.gone /\ g.c = h.c /\ g.todo = h.todo /\ g.kept = h.kept /\ g.copied = h.copied
      /\ g.saw = h.saw
  BY <1>2 DEF Hand
<1>8. at \in {"dirs", "land"}
  OBVIOUS
<1> HIDE DEF g, at
<1>9. hand'[s] = g /\ usage' = usage
  BY <1>1, <1>2 DEF PutFolderRow
<1>10. /\ TableStep(s) /\ FolderPut(r, Head(h.dirs))
       /\ \A t \in Repos : \A f \in Files : rows'[t][f].c = rows[t][f].c
  BY <1>1, <1>2, <1>4, FolderPutIs
<1>11. Own(s)'
  <2>1. Route(hand[s])' /\ Loaded(hand[s])'
    BY <1>1, <1>2, <1>5, <1>7, <1>8, <1>9 DEF Own, Route, Loaded
  <2>2. Listed(hand[s])' /\ Settled(hand[s])'
    BY <1>1, <1>2, <1>7, <1>8, <1>9 DEF Own, Listed, Settled, Items, Src, Within, Above
  <2>3. Landing(hand[s])'
    <3>1. Loaded(h) /\ Landing(h)
      BY <1>2 DEF Own
    <3>2. Above(r, Dest(h)) \subseteq Folders
      BY <1>1, <1>2, <3>1, DestIs
    <3>3. ASSUME NEW d \in Above(r, Dest(h)), d \notin ToSet(g.dirs)
          PROVE  rows'[r][d].c # Nothing \/ <<r, d>> \in torn'
      <4>1. d = Head(h.dirs) \/ rows[r][d].c # Nothing \/ <<r, d>> \in torn
        BY <1>1, <1>4, <1>7, <3>1, <3>3 DEF Landing, Present
      <4> QED
        BY <1>2, <1>10, <3>2, <4>1, Consts DEF FolderPut, Sets
    <3> QED
      BY <1>7, <1>9, <3>2, <3>3, Consts DEF Landing, Present, Tgt, Dest, Above
  <2>4. ASSUME g.alone PROVE Clearing(hand[s])' /\ Priced(hand[s])'
    <3>1. Clearing(h) /\ Priced(h)
      BY <1>2, <1>7, <2>4 DEF Own, Solo
    <3>2. Clearing(hand[s])'
      BY <1>1, <1>2, <1>7, <1>8, <1>9, <1>10, <3>1 DEF Clearing, Items, Src, Within, Above
    <3>3. Priced(hand[s])'
      <4>1. Lib \in Repos
        BY Consts
      <4> QED
        BY <1>1, <1>2, <1>7, <1>8, <1>9, <1>10, <3>1, <4>1 DEF Priced, QuotaRefuses, Tgt
    <3> QED
      BY <3>2, <3>3
  <2>5. Emptied(hand[s])'
    BY <1>7, <1>8, <1>9 DEF Emptied
  <2> QED
    BY <1>9, <2>1, <2>2, <2>3, <2>4, <2>5 DEF Own, Solo
<1> QED
  BY <1>1, <1>6, <1>7, <1>10, <1>11, StepKeeps

LEMMA PutNodeKeeps ==
  ASSUME TreeInv, NEW s \in Clients, PutNode(s)
  PROVE  TreeInv'
<1> DEFINE h == hand[s]
<1>1. s \in Workers /\ h.pc = "land" /\ h.op = "put" /\ Ends(s)
  BY DEF PutNode, Workers
<1>2. h \in Hand /\ Own(s) /\ hand \in [Workers -> Hand] /\ h.p \in Paths /\ h.c \in Contents \cup {Nothing}
  BY <1>1, Facts, HandTypes
<1>3. CASE h.p \in Folders
  BY <1>1, <1>3, FolderPutIs, EndKeeps, Consts DEF PutNode
<1>4. CASE h.p \notin Folders
  <2> DEFINE row == [c |-> h.c, old |-> FALSE, mark |-> rows[Lib][h.p].mark]
  <2>1. h.p \in Files /\ Lib = Tgt(h) /\ h.p = Dest(h) /\ Lib \in Repos
    BY <1>1, <1>2, <1>4, Consts DEF Paths, Tgt, Dest
  <2>2. PutNodeWithUsage(Lib, h.p, row) /\ torn' = torn
    BY <1>4 DEF PutNode
  <2>3. row \in Row /\ row.c = h.c
    <3>1. rows[Lib][h.p] \in Row
      BY <1>2, <2>1, Consts DEF TreeInv, TablesOK
    <3> QED
      BY <1>2, <3>1 DEF Row
  <2>4. h.alone => ~QuotaRefuses(Lib, h.c, Weight(rows[Lib][h.p].c))
    BY <1>1, <1>2, <2>1 DEF Own, Solo, Priced
  <2>5. hand'[s] # h
    <3>1. hand'[s] = Idle
      BY <1>1, <1>2 DEF Ends, Becomes
    <3> QED
      BY <1>1, <3>1, IdleIs
  <2> HIDE DEF row
  <2>6. TableStep(s)
    BY <1>1, <2>1, <2>2, <2>3, <2>4, <2>5, FilePutIs
  <2> QED
    BY <1>1, <2>6, EndKeeps
<1> QED
  BY <1>3, <1>4

-----------------------------------------------------------------------------
(* The copy/move pipeline. *)

LEMMA CaptureProbeKeeps ==
  ASSUME TreeInv, NEW s \in Clients, CaptureProbe(s)
  PROVE  TreeInv'
<1> DEFINE h == hand[s]
<1>1. PICK at \in {"doom", "walk"} : hand' = [hand EXCEPT ![s] = [h EXCEPT !.pc = at]]
  BY DEF CaptureProbe, Becomes
<1> DEFINE g == [h EXCEPT !.pc = at]
<1>2. s \in Workers /\ h.pc = "probe" /\ UNCHANGED tableVars
  BY DEF CaptureProbe, Workers
<1>3. h \in Hand /\ Own(s) /\ hand \in [Workers -> Hand]
  BY <1>2, Facts
<1>4. g \in Hand
  BY <1>3 DEF Hand, Pcs
<1>5. /\ g.pc = at /\ g.op = h.op /\ g.alone = h.alone /\ g.gone = h.gone
      /\ g.saw = h.saw /\ g.copied = h.copied
  BY <1>3 DEF Hand
<1> HIDE DEF g
<1>0. hand' = [hand EXCEPT ![s] = g]
  BY <1>1 DEF g
<1>6. hand'[s] = g
  BY <1>0, <1>2, <1>3
<1>7. Own(s)'
  <2>1. Route(hand[s])' /\ Loaded(hand[s])'
    BY <1>2, <1>3, <1>5, <1>6 DEF Own, Route, Loaded, Pipeline
  <2>2. Listed(hand[s])' /\ Settled(hand[s])'
    BY <1>2, <1>3, <1>5, <1>6 DEF Own, Listed, Settled, Items
  <2>3. Landing(hand[s])' /\ Solo(hand[s])'
    BY <1>5, <1>6 DEF Landing, Solo, Clearing, Emptied, Priced, Items
  <2> QED
    BY <2>1, <2>2, <2>3 DEF Own
<1> QED
  BY <1>0, <1>2, <1>4, <1>5, <1>7, UnchangedIsQuiet, StepKeeps

\* A walk has what it listed.
LEMMA SeenIs ==
  ASSUME TablesOK, NEW r \in Repos, NEW S \in SUBSET Paths
  PROVE  /\ Seen(r, S) \in [Paths -> Row]
         /\ \A q \in Paths : Seen(r, S)[q].c # Nothing => q \in S
<1>1. \A q \in Paths : rows[r][q] \in Row
  BY DEF TablesOK
<1>2. \A row \in Row : [row EXCEPT !.mark = "none"] \in Row
  BY DEF Row, Marks
<1> QED
  BY <1>1, <1>2, RowTypes DEF Seen

LEMMA WalkKeeps ==
  ASSUME TreeInv, NEW s \in Clients, Walk(s)
  PROVE  TreeInv'
<1> DEFINE h == hand[s]
<1> DEFINE r == Src(h)
<1> DEFINE listed == Present(r) \cap Within(r, h.p)
<1> DEFINE g == [h EXCEPT !.todo = Listing(listed), !.pc = "item", !.saw = Seen(r, listed)]
<1>1. s \in Workers /\ h.pc = "walk" /\ UNCHANGED tableVars
  BY DEF Walk, Workers
<1>2. h \in Hand /\ Own(s) /\ hand \in [Workers -> Hand] /\ r \in Repos /\ TablesOK
  BY <1>1, Facts
<1>3. CASE h.p \notin Present(r)
  BY <1>1, <1>3, UnchangedIsQuiet, EndKeeps DEF Walk
<1>4. CASE h.p \in Present(r)
  <2>1. hand' = [hand EXCEPT ![s] = g]
    BY <1>4 DEF Walk, Becomes
  <2>2. listed \in SUBSET Paths
    BY DEF Present
  <2>3. Listing(listed) \in Seq(Paths) /\ ToSet(Listing(listed)) = listed
    BY <2>2, ListingOf
  <2>4. /\ Seen(r, listed) \in [Paths -> Row]
        /\ \A q \in Paths : Seen(r, listed)[q].c # Nothing => q \in listed
    BY <1>2, <2>2, SeenIs
  <2>5. g \in Hand
    BY <1>2, <2>3, <2>4 DEF Hand, Pcs
  <2>6. /\ g.pc = "item" /\ g.op = h.op /\ g.p = h.p /\ g.alone = h.alone /\ g.gone = h.gone
        /\ g.saw = Seen(r, listed) /\ g.todo = Listing(listed)
    BY <1>2 DEF Hand
  <2>7. \A q \in Paths : q \in listed <=> rows[r][q].c # Nothing /\ q \in Within(r, h.p)
    BY DEF Present
  <2> HIDE DEF g, listed
  <2>8. hand'[s] = g /\ rows' = rows
    BY <1>1, <1>2, <2>1 DEF tableVars
  <2>9. Own(s)'
    <3>1. Route(hand[s])' /\ Loaded(hand[s])'
      BY <1>1, <1>2, <2>6, <2>8 DEF Own, Route, Loaded
    <3>2. Listed(hand[s])' /\ Settled(hand[s])'
      BY <2>3, <2>4, <2>6, <2>7, <2>8, Consts DEF Listed, Settled, Items, Src, Within, Above
    <3>3. Clearing(hand[s])'
      BY <2>3, <2>6, <2>7, <2>8, Consts DEF Clearing, Items, Src, Within, Above
    <3>4. Landing(hand[s])' /\ Emptied(hand[s])' /\ Priced(hand[s])'
      BY <2>6, <2>8 DEF Landing, Emptied, Priced
    <3> QED
      BY <3>1, <3>2, <3>3, <3>4 DEF Own, Solo
  <2> QED
    BY <1>1, <2>1, <2>5, <2>6, <2>9, UnchangedIsQuiet, StepKeeps
<1> QED
  BY <1>3, <1>4

\* A request that turns to the folders above an item, or from an item to its properties.
LEMMA ItemGoesOn ==
  ASSUME TreeInv, NEW s \in Workers, NEW g \in Hand, hand'[s] = g,
         hand[s].pc \in {"item", "props"}, hand[s].todo # <<>>,
         g.op = hand[s].op, g.p = hand[s].p, g.todo = hand[s].todo, g.saw = hand[s].saw,
         g.kept = hand[s].kept, g.copied = hand[s].copied, g.gone = hand[s].gone,
         g.alone = hand[s].alone,
         \/ g.pc = "props" /\ Head(hand[s].todo) \in Files
         \/ /\ g.pc \in {"dirs", "land"}
            /\ g.pc = "dirs" => g.dirs # <<>>
            /\ g.pc = "land" => g.dirs = <<>>
            /\ ToSet(g.dirs) = Above(Tgt(hand[s]), Head(hand[s].todo)),
         \A t \in Repos : \A f \in Files : rows'[t][f].c = rows[t][f].c,
         usage' = usage,
         hand[s].alone /\ Head(hand[s].todo) \in Files =>
             ~QuotaRefuses(Tgt(hand[s]), hand[s].saw[Head(hand[s].todo)].c,
                           Weight(rows[Tgt(hand[s])][Head(hand[s].todo)].c))
  PROVE  Own(s)'
<1> DEFINE h == hand[s]
<1>1. h \in Hand /\ Own(s) /\ Src(h) \in Repos /\ Tgt(h) \in Repos
  BY Facts
<1>2. g.op \in Pipeline
  BY <1>1 DEF Own, Route
<1>3. Route(g) /\ Loaded(g)
  BY <1>1, <1>2 DEF Own, Route, Loaded, Pipeline
<1>4. Listed(g) /\ Settled(g)
  BY <1>1 DEF Own, Listed, Settled, Items, Src
<1>5. Landing(hand[s])'
  BY <1>2 DEF Landing, Dest, Tgt, Above, Pipeline
<1>6. ASSUME g.alone PROVE Clearing(hand[s])' /\ Priced(hand[s])'
  <2>1. Clearing(h)
    BY <1>1, <1>6 DEF Own, Solo
  <2>2. Clearing(hand[s])'
    BY <1>1, <2>1 DEF Clearing, Items, Src, Within, Above
  <2>3. Priced(hand[s])'
    BY <1>1, <1>2, <1>6 DEF Priced, QuotaRefuses, Tgt, Pipeline
  <2> QED
    BY <2>2, <2>3
<1>7. Emptied(hand[s])'
  BY DEF Emptied
<1> QED
  BY <1>3, <1>4, <1>5, <1>6, <1>7
  DEF Own, Solo, Route, Loaded, Listed, Settled, Src, Within, Above

\* An item fails, wherever in its transfer.
LEMMA ItemFailsKeeps ==
  ASSUME TreeInv, NEW s \in Workers, hand[s].pc \in Items, hand[s].op \in Pipeline,
         hand[s].todo # <<>>, Becomes(s, ItemError(hand[s])), TableStep(s),
         \A t \in Repos : \A f \in Files : rows'[t][f].c = rows[t][f].c
  PROVE  TreeInv'
<1> DEFINE h == hand[s]
<1>1. hand[s].pc # "idle"
  BY DEF Items
<1>2. CASE h.op \in {"move", "copy"} /\ h.flag
  BY <1>1, <1>2, EndKeeps DEF ItemError, Ends
<1>3. CASE ~(h.op \in {"move", "copy"} /\ h.flag)
  <2> DEFINE g == [NextItem(h) EXCEPT !.dirs = <<>>, !.kept = @ \cup {Head(h.todo)}]
  <2>1. hand' = [hand EXCEPT ![s] = g]
    BY <1>3 DEF ItemError, Becomes
  <2>2. h \in Hand /\ Own(s) /\ hand \in [Workers -> Hand] /\ Src(h) \in Repos
    BY Facts
  <2>3. Head(h.todo) \in Paths
    BY <2>2, HandTypes, ToSetIs
  <2>4. /\ NextItem(h) \in Hand
        /\ NextItem(h) = [h EXCEPT !.todo = Tail(h.todo), !.over = FALSE, !.props = "none", !.pc = "item"]
    BY <2>2, NextItemIs
  <2>5. g \in Hand
    <3> DEFINE n == NextItem(h)
    <3> DEFINE k == n.kept \cup {Head(h.todo)}
    <3>1. n \in Hand /\ g = [n EXCEPT !.dirs = <<>>, !.kept = k] /\ <<>> \in Seq(Folders)
      BY <2>4
    <3>2. k \in SUBSET Paths
      BY <2>3, <2>4, HandTypes
    <3> HIDE DEF n, k, g
    <3> QED
      BY <3>1, <3>2 DEF Hand
  <2>6. /\ g.pc = "item" /\ g.op = h.op /\ g.p = h.p /\ g.alone = h.alone /\ g.gone = h.gone
        /\ g.saw = h.saw /\ g.todo = Tail(h.todo) /\ g.copied = h.copied
        /\ g.kept = h.kept \cup {Head(h.todo)}
    BY <2>2, <2>4 DEF Hand
  <2> HIDE DEF g
  <2>7. hand'[s] = g /\ Head(h.todo) \in g.kept /\ h.kept \subseteq g.kept
    BY <2>1, <2>2, <2>6
  <2>8. \A f \in Files : rows'[Src(h)][f].c # Nothing =>
            rows[Src(h)][f].c # Nothing /\ (f = Head(h.todo) => f \in g.kept)
    BY <2>2, <2>7
  <2>9. Own(s)'
    BY <2>5, <2>6, <2>7, <2>8, ItemDone
  <2> QED
    BY <1>1, <2>1, <2>5, <2>6, <2>9, StepKeeps
<1> QED
  BY <1>2, <1>3

LEMMA ItemErrorKeeps ==
  ASSUME TreeInv, NEW s \in Workers, hand[s].pc \in Items, hand[s].op \in Pipeline,
         hand[s].todo # <<>>, Becomes(s, ItemError(hand[s])), UNCHANGED tableVars
  PROVE  TreeInv'
<1>1. TableStep(s) /\ rows' = rows
  BY UnchangedIsQuiet DEF tableVars
<1> QED
  BY <1>1, ItemFailsKeeps

\* A probe that found the target no heavier than it is leaves a quota check that holds.
LEMMA ProbedKeeps ==
  ASSUME TreeInv, NEW s \in Workers, hand[s].pc = "item", hand[s].todo # <<>>,
         NEW o \in BOOLEAN, NEW n \in Nat, n <= Weight(rows[Tgt(hand[s])][Head(hand[s].todo)].c),
         Becomes(s, Probed(hand[s], o, n)), UNCHANGED tableVars
  PROVE  TreeInv'
<1> DEFINE h == hand[s]
<1> DEFINE p == Head(h.todo)
<1> DEFINE target == rows[Tgt(h)][p]
<1>1. s \in Workers /\ h.pc = "item" /\ h.todo # <<>> /\ UNCHANGED tableVars
  OBVIOUS
<1>2. h \in Hand /\ Own(s) /\ hand \in [Workers -> Hand]
  BY <1>1, Facts
<1>3. p \in Paths /\ h.op \in Pipeline
  BY <1>1, <1>2, HandTypes, ToSetIs DEF Own, Route
<1>4. TableStep(s) /\ rows' = rows /\ usage' = usage
  BY <1>1, UnchangedIsQuiet DEF tableVars
<1>5. CASE p \in Folders
  <2> DEFINE f == ToDirs(h, p)
  <2> DEFINE g == [f EXCEPT !.over = o]
  <2>1. hand' = [hand EXCEPT ![s] = g]
    BY <1>5 DEF Probed, Becomes
  <2>2. /\ f = [h EXCEPT !.dirs = Chain(Tgt(h), p), !.pc = f.pc]
        /\ f \in Hand /\ f.pc \in {"dirs", "land"}
        /\ f.pc = "dirs" => f.dirs # <<>>
        /\ f.pc = "land" => f.dirs = <<>>
        /\ ToSet(f.dirs) = Above(Tgt(h), p)
    BY <1>2, <1>3, ToDirsIs
  <2> HIDE DEF f
  <2>3. g \in Hand
    BY <2>2 DEF Hand
  <2>4. /\ f.op = h.op /\ f.p = h.p /\ f.alone = h.alone /\ f.gone = h.gone
        /\ f.saw = h.saw /\ f.todo = h.todo /\ f.copied = h.copied /\ f.kept = h.kept
    BY <1>2, <2>2 DEF Hand
  <2>5. /\ g.pc = f.pc /\ g.dirs = f.dirs
        /\ g.op = f.op /\ g.p = f.p /\ g.alone = f.alone /\ g.gone = f.gone
        /\ g.saw = f.saw /\ g.todo = f.todo /\ g.copied = f.copied /\ g.kept = f.kept
    BY <2>2 DEF Hand
  <2> HIDE DEF g
  <2>6. hand'[s] = g
    BY <1>1, <1>2, <2>1
  <2>7. p \notin Files
    BY <1>5, Consts
  <2>8. Own(s)'
    BY <1>1, <1>4, <2>2, <2>3, <2>4, <2>5, <2>6, <2>7, ItemGoesOn
  <2> QED
    BY <1>1, <1>4, <2>1, <2>3, <2>4, <2>5, <2>8, StepKeeps
<1>6. CASE p \notin Folders /\ QuotaRefuses(Tgt(h), h.saw[p].c, n)
  <2>1. Becomes(s, ItemError(h))
    BY <1>6 DEF Probed
  <2> QED
    BY <1>1, <1>3, <2>1, ItemErrorKeeps DEF Items
<1>7. CASE p \notin Folders /\ ~QuotaRefuses(Tgt(h), h.saw[p].c, n)
  <2> DEFINE g == [h EXCEPT !.over = o, !.pc = "props"]
  <2>1. hand' = [hand EXCEPT ![s] = g]
    BY <1>7 DEF Probed, Becomes
  <2>2. g \in Hand
    BY <1>2 DEF Hand, Pcs
  <2>3. /\ g.pc = "props" /\ g.op = h.op /\ g.p = h.p /\ g.alone = h.alone /\ g.gone = h.gone
        /\ g.saw = h.saw /\ g.todo = h.todo /\ g.copied = h.copied /\ g.kept = h.kept
    BY <1>2 DEF Hand
  <2> HIDE DEF g
  <2>4. hand'[s] = g
    BY <1>1, <1>2, <2>1
  <2>5. p \in Files
    BY <1>3, <1>7 DEF Paths
  <2>6. ~QuotaRefuses(Tgt(h), h.saw[p].c, Weight(target.c))
    <3>1. usage[Tgt(h)] \in Int /\ Quota[Tgt(h)] \in Nat
      BY <1>1, Facts, NodeTreeConstants DEF TreeInv, TablesOK
    <3> QED
      BY <1>7, <3>1, WeightIsNat DEF QuotaRefuses
  <2>7. Own(s)'
    BY <1>1, <1>4, <2>2, <2>3, <2>4, <2>5, <2>6, ItemGoesOn
  <2> QED
    BY <1>1, <1>4, <2>1, <2>2, <2>3, <2>7, StepKeeps
<1> QED
  BY <1>5, <1>6, <1>7

LEMMA ProcessItemKeeps ==
  ASSUME TreeInv, NEW s \in Clients, ProcessItem(s)
  PROVE  TreeInv'
<1> DEFINE h == hand[s]
<1> DEFINE target == rows[Tgt(h)][Head(h.todo)]
<1> DEFINE o == target.c # Nothing
<1>1. /\ s \in Workers /\ h.pc = "item" /\ h.todo # <<>> /\ UNCHANGED tableVars
      /\ Becomes(s, Probed(h, o, Weight(target.c)))
  BY DEF ProcessItem, Workers
<1>2. o \in BOOLEAN
  OBVIOUS
<1>3. Weight(target.c) \in Nat /\ Weight(target.c) <= Weight(target.c)
  BY WeightIsNat
<1> HIDE DEF o
<1> QED
  BY <1>1, <1>2, <1>3, ProbedKeeps

LEMMA BlindItemKeeps ==
  ASSUME TreeInv, NEW s \in Clients, BlindItem(s)
  PROVE  TreeInv'
<1> DEFINE h == hand[s]
<1> DEFINE target == rows[Tgt(h)][Head(h.todo)]
<1>1. PICK o \in {FALSE, target.c # Nothing} : Becomes(s, Probed(h, o, 0))
  BY DEF BlindItem
<1>2. s \in Workers /\ h.pc = "item" /\ h.todo # <<>> /\ UNCHANGED tableVars
  BY DEF BlindItem, Workers
<1>3. 0 \in Nat /\ 0 <= Weight(target.c)
  BY WeightIsNat
<1>4. o \in BOOLEAN
  OBVIOUS
<1> QED
  BY <1>1, <1>2, <1>3, <1>4, ProbedKeeps

LEMMA RefuseItemKeeps ==
  ASSUME TreeInv, NEW s \in Clients, RefuseItem(s)
  PROVE  TreeInv'
  BY ItemErrorKeeps DEF RefuseItem, Items, Pipeline, Workers

LEMMA CarryPropsKeeps ==
  ASSUME TreeInv, NEW s \in Clients, CarryProps(s)
  PROVE  TreeInv'
<1> DEFINE h == hand[s]
<1> DEFINE p == Head(h.todo)
<1> DEFINE f == ToDirs(h, p)
<1> DEFINE m == rows[Src(h)][p].mark
<1> DEFINE g == [f EXCEPT !.props = m]
<1>1. s \in Workers /\ h.pc = "props" /\ hand' = [hand EXCEPT ![s] = g] /\ usage' = usage /\ torn' = torn
  BY DEF CarryProps, Becomes, Workers
<1>2. /\ h \in Hand /\ Own(s) /\ hand \in [Workers -> Hand] /\ TablesOK
      /\ Src(h) \in Repos /\ Tgt(h) \in Repos
  BY <1>1, Facts
<1>3. p \in Files /\ p \in Paths /\ h.todo # <<>> /\ h.op # "put"
  BY <1>1, <1>2, Consts DEF Own, Route, Loaded, Pipeline
<1>4. m \in Marks
  BY <1>2, <1>3, RowTypes DEF TablesOK
<1>5. /\ rows' \in [Repos -> [Paths -> Row]]
      /\ \A t \in Repos : \A q \in Paths : rows'[t][q].c = rows[t][q].c
  <2>1. CASE h.over
    <3>1. MarkRow(Tgt(h), p, "none") /\ "none" \in Marks
      BY <2>1 DEF CarryProps, Marks
    <3> QED
      BY <1>2, <1>3, <3>1, RowMarked
  <2>2. CASE ~h.over
    <3>1. rows' = rows
      BY <2>2 DEF CarryProps
    <3> QED
      BY <1>2, <3>1 DEF TablesOK
  <2> QED
    BY <2>1, <2>2
<1>6. TableStep(s)
  BY <1>1, <1>5 DEF TableStep, Quiet
<1>7. /\ f = [h EXCEPT !.dirs = Chain(Tgt(h), p), !.pc = f.pc]
      /\ f \in Hand /\ f.pc \in {"dirs", "land"}
      /\ f.pc = "dirs" => f.dirs # <<>>
      /\ f.pc = "land" => f.dirs = <<>>
      /\ ToSet(f.dirs) = Above(Tgt(h), p)
  BY <1>2, <1>3, ToDirsIs
<1> HIDE DEF f, m
<1>8. g \in Hand
  BY <1>4, <1>7 DEF Hand
<1>9. /\ f.op = h.op /\ f.p = h.p /\ f.alone = h.alone /\ f.gone = h.gone
      /\ f.saw = h.saw /\ f.todo = h.todo /\ f.copied = h.copied /\ f.kept = h.kept
  BY <1>2, <1>7 DEF Hand
<1>10. /\ g.pc = f.pc /\ g.dirs = f.dirs
       /\ g.op = f.op /\ g.p = f.p /\ g.alone = f.alone /\ g.gone = f.gone
       /\ g.saw = f.saw /\ g.todo = f.todo /\ g.copied = f.copied /\ g.kept = f.kept
  BY <1>7 DEF Hand
<1> HIDE DEF g
<1>11. hand'[s] = g
  BY <1>1, <1>2
<1>12. h.alone => ~QuotaRefuses(Tgt(h), h.saw[p].c, Weight(rows[Tgt(h)][p].c))
  BY <1>1, <1>2, <1>3 DEF Own, Solo, Priced
<1>13. \A t \in Repos : \A q \in Files : rows'[t][q].c = rows[t][q].c
  BY <1>5, Consts
<1>14. Own(s)'
  BY <1>1, <1>3, <1>7, <1>8, <1>9, <1>10, <1>11, <1>12, <1>13, ItemGoesOn
<1> QED
  BY <1>1, <1>6, <1>8, <1>9, <1>10, <1>14, StepKeeps

LEMMA WriteFileKeeps ==
  ASSUME TreeInv, NEW s \in Clients, WriteFile(s)
  PROVE  TreeInv'
<1> DEFINE h == hand[s]
<1> DEFINE p == Head(h.todo)
<1> DEFINE r == Tgt(h)
<1> DEFINE f == [h EXCEPT !.copied = h.copied \cup {p}]
<1> DEFINE row == [c |-> h.saw[p].c, old |-> h.saw[p].old, mark |-> rows[r][p].mark]
<1>1. /\ s \in Workers /\ h.pc = "land" /\ h.op # "put" /\ p \in Files /\ torn' = torn
      /\ PutNodeWithUsage(r, p, row)
      /\ hand' = [hand EXCEPT ![s] = IF h.props = "none" THEN Landed(f) ELSE [f EXCEPT !.pc = "merge"]]
  BY DEF WriteFile, Becomes, Workers
<1>2. /\ h \in Hand /\ Own(s) /\ hand \in [Workers -> Hand] /\ TablesOK
      /\ Src(h) \in Repos /\ r \in Repos /\ (h.op \in {"move", "restore"} => Src(h) # r)
  BY <1>1, Facts
<1>3. p \in Paths /\ h.todo # <<>> /\ h.op \in Pipeline /\ p = Dest(h)
  BY <1>1, <1>2, Consts, HandTypes DEF Own, Route, Loaded, Pipeline, Dest, Ops
<1>4. row \in Row /\ row.c = h.saw[p].c
  <2>1. rows[r][p] \in Row /\ h.saw[p] \in Row
    BY <1>2, <1>3, HandTypes DEF TablesOK
  <2> QED
    BY <2>1 DEF Row
<1>5. f \in Hand
  <2>1. h.copied \cup {p} \in SUBSET Paths
    BY <1>2, <1>3, HandTypes
  <2> QED
    BY <1>2, <2>1 DEF Hand
<1>6. /\ f.pc = h.pc /\ f.op = h.op /\ f.p = h.p /\ f.alone = h.alone /\ f.gone = h.gone
      /\ f.saw = h.saw /\ f.todo = h.todo /\ f.copied = h.copied \cup {p} /\ f.kept = h.kept
  BY <1>2 DEF Hand
<1>7. h.alone => ~QuotaRefuses(r, row.c, Weight(rows[r][p].c))
  BY <1>1, <1>2, <1>4 DEF Own, Solo, Priced
<1> HIDE DEF f, row
<1>8. ASSUME hand'[s] # h
      PROVE  TableStep(s) /\ Sets(r, p, row.c)
  BY <1>1, <1>2, <1>3, <1>4, <1>7, <1>8, FilePutIs
<1>9. ASSUME Sets(r, p, row.c), h.op \in {"move", "restore"}
      PROVE  \A q \in Files : rows'[Src(h)][q].c = rows[Src(h)][q].c
  BY <1>2, <1>9, Consts DEF Sets
<1>10. ASSUME NEW at \in {"merge", "drop"}, hand' = [hand EXCEPT ![s] = [f EXCEPT !.pc = at]],
              at = "drop" => h.op \in {"move", "restore"}
       PROVE  TreeInv'
  <2> DEFINE g == [f EXCEPT !.pc = at]
  <2>1. g \in Hand
    BY <1>5 DEF Hand, Pcs
  <2>2. /\ g.pc = at /\ g.op = f.op /\ g.p = f.p /\ g.alone = f.alone /\ g.gone = f.gone
        /\ g.saw = f.saw /\ g.todo = f.todo /\ g.copied = f.copied /\ g.kept = f.kept
    BY <1>5 DEF Hand
  <2>3. hand' = [hand EXCEPT ![s] = g]
    BY <1>10
  <2> HIDE DEF g
  <2>4. hand'[s] = g /\ hand'[s] # h
    BY <1>1, <1>2, <2>2, <2>3
  <2>5. TableStep(s) /\ Sets(r, p, row.c)
    BY <1>8, <2>4
  <2>6. Own(s)'
    <3>1. Route(hand[s])' /\ Loaded(hand[s])'
      BY <1>1, <1>2, <1>3, <1>6, <1>10, <2>2, <2>4 DEF Own, Route, Loaded
    <3>2. Listed(hand[s])' /\ Settled(hand[s])'
      BY <1>1, <1>2, <1>6, <2>2, <2>4 DEF Own, Listed, Settled, Items, Src, Within, Above
    <3>3. Landing(hand[s])' /\ Emptied(hand[s])' /\ Priced(hand[s])'
      BY <2>2, <2>4 DEF Landing, Emptied, Priced
    <3>4. ASSUME h.alone PROVE Clearing(hand[s])'
      <4>1. Clearing(h)
        BY <1>2, <3>4 DEF Own, Solo
      <4> QED
        BY <1>1, <1>6, <1>9, <2>2, <2>4, <2>5, <4>1 DEF Clearing, Items, Src, Within, Above
    <3> QED
      BY <1>6, <2>2, <2>4, <3>1, <3>2, <3>3, <3>4 DEF Own, Solo
  <2> QED
    BY <1>1, <1>6, <2>1, <2>2, <2>3, <2>5, <2>6, StepKeeps
<1>11. CASE h.props # "none"
  BY <1>1, <1>10, <1>11
<1>12. CASE h.props = "none" /\ h.op \in {"move", "restore"}
  BY <1>1, <1>6, <1>10, <1>12 DEF Landed
<1>13. CASE h.props = "none" /\ h.op \notin {"move", "restore"}
  <2> DEFINE g == NextItem(f)
  <2>1. hand' = [hand EXCEPT ![s] = g]
    BY <1>1, <1>6, <1>13 DEF Landed
  <2>2. g \in Hand /\ g = [f EXCEPT !.todo = Tail(f.todo), !.over = FALSE, !.props = "none", !.pc = "item"]
    BY <1>3, <1>5, <1>6, NextItemIs
  <2> HIDE DEF g
  <2>3. /\ g.pc = "item" /\ g.op = f.op /\ g.p = f.p /\ g.alone = f.alone /\ g.gone = f.gone
        /\ g.saw = f.saw /\ g.todo = Tail(f.todo) /\ g.copied = f.copied /\ g.kept = f.kept
    BY <1>5, <2>2 DEF Hand
  <2>4. hand'[s] = g /\ hand'[s] # h
    BY <1>1, <1>2, <2>1, <2>3
  <2>5. TableStep(s)
    BY <1>8, <2>4
  <2>6. Own(s)'
    <3>1. /\ g.op = h.op /\ g.p = h.p /\ g.alone = h.alone /\ g.gone = h.gone /\ g.saw = h.saw
          /\ g.todo = Tail(h.todo) /\ h.kept \subseteq g.kept /\ h.copied \subseteq g.copied
          /\ p \in g.copied
      BY <1>6, <2>3
    <3>2. h.pc \in Items
      BY <1>1 DEF Items
    <3> QED
      BY <1>1, <1>3, <1>13, <2>2, <2>3, <2>4, <3>1, <3>2, ItemDone
  <2> QED
    BY <1>1, <1>6, <2>1, <2>2, <2>3, <2>5, <2>6, StepKeeps
<1> QED
  BY <1>11, <1>12, <1>13

LEMMA WriteFolderKeeps ==
  ASSUME TreeInv, NEW s \in Clients, WriteFolder(s)
  PROVE  TreeInv'
<1> DEFINE h == hand[s]
<1> DEFINE p == Head(h.todo)
<1> DEFINE r == Tgt(h)
<1> DEFINE n == NextItem(h)
<1> DEFINE k == IF h.over THEN n.made ELSE n.made \cup {p}
<1> DEFINE g == [n EXCEPT !.made = k]
<1>1. /\ s \in Workers /\ h.pc = "land" /\ h.op # "put" /\ p \in Folders /\ PutFolderRow(r, p)
      /\ hand' = [hand EXCEPT ![s] = g]
  BY DEF WriteFolder, Becomes, Workers
<1>2. /\ h \in Hand /\ Own(s) /\ hand \in [Workers -> Hand] /\ Src(h) \in Repos /\ r \in Repos
  BY <1>1, Facts
<1>3. h.todo # <<>> /\ h.op \in Pipeline
  BY <1>1, <1>2, HandTypes DEF Own, Route, Loaded, Pipeline, Ops
<1>4. n \in Hand /\ n = [h EXCEPT !.todo = Tail(h.todo), !.over = FALSE, !.props = "none", !.pc = "item"]
  BY <1>2, <1>3, NextItemIs
<1>5. k \in SUBSET Folders
  BY <1>1, <1>4, HandTypes
<1> HIDE DEF n, k
<1>6. g \in Hand
  BY <1>4, <1>5 DEF Hand
<1>7. /\ g.pc = "item" /\ g.op = h.op /\ g.p = h.p /\ g.alone = h.alone /\ g.gone = h.gone
      /\ g.saw = h.saw /\ g.todo = Tail(h.todo) /\ g.copied = h.copied /\ g.kept = h.kept
  BY <1>2, <1>4 DEF Hand
<1> HIDE DEF g
<1>8. TableStep(s) /\ \A t \in Repos : \A f \in Files : rows'[t][f].c = rows[t][f].c
  BY <1>1, <1>2, FolderPutIs
<1>9. p \notin Files
  BY <1>1, Consts
<1>10. hand'[s] = g
  BY <1>1, <1>2
<1>11. Own(s)'
  BY <1>1, <1>2, <1>3, <1>6, <1>7, <1>8, <1>9, <1>10, ItemDone DEF Items
<1> QED
  BY <1>1, <1>6, <1>7, <1>8, <1>11, StepKeeps

LEMMA FolderPropsFailKeeps ==
  ASSUME TreeInv, NEW s \in Clients, FolderPropsFail(s)
  PROVE  TreeInv'
<1> DEFINE h == hand[s]
<1> DEFINE p == Head(h.todo)
<1>1. /\ s \in Workers /\ h.pc = "land" /\ h.op # "put" /\ p \in Folders
      /\ PutFolderRow(Tgt(h), p) /\ Becomes(s, ItemError(h))
  BY DEF FolderPropsFail, Workers
<1>2. h \in Hand /\ Own(s) /\ Tgt(h) \in Repos
  BY <1>1, Facts
<1>3. h.todo # <<>> /\ h.op \in Pipeline
  BY <1>1, <1>2, HandTypes DEF Own, Route, Loaded, Pipeline, Ops
<1>4. TableStep(s) /\ \A t \in Repos : \A f \in Files : rows'[t][f].c = rows[t][f].c
  BY <1>1, <1>2, FolderPutIs
<1> QED
  BY <1>1, <1>3, <1>4, ItemFailsKeeps DEF Items

\* The request that has written a file goes on to the source row or to the next item.
LEMMA ApplyPropsKeeps ==
  ASSUME TreeInv, NEW s \in Clients, ApplyProps(s)
  PROVE  TreeInv'
<1> DEFINE h == hand[s]
<1> DEFINE p == Head(h.todo)
<1> DEFINE r == Tgt(h)
<1>1. s \in Workers /\ h.pc = "merge" /\ usage' = usage /\ torn' = torn
  BY DEF ApplyProps, Workers
<1>2. h \in Hand /\ Own(s) /\ hand \in [Workers -> Hand] /\ TablesOK /\ Src(h) \in Repos /\ r \in Repos
  BY <1>1, Facts
<1>3. p \in Files /\ p \in Paths /\ h.todo # <<>> /\ h.op \in Pipeline /\ p \in h.copied /\ h.props \in Marks
  BY <1>1, <1>2, Consts, HandTypes DEF Own, Route, Loaded, Settled
<1>4. CASE p \notin Present(r)
  <2>1. UNCHANGED tableVars /\ Becomes(s, ItemError(h))
    BY <1>1, <1>4 DEF ApplyProps, tableVars
  <2> QED
    BY <1>1, <1>3, <2>1, ItemErrorKeeps DEF Items
<1>5. ASSUME p \in Present(r)
      PROVE  /\ TableStep(s) /\ Becomes(s, Landed(h))
             /\ \A t \in Repos : \A f \in Files : rows'[t][f].c = rows[t][f].c
  <2>1. MarkRow(r, p, h.props) /\ Becomes(s, Landed(h))
    BY <1>5 DEF ApplyProps
  <2>2. /\ rows' \in [Repos -> [Paths -> Row]]
        /\ \A t \in Repos : \A q \in Paths : rows'[t][q].c = rows[t][q].c
    BY <1>2, <1>3, <2>1, RowMarked
  <2> QED
    BY <1>1, <2>1, <2>2, Consts DEF TableStep, Quiet
<1>6. CASE p \in Present(r) /\ h.op \in {"move", "restore"}
  <2> DEFINE g == [h EXCEPT !.pc = "drop"]
  <2>1. hand' = [hand EXCEPT ![s] = g]
    BY <1>5, <1>6 DEF Landed, Becomes
  <2>2. g \in Hand
    BY <1>2 DEF Hand, Pcs
  <2>3. /\ g.pc = "drop" /\ g.op = h.op /\ g.p = h.p /\ g.alone = h.alone /\ g.gone = h.gone
        /\ g.saw = h.saw /\ g.todo = h.todo /\ g.copied = h.copied /\ g.kept = h.kept
    BY <1>2 DEF Hand
  <2> HIDE DEF g
  <2>4. hand'[s] = g
    BY <1>1, <1>2, <2>1
  <2>5. Own(s)'
    <3>1. Route(hand[s])' /\ Loaded(hand[s])'
      BY <1>1, <1>2, <1>3, <1>6, <2>3, <2>4 DEF Own, Route, Loaded
    <3>2. Listed(hand[s])' /\ Settled(hand[s])'
      BY <1>1, <1>2, <1>6, <2>3, <2>4 DEF Own, Listed, Settled, Items, Src, Within, Above
    <3>3. Landing(hand[s])' /\ Emptied(hand[s])' /\ Priced(hand[s])'
      BY <2>3, <2>4 DEF Landing, Emptied, Priced
    <3>4. ASSUME h.alone PROVE Clearing(hand[s])'
      <4>1. Clearing(h)
        BY <1>2, <3>4 DEF Own, Solo
      <4> QED
        BY <1>1, <1>2, <1>5, <1>6, <2>3, <2>4, <4>1 DEF Clearing, Items, Src, Within, Above
    <3> QED
      BY <2>3, <2>4, <3>1, <3>2, <3>3, <3>4 DEF Own, Solo
  <2> QED
    BY <1>1, <1>5, <1>6, <2>1, <2>2, <2>3, <2>5, StepKeeps
<1>7. CASE p \in Present(r) /\ h.op \notin {"move", "restore"}
  <2> DEFINE g == NextItem(h)
  <2>1. hand' = [hand EXCEPT ![s] = g]
    BY <1>5, <1>7 DEF Landed, Becomes
  <2>2. g \in Hand /\ g = [h EXCEPT !.todo = Tail(h.todo), !.over = FALSE, !.props = "none", !.pc = "item"]
    BY <1>2, <1>3, NextItemIs
  <2> HIDE DEF g
  <2>3. /\ g.pc = "item" /\ g.op = h.op /\ g.p = h.p /\ g.alone = h.alone /\ g.gone = h.gone
        /\ g.saw = h.saw /\ g.todo = Tail(h.todo) /\ g.copied = h.copied /\ g.kept = h.kept
    BY <1>2, <2>2 DEF Hand
  <2>4. hand'[s] = g /\ h.pc \in Items
    BY <1>1, <1>2, <2>1 DEF Items
  <2>5. Own(s)'
    BY <1>1, <1>3, <1>7, <2>2, <2>3, <2>4, ItemDone
  <2> QED
    BY <1>1, <1>5, <1>7, <2>1, <2>2, <2>3, <2>5, StepKeeps
<1> QED
  BY <1>4, <1>6, <1>7

LEMMA DropSourceKeeps ==
  ASSUME TreeInv, NEW s \in Clients, DropSource(s)
  PROVE  TreeInv'
<1> DEFINE h == hand[s]
<1> DEFINE p == Head(h.todo)
<1> DEFINE r == Src(h)
<1>1. s \in Workers /\ h.pc = "drop" /\ torn' = torn
  BY DEF DropSource, Workers
<1>2. h \in Hand /\ Own(s) /\ hand \in [Workers -> Hand] /\ r \in Repos
  BY <1>1, Facts
<1>3. /\ p \in Files /\ p \in Paths /\ h.todo # <<>> /\ h.op \in {"move", "restore"} /\ h.op \in Pipeline
      /\ h.pc \in Items
  BY <1>1, <1>2, Consts DEF Own, Route, Loaded, Pipeline, Items
<1>4. CASE p \notin Present(r)
  <2>1. UNCHANGED tableVars /\ Becomes(s, ItemError(h))
    BY <1>1, <1>4 DEF DropSource, tableVars
  <2> QED
    BY <1>1, <1>3, <2>1, ItemErrorKeeps
<1>5. CASE p \in Present(r)
  <2> DEFINE g == NextItem(h)
  <2>1. hand' = [hand EXCEPT ![s] = g] /\ DeleteNodeWithUsage(r, p)
    BY <1>5 DEF DropSource, Becomes
  <2>2. g \in Hand /\ g = [h EXCEPT !.todo = Tail(h.todo), !.over = FALSE, !.props = "none", !.pc = "item"]
    BY <1>2, <1>3, NextItemIs
  <2> HIDE DEF g
  <2>3. /\ g.pc = "item" /\ g.op = h.op /\ g.p = h.p /\ g.alone = h.alone /\ g.gone = h.gone
        /\ g.saw = h.saw /\ g.todo = Tail(h.todo) /\ g.copied = h.copied /\ g.kept = h.kept
    BY <1>2, <2>2 DEF Hand
  <2>4. hand'[s] = g
    BY <1>1, <1>2, <2>1
  <2>5. TableStep(s) /\ Sets(r, p, Nothing)
    BY <1>1, <1>2, <1>3, <2>1, FileDropIs
  <2>6. \A f \in Files : rows'[r][f].c # Nothing => rows[r][f].c # Nothing /\ f # p
    BY <1>2, <2>5, Consts DEF Sets
  <2>7. Own(s)'
    BY <1>1, <1>3, <2>2, <2>3, <2>4, <2>6, ItemDone
  <2> QED
    BY <1>1, <2>1, <2>2, <2>3, <2>5, <2>7, StepKeeps
<1> QED
  BY <1>4, <1>5

\* The prune starts with the folders above the root, and with nothing pruned yet.
LEMMA PruneStarts ==
  ASSUME TreeInv, NEW s \in Workers, hand[s].pc # "idle", TableStep(s), Becomes(s, ToPrune(hand[s])),
         hand[s].op \in {"delete", "move", "restore"}, hand[s].gone = {}
  PROVE  TreeInv'
<1> DEFINE h == hand[s]
<1> DEFINE ups == Reverse(Chain(Src(h), h.p))
<1> DEFINE g == [h EXCEPT !.dirs = ups, !.pc = "prune", !.saw = Idle.saw, !.copied = {}]
<1>1. h \in Hand /\ hand \in [Workers -> Hand]
  BY Facts
<1>2. hand' = [hand EXCEPT ![s] = g]
  BY DEF Becomes, ToPrune
<1>3. ups \in Seq(Folders)
  BY <1>1, HandTypes, ChainOf, ReverseOf
<1>4. Idle.saw \in [Paths -> Row]
  BY IdleIs, HandTypes
<1> HIDE DEF ups
<1>5. g \in Hand
  BY <1>1, <1>3, <1>4 DEF Hand, Pcs
<1>6. g.pc = "prune" /\ g.op = h.op /\ g.gone = {} /\ g.alone = h.alone
  BY <1>1 DEF Hand
<1> HIDE DEF g
<1>7. hand'[s] = g
  BY <1>1, <1>2
<1>8. Own(s)'
  <2>1. Route(hand[s])' /\ Loaded(hand[s])'
    BY <1>6, <1>7 DEF Route, Loaded
  <2>2. Listed(hand[s])' /\ Settled(hand[s])'
    BY <1>6, <1>7 DEF Listed, Settled, Items
  <2>3. Landing(hand[s])' /\ Clearing(hand[s])' /\ Emptied(hand[s])' /\ Priced(hand[s])'
    BY <1>6, <1>7 DEF Landing, Clearing, Emptied, Priced, Items
  <2> QED
    BY <2>1, <2>2, <2>3 DEF Own, Solo
<1> QED
  BY <1>2, <1>5, <1>6, <1>8, StepKeeps

\* The sweep starts when every captured file is copied or kept.
LEMMA SweepStarts ==
  ASSUME TreeInv, NEW s \in Workers, hand[s].pc # "idle", TableStep(s), Becomes(s, ToSweep(hand[s])),
         hand[s].op \in Pipeline,
         hand[s].op = "delete" =>
             \A f \in Files : hand[s].saw[f].c # Nothing => f \in hand[s].copied \cup hand[s].kept
  PROVE  TreeInv'
<1> DEFINE h == hand[s]
<1> DEFINE dn == IF h.kept = {} THEN <<>> ELSE Reverse(Listing(h.made))
<1> DEFINE g == [h EXCEPT !.todo = dn, !.pc = "sweep", !.made = {}, !.dirs = <<>>, !.gone = {}]
<1>1. h \in Hand /\ hand \in [Workers -> Hand]
  BY Facts
<1>2. hand' = [hand EXCEPT ![s] = g]
  BY DEF Becomes, ToSweep
<1>3. dn \in Seq(Folders)
  <2>1. h.made \in SUBSET Folders /\ h.made \in SUBSET Paths
    BY <1>1, HandTypes, Consts
  <2>2. Listing(h.made) \in Seq(h.made)
    BY <2>1, ListingOf
  <2>3. Listing(h.made) \in Seq(Folders)
    BY <2>1, <2>2
  <2> QED
    BY <2>3, ReverseOf
<1>4. dn \in Seq(Paths) /\ <<>> \in Seq(Folders)
  BY <1>3, Consts
<1> HIDE DEF dn
<1>5. g \in Hand
  BY <1>1, <1>4 DEF Hand, Pcs
<1>6. /\ g.pc = "sweep" /\ g.op = h.op /\ g.gone = {} /\ g.alone = h.alone /\ g.todo = dn
      /\ g.saw = h.saw /\ g.copied = h.copied /\ g.kept = h.kept
  BY <1>1 DEF Hand
<1> HIDE DEF g
<1>7. hand'[s] = g
  BY <1>1, <1>2
<1>8. Own(s)'
  <2>1. Route(hand[s])' /\ Loaded(hand[s])'
    BY <1>3, <1>6, <1>7 DEF Route, Loaded
  <2>2. Listed(hand[s])' /\ Settled(hand[s])'
    BY <1>6, <1>7 DEF Listed, Settled, Items
  <2>3. Landing(hand[s])' /\ Clearing(hand[s])' /\ Emptied(hand[s])' /\ Priced(hand[s])'
    BY <1>6, <1>7 DEF Landing, Clearing, Emptied, Priced, Items
  <2> QED
    BY <2>1, <2>2, <2>3 DEF Own, Solo
<1> QED
  BY <1>2, <1>5, <1>6, <1>8, StepKeeps

LEMMA WalkEndsKeeps ==
  ASSUME TreeInv, NEW s \in Clients, WalkEnds(s)
  PROVE  TreeInv'
<1> DEFINE h == hand[s]
<1> DEFINE r == Src(h)
<1> DEFINE occupied == UNION {Above(r, q) : q \in h.kept}
<1> DEFINE walked == {d \in Folders : h.saw[d].c # Nothing}
<1>1. s \in Workers /\ h.pc = "item" /\ h.todo = <<>> /\ UNCHANGED tableVars
  BY DEF WalkEnds, Workers
<1>2. h \in Hand /\ Own(s) /\ hand \in [Workers -> Hand] /\ r \in Repos
  BY <1>1, Facts
<1>3. TableStep(s) /\ rows' = rows
  BY <1>1, UnchangedIsQuiet DEF tableVars
<1>4. h.op \in Pipeline /\ h.gone = {} /\ ToSet(h.todo) = {}
  BY <1>1, <1>2 DEF Own, Route, Loaded, ToSet
<1>5. CASE h.op \notin {"move", "restore"}
  <2>1. Becomes(s, ToSweep(h))
    BY <1>5 DEF WalkEnds
  <2>2. h.op = "delete" => \A f \in Files : h.saw[f].c # Nothing => f \in h.copied \cup h.kept
    BY <1>1, <1>2, <1>4 DEF Own, Settled, Items
  <2> QED
    BY <1>1, <1>3, <1>4, <2>1, <2>2, SweepStarts
<1>6. CASE h.op \in {"move", "restore"} /\ h.p \in Files
  <2>1. Becomes(s, ToPrune(h))
    BY <1>6 DEF WalkEnds
  <2> QED
    BY <1>1, <1>3, <1>4, <1>6, <2>1, PruneStarts
<1>7. CASE h.op \in {"move", "restore"} /\ h.p \notin Files
  <2> DEFINE S == walked \ occupied
  <2> DEFINE dn == Reverse(Listing(S))
  <2> DEFINE g == [h EXCEPT !.todo = dn, !.pc = "empty"]
  <2>1. hand' = [hand EXCEPT ![s] = g]
    BY <1>7 DEF WalkEnds, Becomes
  <2>2. S \in SUBSET Folders /\ S \in SUBSET Paths
    BY Consts
  <2>3. dn \in Seq(Folders) /\ ToSet(dn) = S
    <3>1. Listing(S) \in Seq(S) /\ ToSet(Listing(S)) = S
      BY <2>2, ListingOf
    <3>2. Listing(S) \in Seq(Folders)
      BY <2>2, <3>1
    <3> QED
      BY <3>1, <3>2, ReverseOf
  <2>4. dn \in Seq(Paths)
    BY <2>3, Consts
  <2> HIDE DEF dn
  <2>5. g \in Hand
    BY <1>2, <2>4 DEF Hand, Pcs
  <2>6. g.pc = "empty" /\ g.op = h.op /\ g.p = h.p /\ g.gone = {} /\ g.alone = h.alone /\ g.todo = dn
    BY <1>2, <1>4 DEF Hand
  <2> HIDE DEF g
  <2>7. hand'[s] = g
    BY <1>1, <1>2, <2>1
  <2>8. ASSUME h.alone, NEW d \in S PROVE Bare(r, d)
    <3> SUFFICES ASSUME NEW f \in Files, rows[r][f].c # Nothing, d \in Above(r, f) PROVE FALSE
      BY DEF Bare
    <3>1. d \in Within(r, h.p)
      BY <1>1, <1>2, <1>7, <2>2 DEF Own, Listed, Items
    <3>2. f \in Within(r, h.p)
      BY <1>2, <3>1, UnderUnder, HandTypes
    <3>3. f \in h.kept
      BY <1>1, <1>2, <1>4, <1>7, <2>8, <3>2 DEF Own, Solo, Clearing, Items
    <3> QED
      BY <2>8, <3>3
  <2>9. Own(s)'
    <3>1. Route(hand[s])' /\ Loaded(hand[s])'
      BY <1>7, <2>3, <2>6, <2>7 DEF Route, Loaded
    <3>2. Listed(hand[s])' /\ Settled(hand[s])'
      BY <1>7, <2>6, <2>7 DEF Listed, Settled, Items
    <3>3. ASSUME h.alone PROVE Emptied(hand[s])'
      <4>1. Src(g) = r
        BY <2>6 DEF Src
      <4>2. \A d \in ToSet(g.todo) : \A f \in Files : rows'[r][f].c # Nothing => d \notin Above(r, f)
        BY <1>3, <2>3, <2>6, <2>8, <3>3 DEF Bare
      <4> QED
        BY <2>6, <2>7, <4>1, <4>2 DEF Emptied, Bare, Src, Above
    <3>4. Landing(hand[s])' /\ Clearing(hand[s])' /\ Priced(hand[s])'
      BY <2>6, <2>7 DEF Landing, Clearing, Priced, Items
    <3> QED
      BY <2>6, <2>7, <3>1, <3>2, <3>3, <3>4 DEF Own, Solo
  <2> QED
    BY <1>1, <1>3, <2>1, <2>5, <2>6, <2>9, StepKeeps
<1> QED
  BY <1>5, <1>6, <1>7

\* Folders with no file under them keep none while no file lands.
LEMMA BareStays ==
  ASSUME NEW r, NEW d, Bare(r, d),
         \A f \in Files : rows'[r][f].c # Nothing => rows[r][f].c # Nothing
  PROVE  \A f \in Files : rows'[r][f].c # Nothing => d \notin Above(r, f)
  BY DEF Bare

LEMMA FinishMoveKeeps ==
  ASSUME TreeInv, NEW s \in Clients, FinishMove(s)
  PROVE  TreeInv'
<1> DEFINE h == hand[s]
<1> DEFINE r == Src(h)
<1>1. s \in Workers /\ h.pc = "empty"
  BY DEF FinishMove, Workers
<1>2. h \in Hand /\ Own(s) /\ hand \in [Workers -> Hand] /\ r \in Repos
  BY <1>1, Facts
<1>3. h.op \in {"move", "restore"} /\ h.todo \in Seq(Folders) /\ h.gone = {}
  BY <1>1, <1>2 DEF Own, Route, Loaded
<1>4. CASE h.todo = <<>>
  <2>1. UNCHANGED tableVars /\ Becomes(s, ToPrune(h))
    BY <1>4 DEF FinishMove
  <2> QED
    BY <1>1, <1>3, <2>1, UnchangedIsQuiet, PruneStarts
<1>5. CASE h.todo # <<>>
  <2> DEFINE g == [h EXCEPT !.todo = Tail(h.todo)]
  <2> DEFINE d == Head(h.todo)
  <2>1. hand' = [hand EXCEPT ![s] = g] /\ DropFolderRow(r, d, ~h.alone)
    BY <1>5 DEF FinishMove, Becomes
  <2>2. /\ d \in Folders /\ Tail(h.todo) \in Seq(Folders) /\ Tail(h.todo) \in Seq(Paths)
        /\ ToSet(h.todo) = {d} \cup ToSet(Tail(h.todo))
    <3>1. h.todo \in Seq(Paths)
      BY <1>2, HandTypes
    <3> QED
      BY <1>3, <1>5, <3>1, TailOf, ToSetIs
  <2>3. g \in Hand
    BY <1>2, <2>2 DEF Hand
  <2>4. g.pc = "empty" /\ g.op = h.op /\ g.gone = {} /\ g.alone = h.alone /\ g.todo = Tail(h.todo)
    BY <1>1, <1>2, <1>3 DEF Hand
  <2> HIDE DEF g
  <2>5. hand'[s] = g
    BY <1>1, <1>2, <2>1
  <2>6. h.alone => \A e \in ToSet(h.todo) : Bare(r, e)
    BY <1>1, <1>2 DEF Own, Solo, Emptied
  <2>7. TableStep(s) /\ \A t \in Repos : \A f \in Files : rows'[t][f].c = rows[t][f].c
    <3>1. h.alone \in BOOLEAN
      BY <1>2, HandTypes
    <3>2. ~h.alone \/ (h.alone /\ Bare(r, d))
      BY <2>2, <2>6, <3>1
    <3> QED
      BY <1>2, <2>1, <2>2, <3>1, <3>2, FolderDropIs
  <2>8. Own(s)'
    <3>1. Route(hand[s])' /\ Loaded(hand[s])'
      BY <1>3, <2>2, <2>4, <2>5 DEF Route, Loaded
    <3>2. Listed(hand[s])' /\ Settled(hand[s])'
      BY <1>3, <2>4, <2>5 DEF Listed, Settled, Items
    <3>3. ASSUME h.alone PROVE Emptied(hand[s])'
      <4>1. \A e \in ToSet(g.todo) : \A f \in Files : rows'[r][f].c # Nothing => e \notin Above(r, f)
        BY <1>2, <2>2, <2>4, <2>6, <2>7, <3>3, BareStays
      <4> QED
        BY <2>4, <2>5, <4>1 DEF Emptied, Bare, Src, Above
    <3>4. Landing(hand[s])' /\ Clearing(hand[s])' /\ Priced(hand[s])'
      BY <2>4, <2>5 DEF Landing, Clearing, Priced, Items
    <3> QED
      BY <2>4, <2>5, <3>1, <3>2, <3>3, <3>4 DEF Own, Solo
  <2> QED
    BY <1>1, <2>1, <2>3, <2>4, <2>7, <2>8, StepKeeps
<1> QED
  BY <1>4, <1>5

\* A sweep goes on, with the captured files as they were.
LEMMA SweepGoesOn ==
  ASSUME TreeInv, NEW s \in Workers, NEW g \in Hand, hand'[s] = g,
         hand[s].pc \in {"sweep", "unmake"}, g.pc \in {"sweep", "unmake"}, g.todo \in Seq(Folders),
         g.op = hand[s].op, g.saw = hand[s].saw, g.kept = hand[s].kept, g.copied = hand[s].copied,
         g.gone = hand[s].gone,
         g.pc = "unmake" => g.todo # <<>> /\ \A f \in Files : rows'[Tgt(g)][f].c # Nothing =>
                                                Head(g.todo) \notin Above(Tgt(g), f)
  PROVE  Own(s)'
<1> DEFINE h == hand[s]
<1>1. h \in Hand /\ Own(s)
  BY Facts
<1>2. Route(hand[s])' /\ Loaded(hand[s])'
  BY <1>1 DEF Own, Route, Loaded
<1>3. Listed(hand[s])' /\ Settled(hand[s])'
  BY <1>1 DEF Own, Listed, Settled, Items
<1>4. Emptied(hand[s])'
  BY DEF Emptied, Bare, Tgt, Above
<1>5. Landing(hand[s])' /\ Clearing(hand[s])' /\ Priced(hand[s])'
  BY DEF Landing, Clearing, Priced, Items
<1> QED
  BY <1>2, <1>3, <1>4, <1>5 DEF Own, Solo

LEMMA SweepProbeKeeps ==
  ASSUME TreeInv, NEW s \in Clients, SweepProbe(s)
  PROVE  TreeInv'
<1> DEFINE h == hand[s]
<1> DEFINE r == Tgt(h)
<1> DEFINE d == Head(h.todo)
<1>1. s \in Workers /\ h.pc = "sweep" /\ h.todo # <<>> /\ UNCHANGED tableVars
  BY DEF SweepProbe, Workers
<1>2. h \in Hand /\ Own(s) /\ hand \in [Workers -> Hand] /\ r \in Repos
  BY <1>1, Facts
<1>3. h.todo \in Seq(Folders) /\ h.todo \in Seq(Paths)
  BY <1>1, <1>2, HandTypes DEF Own, Loaded
<1>4. d \in Folders /\ Tail(h.todo) \in Seq(Folders) /\ Tail(h.todo) \in Seq(Paths)
  BY <1>1, <1>3, TailOf, ToSetIs
<1>5. TableStep(s) /\ rows' = rows
  BY <1>1, UnchangedIsQuiet DEF tableVars
<1>6. CASE Present(r) \cap Within(r, d) \subseteq {d}
  <2> DEFINE g == [h EXCEPT !.pc = "unmake"]
  <2>1. hand' = [hand EXCEPT ![s] = g]
    BY <1>6 DEF SweepProbe, Becomes
  <2>2. g \in Hand
    BY <1>2 DEF Hand, Pcs
  <2>3. /\ g.pc = "unmake" /\ g.op = h.op /\ g.todo = h.todo /\ g.saw = h.saw /\ g.kept = h.kept
        /\ g.copied = h.copied /\ g.gone = h.gone /\ g.alone = h.alone
    BY <1>2 DEF Hand
  <2> HIDE DEF g
  <2>4. hand'[s] = g
    BY <1>1, <1>2, <2>1
  <2>5. \A f \in Files : rows'[r][f].c # Nothing => d \notin Above(r, f)
    BY <1>4, <1>5, <1>6, Consts DEF Present, Within
  <2>6. Tgt(g) = r
    BY <2>3 DEF Tgt
  <2>7. Own(s)'
    BY <1>1, <1>3, <2>2, <2>3, <2>4, <2>5, <2>6, SweepGoesOn
  <2> QED
    BY <1>1, <1>5, <2>1, <2>2, <2>3, <2>7, StepKeeps
<1>7. CASE ~(Present(r) \cap Within(r, d) \subseteq {d})
  <2> DEFINE g == [h EXCEPT !.todo = Tail(h.todo)]
  <2>1. hand' = [hand EXCEPT ![s] = g]
    BY <1>7 DEF SweepProbe, Becomes
  <2>2. g \in Hand
    BY <1>2, <1>4 DEF Hand
  <2>3. /\ g.pc = "sweep" /\ g.op = h.op /\ g.todo = Tail(h.todo) /\ g.saw = h.saw /\ g.kept = h.kept
        /\ g.copied = h.copied /\ g.gone = h.gone /\ g.alone = h.alone
    BY <1>1, <1>2 DEF Hand
  <2> HIDE DEF g
  <2>4. hand'[s] = g
    BY <1>1, <1>2, <2>1
  <2>5. Own(s)'
    BY <1>1, <1>4, <2>2, <2>3, <2>4, SweepGoesOn
  <2> QED
    BY <1>1, <1>5, <2>1, <2>2, <2>3, <2>5, StepKeeps
<1> QED
  BY <1>6, <1>7

LEMMA SweepDropKeeps ==
  ASSUME TreeInv, NEW s \in Clients, SweepDrop(s)
  PROVE  TreeInv'
<1> DEFINE h == hand[s]
<1> DEFINE r == Tgt(h)
<1> DEFINE d == Head(h.todo)
<1>1. s \in Workers /\ h.pc = "unmake"
  BY DEF SweepDrop, Workers
<1>2. h \in Hand /\ Own(s) /\ hand \in [Workers -> Hand] /\ r \in Repos /\ h.alone \in BOOLEAN
  BY <1>1, Facts, HandTypes
<1>3. h.todo \in Seq(Folders) /\ h.todo \in Seq(Paths) /\ h.todo # <<>>
  BY <1>1, <1>2, HandTypes DEF Own, Loaded
<1>4. d \in Folders /\ Tail(h.todo) \in Seq(Folders) /\ Tail(h.todo) \in Seq(Paths)
  BY <1>1, <1>3, TailOf, ToSetIs
<1>5. CASE d \notin Present(r)
  BY <1>1, <1>5, UnchangedIsQuiet, EndKeeps DEF SweepDrop
<1>6. CASE d \in Present(r)
  <2> DEFINE g == [h EXCEPT !.todo = Tail(h.todo), !.pc = "sweep"]
  <2>1. hand' = [hand EXCEPT ![s] = g] /\ DropFolderRow(r, d, ~h.alone)
    BY <1>6 DEF SweepDrop, Becomes
  <2>2. g \in Hand
    BY <1>2, <1>4 DEF Hand, Pcs
  <2>3. /\ g.pc = "sweep" /\ g.op = h.op /\ g.todo = Tail(h.todo) /\ g.saw = h.saw /\ g.kept = h.kept
        /\ g.copied = h.copied /\ g.gone = h.gone /\ g.alone = h.alone
    BY <1>1, <1>2 DEF Hand
  <2> HIDE DEF g
  <2>4. hand'[s] = g
    BY <1>1, <1>2, <2>1
  <2>5. ~h.alone \/ (h.alone /\ Bare(r, d))
    BY <1>1, <1>2 DEF Own, Solo, Emptied
  <2>6. TableStep(s)
    BY <1>2, <1>4, <2>1, <2>5, FolderDropIs
  <2>7. Own(s)'
    BY <1>1, <1>4, <2>2, <2>3, <2>4, SweepGoesOn
  <2> QED
    BY <1>1, <2>1, <2>2, <2>3, <2>6, <2>7, StepKeeps
<1> QED
  BY <1>5, <1>6

-----------------------------------------------------------------------------
(* After a capture or a restore, and the delete itself. *)

\* With every captured file copied the request marks and deletes.
LEMMA CopiedGoesOn ==
  ASSUME TreeInv, NEW s \in Workers, NEW g \in Hand, hand'[s] = g,
         g.pc \in {"marks", "mark", "doom", "row"}, g.op \in {"delete", "restore"},
         g.pc \in {"doom", "row"} => g.op = "delete", g.gone = {},
         g.op = "delete" => \A f \in Files : g.saw[f].c # Nothing => f \in g.copied
  PROVE  Own(s)'
<1>1. Route(hand[s])' /\ Loaded(hand[s])'
  BY DEF Route, Loaded
<1>2. Listed(hand[s])' /\ Settled(hand[s])'
  BY DEF Listed, Settled, Items
<1>3. Landing(hand[s])' /\ Clearing(hand[s])' /\ Emptied(hand[s])' /\ Priced(hand[s])'
  BY DEF Landing, Clearing, Emptied, Priced, Items
<1> QED
  BY <1>1, <1>2, <1>3 DEF Own, Solo

LEMMA PipelineEndsKeeps ==
  ASSUME TreeInv, NEW s \in Clients, PipelineEnds(s)
  PROVE  TreeInv'
<1> DEFINE h == hand[s]
<1> DEFINE g == [h EXCEPT !.pc = "marks"]
<1>1. s \in Workers /\ h.pc = "sweep" /\ UNCHANGED tableVars
  BY DEF PipelineEnds, Workers
<1>2. h \in Hand /\ Own(s) /\ hand \in [Workers -> Hand] /\ TableStep(s)
  BY <1>1, Facts, UnchangedIsQuiet
<1>3. CASE ~(h.kept = {} /\ h.op \in {"delete", "restore"})
  BY <1>1, <1>2, <1>3, EndKeeps DEF PipelineEnds
<1>4. CASE h.kept = {} /\ h.op \in {"delete", "restore"}
  <2>1. hand' = [hand EXCEPT ![s] = g]
    BY <1>4 DEF PipelineEnds, Becomes
  <2>2. g \in Hand
    BY <1>2 DEF Hand, Pcs
  <2>3. /\ g.pc = "marks" /\ g.op = h.op /\ g.saw = h.saw /\ g.copied = h.copied /\ g.gone = h.gone
        /\ g.alone = h.alone
    BY <1>2 DEF Hand
  <2> HIDE DEF g
  <2>4. hand'[s] = g
    BY <1>1, <1>2, <2>1
  <2>5. h.gone = {} /\ (h.op = "delete" => \A f \in Files : h.saw[f].c # Nothing => f \in h.copied)
    BY <1>1, <1>2, <1>4 DEF Own, Loaded, Settled
  <2>6. Own(s)'
    BY <1>1, <1>4, <2>2, <2>3, <2>4, <2>5, CopiedGoesOn
  <2> QED
    BY <1>1, <1>2, <2>1, <2>2, <2>3, <2>6, StepKeeps
<1> QED
  BY <1>3, <1>4

LEMMA ListMarksKeeps ==
  ASSUME TreeInv, NEW s \in Clients, ListMarks(s)
  PROVE  TreeInv'
<1> DEFINE h == hand[s]
<1> DEFINE todo == Listing(Present(Tgt(h)) \cap Within(Tgt(h), h.p))
<1> DEFINE g == [h EXCEPT !.todo = todo, !.pc = "mark"]
<1>1. s \in Workers /\ h.pc = "marks" /\ UNCHANGED tableVars /\ hand' = [hand EXCEPT ![s] = g]
  BY DEF ListMarks, Becomes, Workers
<1>2. h \in Hand /\ Own(s) /\ hand \in [Workers -> Hand] /\ TableStep(s)
  BY <1>1, Facts, UnchangedIsQuiet
<1>3. todo \in Seq(Paths)
  <2>1. Present(Tgt(h)) \cap Within(Tgt(h), h.p) \in SUBSET Paths
    BY DEF Present
  <2> QED
    BY <2>1, ListingOf
<1> HIDE DEF todo
<1>4. g \in Hand
  BY <1>2, <1>3 DEF Hand, Pcs
<1>5. /\ g.pc = "mark" /\ g.op = h.op /\ g.saw = h.saw /\ g.copied = h.copied /\ g.gone = h.gone
      /\ g.alone = h.alone
  BY <1>2 DEF Hand
<1> HIDE DEF g
<1>6. hand'[s] = g
  BY <1>1, <1>2
<1>7. /\ h.gone = {} /\ h.op \in {"delete", "restore"}
      /\ h.op = "delete" => \A f \in Files : h.saw[f].c # Nothing => f \in h.copied
  BY <1>1, <1>2 DEF Own, Route, Loaded, Settled
<1>8. Own(s)'
  BY <1>1, <1>4, <1>5, <1>6, <1>7, CopiedGoesOn
<1> QED
  BY <1>1, <1>2, <1>4, <1>5, <1>8, StepKeeps

\* A mark on a row is no change of the tables that matters here.
LEMMA MarkIsQuiet ==
  ASSUME TreeInv, NEW s \in Workers, NEW r \in Repos, NEW p \in Paths, NEW m \in Marks,
         MarkRow(r, p, m) \/ rows' = rows, usage' = usage, torn' = torn
  PROVE  TableStep(s)
<1>1. TablesOK
  BY DEF TreeInv
<1>2. CASE MarkRow(r, p, m)
  BY <1>1, <1>2, RowMarked DEF TableStep, Quiet
<1>3. CASE rows' = rows
  BY <1>1, <1>3 DEF TableStep, Quiet, TablesOK
<1> QED
  BY <1>2, <1>3

LEMMA MarkCapturedKeeps ==
  ASSUME TreeInv, NEW s \in Clients, MarkCaptured(s)
  PROVE  TreeInv'
<1> DEFINE h == hand[s]
<1>1. s \in Workers /\ h.pc = "mark" /\ h.op = "delete" /\ usage' = usage /\ torn' = torn
  BY DEF MarkCaptured, Workers
<1>2. h \in Hand /\ Own(s) /\ hand \in [Workers -> Hand] /\ h.todo \in Seq(Paths)
  BY <1>1, Facts, HandTypes
<1>3. /\ h.gone = {}
      /\ \A f \in Files : h.saw[f].c # Nothing => f \in h.copied
  BY <1>1, <1>2 DEF Own, Loaded, Settled
<1>4. rows' = rows => TableStep(s)
  BY <1>1, UnchangedIsQuiet DEF tableVars
<1>5. CASE h.todo = <<>>
  <2> DEFINE g == [h EXCEPT !.pc = "doom"]
  <2>1. hand' = [hand EXCEPT ![s] = g] /\ rows' = rows
    BY <1>5 DEF MarkCaptured, Becomes
  <2>2. g \in Hand
    BY <1>2 DEF Hand, Pcs
  <2>3. /\ g.pc = "doom" /\ g.op = h.op /\ g.saw = h.saw /\ g.copied = h.copied /\ g.gone = h.gone
        /\ g.alone = h.alone
    BY <1>2 DEF Hand
  <2> HIDE DEF g
  <2>4. hand'[s] = g
    BY <1>1, <1>2, <2>1
  <2>5. Own(s)'
    BY <1>1, <1>3, <2>2, <2>3, <2>4, CopiedGoesOn
  <2> QED
    BY <1>1, <1>4, <2>1, <2>2, <2>3, <2>5, StepKeeps
<1>6. CASE h.todo # <<>> /\ Head(h.todo) \notin Present(Can)
  BY <1>1, <1>4, <1>6, EndKeeps DEF MarkCaptured
<1>7. CASE h.todo # <<>> /\ Head(h.todo) \in Present(Can)
  <2> DEFINE g == [h EXCEPT !.todo = Tail(h.todo)]
  <2>1. /\ hand' = [hand EXCEPT ![s] = g]
        /\ MarkRow(Can, Head(h.todo), "new") \/ rows' = rows
    BY <1>7 DEF MarkCaptured, Becomes
  <2>2. Tail(h.todo) \in Seq(Paths) /\ Head(h.todo) \in Paths /\ Can \in Repos /\ "new" \in Marks
    BY <1>2, <1>7, TailOf, ToSetIs, Consts DEF Marks
  <2>3. TableStep(s)
    BY <1>1, <2>1, <2>2, MarkIsQuiet
  <2>4. g \in Hand
    BY <1>2, <2>2 DEF Hand
  <2>5. /\ g.pc = "mark" /\ g.op = h.op /\ g.saw = h.saw /\ g.copied = h.copied /\ g.gone = h.gone
        /\ g.alone = h.alone
    BY <1>1, <1>2 DEF Hand
  <2> HIDE DEF g
  <2>6. hand'[s] = g
    BY <1>1, <1>2, <2>1
  <2>7. Own(s)'
    BY <1>1, <1>3, <2>4, <2>5, <2>6, CopiedGoesOn
  <2> QED
    BY <1>1, <2>1, <2>3, <2>4, <2>5, <2>7, StepKeeps
<1> QED
  BY <1>5, <1>6, <1>7

LEMMA StripMarksKeeps ==
  ASSUME TreeInv, NEW s \in Clients, StripMarks(s)
  PROVE  TreeInv'
<1> DEFINE h == hand[s]
<1>1. s \in Workers /\ h.pc = "mark" /\ h.op = "restore" /\ usage' = usage /\ torn' = torn
  BY DEF StripMarks, Workers
<1>2. h \in Hand /\ Own(s) /\ hand \in [Workers -> Hand] /\ h.todo \in Seq(Paths)
  BY <1>1, Facts, HandTypes
<1>3. CASE h.todo = <<>>
  <2>1. UNCHANGED tableVars /\ Ends(s)
    BY <1>1, <1>3 DEF StripMarks, tableVars
  <2> QED
    BY <1>1, <2>1, UnchangedIsQuiet, EndKeeps
<1>4. CASE h.todo # <<>>
  <2> DEFINE g == [h EXCEPT !.todo = Tail(h.todo)]
  <2>1. hand' = [hand EXCEPT ![s] = g] /\ MarkRow(Lib, Head(h.todo), "none")
    BY <1>4 DEF StripMarks, Becomes
  <2>2. Tail(h.todo) \in Seq(Paths) /\ Head(h.todo) \in Paths /\ Lib \in Repos /\ "none" \in Marks
    BY <1>2, <1>4, TailOf, ToSetIs, Consts DEF Marks
  <2>3. TableStep(s)
    BY <1>1, <2>1, <2>2, MarkIsQuiet
  <2>4. g \in Hand
    BY <1>2, <2>2 DEF Hand
  <2>5. g.pc = "mark" /\ g.op = h.op /\ g.gone = h.gone /\ g.alone = h.alone
    BY <1>1, <1>2 DEF Hand
  <2> HIDE DEF g
  <2>6. hand'[s] = g /\ h.gone = {}
    BY <1>1, <1>2, <2>1 DEF Own, Loaded
  <2>7. Own(s)'
    BY <1>1, <2>4, <2>5, <2>6, CopiedGoesOn
  <2> QED
    BY <1>1, <2>1, <2>3, <2>4, <2>5, <2>7, StepKeeps
<1> QED
  BY <1>3, <1>4

LEMMA ListDoomedKeeps ==
  ASSUME TreeInv, NEW s \in Clients, ListDoomed(s)
  PROVE  TreeInv'
<1> DEFINE h == hand[s]
<1> DEFINE doomed == Listing(Present(Lib) \cap Within(Lib, h.p))
<1> DEFINE g == [h EXCEPT !.todo = doomed, !.pc = "row"]
<1>1. s \in Workers /\ h.pc = "doom" /\ UNCHANGED tableVars
  BY DEF ListDoomed, Workers
<1>2. h \in Hand /\ Own(s) /\ hand \in [Workers -> Hand] /\ TableStep(s)
  BY <1>1, Facts, UnchangedIsQuiet
<1>3. CASE doomed = <<>>
  BY <1>1, <1>2, <1>3, EndKeeps DEF ListDoomed
<1>4. CASE doomed # <<>>
  <2>1. hand' = [hand EXCEPT ![s] = g]
    BY <1>4 DEF ListDoomed, Becomes
  <2>2. doomed \in Seq(Paths)
    <3>1. Present(Lib) \cap Within(Lib, h.p) \in SUBSET Paths
      BY DEF Present
    <3> QED
      BY <3>1, ListingOf
  <2> HIDE DEF doomed
  <2>3. g \in Hand
    BY <1>2, <2>2 DEF Hand, Pcs
  <2>4. /\ g.pc = "row" /\ g.op = h.op /\ g.saw = h.saw /\ g.copied = h.copied /\ g.gone = h.gone
        /\ g.alone = h.alone
    BY <1>2 DEF Hand
  <2> HIDE DEF g
  <2>5. hand'[s] = g
    BY <1>1, <1>2, <2>1
  <2>6. h.gone = {} /\ h.op = "delete" /\ \A f \in Files : h.saw[f].c # Nothing => f \in h.copied
    BY <1>1, <1>2 DEF Own, Route, Loaded, Settled
  <2>7. Own(s)'
    BY <1>1, <2>3, <2>4, <2>5, <2>6, CopiedGoesOn
  <2> QED
    BY <1>1, <1>2, <2>1, <2>3, <2>4, <2>7, StepKeeps
<1> QED
  BY <1>3, <1>4

LEMMA DropDoomedKeeps ==
  ASSUME TreeInv, NEW s \in Clients, DropDoomed(s)
  PROVE  TreeInv'
<1> DEFINE h == hand[s]
<1> DEFINE p == Head(h.todo)
<1>1. s \in Workers /\ h.pc = "row"
  BY DEF DropDoomed, Workers
<1>2. h \in Hand /\ Own(s) /\ hand \in [Workers -> Hand] /\ h.todo \in Seq(Paths)
  BY <1>1, Facts, HandTypes
<1>3. h.gone = {} /\ h.op = "delete" /\ \A f \in Files : h.saw[f].c # Nothing => f \in h.copied
  BY <1>1, <1>2 DEF Own, Route, Loaded, Settled
<1>4. ASSUME UNCHANGED tableVars, Ends(s) PROVE TreeInv'
  BY <1>1, <1>4, UnchangedIsQuiet, EndKeeps
<1>5. CASE h.todo = <<>>
  <2>1. UNCHANGED tableVars /\ (Becomes(s, ToPrune(h)) \/ Ends(s))
    BY <1>5 DEF DropDoomed
  <2>2. CASE Becomes(s, ToPrune(h))
    BY <1>1, <1>3, <2>1, <2>2, UnchangedIsQuiet, PruneStarts
  <2> QED
    BY <1>4, <2>1, <2>2
<1>6. ASSUME h.todo # <<>>, TableStep(s), NEW b \in BOOLEAN,
             hand' = [hand EXCEPT ![s] = [h EXCEPT !.todo = Tail(h.todo), !.did = b]]
      PROVE  TreeInv'
  <2> DEFINE g == [h EXCEPT !.todo = Tail(h.todo), !.did = b]
  <2>1. Tail(h.todo) \in Seq(Paths)
    BY <1>2, <1>6, TailOf
  <2>2. g \in Hand
    BY <1>2, <2>1 DEF Hand
  <2>3. /\ g.pc = "row" /\ g.op = h.op /\ g.saw = h.saw /\ g.copied = h.copied /\ g.gone = h.gone
        /\ g.alone = h.alone
    BY <1>1, <1>2 DEF Hand
  <2>4. hand' = [hand EXCEPT ![s] = g]
    BY <1>6
  <2> HIDE DEF g
  <2>5. hand'[s] = g
    BY <1>1, <1>2, <2>4
  <2>6. Own(s)'
    BY <1>1, <1>3, <2>2, <2>3, <2>5, CopiedGoesOn
  <2> QED
    BY <1>1, <1>6, <2>2, <2>3, <2>4, <2>6, StepKeeps
<1>7. CASE h.todo # <<>> /\ p \notin Present(Lib)
  <2>1. UNCHANGED tableVars /\ (Ends(s) \/ Becomes(s, [h EXCEPT !.todo = Tail(h.todo)]))
    BY <1>7 DEF DropDoomed
  <2>2. CASE Becomes(s, [h EXCEPT !.todo = Tail(h.todo)])
    <3>1. [h EXCEPT !.todo = Tail(h.todo)] = [h EXCEPT !.todo = Tail(h.todo), !.did = h.did]
          /\ h.did \in BOOLEAN
      BY <1>2 DEF Hand
    <3> QED
      BY <1>1, <1>6, <1>7, <2>1, <2>2, <3>1, UnchangedIsQuiet DEF Becomes
  <2> QED
    BY <1>4, <2>1, <2>2
<1>8. CASE h.todo # <<>> /\ p \in Present(Lib)
  <2>1. /\ IF p \in Folders THEN DropFolderRow(Lib, p, TRUE)
           ELSE DeleteNodeWithUsage(Lib, p) /\ UNCHANGED torn
        /\ hand' = [hand EXCEPT ![s] = [h EXCEPT !.todo = Tail(h.todo), !.did = TRUE]]
    BY <1>8 DEF DropDoomed, Becomes
  <2>2. p \in Paths /\ Lib \in Repos
    BY <1>8, Consts DEF Present
  <2>3. TableStep(s)
    <3>1. CASE p \in Folders
      BY <2>1, <2>2, <3>1, FolderDropIs
    <3>2. CASE p \notin Folders
      BY <2>1, <2>2, <3>2, FileDropIs DEF Paths
    <3> QED
      BY <3>1, <3>2
  <2> QED
    BY <1>6, <1>8, <2>1, <2>3
<1> QED
  BY <1>5, <1>7, <1>8

-----------------------------------------------------------------------------
(* The pruning of empty parents. *)

\* A prune goes on; alone, the folders it removed and the next one have no file.
LEMMA PruneGoesOn ==
  ASSUME TreeInv, NEW s \in Workers, NEW g \in Hand, hand'[s] = g,
         hand[s].pc \in {"prune", "unfold"}, g.pc \in {"prune", "unfold"}, g.op = hand[s].op,
         g.pc = "unfold" => g.dirs # <<>>,
         g.alone => \A d \in g.gone : \A f \in Files : rows'[Src(g)][f].c # Nothing => d \notin Above(Src(g), f),
         g.alone /\ g.pc = "unfold" =>
             \A f \in Files : rows'[Src(g)][f].c # Nothing => Head(g.dirs) \notin Above(Src(g), f)
  PROVE  Own(s)'
<1>1. Route(hand[s])' /\ Loaded(hand[s])'
  BY Facts DEF Own, Route, Loaded
<1>2. Listed(hand[s])' /\ Settled(hand[s])'
  BY DEF Listed, Settled, Items
<1>3. g.alone => Emptied(hand[s])'
  BY DEF Emptied, Bare, Src, Above
<1>4. Landing(hand[s])' /\ Clearing(hand[s])' /\ Priced(hand[s])'
  BY DEF Landing, Clearing, Priced, Items
<1> QED
  BY <1>1, <1>2, <1>3, <1>4 DEF Own, Solo

LEMMA PruneProbeKeeps ==
  ASSUME TreeInv, NEW s \in Clients, PruneProbe(s)
  PROVE  TreeInv'
<1> DEFINE h == hand[s]
<1> DEFINE r == Src(h)
<1> DEFINE d == Head(h.dirs)
<1> DEFINE live == {q \in Present(r) \cap Within(r, d) : q # d /\ ({q} \cup Above(r, q)) \cap h.gone = {}}
<1>1. s \in Workers /\ h.pc = "prune" /\ UNCHANGED tableVars
  BY DEF PruneProbe, Workers
<1>2. h \in Hand /\ Own(s) /\ hand \in [Workers -> Hand] /\ TableStep(s) /\ rows' = rows
  BY <1>1, Facts, UnchangedIsQuiet DEF tableVars
<1>3. h.op \in {"delete", "move", "restore"} /\ h.dirs \in Seq(Folders) /\ h.gone \in SUBSET Folders
  BY <1>1, <1>2, HandTypes DEF Own, Route
<1>4. CASE (h.dirs = <<>> \/ live # {}) /\ h.op = "delete"
  BY <1>1, <1>2, <1>4, EndKeeps DEF PruneProbe
<1>5. CASE (h.dirs = <<>> \/ live # {}) /\ h.op # "delete"
  <2>1. Becomes(s, ToSweep(h)) /\ h.op \in Pipeline
    BY <1>3, <1>5 DEF PruneProbe, Pipeline
  <2> QED
    BY <1>1, <1>2, <1>5, <2>1, SweepStarts
<1>6. CASE h.dirs # <<>> /\ live = {}
  <2> DEFINE g == [h EXCEPT !.pc = "unfold"]
  <2>1. hand' = [hand EXCEPT ![s] = g]
    BY <1>6 DEF PruneProbe, Becomes
  <2>2. g \in Hand
    BY <1>2 DEF Hand, Pcs
  <2>3. g.pc = "unfold" /\ g.op = h.op /\ g.dirs = h.dirs /\ g.gone = h.gone /\ g.alone = h.alone
    BY <1>2 DEF Hand
  <2> HIDE DEF g
  <2>4. hand'[s] = g /\ Src(g) = r
    BY <1>1, <1>2, <2>1, <2>3 DEF Src
  <2>5. d \in Folders
    BY <1>3, <1>6, ToSetIs
  <2>6. ASSUME h.alone PROVE \A e \in h.gone : Bare(r, e)
    BY <1>1, <1>2, <2>6 DEF Own, Solo, Emptied
  <2>7. ASSUME h.alone, NEW f \in Files, rows[r][f].c # Nothing PROVE d \notin Above(r, f)
    <3> SUFFICES ASSUME d \in Above(r, f) PROVE FALSE
      OBVIOUS
    <3>1. f \in Present(r) \cap Within(r, d) /\ f # d /\ f \notin h.gone
      BY <1>3, <2>5, <2>7, Consts DEF Present, Within
    <3>2. Above(r, f) \cap h.gone = {}
      BY <2>6, <2>7 DEF Bare
    <3>3. f \in live
      BY <3>1, <3>2
    <3> QED
      BY <1>6, <3>3
  <2>8. Own(s)'
    <3>1. h.alone => \A e \in h.gone : \A f \in Files : rows[r][f].c # Nothing => e \notin Above(r, f)
      BY <2>6 DEF Bare
    <3>2. h.alone => \A f \in Files : rows[r][f].c # Nothing => d \notin Above(r, f)
      BY <2>7
    <3> HIDE DEF r
    <3> QED
      BY <1>1, <1>2, <1>6, <2>2, <2>3, <2>4, <3>1, <3>2, PruneGoesOn
  <2> QED
    BY <1>1, <1>2, <2>1, <2>2, <2>3, <2>8, StepKeeps
<1> QED
  BY <1>4, <1>5, <1>6

LEMMA PruneDropKeeps ==
  ASSUME TreeInv, NEW s \in Clients, PruneDrop(s)
  PROVE  TreeInv'
<1> DEFINE h == hand[s]
<1> DEFINE r == Src(h)
<1> DEFINE d == Head(h.dirs)
<1> DEFINE up == [h EXCEPT !.dirs = Tail(h.dirs), !.pc = "prune"]
<1>1. s \in Workers /\ h.pc = "unfold"
  BY DEF PruneDrop, Workers
<1>2. h \in Hand /\ Own(s) /\ hand \in [Workers -> Hand] /\ r \in Repos /\ h.alone \in BOOLEAN
  BY <1>1, Facts, HandTypes
<1>3. h.dirs \in Seq(Folders) /\ h.gone \in SUBSET Folders /\ h.dirs # <<>>
  BY <1>1, <1>2, HandTypes DEF Own, Loaded
<1>4. d \in Folders /\ Tail(h.dirs) \in Seq(Folders)
  BY <1>3, ToSetIs, TailOf
<1>5. up \in Hand
  BY <1>2, <1>4 DEF Hand, Pcs
<1>6. up.pc = "prune" /\ up.op = h.op /\ up.gone = h.gone /\ up.alone = h.alone
  BY <1>2 DEF Hand
<1>7. h.alone => Bare(r, d) /\ \A e \in h.gone : Bare(r, e)
  BY <1>1, <1>2 DEF Own, Solo, Emptied
<1> HIDE DEF up
<1>8. CASE d \notin Present(r)
  <2>1. hand' = [hand EXCEPT ![s] = up] /\ UNCHANGED tableVars
    BY <1>8 DEF PruneDrop, Becomes, up
  <2>2. hand'[s] = up /\ Src(up) = r /\ rows' = rows
    BY <1>1, <1>2, <1>6, <2>1 DEF Src, tableVars
  <2>3. Own(s)'
    <3>1. h.alone => \A e \in h.gone : \A f \in Files : rows[r][f].c # Nothing => e \notin Above(r, f)
      BY <1>7 DEF Bare
    <3> HIDE DEF r
    <3> QED
      BY <1>1, <1>5, <1>6, <2>2, <3>1, PruneGoesOn
  <2> QED
    BY <1>1, <1>5, <1>6, <2>1, <2>3, UnchangedIsQuiet, StepKeeps
<1>9. CASE d \in Present(r)
  <2> DEFINE k == up.gone \cup {d}
  <2> DEFINE g == [up EXCEPT !.gone = k]
  <2>1. hand' = [hand EXCEPT ![s] = g] /\ DropFolderRow(r, d, ~h.alone)
    BY <1>9 DEF PruneDrop, Becomes, up
  <2>2. k \in SUBSET Folders
    BY <1>3, <1>4, <1>6
  <2>3. k = h.gone \cup {d}
    BY <1>6
  <2> HIDE DEF k
  <2>4. g \in Hand
    BY <1>5, <2>2 DEF Hand
  <2>5. g.pc = "prune" /\ g.op = h.op /\ g.gone = k /\ g.alone = h.alone
    BY <1>5, <1>6 DEF Hand
  <2> HIDE DEF g
  <2>6. hand'[s] = g /\ Src(g) = r
    BY <1>1, <1>2, <2>1, <2>5 DEF Src
  <2>7. TableStep(s) /\ \A t \in Repos : \A f \in Files : rows'[t][f].c = rows[t][f].c
    <3>1. ~h.alone \/ (h.alone /\ Bare(r, d))
      BY <1>2, <1>7
    <3> QED
      BY <1>2, <1>4, <2>1, <3>1, FolderDropIs
  <2>8. Own(s)'
    <3>1. h.alone => \A e \in k : \A f \in Files : rows'[r][f].c # Nothing => e \notin Above(r, f)
      BY <1>2, <1>7, <2>3, <2>7 DEF Bare
    <3> HIDE DEF r
    <3> QED
      BY <1>1, <2>4, <2>5, <2>6, <3>1, PruneGoesOn
  <2> QED
    BY <1>1, <2>1, <2>4, <2>5, <2>7, <2>8, StepKeeps
<1> QED
  BY <1>8, <1>9

-----------------------------------------------------------------------------
(* Purge and retention. *)

\* The files of a listing stand before its folders.
LEMMA FilesFirst ==
  ASSUME NEW a \in Seq(Files), NEW b \in Seq(Folders)
  PROVE  /\ a \o b \in Seq(Paths)
         /\ ToSet(a \o b) = ToSet(a) \cup ToSet(b)
         /\ \A i \in 1 .. Len(a \o b) : (a \o b)[i] \in Folders =>
                /\ (a \o b)[i] \in ToSet(b)
                /\ \A j \in i .. Len(a \o b) : (a \o b)[j] \in Folders
<1>1. a \in Seq(Paths) /\ b \in Seq(Paths) /\ Len(a) \in Nat /\ Len(b) \in Nat
  BY Consts
<1>2. /\ a \o b \in Seq(Paths) /\ Len(a \o b) = Len(a) + Len(b)
      /\ \A i \in 1 .. (Len(a) + Len(b)) :
            (a \o b)[i] = IF i <= Len(a) THEN a[i] ELSE b[i - Len(a)]
  BY <1>1, ConcatProperties
<1>3. /\ ToSet(a) = {a[i] : i \in 1 .. Len(a)} /\ ToSet(b) = {b[i] : i \in 1 .. Len(b)}
      /\ ToSet(a \o b) = {(a \o b)[i] : i \in 1 .. Len(a \o b)}
  BY <1>1, <1>2, ToSetIs
<1>4. \A i \in 1 .. Len(a) : a[i] \in Files
  OBVIOUS
<1>5. \A i \in 1 .. Len(b) : b[i] \in Folders
  OBVIOUS
<1>6. \A i \in 1 .. Len(a \o b) : (i <= Len(a) /\ i \in 1 .. Len(a)) \/ (i > Len(a) /\ i - Len(a) \in 1 .. Len(b))
  BY <1>1, <1>2
<1>7. ASSUME NEW i \in 1 .. Len(a \o b), (a \o b)[i] \in Folders
      PROVE  i > Len(a)
  BY <1>1, <1>2, <1>4, <1>6, <1>7, Consts
<1>8. ASSUME NEW i \in 1 .. Len(a \o b), i > Len(a)
      PROVE  (a \o b)[i] \in Folders /\ (a \o b)[i] \in ToSet(b)
  <2>1. i - Len(a) \in 1 .. Len(b) /\ ~(i <= Len(a)) /\ i \in 1 .. (Len(a) + Len(b))
    BY <1>1, <1>2, <1>8
  <2>2. (a \o b)[i] = b[i - Len(a)]
    BY <1>2, <2>1
  <2> QED
    BY <1>3, <1>5, <2>1, <2>2
<1>9. ASSUME NEW i \in 1 .. Len(a \o b), (a \o b)[i] \in Folders
      PROVE  /\ (a \o b)[i] \in ToSet(b)
             /\ \A j \in i .. Len(a \o b) : (a \o b)[j] \in Folders
  <2>1. i > Len(a)
    BY <1>7, <1>9
  <2>2. \A j \in i .. Len(a \o b) : j \in 1 .. Len(a \o b) /\ j > Len(a)
    BY <1>1, <1>2, <2>1
  <2> QED
    BY <1>8, <2>1, <2>2
<1>10. ToSet(a \o b) = ToSet(a) \cup ToSet(b)
  <2>1. ASSUME NEW x \in ToSet(a \o b) PROVE x \in ToSet(a) \cup ToSet(b)
    <3>1. PICK i \in 1 .. Len(a \o b) : x = (a \o b)[i]
      BY <1>3
    <3>2. x = IF i <= Len(a) THEN a[i] ELSE b[i - Len(a)]
      BY <1>2, <3>1
    <3> QED
      BY <1>1, <1>3, <1>6, <3>2
  <2>2. ASSUME NEW x \in ToSet(a) PROVE x \in ToSet(a \o b)
    <3>1. PICK i \in 1 .. Len(a) : x = a[i]
      BY <1>3
    <3>2. i \in 1 .. Len(a \o b) /\ i \in 1 .. (Len(a) + Len(b)) /\ i <= Len(a)
      BY <1>1, <1>2
    <3>3. (a \o b)[i] = x
      BY <1>2, <3>1, <3>2
    <3> QED
      BY <1>3, <3>2, <3>3
  <2>3. ASSUME NEW x \in ToSet(b) PROVE x \in ToSet(a \o b)
    <3>1. PICK i \in 1 .. Len(b) : x = b[i]
      BY <1>3
    <3>2. /\ i + Len(a) \in 1 .. Len(a \o b) /\ i + Len(a) \in 1 .. (Len(a) + Len(b))
          /\ ~(i + Len(a) <= Len(a)) /\ (i + Len(a)) - Len(a) = i
      BY <1>1, <1>2
    <3>3. (a \o b)[i + Len(a)] = x
      BY <1>2, <3>1, <3>2
    <3> QED
      BY <1>3, <3>2, <3>3
  <2> QED
    BY <2>1, <2>2, <2>3
<1> QED
  BY <1>2, <1>9, <1>10

LEMMA ListPurgeKeeps ==
  ASSUME TreeInv, NEW s \in Clients, ListPurge(s)
  PROVE  TreeInv'
<1> DEFINE h == hand[s]
<1> DEFINE listed == Present(Can) \cap Within(Can, h.p)
<1> DEFINE a == Listing(listed \cap Files)
<1> DEFINE b == Reverse(Listing(listed \cap Folders))
<1> DEFINE g == [h EXCEPT !.todo = a \o b, !.pc = "purging"]
<1>1. s \in Workers /\ h.pc = "purge" /\ UNCHANGED tableVars /\ hand' = [hand EXCEPT ![s] = g]
  BY DEF ListPurge, Becomes, Workers
<1>2. h \in Hand /\ Own(s) /\ hand \in [Workers -> Hand] /\ TableStep(s) /\ rows' = rows
  BY <1>1, Facts, UnchangedIsQuiet DEF tableVars
<1>3. h.op = "purge" /\ h.gone = {}
  BY <1>1, <1>2 DEF Own, Route, Loaded
<1>4. listed \cap Files \in SUBSET Paths /\ listed \cap Folders \in SUBSET Paths
  BY DEF Present
<1>5. a \in Seq(Files) /\ ToSet(a) = listed \cap Files
  <2>1. a \in Seq(listed \cap Files) /\ ToSet(a) = listed \cap Files
    BY <1>4, ListingOf
  <2> HIDE DEF a, listed
  <2>2. a \in Seq(Files)
    BY <2>1
  <2> QED
    BY <2>1, <2>2
<1>6. b \in Seq(Folders) /\ ToSet(b) = listed \cap Folders
  <2>1. /\ Listing(listed \cap Folders) \in Seq(listed \cap Folders)
        /\ ToSet(Listing(listed \cap Folders)) = listed \cap Folders
    BY <1>4, ListingOf
  <2>2. Listing(listed \cap Folders) \in Seq(Folders)
    BY <2>1
  <2> QED
    BY <2>1, <2>2, ReverseOf
<1>7. \A q \in Paths : q \in listed <=> rows[Can][q].c # Nothing /\ q \in Within(Can, h.p)
  BY DEF Present
<1> HIDE DEF a, b, listed
<1> DEFINE z == a \o b
<1>8. /\ z \in Seq(Paths)
      /\ ToSet(z) = ToSet(a) \cup ToSet(b)
      /\ \A i \in 1 .. Len(z) : z[i] \in Folders =>
            /\ z[i] \in ToSet(b)
            /\ \A j \in i .. Len(z) : z[j] \in Folders
  BY <1>5, <1>6, FilesFirst
<1> HIDE DEF z
<1>9. g = [h EXCEPT !.todo = z, !.pc = "purging"]
  BY DEF z
<1>10. g \in Hand
  BY <1>2, <1>8, <1>9 DEF Hand, Pcs
<1>11. g.pc = "purging" /\ g.op = h.op /\ g.p = h.p /\ g.todo = z /\ g.gone = h.gone /\ g.alone = h.alone
  BY <1>2, <1>9 DEF Hand
<1> HIDE DEF g
<1>12. hand'[s] = g
  BY <1>1, <1>2
<1>13. Own(s)'
  <2>1. Route(hand[s])' /\ Loaded(hand[s])'
    BY <1>3, <1>11, <1>12 DEF Route, Loaded
  <2>2. Listed(hand[s])'
    <3>1. \A i \in 1 .. Len(z) : z[i] \in Folders => z[i] \in Within(Can, h.p)
      BY <1>6, <1>7, <1>8, Consts
    <3> QED
      BY <1>8, <1>11, <1>12, <3>1 DEF Listed, Items, Within, Above
  <2>3. Settled(hand[s])'
    BY <1>3, <1>11, <1>12 DEF Settled
  <2>4. Clearing(hand[s])'
    <3>1. \A f \in Files : rows[Can][f].c # Nothing /\ f \in Within(Can, h.p) => f \in ToSet(z)
      BY <1>5, <1>7, <1>8, Consts
    <3> QED
      BY <1>2, <1>3, <1>11, <1>12, <3>1 DEF Clearing, Within, Above
  <2>5. Landing(hand[s])' /\ Emptied(hand[s])' /\ Priced(hand[s])'
    BY <1>11, <1>12 DEF Landing, Emptied, Priced
  <2> QED
    BY <2>1, <2>2, <2>3, <2>4, <2>5 DEF Own, Solo
<1> QED
  BY <1>1, <1>2, <1>10, <1>11, <1>13, StepKeeps

LEMMA PurgeKeeps ==
  ASSUME TreeInv, NEW s \in Clients, Purge(s)
  PROVE  TreeInv'
<1> DEFINE h == hand[s]
<1> DEFINE p == Head(h.todo)
<1>1. s \in Workers /\ h.pc = "purging"
  BY DEF Purge, Workers
<1>2. /\ h \in Hand /\ Own(s) /\ hand \in [Workers -> Hand] /\ h.todo \in Seq(Paths) /\ h.p \in Paths
      /\ h.alone \in BOOLEAN
  BY <1>1, Facts, HandTypes
<1>3. h.op = "purge" /\ h.gone = {} /\ Can \in Repos
  BY <1>1, <1>2, Consts DEF Own, Route, Loaded
<1>4. CASE h.todo = <<>>
  BY <1>1, <1>4, UnchangedIsQuiet, EndKeeps DEF Purge
<1>5. CASE h.todo # <<>>
  <2> DEFINE g == [h EXCEPT !.todo = Tail(h.todo)]
  <2>1. /\ IF p \in Folders THEN DropFolderRow(Can, p, ~h.alone)
           ELSE DeleteNodeWithUsage(Can, p) /\ UNCHANGED torn
        /\ hand' = [hand EXCEPT ![s] = g]
    BY <1>5 DEF Purge, Becomes
  <2>2. /\ Tail(h.todo) \in Seq(Paths) /\ p \in Paths /\ p = h.todo[1] /\ Len(h.todo) \in Nat \ {0}
        /\ ToSet(h.todo) = {p} \cup ToSet(Tail(h.todo))
        /\ ToSet(h.todo) = {h.todo[i] : i \in 1 .. Len(h.todo)}
        /\ Len(Tail(h.todo)) = Len(h.todo) - 1
        /\ \A i \in 1 .. Len(Tail(h.todo)) : Tail(h.todo)[i] = h.todo[i + 1]
    BY <1>2, <1>5, TailOf, ToSetIs
  <2>3. g \in Hand
    BY <1>2, <2>2 DEF Hand
  <2>4. g.pc = "purging" /\ g.op = h.op /\ g.p = h.p /\ g.todo = Tail(h.todo) /\ g.gone = {} /\ g.alone = h.alone
    BY <1>1, <1>2, <1>3 DEF Hand
  <2> HIDE DEF g
  <2>5. hand'[s] = g
    BY <1>1, <1>2, <2>1
  <2>6. /\ \A i \in 1 .. Len(h.todo) : h.todo[i] \in Folders =>
               /\ h.todo[i] \in Within(Can, h.p)
               /\ \A j \in i .. Len(h.todo) : h.todo[j] \in Folders
        /\ h.alone => \A f \in Files : rows[Can][f].c # Nothing /\ f \in Within(Can, h.p) => f \in ToSet(h.todo)
    BY <1>1, <1>2 DEF Own, Listed, Solo, Clearing
  <2>7. ASSUME p \in Folders, h.alone PROVE Bare(Can, p)
    <3> SUFFICES ASSUME NEW f \in Files, rows[Can][f].c # Nothing, p \in Above(Can, f) PROVE FALSE
      BY DEF Bare
    <3>1. 1 \in 1 .. Len(h.todo)
      BY <2>2
    <3>2. p \in Within(Can, h.p) /\ \A j \in 1 .. Len(h.todo) : h.todo[j] \in Folders
      BY <2>2, <2>6, <2>7, <3>1
    <3>3. f \in Within(Can, h.p)
      BY <1>2, <3>2, UnderUnder
    <3>4. f \in ToSet(h.todo)
      BY <2>6, <2>7, <3>3
    <3> QED
      BY <2>2, <3>2, <3>4, Consts
  <2>8. /\ TableStep(s)
        /\ \A f \in Files : rows'[Can][f].c # Nothing => rows[Can][f].c # Nothing /\ f # p
    <3>1. CASE p \in Folders
      <4>1. ~h.alone \/ (h.alone /\ Bare(Can, p))
        BY <1>2, <2>7, <3>1
      <4>2. DropFolderRow(Can, p, ~h.alone)
        BY <2>1, <3>1
      <4>3. TableStep(s) /\ \A t \in Repos : \A f \in Files : rows'[t][f].c = rows[t][f].c
        BY <1>2, <1>3, <3>1, <4>1, <4>2, FolderDropIs
      <4> QED
        BY <1>3, <3>1, <4>3, Consts
    <3>2. CASE p \notin Folders
      <4>1. p \in Files /\ DeleteNodeWithUsage(Can, p) /\ torn' = torn
        BY <2>1, <2>2, <3>2 DEF Paths
      <4>2. TableStep(s) /\ Sets(Can, p, Nothing)
        BY <1>3, <4>1, FileDropIs
      <4> QED
        BY <1>3, <4>2, Consts DEF Sets
    <3> QED
      BY <3>1, <3>2
  <2>9. Own(s)'
    <3>1. Route(hand[s])' /\ Loaded(hand[s])'
      BY <1>3, <2>4, <2>5 DEF Route, Loaded
    <3>2. Listed(hand[s])'
      <4> DEFINE z == Tail(h.todo)
      <4>1. ASSUME NEW i \in 1 .. Len(z), z[i] \in Folders
            PROVE  z[i] \in Within(Can, h.p) /\ \A j \in i .. Len(z) : z[j] \in Folders
        <5>1. i + 1 \in 1 .. Len(h.todo) /\ z[i] = h.todo[i + 1]
          BY <2>2
        <5>2. h.todo[i + 1] \in Within(Can, h.p) /\ \A j \in (i + 1) .. Len(h.todo) : h.todo[j] \in Folders
          BY <2>6, <4>1, <5>1
        <5>3. \A j \in i .. Len(z) : j + 1 \in (i + 1) .. Len(h.todo) /\ z[j] = h.todo[j + 1]
          BY <2>2
        <5> QED
          BY <5>1, <5>2, <5>3
      <4> HIDE DEF z
      <4> QED
        BY <2>4, <2>5, <4>1 DEF Listed, Items, Within, Above, z
    <3>3. Settled(hand[s])'
      BY <1>3, <2>4, <2>5 DEF Settled
    <3>4. ASSUME h.alone PROVE Clearing(hand[s])'
      BY <1>3, <2>2, <2>4, <2>5, <2>6, <2>8, <3>4 DEF Clearing, Within, Above
    <3>5. Landing(hand[s])' /\ Emptied(hand[s])' /\ Priced(hand[s])'
      BY <2>4, <2>5 DEF Landing, Emptied, Priced
    <3> QED
      BY <2>4, <2>5, <3>1, <3>2, <3>3, <3>4, <3>5 DEF Own, Solo
  <2> QED
    BY <1>1, <2>1, <2>3, <2>4, <2>8, <2>9, StepKeeps
<1> QED
  BY <1>4, <1>5

\* A retention pass goes on.
LEMMA RetentionGoesOn ==
  ASSUME TreeInv, NEW s \in Workers, NEW g \in Hand, hand'[s] = g,
         g.pc \in {"retain", "expire", "fold"}, g.todo \in Seq(Files), g.gone = {},
         g.pc = "expire" => g.todo # <<>>,
         g.pc = "fold" => /\ g.dirs # <<>>
                          /\ \A f \in Files : rows'[Can][f].c # Nothing => Head(g.dirs) \notin Above(Can, f)
  PROVE  Own(s)'
<1>1. Route(hand[s])' /\ Loaded(hand[s])'
  BY DEF Route, Loaded
<1>2. Listed(hand[s])' /\ Settled(hand[s])'
  BY DEF Listed, Settled, Items
<1>3. Emptied(hand[s])'
  BY DEF Emptied, Bare, Above
<1>4. Landing(hand[s])' /\ Clearing(hand[s])' /\ Priced(hand[s])'
  BY DEF Landing, Clearing, Priced, Items
<1> QED
  BY <1>1, <1>2, <1>3, <1>4 DEF Own, Solo

\* One candidate is taken or passed over.
LEMMA RetentionTakes ==
  ASSUME TreeInv, NEW s \in Workers, hand[s].pc = "retain", hand[s].todo # <<>>, UNCHANGED tableVars,
         \/ Becomes(s, [hand[s] EXCEPT !.pc = "expire"])
         \/ Becomes(s, [hand[s] EXCEPT !.todo = Tail(hand[s].todo)])
  PROVE  TreeInv'
<1> DEFINE h == hand[s]
<1>1. h \in Hand /\ Own(s) /\ hand \in [Workers -> Hand] /\ TableStep(s)
  BY Facts, UnchangedIsQuiet
<1>2. h.todo \in Seq(Files) /\ h.todo \in Seq(Paths) /\ h.gone = {}
  BY <1>1, HandTypes DEF Own, Loaded
<1>3. Tail(h.todo) \in Seq(Files) /\ Tail(h.todo) \in Seq(Paths)
  BY <1>2, TailOf
<1>4. CASE Becomes(s, [h EXCEPT !.pc = "expire"])
  <2> DEFINE g == [h EXCEPT !.pc = "expire"]
  <2>1. hand' = [hand EXCEPT ![s] = g]
    BY <1>4 DEF Becomes
  <2>2. g \in Hand
    BY <1>1 DEF Hand, Pcs
  <2>3. g.pc = "expire" /\ g.todo = h.todo /\ g.gone = h.gone /\ g.alone = h.alone
    BY <1>1 DEF Hand
  <2> HIDE DEF g
  <2>4. hand'[s] = g
    BY <1>1, <2>1
  <2>5. Own(s)'
    BY <1>2, <2>2, <2>3, <2>4, RetentionGoesOn
  <2> QED
    BY <1>1, <2>1, <2>2, <2>3, <2>5, StepKeeps
<1>5. CASE Becomes(s, [h EXCEPT !.todo = Tail(h.todo)])
  <2> DEFINE g == [h EXCEPT !.todo = Tail(h.todo)]
  <2>1. hand' = [hand EXCEPT ![s] = g]
    BY <1>5 DEF Becomes
  <2>2. g \in Hand
    BY <1>1, <1>3 DEF Hand
  <2>3. g.pc = "retain" /\ g.todo = Tail(h.todo) /\ g.gone = h.gone /\ g.alone = h.alone
    BY <1>1 DEF Hand
  <2> HIDE DEF g
  <2>4. hand'[s] = g
    BY <1>1, <2>1
  <2>5. Own(s)'
    BY <1>2, <1>3, <2>2, <2>3, <2>4, RetentionGoesOn
  <2> QED
    BY <1>1, <2>1, <2>2, <2>3, <2>5, StepKeeps
<1> QED
  BY <1>4, <1>5

LEMMA RetentionCheckKeeps ==
  ASSUME TreeInv, RetentionCheck
  PROVE  TreeInv'
<1>1. /\ Cron \in Workers /\ hand[Cron].pc = "retain" /\ hand[Cron].todo # <<>> /\ UNCHANGED tableVars
      /\ \/ Becomes(Cron, [hand[Cron] EXCEPT !.pc = "expire"])
         \/ Becomes(Cron, [hand[Cron] EXCEPT !.todo = Tail(hand[Cron].todo)])
  BY DEF RetentionCheck, Workers
<1> QED
  BY <1>1, RetentionTakes

LEMMA RetentionDropKeeps ==
  ASSUME TreeInv, RetentionDrop
  PROVE  TreeInv'
<1> DEFINE s == Cron
<1> DEFINE h == hand[s]
<1> DEFINE g == [h EXCEPT !.todo = Tail(h.todo), !.pc = "retain"]
<1>1. /\ s \in Workers /\ h.pc = "expire" /\ DeleteNodeWithUsage(Can, Head(h.todo)) /\ torn' = torn
      /\ hand' = [hand EXCEPT ![s] = g]
  BY DEF RetentionDrop, Workers, Becomes
<1>2. h \in Hand /\ Own(s) /\ hand \in [Workers -> Hand]
  BY <1>1, Facts
<1>3. h.todo \in Seq(Files) /\ h.todo \in Seq(Paths) /\ h.gone = {} /\ h.todo # <<>> /\ Can \in Repos
  BY <1>1, <1>2, HandTypes, Consts DEF Own, Loaded
<1>4. Tail(h.todo) \in Seq(Files) /\ Tail(h.todo) \in Seq(Paths) /\ Head(h.todo) \in Files
  BY <1>3, TailOf, ToSetIs
<1>5. TableStep(s)
  BY <1>1, <1>3, <1>4, FileDropIs
<1>6. g \in Hand
  BY <1>2, <1>4 DEF Hand, Pcs
<1>7. g.pc = "retain" /\ g.todo = Tail(h.todo) /\ g.gone = h.gone /\ g.alone = h.alone
  BY <1>2 DEF Hand
<1> HIDE DEF g
<1>8. hand'[s] = g
  BY <1>1, <1>2
<1>9. Own(s)'
  BY <1>1, <1>3, <1>4, <1>6, <1>7, <1>8, RetentionGoesOn
<1> QED
  BY <1>1, <1>5, <1>6, <1>7, <1>9, StepKeeps

LEMMA RetentionProbeKeeps ==
  ASSUME TreeInv, RetentionProbe
  PROVE  TreeInv'
<1> DEFINE s == Cron
<1> DEFINE h == hand[s]
<1> DEFINE d == Head(h.dirs)
<1>1. s \in Workers /\ h.pc = "retain" /\ h.todo = <<>> /\ UNCHANGED tableVars
  BY DEF RetentionProbe, Workers
<1>2. h \in Hand /\ Own(s) /\ hand \in [Workers -> Hand] /\ TableStep(s) /\ rows' = rows
  BY <1>1, Facts, UnchangedIsQuiet DEF tableVars
<1>3. h.todo \in Seq(Files) /\ h.gone = {} /\ h.dirs \in Seq(Folders)
  BY <1>1, <1>2, HandTypes DEF Own, Loaded
<1>4. CASE h.dirs = <<>>
  BY <1>1, <1>2, <1>4, EndKeeps DEF RetentionProbe
<1>5. CASE h.dirs # <<>> /\ Present(Can) \cap Within(Can, d) \cap Files = {}
  <2> DEFINE g == [h EXCEPT !.pc = "fold"]
  <2>1. hand' = [hand EXCEPT ![s] = g]
    BY <1>5 DEF RetentionProbe, Becomes
  <2>2. g \in Hand
    BY <1>2 DEF Hand, Pcs
  <2>3. g.pc = "fold" /\ g.todo = h.todo /\ g.dirs = h.dirs /\ g.gone = h.gone /\ g.alone = h.alone
    BY <1>2 DEF Hand
  <2> HIDE DEF g
  <2>4. hand'[s] = g
    BY <1>1, <1>2, <2>1
  <2>5. \A f \in Files : rows'[Can][f].c # Nothing => d \notin Above(Can, f)
    BY <1>2, <1>5, Consts DEF Present, Within
  <2>6. Own(s)'
    BY <1>1, <1>3, <1>5, <2>2, <2>3, <2>4, <2>5, RetentionGoesOn
  <2> QED
    BY <1>1, <1>2, <2>1, <2>2, <2>3, <2>6, StepKeeps
<1>6. CASE h.dirs # <<>> /\ Present(Can) \cap Within(Can, d) \cap Files # {}
  <2> DEFINE g == [h EXCEPT !.dirs = Tail(h.dirs)]
  <2>1. hand' = [hand EXCEPT ![s] = g]
    BY <1>6 DEF RetentionProbe, Becomes
  <2>2. Tail(h.dirs) \in Seq(Folders)
    BY <1>3, <1>6, TailOf
  <2>3. g \in Hand
    BY <1>2, <2>2 DEF Hand
  <2>4. g.pc = "retain" /\ g.todo = h.todo /\ g.gone = h.gone /\ g.alone = h.alone
    BY <1>1, <1>2 DEF Hand
  <2> HIDE DEF g
  <2>5. hand'[s] = g
    BY <1>1, <1>2, <2>1
  <2>6. Own(s)'
    BY <1>1, <1>3, <2>3, <2>4, <2>5, RetentionGoesOn
  <2> QED
    BY <1>1, <1>2, <2>1, <2>3, <2>4, <2>6, StepKeeps
<1> QED
  BY <1>4, <1>5, <1>6

LEMMA RetentionUnfoldKeeps ==
  ASSUME TreeInv, RetentionUnfold
  PROVE  TreeInv'
<1> DEFINE s == Cron
<1> DEFINE h == hand[s]
<1> DEFINE d == Head(h.dirs)
<1> DEFINE g == [h EXCEPT !.dirs = Tail(h.dirs), !.pc = "retain"]
<1>1. /\ s \in Workers /\ h.pc = "fold" /\ DropFolderRow(Can, d, ~h.alone)
      /\ hand' = [hand EXCEPT ![s] = g]
  BY DEF RetentionUnfold, Workers, Becomes
<1>2. h \in Hand /\ Own(s) /\ hand \in [Workers -> Hand] /\ h.alone \in BOOLEAN
  BY <1>1, Facts, HandTypes
<1>3. /\ h.todo \in Seq(Files) /\ h.gone = {} /\ h.dirs \in Seq(Folders) /\ h.dirs # <<>>
      /\ Can \in Repos
  BY <1>1, <1>2, HandTypes, Consts DEF Own, Loaded
<1>4. Tail(h.dirs) \in Seq(Folders) /\ d \in Folders
  BY <1>3, TailOf, ToSetIs
<1>5. ~h.alone \/ (h.alone /\ Bare(Can, d))
  BY <1>1, <1>2 DEF Own, Solo, Emptied
<1>6. TableStep(s)
  BY <1>1, <1>2, <1>3, <1>4, <1>5, FolderDropIs
<1>7. g \in Hand
  BY <1>2, <1>4 DEF Hand, Pcs
<1>8. g.pc = "retain" /\ g.todo = h.todo /\ g.gone = h.gone /\ g.alone = h.alone
  BY <1>2 DEF Hand
<1> HIDE DEF g
<1>9. hand'[s] = g
  BY <1>1, <1>2
<1>10. Own(s)'
  BY <1>1, <1>3, <1>7, <1>8, <1>9, RetentionGoesOn
<1> QED
  BY <1>1, <1>6, <1>7, <1>8, <1>10, StepKeeps

-----------------------------------------------------------------------------
(* Requests that arrive, failures and time. *)

\* Nothing but SoloInv looks at the history of company.
LEMMA AloneOnly ==
  ASSUME NEW h \in Hand, NEW b \in BOOLEAN
  PROVE  LET g == [h EXCEPT !.alone = b] IN
         /\ g \in Hand /\ g.alone = b /\ g.pc = h.pc
         /\ Route(h) /\ Loaded(h) => Route(g) /\ Loaded(g)
         /\ Listed(h) /\ Settled(h) => Listed(g) /\ Settled(g)
         /\ Landing(h) => Landing(g)
         /\ Clearing(h) /\ Emptied(h) /\ Priced(h) => Clearing(g) /\ Emptied(g) /\ Priced(g)
<1> DEFINE g == [h EXCEPT !.alone = b]
<1>1. g \in Hand
  BY DEF Hand
<1>2. /\ g.pc = h.pc /\ g.op = h.op /\ g.p = h.p /\ g.c = h.c /\ g.todo = h.todo /\ g.saw = h.saw
      /\ g.dirs = h.dirs /\ g.had = h.had /\ g.kept = h.kept /\ g.gone = h.gone
      /\ g.copied = h.copied /\ g.alone = b
  BY DEF Hand
<1> HIDE DEF g
<1>3. Src(g) = Src(h) /\ Tgt(g) = Tgt(h) /\ Dest(g) = Dest(h)
  BY <1>2 DEF Src, Tgt, Dest
<1>4. Route(h) /\ Loaded(h) => Route(g) /\ Loaded(g)
  BY <1>2 DEF Route, Loaded
<1>5. Listed(h) /\ Settled(h) => Listed(g) /\ Settled(g)
  BY <1>2, <1>3 DEF Listed, Settled
<1>6. Landing(h) => Landing(g)
  BY <1>2, <1>3 DEF Landing
<1>7. Clearing(h) /\ Emptied(h) /\ Priced(h) => Clearing(g) /\ Emptied(g) /\ Priced(g)
  BY <1>2, <1>3 DEF Clearing, Emptied, Priced
<1> QED
  BY <1>1, <1>2, <1>4, <1>5, <1>6, <1>7 DEF g

\* The parts of the invariant that read the tables, after a step that keeps the contents.
LEMMA SameContents ==
  ASSUME TreeInv, NEW s \in Workers, NEW g \in Hand, hand'[s] = g, Quiet, Loaded(g)
  PROVE  /\ Landing(g) => Landing(hand[s])'
         /\ Clearing(g) => Clearing(hand[s])'
         /\ Emptied(g) => Emptied(hand[s])'
         /\ Priced(g) => Priced(hand[s])'
<1>1. Src(g) \in Repos /\ Tgt(g) \in Repos /\ Lib \in Repos /\ Can \in Repos
  BY Consts DEF Src, Tgt
<1>2. \A r \in Repos : \A f \in Files : rows'[r][f].c = rows[r][f].c
  BY Consts DEF Quiet
<1>3. Landing(g) => Landing(hand[s])'
  <2>1. CASE g.pc \in {"dirs", "land"}
    <3>1. Above(Tgt(g), Dest(g)) \subseteq Paths
      BY <2>1, DestIs, Consts
    <3>2. \A d \in Above(Tgt(g), Dest(g)) : d \in Paths /\ rows'[Tgt(g)][d].c = rows[Tgt(g)][d].c
      BY <1>1, <3>1 DEF Quiet
    <3> QED
      BY <3>2 DEF Landing, Present, Quiet, Tgt, Dest, Above
  <2> QED
    BY <2>1 DEF Landing
<1>4. Clearing(g) => Clearing(hand[s])'
  BY <1>1, <1>2 DEF Clearing, Src, Within, Above
<1>5. Emptied(g) => Emptied(hand[s])'
  BY <1>1, <1>2 DEF Emptied, Bare, Src, Tgt, Above
<1>6. Priced(g) => Priced(hand[s])'
  <2>1. \A q \in Paths : rows'[Lib][q].c = rows[Lib][q].c
    BY <1>1 DEF Quiet
  <2>2. g.p \in Paths
    BY HandTypes
  <2> QED
    BY <1>1, <1>2, <2>1, <2>2 DEF Priced, QuotaRefuses, Tgt, Quiet
<1> QED
  BY <1>3, <1>4, <1>5, <1>6

LEMMA StartKeeps ==
  ASSUME TreeInv, NEW s \in Workers, hand[s].pc = "idle", UNCHANGED tableVars,
         NEW h \in Hand, Starts(s, h),
         Route(h), Loaded(h), Listed(h), Settled(h),
         Landing(h), Clearing(h), Emptied(h), Priced(h)
  PROVE  TreeInv'
<1> DEFINE others == {q \in Workers \ {s} : hand[q].pc # "idle"}
<1>1. TableStep(s) /\ Quiet /\ hand \in [Workers -> Hand]
  BY UnchangedIsQuiet, Facts DEF Quiet, tableVars
<1>2. hand' = [q \in Workers |->
                  IF q = s THEN [h EXCEPT !.alone = (others = {})]
                  ELSE IF q \in others THEN [hand[q] EXCEPT !.alone = FALSE]
                  ELSE hand[q]]
  BY DEF Starts
<1>3. (others = {}) \in BOOLEAN
  OBVIOUS
<1>4. ASSUME NEW q \in Workers
      PROVE  /\ hand'[q] \in Hand
             /\ Route(hand'[q]) /\ Loaded(hand'[q]) /\ Listed(hand'[q]) /\ Settled(hand'[q])
             /\ Landing(hand'[q]) /\ (hand'[q].alone => Clearing(hand'[q]) /\ Emptied(hand'[q]) /\ Priced(hand'[q]))
             /\ q = s => hand'[q].alone = (others = {})
             /\ q # s => (hand'[q].pc # "idle" => ~hand'[q].alone /\ q \in others)
  <2>1. CASE q = s
    <3> DEFINE b == (others = {})
    <3>1. hand'[q] = [h EXCEPT !.alone = b]
      BY <1>2, <2>1
    <3>2. b \in BOOLEAN
      OBVIOUS
    <3> HIDE DEF b
    <3>3. /\ hand'[q] \in Hand /\ hand'[q].alone = b
          /\ Route(hand'[q]) /\ Loaded(hand'[q]) /\ Listed(hand'[q]) /\ Settled(hand'[q])
          /\ Landing(hand'[q]) /\ Clearing(hand'[q]) /\ Emptied(hand'[q]) /\ Priced(hand'[q])
      BY <3>1, <3>2, AloneOnly
    <3> QED
      BY <2>1, <3>3 DEF b
  <2>2. CASE q # s /\ q \in others
    <3>1. hand'[q] = [hand[q] EXCEPT !.alone = FALSE]
      BY <1>2, <2>2
    <3>2. hand[q] \in Hand /\ Own(q)
      BY Facts
    <3>3. /\ hand'[q] \in Hand /\ hand'[q].alone = FALSE
          /\ Route(hand'[q]) /\ Loaded(hand'[q]) /\ Listed(hand'[q]) /\ Settled(hand'[q])
          /\ Landing(hand'[q])
      BY <3>1, <3>2, AloneOnly DEF Own
    <3> QED
      BY <2>2, <3>3
  <2>3. CASE q # s /\ q \notin others
    <3>1. hand'[q] = hand[q] /\ hand[q].pc = "idle"
      BY <1>2, <2>3
    <3>2. hand[q] \in Hand /\ Own(q)
      BY Facts
    <3> QED
      BY <2>3, <3>1, <3>2 DEF Own, Solo
  <2> QED
    BY <2>1, <2>2, <2>3
<1>5. TablesOK' /\ UsageIsExact' /\ OrphanIsExplained'
  BY <1>1, TablesStay
<1>6. HandInv'
  <2>1. hand' \in [Workers -> Hand]
    BY <1>2, <1>4
  <2>2. \A q \in Workers : Route(hand[q])' /\ Loaded(hand[q])' /\ Listed(hand[q])' /\ Settled(hand[q])'
    BY <1>4 DEF Route, Loaded, Listed, Settled, Src, Within, Above
  <2> QED
    BY <2>1, <2>2 DEF HandInv
<1>7. Company'
  <2> SUFFICES ASSUME NEW a \in Workers, NEW b \in Workers, a # b,
                      hand'[a].pc # "idle", hand'[b].pc # "idle"
               PROVE  ~hand'[a].alone
    BY DEF Company
  <2>1. CASE a = s
    <3>1. b \in others
      BY <1>4, <2>1
    <3> QED
      BY <1>4, <2>1, <3>1
  <2>2. CASE a # s
    BY <1>4, <2>2
  <2> QED
    BY <2>1, <2>2
<1>8. SoloInv'
  <2>1. ASSUME NEW q \in Workers PROVE Landing(hand[q])' /\ Solo(hand[q])'
    <3> DEFINE g == hand'[q]
    <3>1. g \in Hand /\ Loaded(g) /\ Landing(g) /\ (g.alone => Clearing(g) /\ Emptied(g) /\ Priced(g))
      BY <1>4
    <3>2. /\ Landing(hand[q])'
          /\ Clearing(g) => Clearing(hand[q])'
          /\ Emptied(g) => Emptied(hand[q])'
          /\ Priced(g) => Priced(hand[q])'
      BY <1>1, <3>1, SameContents
    <3> QED
      BY <3>1, <3>2 DEF Solo
  <2> QED
    BY <2>1 DEF SoloInv
<1> QED
  BY <1>5, <1>6, <1>7, <1>8 DEF TreeInv

\* The first statement of a request.
LEMMA FirstIs ==
  ASSUME TreeInv, NEW j \in Jobs
  PROVE  LET h == First([Idle EXCEPT !.op = j.op, !.p = j.p, !.c = j.c, !.flag = j.flag]) IN
         /\ h \in Hand /\ Route(h) /\ Loaded(h) /\ Listed(h) /\ Settled(h)
         /\ Landing(h) /\ Clearing(h) /\ Emptied(h) /\ Priced(h)
<1> DEFINE i == [Idle EXCEPT !.op = j.op, !.p = j.p, !.c = j.c, !.flag = j.flag]
<1> DEFINE Fit(h) == /\ h \in Hand /\ Route(h) /\ Loaded(h) /\ Listed(h) /\ Settled(h)
                     /\ Landing(h) /\ Clearing(h) /\ Emptied(h) /\ Priced(h)
<1>1. j.op \in Ops /\ j.p \in Paths /\ j.c \in Contents \cup {Nothing} /\ j.flag \in BOOLEAN
  BY NodeTreeConstants
<1>2. i \in Hand
  BY <1>1, IdleIs DEF Hand
<1>3. i.op = j.op /\ i.p = j.p /\ i.gone = {} /\ \A q \in Paths : i.saw[q].c = Nothing
  BY IdleIs DEF Hand
<1> HIDE DEF i
<1>4. ASSUME NEW at \in {"auth", "probe", "doom", "purge", "walk"},
             at = "auth" => i.op = "put" /\ i.p \in Files,
             at \in {"probe", "doom"} => i.op = "delete",
             at = "purge" => i.op = "purge",
             at = "walk" => i.op \in Pipeline
      PROVE  Fit([i EXCEPT !.pc = at])
  <2> DEFINE h == [i EXCEPT !.pc = at]
  <2>1. h \in Hand
    BY <1>2 DEF Hand, Pcs
  <2>2. h.pc = at /\ h.op = i.op /\ h.p = i.p /\ h.gone = i.gone /\ h.saw = i.saw
    BY <1>2 DEF Hand
  <2> HIDE DEF h
  <2>3. Route(h) /\ Loaded(h)
    BY <1>3, <1>4, <2>2 DEF Route, Loaded
  <2>4. Listed(h) /\ Settled(h)
    BY <1>3, <2>2, Consts DEF Listed, Settled, Items
  <2>5. Landing(h) /\ Clearing(h) /\ Emptied(h) /\ Priced(h)
    BY <2>2 DEF Landing, Clearing, Emptied, Priced, Items
  <2> QED
    BY <2>1, <2>3, <2>4, <2>5 DEF h
<1>5. CASE i.op = "put" /\ i.p \in Files
  <2>1. First(i) = [i EXCEPT !.pc = "auth"]
    BY <1>5, Consts DEF First
  <2> QED
    BY <1>4, <1>5, <2>1 DEF i
<1>6. CASE i.op = "put" /\ i.p \notin Files
  <2> DEFINE h == ToDirs(i, i.p)
  <2>1. i.p \in Folders /\ i.p \in Paths
    BY <1>1, <1>3, <1>6 DEF Paths
  <2>2. First(i) = h
    BY <1>6, <2>1 DEF First
  <2>3. /\ h = [i EXCEPT !.dirs = Chain(Tgt(i), i.p), !.pc = h.pc]
        /\ h \in Hand /\ h.pc \in {"dirs", "land"}
        /\ h.pc = "dirs" => h.dirs # <<>>
        /\ h.pc = "land" => h.dirs = <<>>
        /\ ToSet(h.dirs) = Above(Tgt(i), i.p)
    BY <1>2, <2>1, ToDirsIs
  <2> HIDE DEF h
  <2>4. h.op = i.op /\ h.p = i.p /\ h.gone = i.gone
    BY <1>2, <2>3 DEF Hand
  <2>5. Route(h) /\ Loaded(h)
    BY <1>3, <1>6, <2>3, <2>4 DEF Route, Loaded
  <2>6. Listed(h) /\ Settled(h)
    BY <1>6, <2>3, <2>4 DEF Listed, Settled
  <2>7. Landing(h)
    BY <1>6, <2>3, <2>4 DEF Landing, Dest, Tgt
  <2>8. Clearing(h) /\ Emptied(h) /\ Priced(h)
    BY <1>6, <2>3, <2>4 DEF Clearing, Emptied, Priced
  <2> QED
    BY <2>2, <2>3, <2>5, <2>6, <2>7, <2>8 DEF i
<1>7. CASE i.op = "delete"
  <2>1. PICK at \in {"probe", "doom"} : First(i) = [i EXCEPT !.pc = at]
    BY <1>7 DEF First
  <2> QED
    BY <1>4, <1>7, <2>1 DEF i
<1>8. CASE i.op = "purge"
  <2>1. First(i) = [i EXCEPT !.pc = "purge"]
    BY <1>8 DEF First
  <2> QED
    BY <1>4, <1>8, <2>1 DEF i
<1>9. CASE i.op \in {"move", "copy", "restore"}
  <2>1. First(i) = [i EXCEPT !.pc = "walk"] /\ i.op \in Pipeline
    BY <1>9 DEF First, Pipeline
  <2> QED
    BY <1>4, <1>9, <2>1 DEF i
<1> QED
  BY <1>1, <1>3, <1>5, <1>6, <1>7, <1>8, <1>9 DEF Ops

LEMMA ArrivesKeeps ==
  ASSUME TreeInv, NEW s \in Clients, Arrives(s)
  PROVE  TreeInv'
<1>1. PICK j \in Jobs : Starts(s, First([Idle EXCEPT !.op = j.op, !.p = j.p, !.c = j.c, !.flag = j.flag]))
  BY DEF Arrives
<1> DEFINE h == First([Idle EXCEPT !.op = j.op, !.p = j.p, !.c = j.c, !.flag = j.flag])
<1>2. s \in Workers /\ hand[s].pc = "idle" /\ UNCHANGED tableVars
  BY DEF Arrives, Workers
<1>3. /\ h \in Hand /\ Route(h) /\ Loaded(h) /\ Listed(h) /\ Settled(h)
      /\ Landing(h) /\ Clearing(h) /\ Emptied(h) /\ Priced(h)
  BY FirstIs
<1>4. Starts(s, h)
  BY <1>1
<1> HIDE DEF h
<1> QED
  BY <1>2, <1>3, <1>4, StartKeeps

LEMMA RetentionStartsKeeps ==
  ASSUME TreeInv, RetentionStarts
  PROVE  TreeInv'
<1> DEFINE todo == Listing(Present(Can) \cap Files)
<1> DEFINE dirs == Listing(Present(Can) \cap Folders)
<1> DEFINE saw == Seen(Can, Files)
<1> DEFINE h == [Idle EXCEPT !.pc = "retain", !.saw = saw, !.todo = todo, !.dirs = dirs]
<1>1. Cron \in Workers /\ hand[Cron].pc = "idle" /\ UNCHANGED tableVars /\ Starts(Cron, h)
  BY DEF RetentionStarts, Workers
<1>2. saw \in [Paths -> Row]
  BY Consts, SeenIs DEF TreeInv
<1>3. todo \in Seq(Files) /\ dirs \in Seq(Folders)
  <2>1. Present(Can) \cap Files \in SUBSET Paths /\ Present(Can) \cap Folders \in SUBSET Paths
    BY DEF Present
  <2>2. todo \in Seq(Present(Can) \cap Files) /\ dirs \in Seq(Present(Can) \cap Folders)
    BY <2>1, ListingOf
  <2> HIDE DEF todo, dirs
  <2> QED
    BY <2>2
<1>4. todo \in Seq(Paths)
  BY <1>3, Consts
<1> HIDE DEF todo, dirs, saw
<1>5. h \in Hand
  BY <1>2, <1>3, <1>4, IdleIs DEF Hand, Pcs
<1>6. h.pc = "retain" /\ h.op = "put" /\ h.todo = todo /\ h.gone = {}
  BY IdleIs DEF Hand
<1> HIDE DEF h
<1>7. Route(h) /\ Loaded(h)
  BY <1>3, <1>6 DEF Route, Loaded
<1>8. Listed(h) /\ Settled(h)
  BY <1>6 DEF Listed, Settled
<1>9. Landing(h) /\ Clearing(h) /\ Emptied(h) /\ Priced(h)
  BY <1>6 DEF Landing, Clearing, Emptied, Priced
<1> QED
  BY <1>1, <1>5, <1>7, <1>8, <1>9, StartKeeps

LEMMA StatementFailsKeeps ==
  ASSUME TreeInv, NEW s \in Workers, StatementFails(s)
  PROVE  TreeInv'
<1> DEFINE h == hand[s]
<1>1. h.pc # "idle" /\ UNCHANGED tableVars /\ TableStep(s)
  BY UnchangedIsQuiet DEF StatementFails
<1>2. h \in Hand /\ Own(s)
  BY Facts
<1>3. CASE h.op # "put" /\ h.todo # <<>> /\ h.pc \in Items
  <2>1. Becomes(s, ItemError(h))
    BY <1>3 DEF StatementFails, Items
  <2>2. h.op \in Pipeline
    BY <1>2, <1>3, HandTypes DEF Own, Route, Items, Pipeline, Ops
  <2> QED
    BY <1>1, <1>3, <2>1, <2>2, ItemErrorKeeps
<1>4. CASE ~(h.op # "put" /\ h.todo # <<>> /\ h.pc \in Items) /\ h.pc = "retain" /\ h.todo # <<>>
  <2>1. \/ Becomes(s, [h EXCEPT !.pc = "expire"])
        \/ Becomes(s, [h EXCEPT !.todo = Tail(h.todo)])
    BY <1>4 DEF StatementFails, Items
  <2> QED
    BY <1>1, <1>4, <2>1, RetentionTakes
<1>5. CASE ~(h.op # "put" /\ h.todo # <<>> /\ h.pc \in Items) /\ ~(h.pc = "retain" /\ h.todo # <<>>)
  <2>1. Ends(s)
    BY <1>5 DEF StatementFails, Items
  <2> QED
    BY <1>1, <2>1, EndKeeps
<1> QED
  BY <1>3, <1>4, <1>5

LEMMA CrashKeeps ==
  ASSUME TreeInv, Crash
  PROVE  TreeInv'
<1>1. hand' = [s \in Workers |-> Idle] /\ UNCHANGED tableVars
  BY DEF Crash
<1>2. TableStep(Cron) /\ TablesOK' /\ UsageIsExact' /\ OrphanIsExplained'
  BY <1>1, UnchangedIsQuiet, TablesStay DEF Workers
<1>3. \A s \in Workers : hand'[s] = Idle /\ hand'[s].pc = "idle" /\ hand'[s].gone = {}
  BY <1>1, IdleIs
<1>4. hand' \in [Workers -> Hand]
  BY <1>1, IdleIs
<1>5. ASSUME NEW s \in Workers PROVE Own(s)'
  <2>1. Route(hand[s])' /\ Loaded(hand[s])' /\ Listed(hand[s])' /\ Settled(hand[s])'
    BY <1>3 DEF Route, Loaded, Listed, Settled, Items
  <2>2. Landing(hand[s])' /\ Solo(hand[s])'
    BY <1>3 DEF Landing, Solo, Clearing, Emptied, Priced, Items
  <2> QED
    BY <2>1, <2>2 DEF Own
<1>6. HandInv' /\ SoloInv'
  BY <1>4, <1>5 DEF HandInv, SoloInv, Own
<1>7. Company'
  BY <1>3 DEF Company
<1> QED
  BY <1>2, <1>6, <1>7 DEF TreeInv

LEMMA TimePassesKeeps ==
  ASSUME TreeInv, TimePasses
  PROVE  TreeInv'
<1>1. /\ rows' = [r \in Repos |-> [p \in Paths |-> Aged(rows[r][p])]]
      /\ usage' = usage /\ torn' = torn /\ hand' = hand
  BY DEF TimePasses
<1>2. ASSUME NEW row \in Row PROVE Aged(row) \in Row /\ Aged(row).c = row.c
  BY DEF Aged, Row, Marks
<1>3. \A r \in Repos : \A p \in Paths : rows[r][p] \in Row
  BY DEF TreeInv, TablesOK
<1>4. /\ rows' \in [Repos -> [Paths -> Row]]
      /\ \A r \in Repos : \A p \in Paths : rows'[r][p].c = rows[r][p].c
  BY <1>1, <1>2, <1>3
<1>5. TableStep(Cron) /\ Quiet
  BY <1>1, <1>4 DEF TableStep, Quiet
<1>6. TablesOK' /\ UsageIsExact' /\ OrphanIsExplained'
  BY <1>5, TablesStay
<1>7. HandInv' /\ Company'
  BY <1>1 DEF TreeInv, HandInv, Company, Route, Loaded, Listed, Settled, Src, Within, Above
<1>8. SoloInv'
  <2>1. ASSUME NEW s \in Workers PROVE Landing(hand[s])' /\ Solo(hand[s])'
    <3>1. hand[s] \in Hand /\ Own(s) /\ hand'[s] = hand[s]
      BY <1>1, Facts
    <3>2. /\ Landing(hand[s]) => Landing(hand[s])'
          /\ Clearing(hand[s]) => Clearing(hand[s])'
          /\ Emptied(hand[s]) => Emptied(hand[s])'
          /\ Priced(hand[s]) => Priced(hand[s])'
      BY <1>5, <3>1, SameContents DEF Own
    <3> QED
      BY <3>1, <3>2 DEF Own, Solo
  <2> QED
    BY <2>1 DEF SoloInv
<1> QED
  BY <1>6, <1>7, <1>8 DEF TreeInv

-----------------------------------------------------------------------------
(* The invariant. *)

LEMMA InitKeeps == Init => TreeInv
<1> SUFFICES ASSUME Init PROVE TreeInv
  OBVIOUS
<1>1. /\ hand = [s \in Workers |-> Idle] /\ torn = {} /\ usage = [r \in Repos |-> Sizes(rows[r])]
      /\ rows = [r \in Repos |-> [p \in Paths |->
                    IF r # Lib THEN NoRow
                    ELSE IF p \in Files THEN [NoRow EXCEPT !.c = Seed[p]]
                    ELSE IF \E f \in Files : Seed[f] # Nothing /\ p \in Over[f] THEN FolderRow
                    ELSE NoRow]]
  BY DEF Init
<1>2. ASSUME NEW f \in Files
      PROVE  [NoRow EXCEPT !.c = Seed[f]] \in Row /\ [NoRow EXCEPT !.c = Seed[f]].c = Seed[f]
  BY NodeTreeConstants DEF NoRow, Row, Marks
<1>3. rows \in [Repos -> [Paths -> Row]]
  <2>1. ASSUME NEW r \in Repos, NEW p \in Paths PROVE rows[r][p] \in Row
    BY <1>1, <1>2, RowTypes
  <2>2. ASSUME NEW r \in Repos PROVE rows[r] \in [Paths -> Row]
    BY <1>1, <2>1
  <2> QED
    BY <1>1, <2>2
<1>4. \A r \in Repos : \A d \in Folders : rows[r][d].c \notin Contents
  BY <1>1, RowTypes, Consts
<1>5. \A r \in Repos : usage[r] = Sizes(rows[r]) /\ Sizes(rows[r]) \in Nat
  <2>1. ASSUME NEW r \in Repos PROVE Sizes(rows[r]) \in Nat
    BY Consts, SizesMove
  <2> QED
    BY <1>1, <2>1
<1>6. TablesOK /\ UsageIsExact
  BY <1>1, <1>3, <1>4, <1>5 DEF TablesOK, UsageIsExact
<1>7. OrphanIsExplained
  <2> SUFFICES ASSUME NEW r \in Repos, NEW f \in Files, f \in Present(r), NEW d \in Above(r, f)
               PROVE  d \in Present(r)
    BY DEF OrphanIsExplained
  <2>1. f \in Paths /\ rows[r][f].c # Nothing
    BY DEF Present
  <2>2. r = Lib
    BY <1>1, <2>1, RowTypes
  <2>3. Seed[f] # Nothing
    BY <1>1, <1>2, <2>1, <2>2
  <2>4. d \in Over[f] /\ d \in Folders /\ d \in Paths /\ d \notin Files
    BY <2>1, <2>2, Consts, NodeTreeConstants DEF Above
  <2>5. rows[Lib][d] = FolderRow
    BY <1>1, <2>3, <2>4, Consts
  <2> QED
    BY <2>2, <2>4, <2>5, RowTypes, Consts DEF Present
<1>8. ASSUME NEW s \in Workers
      PROVE  hand[s] \in Hand /\ hand[s].pc = "idle" /\ hand[s].gone = {}
  BY <1>1, IdleIs
<1>9. HandInv
  <2>1. hand \in [Workers -> Hand]
    BY <1>1, IdleIs
  <2>2. ASSUME NEW s \in Workers
        PROVE  Route(hand[s]) /\ Loaded(hand[s]) /\ Listed(hand[s]) /\ Settled(hand[s])
    BY <1>8 DEF Route, Loaded, Listed, Settled, Items
  <2> QED
    BY <2>1, <2>2 DEF HandInv
<1>10. Company
  BY <1>8 DEF Company
<1>11. SoloInv
  BY <1>8 DEF SoloInv, Landing, Solo, Clearing, Emptied, Priced, Items
<1> QED
  BY <1>6, <1>7, <1>9, <1>10, <1>11 DEF TreeInv

LEMMA StepsKeeps ==
  ASSUME TreeInv, NEW s \in Clients, Steps(s)
  PROVE  TreeInv'
<1>1. \/ AuthorizeContentPut(s) \/ CheckQuota(s) \/ MaterializeAncestors(s) \/ PutNode(s)
      \/ CaptureProbe(s) \/ Walk(s) \/ ProcessItem(s) \/ CarryProps(s)
      => TreeInv'
  BY AuthorizeContentPutKeeps, CheckQuotaKeeps, MaterializeAncestorsKeeps, PutNodeKeeps,
     CaptureProbeKeeps, WalkKeeps, ProcessItemKeeps, CarryPropsKeeps
<1>2. \/ WriteFile(s) \/ WriteFolder(s) \/ ApplyProps(s) \/ DropSource(s)
      \/ WalkEnds(s) \/ FinishMove(s) \/ SweepProbe(s) \/ SweepDrop(s) \/ PipelineEnds(s)
      => TreeInv'
  BY WriteFileKeeps, WriteFolderKeeps, ApplyPropsKeeps, DropSourceKeeps, WalkEndsKeeps,
     FinishMoveKeeps, SweepProbeKeeps, SweepDropKeeps, PipelineEndsKeeps
<1>3. \/ ListMarks(s) \/ MarkCaptured(s) \/ StripMarks(s)
      \/ ListDoomed(s) \/ DropDoomed(s) \/ PruneProbe(s) \/ PruneDrop(s)
      \/ ListPurge(s) \/ Purge(s)
      => TreeInv'
  BY ListMarksKeeps, MarkCapturedKeeps, StripMarksKeeps, ListDoomedKeeps, DropDoomedKeeps,
     PruneProbeKeeps, PruneDropKeeps, ListPurgeKeeps, PurgeKeeps
<1> QED
  BY <1>1, <1>2, <1>3 DEF Steps

LEMMA NextKeeps == TreeInv /\ [Next]_vars => TreeInv'
<1> SUFFICES ASSUME TreeInv, [Next]_vars PROVE TreeInv'
  OBVIOUS
<1>1. ASSUME NEW s \in Clients, Arrives(s) \/ Steps(s) \/ RefuseItem(s) \/ BlindItem(s) \/ FolderPropsFail(s) PROVE TreeInv'
  BY <1>1, ArrivesKeeps, StepsKeeps, RefuseItemKeeps, BlindItemKeeps,
     FolderPropsFailKeeps
<1>2. ASSUME NEW s \in Workers, StatementFails(s) PROVE TreeInv'
  BY <1>2, StatementFailsKeeps
<1>3. CASE Retention
  BY <1>3, RetentionStartsKeeps, RetentionCheckKeeps, RetentionDropKeeps, RetentionProbeKeeps,
     RetentionUnfoldKeeps DEF Retention
<1>4. CASE Crash
  BY <1>4, CrashKeeps
<1>5. CASE TimePasses
  BY <1>5, TimePassesKeeps
<1>6. CASE UNCHANGED vars
  <2>1. rows' = rows /\ usage' = usage /\ torn' = torn /\ hand' = hand
    BY <1>6 DEF vars
  <2>2. HandInv' /\ Company'
    BY <2>1 DEF TreeInv, HandInv, Company, Route, Loaded, Listed, Settled, Src, Within, Above
  <2>3. TablesOK' /\ UsageIsExact' /\ OrphanIsExplained'
    BY <2>1 DEF TreeInv, TablesOK, UsageIsExact, OrphanIsExplained, Present
  <2>4. SoloInv'
    BY <2>1 DEF TreeInv, SoloInv, Landing, Solo, Clearing, Emptied, Priced, Bare, QuotaRefuses, Present
  <2> QED
    BY <2>2, <2>3, <2>4 DEF TreeInv
<1> QED
  BY <1>1, <1>2, <1>3, <1>4, <1>5, <1>6 DEF Next

\* What requests carry, and what the tables have to do with it while a request runs alone, hold
\* after every statement of every request of the repository service.
THEOREM TreeInvariant == Spec => []TreeInv
  BY InitKeeps, NextKeeps, PTL DEF Spec

-----------------------------------------------------------------------------
(* The bounded counters, and what a step does to the usage counter. *)

Counters == requests \in 0 .. MaxRequests /\ mishaps \in 0 .. MaxMishaps

LEMMA CountersKeep == Counters /\ [Next]_vars => Counters'
<1> SUFFICES ASSUME Counters, [Next]_vars PROVE Counters'
  OBVIOUS
<1> USE NodeTreeConstants
<1>1. ASSUME UNCHANGED bookVars PROVE Counters'
  BY <1>1 DEF Counters, bookVars
<1>2. ASSUME NEW s \in Clients, Arrives(s) PROVE Counters'
  BY <1>2 DEF Arrives, Counters
<1>3. ASSUME NEW s \in Clients, Steps(s) \/ RefuseItem(s) PROVE UNCHANGED bookVars
  BY <1>3 DEF Steps, RefuseItem, AuthorizeContentPut, CheckQuota, MaterializeAncestors, PutNode,
     CaptureProbe, Walk, ProcessItem, CarryProps, WriteFile, WriteFolder, ApplyProps, DropSource,
     WalkEnds, FinishMove, SweepProbe, SweepDrop, PipelineEnds, ListMarks, MarkCaptured, StripMarks,
     ListDoomed, DropDoomed, PruneProbe, PruneDrop, ListPurge, Purge, bookVars
<1>4. ASSUME NEW s \in Workers, StatementFails(s) \/ BlindItem(s) \/ FolderPropsFail(s) PROVE Counters'
  <2>1. mishaps < MaxMishaps /\ mishaps' = mishaps + 1 /\ requests' = requests
    BY <1>4 DEF StatementFails, BlindItem, FolderPropsFail
  <2> QED
    BY <2>1 DEF Counters
<1>5. ASSUME Retention PROVE UNCHANGED bookVars
  BY <1>5 DEF Retention, RetentionStarts, RetentionCheck, RetentionDrop, RetentionProbe,
     RetentionUnfold, bookVars
<1>6. ASSUME Crash PROVE Counters'
  BY <1>6 DEF Crash, Counters
<1>7. ASSUME TimePasses \/ UNCHANGED vars PROVE UNCHANGED bookVars
  BY <1>7 DEF TimePasses, vars, bookVars
<1> QED
  BY <1>1, <1>2, <1>3, <1>4, <1>5, <1>6, <1>7 DEF Next, Workers

\* Further past the quota only with an overlap.
Ceiling(r) == (Quota[r] > 0 /\ usage'[r] > usage[r] /\ usage'[r] > Quota[r])
              => \E s \in Clients : hand'[s] # hand[s] /\ ~hand[s].alone

LEMMA DropsLower ==
  ASSUME TreeInv, NEW r \in Repos, NEW p, DeleteNodeWithUsage(r, p)
  PROVE  \A t \in Repos : Ceiling(t)
<1>1. Weight(rows[r][p].c) \in Nat /\ usage \in [Repos -> Int]
  BY WeightIsNat DEF TreeInv, TablesOK
<1>2. usage' = [usage EXCEPT ![r] = usage[r] - Weight(rows[r][p].c)]
  BY DEF DeleteNodeWithUsage
<1>3. \A t \in Repos : ~(usage'[t] > usage[t])
  BY <1>1, <1>2
<1> QED
  BY <1>3 DEF Ceiling

LEMMA FilePutWithin ==
  ASSUME TreeInv, NEW s \in Clients, hand'[s] # hand[s], NEW r \in Repos, NEW p, NEW row,
         hand[s].alone => ~QuotaRefuses(r, row.c, Weight(rows[r][p].c)),
         PutNodeWithUsage(r, p, row)
  PROVE  \A t \in Repos : Ceiling(t)
<1> DEFINE had == Weight(rows[r][p].c)
<1> DEFINE new == Weight(row.c)
<1>1. had \in Nat /\ new \in Nat /\ usage \in [Repos -> Int] /\ Quota[r] \in Nat
  BY WeightIsNat, NodeTreeConstants DEF TreeInv, TablesOK
<1>2. usage' = [usage EXCEPT ![r] = usage[r] + new - had]
  BY DEF PutNodeWithUsage
<1>3. hand[s].alone => ~(Quota[r] > 0 /\ new > had /\ usage[r] + new - had > Quota[r])
  BY DEF QuotaRefuses
<1> HIDE DEF had, new
<1>4. CASE ~hand[s].alone
  BY <1>4 DEF Ceiling
<1>5. CASE hand[s].alone
  <2>1. ASSUME NEW t \in Repos PROVE ~(Quota[t] > 0 /\ usage'[t] > usage[t] /\ usage'[t] > Quota[t])
    BY <1>1, <1>2, <1>3, <1>5
  <2> QED
    BY <2>1 DEF Ceiling
<1> QED
  BY <1>4, <1>5

LEMMA PutNodeWithin ==
  ASSUME TreeInv, NEW s \in Clients, PutNode(s)
  PROVE  \A t \in Repos : Ceiling(t)
<1> DEFINE h == hand[s]
<1>1. s \in Workers /\ h.pc = "land" /\ h.op = "put" /\ Ends(s)
  BY DEF PutNode, Workers
<1>2. h \in Hand /\ Own(s) /\ hand \in [Workers -> Hand] /\ h.p \in Paths /\ usage \in [Repos -> Int]
  BY <1>1, Facts, HandTypes DEF TablesOK
<1>3. CASE h.p \in Folders
  <2>1. usage' = usage
    BY <1>3 DEF PutNode, PutFolderRow
  <2> QED
    BY <1>2, <2>1 DEF Ceiling
<1>4. CASE h.p \notin Folders
  <2> DEFINE row == [c |-> h.c, old |-> FALSE, mark |-> rows[Lib][h.p].mark]
  <2>1. h.p \in Files /\ Lib \in Repos
    BY <1>2, <1>4, Consts DEF Paths
  <2>2. PutNodeWithUsage(Lib, h.p, row) /\ row.c = h.c
    BY <1>4 DEF PutNode
  <2>3. h.alone => ~QuotaRefuses(Lib, h.c, Weight(rows[Lib][h.p].c))
    BY <1>1, <1>2, <2>1 DEF Own, Solo, Priced
  <2>4. hand'[s] = Idle
    BY <1>1, <1>2 DEF Ends, Becomes
  <2>5. hand'[s] # h
    BY <1>1, <2>4, IdleIs
  <2> HIDE DEF row
  <2> QED
    BY <2>1, <2>2, <2>3, <2>5, FilePutWithin
<1> QED
  BY <1>3, <1>4

LEMMA WriteFileWithin ==
  ASSUME TreeInv, NEW s \in Clients, WriteFile(s)
  PROVE  \A t \in Repos : Ceiling(t)
<1> DEFINE h == hand[s]
<1> DEFINE p == Head(h.todo)
<1> DEFINE g == [h EXCEPT !.copied = h.copied \cup {p}]
<1> DEFINE row == [c |-> h.saw[p].c, old |-> h.saw[p].old, mark |-> rows[Tgt(h)][p].mark]
<1>1. /\ s \in Workers /\ h.pc = "land" /\ h.op # "put" /\ p \in Files
      /\ PutNodeWithUsage(Tgt(h), p, row) /\ row.c = h.saw[p].c
      /\ hand' = [hand EXCEPT ![s] = IF h.props = "none" THEN Landed(g) ELSE [g EXCEPT !.pc = "merge"]]
  BY DEF WriteFile, Becomes, Workers
<1>2. h \in Hand /\ Own(s) /\ hand \in [Workers -> Hand] /\ Tgt(h) \in Repos
  BY <1>1, Facts
<1>3. h.alone => ~QuotaRefuses(Tgt(h), h.saw[p].c, Weight(rows[Tgt(h)][p].c))
  BY <1>1, <1>2 DEF Own, Solo, Priced
<1>4. hand'[s].pc \in {"merge", "drop", "item"}
  <2>1. hand'[s] = IF h.props = "none" THEN Landed(g) ELSE [g EXCEPT !.pc = "merge"]
    BY <1>1, <1>2
  <2>2. [g EXCEPT !.pc = "merge"].pc = "merge" /\ [g EXCEPT !.pc = "drop"].pc = "drop"
    BY <1>2 DEF Hand
  <2>3. NextItem(g).pc = "item"
    BY <1>2 DEF NextItem, Hand
  <2> HIDE DEF g
  <2> QED
    BY <2>1, <2>2, <2>3 DEF Landed
<1>5. hand'[s] # h
  BY <1>1, <1>4
<1> HIDE DEF row
<1> QED
  BY <1>1, <1>2, <1>3, <1>5, FilePutWithin

LEMMA NextWithin ==
  ASSUME TreeInv, [Next]_vars
  PROVE  \A r \in Repos : Ceiling(r)
<1>1. ASSUME usage' = usage PROVE \A r \in Repos : Ceiling(r)
  <2>1. usage \in [Repos -> Int]
    BY DEF TreeInv, TablesOK
  <2> QED
    BY <1>1, <2>1 DEF Ceiling
<1>2. ASSUME NEW s \in Clients, Arrives(s) \/ Steps(s) \/ RefuseItem(s) \/ BlindItem(s) \/ FolderPropsFail(s)
      PROVE  \/ usage' = usage \/ PutNode(s) \/ WriteFile(s)
             \/ \E r \in Repos : \E p : DeleteNodeWithUsage(r, p)
  <2>1. Src(hand[s]) \in Repos /\ Lib \in Repos /\ Can \in Repos
    BY Facts DEF Repos, Workers
  <2>2. CASE Arrives(s) \/ RefuseItem(s) \/ BlindItem(s) \/ FolderPropsFail(s)
    BY <2>2 DEF Arrives, RefuseItem, BlindItem, FolderPropsFail, PutFolderRow, tableVars
  <2>3. CASE \/ AuthorizeContentPut(s) \/ CheckQuota(s) \/ MaterializeAncestors(s) \/ CaptureProbe(s)
             \/ Walk(s) \/ ProcessItem(s) \/ CarryProps(s) \/ WriteFolder(s) \/ ApplyProps(s)
             \/ WalkEnds(s)
    BY <2>3 DEF AuthorizeContentPut, CheckQuota, MaterializeAncestors, CaptureProbe, Walk,
       ProcessItem, CarryProps, WriteFolder, ApplyProps, WalkEnds, PutFolderRow, tableVars
  <2>4. CASE \/ FinishMove(s) \/ SweepProbe(s) \/ SweepDrop(s) \/ PipelineEnds(s) \/ ListMarks(s)
             \/ MarkCaptured(s) \/ StripMarks(s) \/ ListDoomed(s) \/ PruneProbe(s) \/ PruneDrop(s)
             \/ ListPurge(s)
    BY <2>4 DEF FinishMove, SweepProbe, SweepDrop, PipelineEnds, ListMarks, MarkCaptured,
       StripMarks, ListDoomed, PruneProbe, PruneDrop, ListPurge, DropFolderRow, tableVars
  <2>5. CASE DropSource(s)
    BY <2>1, <2>5 DEF DropSource
  <2>6. CASE DropDoomed(s)
    BY <2>1, <2>6 DEF DropDoomed, DropFolderRow, tableVars
  <2>7. CASE Purge(s)
    BY <2>1, <2>7 DEF Purge, DropFolderRow, tableVars
  <2> QED
    BY <1>2, <2>2, <2>3, <2>4, <2>5, <2>6, <2>7 DEF Steps
<1>3. ASSUME NEW s \in Clients, Arrives(s) \/ Steps(s) \/ RefuseItem(s) \/ BlindItem(s) \/ FolderPropsFail(s)
      PROVE  \A r \in Repos : Ceiling(r)
  BY <1>1, <1>2, <1>3, PutNodeWithin, WriteFileWithin, DropsLower
<1>4. CASE Retention
  <2>1. usage' = usage \/ DeleteNodeWithUsage(Can, Head(hand[Cron].todo))
    BY <1>4 DEF Retention, RetentionStarts, RetentionCheck, RetentionDrop, RetentionProbe,
       RetentionUnfold, DropFolderRow, tableVars
  <2> QED
    BY <1>1, <2>1, Consts, DropsLower
<1>5. ASSUME NEW s \in Workers, StatementFails(s) PROVE usage' = usage
  BY <1>5 DEF StatementFails, tableVars
<1>6. ASSUME Crash \/ TimePasses \/ UNCHANGED vars PROVE usage' = usage
  BY <1>6 DEF Crash, TimePasses, vars, tableVars
<1> QED
  BY <1>1, <1>3, <1>4, <1>5, <1>6 DEF Next

-----------------------------------------------------------------------------
(* The theorems. *)

LEMMA HandsTyped ==
  ASSUME HandInv, NEW s \in Workers
  PROVE  LET h == hand[s] IN
         /\ h.pc \in Pcs /\ h.op \in Ops /\ h.p \in Paths
         /\ ToSet(h.todo) \subseteq Paths /\ ToSet(h.dirs) \subseteq Folders
         /\ h.kept \cup h.copied \subseteq Paths /\ h.made \cup h.gone \subseteq Folders
         /\ h.saw \in [Paths -> Row] /\ h.had \in Nat
         /\ h.pc = "dirs" => h.dirs # <<>>
         /\ h.pc \in {"props", "merge", "drop", "unmake", "expire"} => h.todo # <<>>
<1>1. hand[s] \in Hand /\ Loaded(hand[s])
  BY DEF HandInv
<1>2. hand[s].todo \in Seq(Paths) /\ hand[s].dirs \in Seq(Folders)
  BY <1>1, HandTypes
<1>3. ToSet(hand[s].todo) \subseteq Paths /\ ToSet(hand[s].dirs) \subseteq Folders
  BY <1>2, ToSetIs
<1> QED
  BY <1>1, <1>3, HandTypes DEF Loaded

\* The tables hold rows, the usage counter never goes below zero, and a statement always has the
\* row or the folder it is about in hand: no request runs off the end of what it listed.
THEOREM TypeCorrect == Spec => []TypeOK
<1>1. Init => Counters
  BY NodeTreeConstants DEF Init, Counters
<1>2. TreeInv /\ Counters => TypeOK
  <2> SUFFICES ASSUME TreeInv, Counters PROVE TypeOK
    OBVIOUS
  <2>1. ASSUME NEW r \in Repos PROVE usage[r] \in Nat
    <3>1. Sizes(rows[r]) \in Nat
      BY Consts, SizesMove
    <3> QED
      BY <3>1 DEF TreeInv, UsageIsExact
  <2>2. usage \in [Repos -> Nat]
    BY <2>1 DEF TreeInv, TablesOK
  <2>3. HandInv /\ rows \in [Repos -> [Paths -> Row]] /\ torn \subseteq Repos \X Folders
    BY DEF TreeInv, TablesOK
  <2> QED
    BY <2>2, <2>3, HandsTyped DEF TypeOK, Counters
<1> QED
  BY <1>1, <1>2, CountersKeep, TreeInvariant, PTL DEF Spec

\* PutNodeWithUsage and DeleteNodeWithUsage keep repo_usage the sum of the sizes of a repository's
\* files, whatever requests overlap, fail or are cut short by a crash.
THEOREM UsageExact == Spec => []UsageIsExact
<1>1. TreeInv => UsageIsExact
  BY DEF TreeInv
<1> QED
  BY <1>1, TreeInvariant, PTL

\* putNode writes the ancestors before the row; pruneEmptyParents, finishMove, sweepEmptyTargets,
\* trashPurge and the retention drop a folder row only with no file under it: a file that lacks
\* one of its folders lost it to an overlap or to a folder delete.
THEOREM OrphansExplained == Spec => []OrphanIsExplained
<1>1. TreeInv => OrphanIsExplained
  BY DEF TreeInv
<1> QED
  BY <1>1, TreeInvariant, PTL

\* checkQuota, before the write and against the row the walk or the authorization saw, is exact for
\* a request that runs alone: only an overlap takes a repository further past its quota.
THEOREM QuotaHolds == Spec => OnlyOverlapExceedsQuota
<1> DEFINE Step == \A r \in Repos :
              (Quota[r] > 0 /\ usage'[r] > usage[r] /\ usage'[r] > Quota[r])
              => \E s \in Clients : hand'[s] # hand[s] /\ ~hand[s].alone
<1>1. TreeInv /\ [Next]_vars => [Step]_vars
  BY NextWithin DEF Ceiling
<1>2. OnlyOverlapExceedsQuota <=> [][Step]_vars
  BY DEF OnlyOverlapExceedsQuota
<1> HIDE DEF Step
<1> QED
  BY <1>1, <1>2, TreeInvariant, PTL DEF Spec

\* transfer drops a source row, and a delete with the trash can on drops a listed row, only after
\* writeFile wrote it to the target.
THEOREM DroppedIsCopied == Spec => DropsOnlyCopied
<1> DEFINE Step == \A s \in Clients :
              LET h == hand[s]
                  p == Head(h.todo) IN
              ( /\ h.op \in {"move", "restore"} \/ (h.op = "delete" /\ h.flag)
                /\ h.pc \in {"drop", "row"} /\ h.todo # <<>> /\ hand'[s] # h
                /\ p \in Files \cap Present(Src(h)) /\ rows[Src(h)][p].c = h.saw[p].c
                /\ rows'[Src(h)][p].c = Nothing )
              => p \in h.copied
<1>1. TreeInv => Step
  <2> SUFFICES ASSUME TreeInv, NEW s \in Clients,
                      hand[s].pc \in {"drop", "row"},
                      Head(hand[s].todo) \in Files \cap Present(Src(hand[s])),
                      rows[Src(hand[s])][Head(hand[s].todo)].c = hand[s].saw[Head(hand[s].todo)].c
               PROVE  Head(hand[s].todo) \in hand[s].copied
    OBVIOUS
  <2>1. Own(s)
    BY Facts DEF Workers
  <2>2. hand[s].saw[Head(hand[s].todo)].c # Nothing
    BY DEF Present
  <2> QED
    BY <2>1, <2>2 DEF Own, Route, Settled
<1>2. DropsOnlyCopied <=> [][Step]_vars
  BY DEF DropsOnlyCopied
<1> HIDE DEF Step
<1> QED
  BY <1>1, <1>2, TreeInvariant, PTL DEF Spec
=============================================================================
